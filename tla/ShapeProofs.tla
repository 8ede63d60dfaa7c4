----------------------------- MODULE ShapeProofs -----------------------------
(***************************************************************************)
(* Proofs about fontsystem_shape.  First the itemizers and the loop: the   *)
(* runs tile the text, and what is said of a run is true of all of it.     *)
(* Then render_segment: what is kept from glyph to glyph, hence from group *)
(* to group and for a run, says where the glyphs are drawn, and which are. *)
(***************************************************************************)
EXTENDS Shape, ScanProofs, FiniteSetTheorems

(***************************************************************************)
(* Least elements                                                          *)
(***************************************************************************)

\* A set of positions has a first one, and a last one if it is bounded.
LEMMA MinIsLeast ==
    ASSUME NEW S \in SUBSET Nat, S # {}
    PROVE  Min(S) \in S /\ \A k \in S : Min(S) <= k
  <1>1. \E m \in S : \A k \in S : m <= k
    BY LeastNatural
  <1> QED BY <1>1 DEF Min

LEMMA MaxIsGreatest ==
    ASSUME NEW n \in Int, NEW S \in SUBSET Int, S # {}, \A k \in S : k <= n
    PROVE  Max(S) \in S /\ \A k \in S : k <= Max(S)
  <1> DEFINE T == {n - k : k \in S}
  <1>1. T \in SUBSET Nat /\ T # {}
    <2>1. ASSUME NEW k \in S PROVE n - k \in Nat
      <3>1. k \in Int /\ k <= n
        OBVIOUS
      <3> QED BY <3>1
    <2>2. PICK x \in S : TRUE
      OBVIOUS
    <2>3. n - x \in T
      OBVIOUS
    <2> QED BY <2>1, <2>3
  <1>2. PICK m \in T : \A t \in T : m <= t
    <2> HIDE DEF T
    <2> QED BY <1>1, LeastNatural
  <1>3. PICK x \in S : m = n - x
    OBVIOUS
  <1>4. ASSUME NEW k \in S PROVE x >= k
    <2>1. n - k \in T
      OBVIOUS
    <2>2. n - x <= n - k
      BY <1>2, <1>3, <2>1
    <2> QED BY <2>2
  <1>5. \E y \in S : \A k \in S : y >= k
    BY <1>4
  <1>6. Max(S) \in S /\ \A k \in S : Max(S) >= k
    BY <1>5 DEF Max
  <1> QED BY <1>6

(***************************************************************************)
(* Embeddings and scripts                                                  *)
(***************************************************************************)

\* A run of one direction, and of one script apart from codepoints without one.
UniformRun(r) ==
    \A q \in r.from .. r.to - 1 :
        /\ Level(q) = r.level
        /\ Script(q) \in {r.script, Common}

\* A run ends within its bounds, behind its first codepoint; up to there the
\* level is that of the first, or the script that of the first real one.
LEMMA EmbeddingsEnd ==
    ASSUME NEW from \in Nat, NEW to \in Nat, from < to
    PROVE  /\ ItemizeEmbeddings(from, to) \in from + 1 .. to
           /\ \A q \in from .. ItemizeEmbeddings(from, to) - 1 : Level(q) = Level(from)
  <1> DEFINE S == {to} \cup {q \in from .. to - 1 : Level(q) # Level(from)}
             end == Min(S)
  <1>1. S \in SUBSET Nat /\ S # {} /\ to \in S
    OBVIOUS
  <1>2. end \in S /\ \A k \in S : end <= k
    <2> HIDE DEF S
    <2> QED BY <1>1, MinIsLeast
  <1> HIDE DEF end
  <1>3. end \in from + 1 .. to
    BY <1>2
  <1>4. ASSUME NEW q \in from .. end - 1 PROVE Level(q) = Level(from)
    <2>1. q \in from .. to - 1 /\ ~ end <= q
      BY <1>3
    <2> QED BY <1>2, <2>1
  <1> QED BY <1>3, <1>4 DEF ItemizeEmbeddings, end

\* The first real script is the run's, and its first codepoint of another ends it.
LEMMA ScriptEnd ==
    ASSUME NEW from \in Nat, NEW to \in Nat, from < to
    PROVE  /\ ItemizeScript(from, to).end \in from + 1 .. to
           /\ \A q \in from .. ItemizeScript(from, to).end - 1 :
                 Script(q) \in {ItemizeScript(from, to).script, Common}
  <1> DEFINE real == {q \in from .. to - 1 : Script(q) # Common}
             own  == IF real = {} THEN Common ELSE Script(Min(real))
             S    == {to} \cup {q \in real : Script(q) # own}
             end  == Min(S)
  <1>1. ItemizeScript(from, to).end = end /\ ItemizeScript(from, to).script = own
    BY DEF ItemizeScript
  <1>2. real \in SUBSET Nat /\ S \in SUBSET Nat /\ S # {} /\ to \in S
    OBVIOUS
  <1>3. end \in S /\ \A k \in S : end <= k
    <2> HIDE DEF S
    <2> QED BY <1>2, MinIsLeast
  <1>4. real # {} => Min(real) \in real /\ (\A k \in real : Min(real) <= k) /\ own = Script(Min(real))
    <2> HIDE DEF real
    <2> QED BY <1>2, MinIsLeast
  <1> HIDE DEF end, own
  <1>5. end \in from + 1 .. to
    <2>1. CASE end = to
      BY <2>1
    <2>2. CASE end \in real /\ Script(end) # own
      <3>1. Min(real) \in real /\ Min(real) <= end /\ Min(real) # end
        BY <1>4, <2>2
      <3> QED BY <2>2, <3>1
    <2> QED BY <1>3, <2>1, <2>2
  <1>6. ASSUME NEW q \in from .. end - 1 PROVE Script(q) \in {own, Common}
    <2>1. q \in from .. to - 1 /\ ~ end <= q
      BY <1>5
    <2> QED BY <1>3, <2>1
  <1> QED BY <1>1, <1>5, <1>6

(***************************************************************************)
(* Emoji                                                                   *)
(***************************************************************************)

\* The calls of the scanner: each goes on where the one before it ended.
ScansFrom(scan, from, to) ==
    /\ scan[0] = Scan(categories, from, to)
    /\ \A k \in 1 .. to - from - 1 :
          scan[k] = IF scan[k - 1].out < to THEN Scan(categories, scan[k - 1].out, to)
                    ELSE scan[k - 1]
    /\ \A k \in 0 .. to - from - 1 : scan[k].out \in from + 1 .. to /\ scan[k].is_emoji \in BOOLEAN
    /\ DOMAIN scan = 0 .. to - from - 1

\* They are the scanner's calls, each within the bounds.
LEMMA ScansFound ==
    ASSUME NEW from \in Nat, NEW to \in Nat, from < to
    PROVE  ScansFrom(Scans(from, to), from, to)
  <1> DEFINE n == to - from - 1
             A == {Scan(categories, p, to) : p \in from .. to - 1}
             b == Scan(categories, from, to)
             Step(s) == IF s.out < to THEN Scan(categories, s.out, to) ELSE s
             F == [x \in (1 .. n) \X A |-> Step(x[2])]
             Rec(g) == g = [k \in 0 .. n |->
                             IF k = 0 THEN Scan(categories, from, to)
                             ELSE LET s == g[k - 1]
                                  IN  IF s.out < to THEN Scan(categories, s.out, to) ELSE s]
             scan == CHOOSE g : Rec(g)
  <1>1. n \in Nat /\ from \in from .. to - 1
    OBVIOUS
  <1>2. b \in A
    BY <1>1
  <1>3. ASSUME NEW s \in A PROVE s.out \in from + 1 .. to /\ s.is_emoji \in BOOLEAN
    <2>1. PICK p \in from .. to - 1 : s = Scan(categories, p, to)
      OBVIOUS
    <2>2. p \in Nat /\ p < to
      OBVIOUS
    <2>3. s.out \in p + 1 .. to /\ s.is_emoji \in BOOLEAN
      BY <2>1, <2>2, ScanAdvances
    <2> QED BY <2>2, <2>3
  <1>4. ASSUME NEW s \in A PROVE Step(s) \in A
    <2>1. s.out < to => s.out \in from .. to - 1
      BY <1>3
    <2> QED BY <2>1
  <1>5. \A k \in 1 .. n : \A s \in A : F[<<k, s>>] = Step(s)
    OBVIOUS
  <1>6. Closed(A, n, F)
    <2> HIDE DEF A, Step, F
    <2> QED BY <1>4, <1>5 DEF Closed
  <1>7. Scans(from, to) = scan
    BY DEF Scans
  <1> HIDE DEF A, F, n, b, Step
  <1>8. PICK g \in [0 .. n -> A] : Solves(g, b, n, F)
    BY <1>1, <1>2, <1>6, RecursionDefined
  <1>9. ASSUME NEW k \in 0 .. n PROVE g[k] = IF k = 0 THEN b ELSE Step(g[k - 1])
    <2>1. k # 0 => k - 1 \in 0 .. n /\ k \in 1 .. n
      BY <1>1
    <2> QED BY <1>5, <1>8, <2>1 DEF Solves
  <1>10. Rec(g)
    BY <1>8, <1>9 DEF Step, b
  <1>11. Rec(scan)
    <2> HIDE DEF Rec
    <2> QED BY <1>10
  <1> HIDE DEF scan
  <1>12. /\ DOMAIN scan = 0 .. n
         /\ \A k \in 0 .. n : scan[k] = IF k = 0 THEN b ELSE Step(scan[k - 1])
    BY <1>11 DEF Step, b
  <1>13. \A k \in 0 .. n : scan[k] \in A
    <2> DEFINE S == {k \in 0 .. n : scan[k] \in A}
    <2>1. 0 \in S
      BY <1>1, <1>2, <1>12
    <2>2. ASSUME NEW k \in 0 .. n - 1, k \in S PROVE k + 1 \in S
      <3>1. k + 1 \in 0 .. n /\ k + 1 # 0 /\ (k + 1) - 1 = k
        BY <1>1
      <3>2. scan[k + 1] = Step(scan[k])
        BY <1>12, <3>1
      <3>3. scan[k] \in A
        BY <2>2
      <3> QED BY <1>4, <3>1, <3>2, <3>3
    <2>3. 0 .. n \subseteq S
      <3> HIDE DEF S
      <3> QED BY <1>1, <2>1, <2>2, UpTo
    <2> QED BY <2>3
  <1>14. \A k \in 0 .. n : scan[k].out \in from + 1 .. to /\ scan[k].is_emoji \in BOOLEAN
    BY <1>3, <1>13
  <1>15. scan[0] = b
    BY <1>1, <1>12
  <1>16. ASSUME NEW k \in 1 .. n PROVE scan[k] = Step(scan[k - 1])
    BY <1>1, <1>12
  <1>17. ScansFrom(scan, from, to)
    BY <1>12, <1>14, <1>15, <1>16 DEF ScansFrom, Step, b, n
  <1> QED BY <1>7, <1>17

\* The run ends within its bounds, behind its first codepoint: the sequence of the
\* other kind comes after another, so one before its end is not before the start.
LEMMA EmojiEndFound ==
    ASSUME NEW from \in Nat, NEW to \in Nat, from < to
    PROVE  /\ ItemizeEmoji(from, to).end \in from + 1 .. to
           /\ ItemizeEmoji(from, to).is_emoji \in BOOLEAN
  <1> DEFINE scan == Scans(from, to)
             ends == Differing(scan)
             n    == to - from - 1
             end  == IF ends = {} THEN to ELSE scan[Min(ends)].out - 1
  <1>1. ItemizeEmoji(from, to) = [end |-> end, is_emoji |-> scan[0].is_emoji]
    BY Zenon DEF ItemizeEmoji, EmojiRun
  <1>2. ScansFrom(scan, from, to)
    BY ScansFound
  <1>3. ends = {k \in DOMAIN scan : scan[k].is_emoji # scan[0].is_emoji}
    BY Zenon DEF Differing
  <1>4. n \in Nat
    OBVIOUS
  <1> HIDE DEF scan, ends, n
  <1>5. end \in from + 1 .. to
    <2>1. CASE ends = {}
      BY <2>1
    <2>2. CASE ends # {}
      <3> DEFINE m == Min(ends)
      <3>1. ends \in SUBSET Nat
        BY <1>2, <1>3 DEF ScansFrom
      <3>2. m \in ends /\ \A k \in ends : m <= k
        BY <2>2, <3>1, MinIsLeast
      <3> HIDE DEF m
      <3>3. m \in 0 .. n /\ scan[m].is_emoji # scan[0].is_emoji
        BY <1>2, <1>3, <3>2 DEF ScansFrom, n
      <3>4. m # 0 /\ m \in 1 .. n /\ m - 1 \in 0 .. n /\ ~ m <= m - 1
        BY <1>4, <3>3
      <3>5. m - 1 \notin ends
        BY <3>2, <3>4
      <3>6. scan[m] # scan[m - 1]
        BY <1>2, <1>3, <3>3, <3>4, <3>5 DEF ScansFrom, n
      <3>7. scan[m] = IF scan[m - 1].out < to THEN Scan(categories, scan[m - 1].out, to)
                      ELSE scan[m - 1]
        BY <1>2, <3>4 DEF ScansFrom, n
      <3>8. scan[m - 1].out \in from + 1 .. to /\ scan[m].out \in from + 1 .. to
        BY <1>2, <3>3, <3>4 DEF ScansFrom, n
      <3>9. scan[m - 1].out \in Nat /\ scan[m - 1].out < to
        BY <3>6, <3>7, <3>8
      <3>10. scan[m].out \in scan[m - 1].out + 1 .. to
        <4>1. scan[m] = Scan(categories, scan[m - 1].out, to)
          BY <3>7, <3>9
        <4> QED BY <3>9, <4>1, ScanAdvances
      <3>11. scan[m].out - 1 \in from + 1 .. to
        BY <3>8, <3>9, <3>10
      <3> QED BY <2>2, <3>11 DEF m
    <2> QED BY <2>1, <2>2
  <1>6. scan[0].is_emoji \in BOOLEAN
    BY <1>2, <1>4 DEF ScansFrom, n
  <1> QED BY <1>1, <1>5, <1>6

\* All the emoji of the text are single codepoints.
Single == \A q \in 0 .. Len(text) - 1 : Scan(categories, q, Len(text)).out = q + 1

IsEmojiAlone(q) == Scan(categories, q, q + 1).is_emoji

\* Then each call finds the one it starts at, wherever the text ends for it.
LEMMA SingleScanned ==
    ASSUME Single, NEW q \in Nat, NEW to \in Nat, q < to, to <= Len(text), Len(text) \in Nat
    PROVE  /\ Scan(categories, q, to).out = q + 1
           /\ Scan(categories, q, to).is_emoji = IsEmojiAlone(q)
  <1>1. Scan(categories, q, Len(text)).out = q + 1
    BY DEF Single
  <1>2. Scan(categories, q, to).out \in q + 1 .. to
    BY ScanAdvances
  <1>3. Scan(categories, q, to).out <= Scan(categories, q, Len(text)).out
    BY ScanSeesLess
  <1>4. Scan(categories, q, to).out = q + 1
    BY <1>1, <1>2, <1>3
  <1>5. q + 1 \in Nat /\ q < q + 1 /\ q + 1 <= to
    OBVIOUS
  <1>6. Scan(categories, q, q + 1).out \in q + 1 .. q + 1
    BY <1>5, ScanAdvances
  <1>7. Scan(categories, q, q + 1).out = Scan(categories, q, to).out
    BY <1>4, <1>6
  <1>8. Scan(categories, q, q + 1).is_emoji = Scan(categories, q, to).is_emoji
    BY <1>5, <1>7, ScanSeesLess
  <1> QED BY <1>4, <1>8 DEF IsEmojiAlone

\* Up to the end of the run, all are of the kind of the first.
LEMMA SingleEmojiEnd ==
    ASSUME Single, NEW from \in Nat, NEW to \in Nat, from < to, to <= Len(text), Len(text) \in Nat
    PROVE  \A q \in from .. ItemizeEmoji(from, to).end - 1 :
               IsEmojiAlone(q) = ItemizeEmoji(from, to).is_emoji
  <1> DEFINE scan == Scans(from, to)
             ends == Differing(scan)
             n    == to - from - 1
             end  == IF ends = {} THEN to ELSE scan[Min(ends)].out - 1
  <1>1. ItemizeEmoji(from, to) = [end |-> end, is_emoji |-> scan[0].is_emoji]
    BY Zenon DEF ItemizeEmoji, EmojiRun
  <1>2. ScansFrom(scan, from, to)
    BY ScansFound
  <1>3. ends = {k \in DOMAIN scan : scan[k].is_emoji # scan[0].is_emoji}
    BY Zenon DEF Differing
  <1>4. n \in Nat /\ from + n = to - 1
    OBVIOUS
  <1> HIDE DEF scan, ends, n
  <1>5. \A k \in 0 .. n : scan[k].out = from + k + 1 /\ scan[k].is_emoji = IsEmojiAlone(from + k)
    <2> DEFINE S == {k \in 0 .. n : scan[k].out = from + k + 1
                                   /\ scan[k].is_emoji = IsEmojiAlone(from + k)}
    <2>1. 0 \in S
      BY <1>2, <1>4, SingleScanned DEF ScansFrom
    <2>2. ASSUME NEW k \in 0 .. n - 1, k \in S PROVE k + 1 \in S
      <3>1. k + 1 \in 1 .. n /\ k + 1 \in 0 .. n /\ (k + 1) - 1 = k /\ k \in 0 .. n
            /\ from + k + 1 \in Nat /\ from + k + 1 < to /\ from + (k + 1) = from + k + 1
        BY <1>4
      <3>2. scan[k].out = from + k + 1
        BY <2>2
      <3>3. scan[k + 1] = Scan(categories, from + k + 1, to)
        BY <1>2, <3>1, <3>2 DEF ScansFrom, n
      <3>4. scan[k + 1].out = from + k + 1 + 1 /\ scan[k + 1].is_emoji = IsEmojiAlone(from + k + 1)
        BY <3>1, <3>3, SingleScanned
      <3> QED BY <3>1, <3>4
    <2>3. 0 .. n \subseteq S
      <3> HIDE DEF S
      <3> QED BY <1>4, <2>1, <2>2, UpTo
    <2> QED BY <2>3
  <1>6. ASSUME NEW q \in from .. end - 1 PROVE IsEmojiAlone(q) = scan[0].is_emoji
    <2> DEFINE k == q - from
    <2>1. CASE ends = {}
      <3>1. k \in 0 .. n /\ from + k = q
        BY <1>4, <2>1
      <3>2. scan[k].is_emoji = scan[0].is_emoji
        BY <1>2, <1>3, <2>1, <3>1 DEF ScansFrom, n
      <3> QED BY <1>5, <3>1, <3>2
    <2>2. CASE ends # {}
      <3> DEFINE m == Min(ends)
      <3>1. ends \in SUBSET Nat
        BY <1>2, <1>3 DEF ScansFrom
      <3>2. m \in ends /\ \A j \in ends : m <= j
        BY <2>2, <3>1, MinIsLeast
      <3>3. end = scan[m].out - 1
        BY <2>2
      <3> HIDE DEF m, end
      <3>4. m \in 0 .. n
        BY <1>2, <1>3, <3>2 DEF ScansFrom, n
      <3>5. end = from + m
        BY <1>5, <3>3, <3>4
      <3>6. k \in 0 .. n /\ from + k = q /\ ~ m <= k
        BY <1>4, <3>4, <3>5
      <3>7. k \notin ends
        BY <3>2, <3>6
      <3>8. scan[k].is_emoji = scan[0].is_emoji
        BY <1>2, <1>3, <3>6, <3>7 DEF ScansFrom, n
      <3> QED BY <1>5, <3>6, <3>8
    <2> QED BY <2>1, <2>2
  <1> HIDE DEF end
  <1> QED BY <1>1, <1>6

(***************************************************************************)
(* The loop                                                                *)
(***************************************************************************)

Runs == [from : Nat, to : Nat, level : Levels, script : Scripts \cup {Common}, is_emoji : BOOLEAN]

Typed == text \in Seq(Codepoints) /\ runs \in Seq(Runs) /\ current \in Nat /\ Len(text) \in Nat

OneKindRun(r) == \A q \in r.from .. r.to - 1 : IsEmojiAlone(q) = r.is_emoji

\* What ShapeRun appends.
NewRun(run) ==
    /\ run \in Runs
    /\ run.from = current /\ run.to \in current + 1 .. Len(text)
    /\ UniformRun(run)
    /\ Single => OneKindRun(run)
    /\ runs' = Append(runs, run) /\ current' = run.to /\ text' = text

\* A step of the loop appends such a run.
LEMMA RunAppended ==
    ASSUME Typed, ShapeRun
    PROVE  \E run : NewRun(run)
  <1> DEFINE embedded == ItemizeEmbeddings(current, Len(text))
             script   == ItemizeScript(current, embedded)
             emoji    == ItemizeEmoji(current, script.end)
             run      == [from |-> current, to |-> emoji.end, level |-> Level(current),
                          script |-> script.script, is_emoji |-> emoji.is_emoji]
  <1>1. current \in Nat /\ Len(text) \in Nat /\ current < Len(text)
    BY DEF Typed, ShapeRun
  <1>2. embedded \in current + 1 .. Len(text)
        /\ \A q \in current .. embedded - 1 : Level(q) = Level(current)
    BY <1>1, EmbeddingsEnd
  <1>3. embedded \in Nat /\ current < embedded /\ embedded <= Len(text)
    BY <1>1, <1>2
  <1> HIDE DEF embedded
  <1>4. script.end \in current + 1 .. embedded
        /\ \A q \in current .. script.end - 1 : Script(q) \in {script.script, Common}
    BY <1>1, <1>3, ScriptEnd
  <1>5. script.end \in Nat /\ current < script.end /\ script.end <= Len(text)
    BY <1>1, <1>3, <1>4
  <1>6. script.script \in Scripts \cup {Common}
    <2>1. script.script = Common \/ \E q \in current .. embedded - 1 : script.script = Script(q)
      <3> DEFINE real == {q \in current .. embedded - 1 : Script(q) # Common}
      <3>1. script.script = IF real = {} THEN Common ELSE Script(Min(real))
        BY DEF ItemizeScript
      <3>2. real \in SUBSET Nat
        BY <1>1, <1>3
      <3>3. CASE real # {}
        <4>1. Min(real) \in real
          BY <3>2, <3>3, MinIsLeast
        <4> QED BY <3>1, <3>3, <4>1
      <3> QED BY <3>1, <3>3
    <2>2. ASSUME NEW q \in current .. embedded - 1 PROVE Script(q) \in Scripts \cup {Common}
      <3>1. q + 1 \in 1 .. Len(text)
        BY <1>1, <1>3
      <3>2. text[q + 1] \in Codepoints
        BY <3>1 DEF Typed
      <3> QED BY <3>2 DEF Script, Codepoints
    <2> QED BY <2>1, <2>2
  <1>7. Level(current) \in Levels
    <2>1. current + 1 \in 1 .. Len(text)
      BY <1>1
    <2>2. text[current + 1] \in Codepoints
      BY <2>1 DEF Typed
    <2> QED BY <2>2 DEF Level, Codepoints
  <1>8. runs' = Append(runs, run) /\ current' = emoji.end /\ text' = text
    BY Zenon DEF ShapeRun, embedded
  <1> HIDE DEF script
  <1>9. emoji.end \in current + 1 .. script.end /\ emoji.is_emoji \in BOOLEAN
    BY <1>1, <1>5, EmojiEndFound
  <1>10. Single => \A q \in current .. emoji.end - 1 : IsEmojiAlone(q) = emoji.is_emoji
    BY <1>1, <1>5, SingleEmojiEnd
  <1> HIDE DEF emoji
  <1>11. run \in Runs
    BY <1>1, <1>5, <1>6, <1>7, <1>9 DEF Runs
  <1>12. run.from = current /\ run.to = emoji.end /\ run.level = Level(current)
         /\ run.script = script.script /\ run.is_emoji = emoji.is_emoji
    OBVIOUS
  <1> HIDE DEF run
  <1>13. run.to \in current + 1 .. Len(text)
    BY <1>1, <1>5, <1>9, <1>12
  <1>14. UniformRun(run)
    <2> SUFFICES ASSUME NEW q \in run.from .. run.to - 1
                 PROVE  Level(q) = run.level /\ Script(q) \in {run.script, Common}
      BY DEF UniformRun
    <2>1. q \in current .. script.end - 1 /\ q \in current .. embedded - 1
      BY <1>1, <1>3, <1>4, <1>5, <1>9, <1>12
    <2> QED BY <1>2, <1>4, <1>12, <2>1
  <1>15. Single => OneKindRun(run)
    BY <1>10, <1>12 DEF OneKindRun
  <1>16. NewRun(run)
    BY <1>8, <1>11, <1>12, <1>13, <1>14, <1>15 DEF NewRun
  <1> QED BY <1>16

\* A text that was typed stays so, run by run.
TextTyped == Typed /\ RunsTile

\* The new run begins where the last one ended, and is not empty.
LEMMA TypedKept ==
    ASSUME TextTyped, [ShapeNext]_shapeVars
    PROVE  TextTyped'
  <1>1. CASE ShapeRun
    <2>1. PICK run : NewRun(run)
      BY <1>1, RunAppended DEF TextTyped
    <2> DEFINE n == Len(runs)
    <2>2. runs \in Seq(Runs) /\ run \in Runs /\ runs' = Append(runs, run) /\ n \in Nat
      BY <2>1 DEF NewRun, TextTyped, Typed
    <2>3. /\ runs' \in Seq(Runs) /\ Len(runs') = n + 1 /\ DOMAIN runs' = 1 .. n + 1
          /\ DOMAIN runs = 1 .. n /\ runs'[n + 1] = run /\ \A k \in 1 .. n : runs'[k] = runs[k]
      BY <2>2
    <2>4. runs = <<>> <=> n = 0
      BY <2>2
    <2>5. runs' # <<>>
      BY <2>2, <2>3
    <2> HIDE DEF n
    <2>6. /\ run.from = current /\ run.to \in current + 1 .. Len(text) /\ current' = run.to
          /\ text' = text /\ current \in Nat /\ Len(text) \in Nat
      BY <2>1 DEF NewRun, TextTyped, Typed
    <2>7. /\ \A k \in 1 .. n : /\ runs[k].from = (IF k = 1 THEN 0 ELSE runs[k - 1].to)
                               /\ runs[k].from < runs[k].to
          /\ current = (IF n = 0 THEN 0 ELSE runs[n].to)
      BY <2>3, <2>4 DEF TextTyped, RunsTile, n
    <2>8. ASSUME NEW k \in 1 .. n + 1
          PROVE  /\ runs'[k].from = (IF k = 1 THEN 0 ELSE runs'[k - 1].to)
                 /\ runs'[k].from < runs'[k].to
      <3>1. CASE k \in 1 .. n
        <4>1. k # 1 => k - 1 \in 1 .. n
          BY <2>2, <3>1
        <4> QED BY <2>3, <2>7, <3>1, <4>1
      <3>2. CASE k = n + 1
        <4>1. runs'[k] = run
          BY <2>3, <3>2
        <4>2. CASE n = 0
          BY <2>6, <2>7, <3>2, <4>1, <4>2
        <4>3. CASE n # 0
          <5>1. k # 1 /\ k - 1 = n /\ n \in 1 .. n
            BY <2>2, <3>2, <4>3
          <5>2. runs'[k - 1] = runs[n]
            BY <2>3, <5>1
          <5> QED BY <2>6, <2>7, <4>1, <4>3, <5>1, <5>2
        <4> QED BY <4>2, <4>3
      <3>3. k \in 1 .. n \/ k = n + 1
        BY <2>2
      <3> QED BY <3>1, <3>2, <3>3
    <2>9. current' = (IF runs' = <<>> THEN 0 ELSE runs'[Len(runs')].to) /\ current' <= Len(text')
      BY <2>3, <2>5, <2>6
    <2>10. RunsTile'
      BY <2>3, <2>8, <2>9 DEF RunsTile
    <2>11. Typed'
      BY <2>3, <2>6 DEF Typed, TextTyped
    <2> QED BY <2>10, <2>11 DEF TextTyped
  <1>2. CASE UNCHANGED shapeVars
    BY <1>2 DEF shapeVars, vars, TextTyped, Typed, RunsTile
  <1> QED BY <1>1, <1>2 DEF ShapeNext

\* So at all times.
LEMMA TypedAlways == ShapeSpec => []TextTyped
  <1>1. ShapeInit => TextTyped
    BY ItemizeAssumption DEF ShapeInit, Init, TextTyped, Typed, RunsTile
  <1> QED BY <1>1, TypedKept, PTL DEF ShapeSpec

\* The runs cover the text, in order, and none is empty.
THEOREM RunsTileText == ShapeSpec => []RunsTile
  <1>1. TextTyped => RunsTile
    BY DEF TextTyped
  <1> QED BY <1>1, TypedAlways, PTL

\* Each run is right when it is appended, and the text does not change.
LEMMA RunsTold == ShapeSpec => [](RunsUniform /\ RunsOfOneKind)
  <1> DEFINE I == /\ \A k \in DOMAIN runs : UniformRun(runs[k])
                  /\ Single => \A k \in DOMAIN runs : OneKindRun(runs[k])
  <1>1. ShapeInit => I
    BY DEF ShapeInit, Init
  <1>2. TextTyped /\ I /\ [ShapeNext]_shapeVars => I'
    <2> SUFFICES ASSUME TextTyped, I, [ShapeNext]_shapeVars PROVE I'
      OBVIOUS
    <2>1. CASE ShapeRun
      <3>1. PICK run : NewRun(run)
        BY <2>1, RunAppended DEF TextTyped
      <3> DEFINE n == Len(runs)
      <3>2. runs \in Seq(Runs) /\ run \in Runs /\ runs' = Append(runs, run) /\ n \in Nat /\ text' = text
        BY <3>1 DEF NewRun, TextTyped, Typed
      <3>3. /\ DOMAIN runs' = 1 .. n + 1
            /\ DOMAIN runs = 1 .. n /\ runs'[n + 1] = run /\ \A k \in 1 .. n : runs'[k] = runs[k]
        BY <3>2
      <3> HIDE DEF n
      <3>4. \A k \in 1 .. n + 1 : UniformRun(runs'[k])
        BY <3>1, <3>2, <3>3 DEF NewRun
      <3>5. Single => \A k \in 1 .. n + 1 : OneKindRun(runs'[k])
        BY <3>1, <3>2, <3>3 DEF NewRun
      <3>6. \A k \in DOMAIN runs' : (UniformRun(runs[k]))'
        BY <3>2, <3>3, <3>4 DEF UniformRun, Level, Script
      <3>7. Single' <=> Single
        BY <3>2 DEF Single, categories
      <3>8. Single => \A k \in DOMAIN runs' : (OneKindRun(runs[k]))'
        BY <3>2, <3>3, <3>5 DEF OneKindRun, IsEmojiAlone, categories
      <3> QED BY <3>6, <3>7, <3>8
    <2>2. CASE UNCHANGED shapeVars
      BY <2>2 DEF shapeVars, vars, UniformRun, Level, Script, Single, OneKindRun, IsEmojiAlone, categories
    <2> QED BY <2>1, <2>2 DEF ShapeNext
  <1>3. I => RunsUniform /\ RunsOfOneKind
    BY DEF RunsUniform, RunsOfOneKind, UniformRun, OneKindRun, Single, IsEmojiAlone
  <1> QED BY <1>1, <1>2, <1>3, TypedAlways, PTL DEF ShapeSpec

\* What the shaper is told of a run is true of all of it: its direction, and its
\* script.
THEOREM RunsAreUniform == ShapeSpec => []RunsUniform
  BY RunsTold, PTL

\* In a text whose emoji are single codepoints a run holds emoji only or none:
\* each call of the scanner then finds the same as one that sees a single
\* codepoint, and the run ends one before the first that differs.
THEOREM RunsAreOfOneKind == ShapeSpec => []RunsOfOneKind
  BY RunsTold, PTL

(***************************************************************************)
(* Drawing: one glyph                                                      *)
(***************************************************************************)

Glyphs == [of : Nat, cluster : Nat, notdef : BOOLEAN, advance : BOOLEAN]
Drawings == [glyph : Glyphs, slot : Int]
DrawState == [cluster : Int, advance : BOOLEAN, slot : Int, count : Nat, broken : BOOLEAN,
              drawn : Seq(Drawings)]

Skipped(s, p) ==
    /\ s.broken \/ s.count >= GlyphNum
    /\ p.cluster = s.cluster /\ p.advance = s.advance /\ p.slot = s.slot
    /\ p.count = s.count /\ p.drawn = s.drawn

DrawnAt(s, g, p) ==
    /\ p.drawn = Append(s.drawn, [glyph |-> g, slot |-> p.slot])
    /\ p.advance = g.advance /\ p.broken = FALSE
    /\ \/ /\ s.cluster # g.cluster /\ s.advance /\ s.count < GlyphNum
          /\ p.cluster = g.cluster /\ p.slot = s.count
          /\ p.count = s.count + 1 + Extra(g.cluster)
       \/ /\ s.cluster = g.cluster \/ ~s.advance
          /\ p.cluster = s.cluster /\ p.slot = s.slot
          /\ p.count = s.count + Extra(g.cluster)

\* What DrawGlyph makes of a state: nothing drawn, for lack of a place, or g drawn.
LEMMA GlyphDrawn ==
    ASSUME NEW s \in DrawState, NEW g \in Glyphs
    PROVE  DrawGlyph(s, g) \in DrawState /\ (Skipped(s, DrawGlyph(s, g)) \/ DrawnAt(s, g, DrawGlyph(s, g)))
  <1> DEFINE p == DrawGlyph(s, g)
  <1>0. GlyphNum \in Nat
    BY ShapeAssumption
  <1>1. /\ s.cluster \in Int /\ s.slot \in Int /\ s.count \in Nat /\ s.drawn \in Seq(Drawings)
        /\ s.advance \in BOOLEAN /\ s.broken \in BOOLEAN /\ g.cluster \in Nat /\ g.advance \in BOOLEAN
        /\ Extra(g.cluster) \in {0, 1}
    BY DEF DrawState, Glyphs, Extra
  <1>2. CASE s.broken \/ (s.cluster # g.cluster /\ s.advance /\ s.count >= GlyphNum)
    <2>1. p = [s EXCEPT !.broken = TRUE]
      BY <1>2 DEF DrawGlyph
    <2>2. p \in DrawState
      BY <2>1 DEF DrawState
    <2>3. Skipped(s, p)
      BY <1>2, <2>1 DEF Skipped, DrawState
    <2> QED BY <2>2, <2>3
  <1>3. CASE ~s.broken /\ s.cluster # g.cluster /\ s.advance /\ s.count < GlyphNum
    <2> DEFINE d == Append(s.drawn, [glyph |-> g, slot |-> s.count])
    <2>1. p = Placed(s, g, s.cluster # g.cluster /\ s.advance)
      BY <1>0, <1>1, <1>3 DEF DrawGlyph
    <2>2. p = [s EXCEPT !.cluster = g.cluster, !.slot = s.count,
                        !.count = (s.count + 1) + Extra(g.cluster), !.advance = g.advance, !.drawn = d]
      BY <1>3, <2>1 DEF Placed, Extra
    <2>3. [glyph |-> g, slot |-> s.count] \in Drawings
      BY <1>1 DEF Drawings
    <2>4. d \in Seq(Drawings)
      BY <1>1, <2>3
    <2> HIDE DEF d
    <2>5. /\ p.cluster = g.cluster /\ p.slot = s.count /\ p.count = s.count + 1 + Extra(g.cluster)
          /\ p.advance = g.advance /\ p.drawn = d /\ p.broken = s.broken
      BY <1>1, <2>2 DEF DrawState
    <2>6. p \in DrawState
      <3>1. s.count + 1 + Extra(g.cluster) \in Nat /\ g.cluster \in Int /\ s.count \in Int
        BY <1>1
      <3>2. p = [s EXCEPT !.cluster = p.cluster, !.slot = p.slot, !.count = p.count,
                          !.advance = p.advance, !.drawn = p.drawn]
        BY <2>2, <2>5
      <3> HIDE DEF p
      <3>3. p.cluster \in Int /\ p.slot \in Int /\ p.count \in Nat /\ p.advance \in BOOLEAN
            /\ p.drawn \in Seq(Drawings)
        BY <1>1, <2>4, <2>5, <3>1
      <3> QED BY <3>2, <3>3 DEF DrawState
    <2>7. DrawnAt(s, g, p)
      BY <1>1, <1>3, <2>5 DEF DrawnAt, d
    <2> QED BY <2>6, <2>7
  <1>4. CASE ~s.broken /\ (s.cluster = g.cluster \/ ~s.advance)
    <2> DEFINE d == Append(s.drawn, [glyph |-> g, slot |-> s.slot])
    <2>1. p = Placed(s, g, s.cluster # g.cluster /\ s.advance)
      BY <1>0, <1>1, <1>4 DEF DrawGlyph
    <2>2. p = [s EXCEPT !.cluster = s.cluster, !.slot = s.slot,
                        !.count = s.count + Extra(g.cluster), !.advance = g.advance, !.drawn = d]
      BY <1>4, <2>1 DEF Placed, Extra
    <2>3. [glyph |-> g, slot |-> s.slot] \in Drawings
      BY <1>1 DEF Drawings
    <2>4. d \in Seq(Drawings)
      BY <1>1, <2>3
    <2> HIDE DEF d
    <2>5. /\ p.cluster = s.cluster /\ p.slot = s.slot /\ p.count = s.count + Extra(g.cluster)
          /\ p.advance = g.advance /\ p.drawn = d /\ p.broken = s.broken
      BY <1>1, <2>2 DEF DrawState
    <2>6. p \in DrawState
      <3>1. s.count + Extra(g.cluster) \in Nat
        BY <1>1
      <3>2. p = [s EXCEPT !.cluster = p.cluster, !.slot = p.slot, !.count = p.count,
                          !.advance = p.advance, !.drawn = p.drawn]
        BY <2>2, <2>5
      <3> HIDE DEF p
      <3>3. p.cluster \in Int /\ p.slot \in Int /\ p.count \in Nat /\ p.advance \in BOOLEAN
            /\ p.drawn \in Seq(Drawings)
        BY <1>1, <2>4, <2>5, <3>1
      <3> QED BY <3>2, <3>3 DEF DrawState
    <2>7. DrawnAt(s, g, p)
      BY <1>1, <1>4, <2>5 DEF DrawnAt, d
    <2> QED BY <2>6, <2>7
  <1>5. s.count >= GlyphNum \/ s.count < GlyphNum
    BY <1>0, <1>1
  <1> QED BY <1>1, <1>2, <1>3, <1>4, <1>5

(***************************************************************************)
(* Drawing: the glyphs of a group, and the groups of a run                 *)
(***************************************************************************)

\* What is kept from glyph to glyph, I[k] after k of them, is true of a group.
LEMMA GroupDrawn ==
    ASSUME NEW st, NEW glyphs, Len(glyphs) \in Nat, NEW I,
           [st EXCEPT !.broken = FALSE] \in I[0],
           \A k \in 1 .. Len(glyphs) : \A s \in I[k - 1] : DrawGlyph(s, glyphs[k]) \in I[k]
    PROVE  DrawGroup(st, glyphs) \in I[Len(glyphs)]
  <1> DEFINE n == Len(glyphs)
             b == [st EXCEPT !.broken = FALSE]
             A == UNION {I[k] : k \in 0 .. n}
             Step(k, s) == IF s \in I[k - 1] THEN DrawGlyph(s, glyphs[k]) ELSE s
             F == [x \in (1 .. n) \X A |-> Step(x[1], x[2])]
             Rec(g) == g = [k \in 0 .. n |->
                             IF k = 0 THEN [st EXCEPT !.broken = FALSE]
                             ELSE DrawGlyph(g[k - 1], glyphs[k])]
             after == CHOOSE g : Rec(g)
  <1>1. n \in Nat /\ b \in I[0] /\ b \in A
    <2>1. n \in Nat /\ 0 \in 0 .. n
      OBVIOUS
    <2>2. b \in I[0]
      OBVIOUS
    <2> HIDE DEF b
    <2> QED BY <2>1, <2>2
  <1>2. \A k \in 1 .. n : \A s \in A : F[<<k, s>>] = Step(k, s)
    OBVIOUS
  <1>3. ASSUME NEW k \in 1 .. n, NEW s \in A PROVE Step(k, s) \in A
    <2>1. s \in I[k - 1] => DrawGlyph(s, glyphs[k]) \in I[k] /\ k \in 0 .. n
      OBVIOUS
    <2>2. s \in I[k - 1] => DrawGlyph(s, glyphs[k]) \in A
      BY <2>1
    <2> QED BY <2>2
  <1>4. Closed(A, n, F)
    <2> HIDE DEF A, Step, F
    <2> QED BY <1>2, <1>3 DEF Closed
  <1>5. DrawGroup(st, glyphs) = after[n]
    BY Zenon DEF DrawGroup
  <1>6. \A k \in 1 .. n : \A s \in I[k - 1] : DrawGlyph(s, glyphs[k]) \in I[k]
    OBVIOUS
  <1>7. \A k \in 0 .. n : I[k] \subseteq A
    OBVIOUS
  <1>8. \A k \in 1 .. n : \A s \in I[k - 1] : Step(k, s) = DrawGlyph(s, glyphs[k])
    OBVIOUS
  <1> HIDE DEF A, F, n, b, Step
  <1>9. PICK g \in [0 .. n -> A] : Solves(g, b, n, F)
    BY <1>1, <1>4, RecursionDefined
  <1>10. g[0] = b /\ \A k \in 1 .. n : g[k] = F[<<k, g[k - 1]>>]
    BY <1>1, <1>9 DEF Solves
  <1>11. \A k \in 0 .. n : g[k] \in I[k]
    <2> DEFINE S == {k \in 0 .. n : g[k] \in I[k]}
    <2>1. 0 \in S
      BY <1>1, <1>10
    <2>2. ASSUME NEW k \in 0 .. n - 1, k \in S PROVE k + 1 \in S
      <3>1. k + 1 \in 1 .. n /\ k + 1 \in 0 .. n /\ (k + 1) - 1 = k /\ k \in 0 .. n
        BY <1>1
      <3>2. g[k] \in I[k] /\ g[k] \in A
        BY <1>7, <2>2, <3>1
      <3>3. g[k + 1] = F[<<k + 1, g[k]>>]
        BY <1>10, <3>1
      <3>4. g[k + 1] = Step(k + 1, g[k])
        BY <1>2, <3>1, <3>2, <3>3
      <3>5. g[k + 1] = DrawGlyph(g[k], glyphs[k + 1])
        BY <1>8, <3>1, <3>2, <3>4
      <3>6. DrawGlyph(g[k], glyphs[k + 1]) \in I[k + 1]
        BY <1>6, <3>1, <3>2
      <3> QED BY <3>1, <3>5, <3>6
    <2>3. 0 .. n \subseteq S
      <3> HIDE DEF S
      <3> QED BY <1>1, <2>1, <2>2, UpTo
    <2> QED BY <2>3
  <1>12. \A k \in 1 .. n : g[k] = DrawGlyph(g[k - 1], glyphs[k])
    <2> SUFFICES ASSUME NEW k \in 1 .. n PROVE g[k] = DrawGlyph(g[k - 1], glyphs[k])
      OBVIOUS
    <2>1. k - 1 \in 0 .. n
      BY <1>1
    <2>2. g[k - 1] \in I[k - 1] /\ g[k - 1] \in A
      BY <1>7, <1>11, <2>1
    <2> QED BY <1>2, <1>8, <1>10, <2>2
  <1>13. Rec(g)
    <2>1. g = [k \in 0 .. n |-> g[k]]
      BY <1>9
    <2>2. \A k \in 0 .. n : g[k] = IF k = 0 THEN [st EXCEPT !.broken = FALSE]
                                   ELSE DrawGlyph(g[k - 1], glyphs[k])
      BY <1>1, <1>10, <1>12 DEF b
    <2> QED BY <2>1, <2>2 DEF n
  <1>14. Rec(after)
    <2> HIDE DEF Rec
    <2> QED BY <1>13
  <1> HIDE DEF after
  <1>15. after[0] = b /\ \A k \in 1 .. n : after[k] = DrawGlyph(after[k - 1], glyphs[k])
    <2>1. after = [k \in 0 .. n |-> IF k = 0 THEN b ELSE DrawGlyph(after[k - 1], glyphs[k])]
      BY Zenon, <1>14 DEF b, n
    <2>2. ASSUME NEW k \in 1 .. n PROVE k \in 0 .. n /\ k # 0
      BY <1>1
    <2>3. \A k \in 0 .. n : after[k] = IF k = 0 THEN b ELSE DrawGlyph(after[k - 1], glyphs[k])
      BY Zenon, <2>1
    <2>4. 0 \in 0 .. n
      BY <1>1
    <2> HIDE DEF Rec
    <2> QED BY Zenon, <2>2, <2>3, <2>4
  <1>16. \A k \in 0 .. n : after[k] \in I[k]
    <2> DEFINE S == {k \in 0 .. n : after[k] \in I[k]}
    <2>1. 0 \in S
      BY <1>1, <1>15
    <2>2. ASSUME NEW k \in 0 .. n - 1, k \in S PROVE k + 1 \in S
      <3>1. k + 1 \in 1 .. n /\ k + 1 \in 0 .. n /\ (k + 1) - 1 = k /\ k \in 0 .. n
        BY <1>1
      <3>2. after[k] \in I[k]
        BY <2>2
      <3>3. after[k + 1] = DrawGlyph(after[k], glyphs[k + 1])
        BY <1>15, <3>1
      <3>4. DrawGlyph(after[k], glyphs[k + 1]) \in I[k + 1]
        BY <1>6, <3>1, <3>2
      <3> QED BY <3>1, <3>3, <3>4
    <2>3. 0 .. n \subseteq S
      <3> HIDE DEF S
      <3> QED BY <1>1, <2>1, <2>2, UpTo
    <2> QED BY <2>3
  <1>17. n \in 0 .. n
    BY <1>1
  <1> QED BY <1>5, <1>16, <1>17 DEF n

\* What render_segment does at glyph k: draw the group, if one begins there.
Grouped(info, rtl, flat, k, s) ==
    IF k \in GroupStarts(info) THEN DrawGroup(s, GroupGlyphs(info, k, rtl, flat)) ELSE s

\* And what is kept from group to group, of the run.
LEMMA SegmentDrawn ==
    ASSUME NEW info, NEW rtl, NEW flat, Len(info) \in Nat, NEW I, Start \in I[0],
           \A k \in 1 .. Len(info) : \A s \in I[k - 1] : Grouped(info, rtl, flat, k, s) \in I[k]
    PROVE  render_segment(info, rtl, flat) \in I[Len(info)]
  <1> DEFINE n == Len(info)
             b == Start
             A == UNION {I[k] : k \in 0 .. n}
             Step(k, s) == IF s \in I[k - 1] THEN Grouped(info, rtl, flat, k, s) ELSE s
             F == [x \in (1 .. n) \X A |-> Step(x[1], x[2])]
             Rec(g) == g = [k \in 0 .. n |->
                             IF k = 0 THEN Start
                             ELSE IF k \in GroupStarts(info)
                                  THEN DrawGroup(g[k - 1], GroupGlyphs(info, k, rtl, flat))
                                  ELSE g[k - 1]]
             after == CHOOSE g : Rec(g)
  <1>1. n \in Nat /\ b \in I[0] /\ b \in A
    <2>1. n \in Nat /\ 0 \in 0 .. n
      OBVIOUS
    <2>2. b \in I[0]
      OBVIOUS
    <2> HIDE DEF b
    <2> QED BY <2>1, <2>2
  <1>2. \A k \in 1 .. n : \A s \in A : F[<<k, s>>] = Step(k, s)
    OBVIOUS
  <1>3. ASSUME NEW k \in 1 .. n, NEW s \in A PROVE Step(k, s) \in A
    <2>1. s \in I[k - 1] => Grouped(info, rtl, flat, k, s) \in I[k] /\ k \in 0 .. n
      OBVIOUS
    <2>2. s \in I[k - 1] => Grouped(info, rtl, flat, k, s) \in A
      BY <2>1
    <2> QED BY <2>2
  <1>4. Closed(A, n, F)
    <2> HIDE DEF A, Step, F
    <2> QED BY <1>2, <1>3 DEF Closed
  <1>5. render_segment(info, rtl, flat) = after[n]
    BY Zenon DEF render_segment
  <1>6. \A k \in 1 .. n : \A s \in I[k - 1] : Grouped(info, rtl, flat, k, s) \in I[k]
    OBVIOUS
  <1>7. \A k \in 0 .. n : I[k] \subseteq A
    OBVIOUS
  <1>8. \A k \in 1 .. n : \A s \in I[k - 1] : Step(k, s) = Grouped(info, rtl, flat, k, s)
    OBVIOUS
  <1> HIDE DEF A, F, n, b, Step
  <1>9. PICK g \in [0 .. n -> A] : Solves(g, b, n, F)
    BY <1>1, <1>4, RecursionDefined
  <1>10. g[0] = b /\ \A k \in 1 .. n : g[k] = F[<<k, g[k - 1]>>]
    BY <1>1, <1>9 DEF Solves
  <1>11. \A k \in 0 .. n : g[k] \in I[k]
    <2> DEFINE S == {k \in 0 .. n : g[k] \in I[k]}
    <2>1. 0 \in S
      BY <1>1, <1>10
    <2>2. ASSUME NEW k \in 0 .. n - 1, k \in S PROVE k + 1 \in S
      <3>1. k + 1 \in 1 .. n /\ k + 1 \in 0 .. n /\ (k + 1) - 1 = k /\ k \in 0 .. n
        BY <1>1
      <3>2. g[k] \in I[k] /\ g[k] \in A
        BY <1>7, <2>2, <3>1
      <3>3. g[k + 1] = F[<<k + 1, g[k]>>]
        BY <1>10, <3>1
      <3>4. g[k + 1] = Step(k + 1, g[k])
        BY <1>2, <3>1, <3>2, <3>3
      <3>5. g[k + 1] = Grouped(info, rtl, flat, k + 1, g[k])
        BY <1>8, <3>1, <3>2, <3>4
      <3>6. Grouped(info, rtl, flat, k + 1, g[k]) \in I[k + 1]
        BY <1>6, <3>1, <3>2
      <3> QED BY <3>1, <3>5, <3>6
    <2>3. 0 .. n \subseteq S
      <3> HIDE DEF S
      <3> QED BY <1>1, <2>1, <2>2, UpTo
    <2> QED BY <2>3
  <1>12. \A k \in 1 .. n : g[k] = Grouped(info, rtl, flat, k, g[k - 1])
    <2> SUFFICES ASSUME NEW k \in 1 .. n PROVE g[k] = Grouped(info, rtl, flat, k, g[k - 1])
      OBVIOUS
    <2>1. k - 1 \in 0 .. n
      BY <1>1
    <2>2. g[k - 1] \in I[k - 1] /\ g[k - 1] \in A
      BY <1>7, <1>11, <2>1
    <2> QED BY <1>2, <1>8, <1>10, <2>2
  <1>13. Rec(g)
    <2>1. g = [k \in 0 .. n |-> g[k]]
      BY <1>9
    <2>2. \A k \in 0 .. n : g[k] = IF k = 0 THEN Start
                                   ELSE Grouped(info, rtl, flat, k, g[k - 1])
      BY <1>1, <1>10, <1>12 DEF b
    <2> HIDE DEF b
    <2> QED BY <2>1, <2>2 DEF n, b, Grouped
  <1>14. Rec(after)
    <2> HIDE DEF Rec
    <2> QED BY <1>13
  <1> HIDE DEF after
  <1>15. after[0] = b /\ \A k \in 1 .. n : after[k] = Grouped(info, rtl, flat, k, after[k - 1])
    <2>1. after = [k \in 0 .. n |-> IF k = 0 THEN b ELSE Grouped(info, rtl, flat, k, after[k - 1])]
      BY Zenon, <1>14 DEF b, n, Grouped
    <2>2. ASSUME NEW k \in 1 .. n PROVE k \in 0 .. n /\ k # 0
      BY <1>1
    <2>3. \A k \in 0 .. n : after[k] = IF k = 0 THEN b ELSE Grouped(info, rtl, flat, k, after[k - 1])
      BY Zenon, <2>1
    <2>4. 0 \in 0 .. n
      BY <1>1
    <2> HIDE DEF Rec
    <2> QED BY Zenon, <2>2, <2>3, <2>4
  <1>16. \A k \in 0 .. n : after[k] \in I[k]
    <2> DEFINE S == {k \in 0 .. n : after[k] \in I[k]}
    <2>1. 0 \in S
      BY <1>1, <1>15
    <2>2. ASSUME NEW k \in 0 .. n - 1, k \in S PROVE k + 1 \in S
      <3>1. k + 1 \in 1 .. n /\ k + 1 \in 0 .. n /\ (k + 1) - 1 = k /\ k \in 0 .. n
        BY <1>1
      <3>2. after[k] \in I[k]
        BY <2>2
      <3>3. after[k + 1] = Grouped(info, rtl, flat, k + 1, after[k])
        BY <1>15, <3>1
      <3>4. Grouped(info, rtl, flat, k + 1, after[k]) \in I[k + 1]
        BY <1>6, <3>1, <3>2
      <3> QED BY <3>1, <3>3, <3>4
    <2>3. 0 .. n \subseteq S
      <3> HIDE DEF S
      <3> QED BY <1>1, <2>1, <2>2, UpTo
    <2> QED BY <2>3
  <1>17. n \in 0 .. n
    BY <1>1
  <1> QED BY <1>5, <1>16, <1>17 DEF n

(***************************************************************************)
(* What the shaper gives, in the order in which it is drawn                *)
(***************************************************************************)

\* A cluster begins at or before its codepoints, and none before the run.
LEMMA ClusterBounds ==
    ASSUME NEW from \in Nat, NEW q \in Nat, from <= q
    PROVE  /\ Cluster(q, from) \in from .. q
           /\ \A p \in Nat : q <= p => Cluster(q, from) <= Cluster(p, from)
  <1> DEFINE S(p) == {from} \cup {s \in from .. p : text[s + 1] \notin Marks}
  <1>1. ASSUME NEW p \in Nat, from <= p
        PROVE  Cluster(p, from) \in S(p) /\ \A k \in S(p) : k <= Cluster(p, from)
    <2>1. S(p) \in SUBSET Int /\ S(p) # {} /\ \A k \in S(p) : k <= p
      BY <1>1
    <2>2. p \in Int
      OBVIOUS
    <2>3. Cluster(p, from) = Max(S(p))
      BY DEF Cluster
    <2> HIDE DEF S
    <2>4. Max(S(p)) \in S(p) /\ \A k \in S(p) : k <= Max(S(p))
      BY <2>1, <2>2, MaxIsGreatest
    <2> QED BY <2>3, <2>4
  <1>2. ASSUME NEW p \in Nat, from <= p PROVE Cluster(p, from) \in from .. p
    <2>1. Cluster(p, from) \in S(p)
      BY <1>1, <1>2
    <2>2. S(p) \subseteq from .. p
      BY <1>2
    <2> QED BY <2>1, <2>2
  <1>3. ASSUME NEW p \in Nat, q <= p PROVE Cluster(q, from) <= Cluster(p, from)
    <2>1. from <= p
      BY <1>3
    <2>2. S(q) \subseteq S(p)
      BY <1>3
    <2>3. Cluster(q, from) \in S(q)
      BY <1>1
    <2>4. \A k \in S(p) : k <= Cluster(p, from)
      BY <1>1, <2>1
    <2> HIDE DEF S
    <2> QED BY <2>2, <2>3, <2>4
  <1> QED BY <1>2, <1>3

\* Drawn before: to the left in one direction, to the right in the other.
Before(rtl, a, b) == IF rtl THEN b <= a ELSE a <= b

\* Glyph k shows this codepoint.
At(from, to, rtl, k) == IF rtl THEN to - k ELSE from + k - 1

ShapedWell(g, from, to, rtl) ==
    /\ g \in Seq(Glyphs) /\ Len(g) = to - from
    /\ \A k \in 1 .. to - from :
          /\ g[k].of = At(from, to, rtl, k) /\ g[k].of \in from .. to - 1
          /\ g[k].cluster = Cluster(At(from, to, rtl, k), from)
          /\ g[k].cluster \in from .. to - 1
    /\ \A k, l \in 1 .. to - from : k <= l => Before(rtl, g[k].cluster, g[l].cluster)

\* What HarfBuzz gives is as it should be: the clusters never decrease in the
\* direction of the run.
LEMMA ShapedInOrder ==
    ASSUME NEW from \in Nat, NEW to \in Nat, from < to, NEW rtl \in BOOLEAN,
           NEW missing, NEW flat
    PROVE  ShapedWell(Shaped(from, to, rtl, missing, flat), from, to, rtl)
  <1> DEFINE g == Shaped(from, to, rtl, missing, flat)
             n == to - from
             q(k) == At(from, to, rtl, k)
  <1>1. n \in Nat /\ g = [k \in 1 .. n |-> [of |-> q(k), cluster |-> Cluster(q(k), from),
                            notdef |-> q(k) \in missing, advance |-> q(k) \notin flat]]
    BY DEF Shaped, At
  <1>2. ASSUME NEW k \in 1 .. n
        PROVE  q(k) \in Nat /\ q(k) \in from .. to - 1
    BY DEF At
  <1>3. ASSUME NEW k \in 1 .. n
        PROVE  Cluster(q(k), from) \in from .. q(k) /\ Cluster(q(k), from) \in from .. to - 1
               /\ Cluster(q(k), from) \in Nat
    <2>1. q(k) \in Nat /\ from <= q(k) /\ q(k) <= to - 1
      BY <1>2
    <2> HIDE DEF q
    <2>2. Cluster(q(k), from) \in from .. q(k)
      BY <2>1, ClusterBounds
    <2> QED BY <2>1, <2>2
  <1>4. ASSUME NEW k \in 1 .. n, NEW l \in 1 .. n, k <= l
        PROVE  Before(rtl, Cluster(q(k), from), Cluster(q(l), from))
    <2>1. q(k) \in Nat /\ q(l) \in Nat /\ from <= q(k) /\ from <= q(l)
      BY <1>2
    <2>2. CASE rtl
      <3>1. q(l) <= q(k)
        BY <1>4, <2>2 DEF At
      <3> HIDE DEF q
      <3> QED BY <2>1, <2>2, <3>1, ClusterBounds DEF Before
    <2>3. CASE ~rtl
      <3>1. q(k) <= q(l)
        BY <1>4, <2>3 DEF At
      <3> HIDE DEF q
      <3> QED BY <2>1, <2>3, <3>1, ClusterBounds DEF Before
    <2> QED BY <2>2, <2>3
  <1> HIDE DEF g, n, q
  <1>5. /\ DOMAIN g = 1 .. n
        /\ \A k \in 1 .. n : g[k] = [of |-> q(k), cluster |-> Cluster(q(k), from),
                            notdef |-> q(k) \in missing, advance |-> q(k) \notin flat]
    BY <1>1
  <1>6. ASSUME NEW k \in 1 .. n PROVE g[k] \in Glyphs
    <2> DEFINE a == q(k) \in missing
               b == q(k) \notin flat
               c == Cluster(q(k), from)
    <2>1. a \in BOOLEAN /\ b \in BOOLEAN
      OBVIOUS
    <2>2. g[k] = [of |-> q(k), cluster |-> c, notdef |-> a, advance |-> b]
      BY <1>5
    <2>3. q(k) \in Nat /\ c \in Nat
      BY <1>2, <1>3
    <2> HIDE DEF a, b, c
    <2> QED BY <2>1, <2>2, <2>3 DEF Glyphs
  <1>7. g \in Seq(Glyphs) /\ Len(g) = n
    BY <1>1, <1>5, <1>6
  <1>8. \A k \in 1 .. n : g[k].of = q(k) /\ g[k].cluster = Cluster(q(k), from)
    BY <1>5
  <1> QED BY <1>2, <1>3, <1>4, <1>7, <1>8 DEF ShapedWell, g, n, q

\* Where a group ends: before the next one, or with the run.
GroupEnd(info, first) ==
    Max({k \in first .. Len(info) : \A j \in first .. k : info[j].notdef = info[first].notdef})

\* The group holds no other start, and the next one starts behind it.
LEMMA GroupEnds ==
    ASSUME NEW info \in Seq(Glyphs), NEW first \in 1 .. Len(info)
    PROVE  /\ GroupEnd(info, first) \in first .. Len(info)
           /\ \A j \in first + 1 .. GroupEnd(info, first) : j \notin GroupStarts(info)
           /\ GroupEnd(info, first) # Len(info) => GroupEnd(info, first) + 1 \in GroupStarts(info)
  <1> DEFINE n == Len(info)
             S == {k \in first .. n : \A j \in first .. k : info[j].notdef = info[first].notdef}
             last == Max(S)
  <1>1. n \in Nat /\ first \in 1 .. n /\ DOMAIN info = 1 .. n
    OBVIOUS
  <1> HIDE DEF n
  <1>2. S \in SUBSET Int /\ first \in S /\ (\A k \in S : k <= n) /\ n \in Int
    BY <1>1
  <1>3. last \in S /\ \A k \in S : k <= last
    <2> HIDE DEF S
    <2> QED BY <1>2, MaxIsGreatest
  <1> HIDE DEF last
  <1>4. last \in first .. n /\ \A j \in first .. last : info[j].notdef = info[first].notdef
    BY <1>3
  <1>5. ASSUME NEW j \in first + 1 .. last PROVE j \notin GroupStarts(info)
    <2>1. j \in first .. last /\ j - 1 \in first .. last /\ j # 1
      BY <1>1, <1>4
    <2>2. info[j].notdef = info[j - 1].notdef
      BY <1>4, <2>1
    <2> QED BY <2>1, <2>2 DEF GroupStarts
  <1>6. ASSUME last # n PROVE last + 1 \in GroupStarts(info)
    <2>1. last + 1 \in first .. n /\ ~ last + 1 <= last /\ last \in first .. last
          /\ last + 1 \in 1 .. n /\ (last + 1) - 1 = last
      BY <1>1, <1>4, <1>6
    <2>2. last + 1 \notin S
      BY <1>3, <2>1
    <2>3. PICK j \in first .. last + 1 : info[j].notdef # info[first].notdef
      BY <2>1, <2>2
    <2>4. j \in first .. last \/ j = last + 1
      BY <1>1, <1>4
    <2>5. j = last + 1
      BY <1>4, <2>3, <2>4
    <2>6. info[last].notdef = info[first].notdef
      BY <1>4, <2>1
    <2>7. info[last + 1].notdef # info[(last + 1) - 1].notdef
      BY <2>1, <2>3, <2>5, <2>6
    <2> QED BY <1>1, <2>1, <2>7 DEF GroupStarts
  <1>7. GroupEnd(info, first) = last
    BY DEF GroupEnd, n, last
  <1> QED BY <1>4, <1>5, <1>6, <1>7 DEF n

\* The glyphs of a group are drawn in order, between its first cluster and its
\* last; and they show the same codepoints as before if there are no longer clusters.
GroupWell(info, glyphs, first, last, rtl) ==
    /\ glyphs \in Seq(Glyphs)
    /\ \A k, l \in DOMAIN glyphs : k <= l => Before(rtl, glyphs[k].cluster, glyphs[l].cluster)
    /\ \A k \in DOMAIN glyphs : /\ Before(rtl, info[first].cluster, glyphs[k].cluster)
                                /\ Before(rtl, glyphs[k].cluster, info[last].cluster)
    /\ (\A k \in 1 .. Len(info) : info[k].cluster = info[k].of)
       => /\ Len(glyphs) = last - first + 1
          /\ \A k \in 1 .. last - first + 1 : glyphs[k].of = info[first + k - 1].of

\* A group is drawn as it is, or shaped again from the first cluster to the last.
LEMMA GroupInOrder ==
    ASSUME NEW from \in Nat, NEW to \in Nat, from < to, NEW rtl \in BOOLEAN, NEW flat,
           NEW info, ShapedWell(info, from, to, rtl), NEW first \in 1 .. to - from
    PROVE  GroupWell(info, GroupGlyphs(info, first, rtl, flat), first, GroupEnd(info, first), rtl)
  <1> DEFINE n == to - from
             last == GroupEnd(info, first)
             again == FallbackRange(info, first, last, rtl)
             lo == again.from
             hi == again.to
             glyphs == GroupGlyphs(info, first, rtl, flat)
             a == info[first].cluster
             b == info[last].cluster
  <1>1. n \in Nat /\ info \in Seq(Glyphs) /\ Len(info) = n /\ first \in 1 .. n /\ DOMAIN info = 1 .. n
    BY DEF ShapedWell
  <1>2. last \in first .. n
    BY <1>1, GroupEnds
  <1>3. last \in Nat /\ first \in Nat /\ first <= last /\ last <= n /\ last \in 1 .. n /\ 1 <= first
    BY <1>1, <1>2
  <1>4. /\ \A k \in 1 .. n : info[k] \in Glyphs /\ info[k].cluster \in Nat /\ info[k].of \in Nat
                             /\ info[k].of = At(from, to, rtl, k)
        /\ \A k, l \in 1 .. n : k <= l => Before(rtl, info[k].cluster, info[l].cluster)
    <2>1. \A k \in 1 .. n : info[k] \in Glyphs
      BY <1>1
    <2>2. \A k \in 1 .. n : info[k].of = At(from, to, rtl, k)
      BY DEF ShapedWell
    <2>3. \A k, l \in 1 .. n : k <= l => Before(rtl, info[k].cluster, info[l].cluster)
      BY DEF ShapedWell
    <2>4. \A k \in 1 .. n : info[k].cluster \in Nat /\ info[k].of \in Nat
      BY <2>1 DEF Glyphs
    <2> QED BY <2>1, <2>2, <2>3, <2>4
  <1>5. a \in Nat /\ b \in Nat /\ Before(rtl, a, b)
    BY <1>1, <1>3, <1>4
  <1>6. glyphs = IF info[first].notdef THEN Shaped(lo, hi, rtl, {}, flat)
                 ELSE SubSeq(info, first, last)
    BY Zenon DEF GroupGlyphs, GroupEnd
  <1>7. CASE info[first].notdef
    <2>1. (rtl => lo = b /\ hi = a + 1) /\ (~rtl => lo = a /\ hi = b + 1)
      BY DEF FallbackRange
    <2> HIDE DEF lo, hi, a, b, glyphs, last
    <2>2. lo \in Nat /\ hi \in Nat /\ lo < hi
      BY <1>5, <2>1 DEF Before
    <2>3. glyphs = Shaped(lo, hi, rtl, {}, flat)
      BY <1>6, <1>7
    <2>4. ShapedWell(glyphs, lo, hi, rtl)
      BY <2>2, <2>3, ShapedInOrder
    <2>5. glyphs \in Seq(Glyphs) /\ Len(glyphs) = hi - lo /\ DOMAIN glyphs = 1 .. hi - lo
      BY <2>2, <2>4 DEF ShapedWell
    <2>6. \A k, l \in DOMAIN glyphs : k <= l => Before(rtl, glyphs[k].cluster, glyphs[l].cluster)
      BY <2>4, <2>5 DEF ShapedWell
    <2>7. ASSUME NEW k \in DOMAIN glyphs
          PROVE  Before(rtl, a, glyphs[k].cluster) /\ Before(rtl, glyphs[k].cluster, b)
      <3>1. glyphs[k].cluster \in lo .. hi - 1
        BY <2>4, <2>5 DEF ShapedWell
      <3> QED BY <1>5, <2>1, <2>2, <3>1 DEF Before
    <2>8. ASSUME \A k \in 1 .. n : info[k].cluster = info[k].of
          PROVE  /\ Len(glyphs) = last - first + 1
                 /\ \A k \in 1 .. last - first + 1 : glyphs[k].of = info[first + k - 1].of
      <3>1. a = At(from, to, rtl, first) /\ b = At(from, to, rtl, last)
        BY <1>1, <1>3, <1>4, <2>8 DEF a, b
      <3>2. hi - lo = last - first + 1
        BY <1>3, <2>1, <3>1 DEF At
      <3>3. ASSUME NEW k \in 1 .. last - first + 1 PROVE glyphs[k].of = info[first + k - 1].of
        <4>1. first + k - 1 \in 1 .. n /\ k \in 1 .. hi - lo
          BY <1>1, <1>3, <3>2
        <4>2. glyphs[k].of = At(lo, hi, rtl, k)
          BY <2>4, <4>1 DEF ShapedWell
        <4>3. info[first + k - 1].of = At(from, to, rtl, first + k - 1)
          BY <1>4, <4>1
        <4>4. At(lo, hi, rtl, k) = At(from, to, rtl, first + k - 1)
          BY <1>3, <2>1, <3>1 DEF At
        <4> QED BY <4>2, <4>3, <4>4
      <3> QED BY <2>5, <3>2, <3>3
    <2> QED BY <1>1, <2>5, <2>6, <2>7, <2>8 DEF GroupWell, a, b, glyphs, last
  <1>8. CASE ~info[first].notdef
    <2> DEFINE m == last - first + 1
    <2>1. glyphs = SubSeq(info, first, last)
      BY <1>6, <1>8
    <2> HIDE DEF lo, hi, glyphs, last
    <2>2. glyphs \in Seq(Glyphs) /\ Len(glyphs) = m /\ DOMAIN glyphs = 1 .. m
      BY <1>1, <1>3, <2>1
    <2>3. ASSUME NEW k \in 1 .. m
          PROVE  glyphs[k] = info[first + k - 1] /\ first + k - 1 \in 1 .. n
                 /\ first <= first + k - 1 /\ first + k - 1 <= last
      BY <1>1, <1>3, <2>1
    <2>4. ASSUME NEW k \in 1 .. m, NEW l \in 1 .. m, k <= l
          PROVE  Before(rtl, glyphs[k].cluster, glyphs[l].cluster)
      <3>1. first + k - 1 <= first + l - 1
        BY <1>3, <2>4
      <3> QED BY <1>4, <2>3, <3>1
    <2>5. ASSUME NEW k \in 1 .. m
          PROVE  Before(rtl, a, glyphs[k].cluster) /\ Before(rtl, glyphs[k].cluster, b)
      BY <1>1, <1>3, <1>4, <2>3
    <2> HIDE DEF m
    <2>6. \A k, l \in DOMAIN glyphs : k <= l => Before(rtl, glyphs[k].cluster, glyphs[l].cluster)
      BY <2>2, <2>4
    <2>7. \A k \in DOMAIN glyphs : Before(rtl, a, glyphs[k].cluster) /\ Before(rtl, glyphs[k].cluster, b)
      BY <2>2, <2>5
    <2>8. \A k \in 1 .. m : glyphs[k].of = info[first + k - 1].of
      BY <2>3
    <2> QED BY <2>2, <2>6, <2>7, <2>8 DEF GroupWell, glyphs, last, m
  <1> QED BY <1>7, <1>8

(***************************************************************************)
(* Drawing: where it is drawn                                              *)
(***************************************************************************)

\* A place in the buffer that has been counted, with the `extra' places behind it.
Taken(slot, extra, count) == slot \in 0 .. GlyphNum - 1 /\ slot + extra < count

\* The slot is a place taken, or nothing is drawn yet and the first glyph takes one.
Kept(s) ==
    /\ s \in DrawState
    /\ Taken(s.slot, 0, s.count) \/ (s.cluster = -1 /\ s.advance)
    /\ \A k \in DOMAIN s.drawn :
         Taken(s.drawn[k].slot, Extra(s.drawn[k].glyph.cluster), s.count)

\* A glyph takes a place in the buffer, or one that was taken.
LEMMA GlyphKept ==
    ASSUME NEW s, Kept(s), NEW g \in Glyphs
    PROVE  Kept(DrawGlyph(s, g))
  <1> DEFINE p == DrawGlyph(s, g)
             m == Len(s.drawn)
  <1>1. s \in DrawState
    BY DEF Kept
  <1>2. p \in DrawState /\ (Skipped(s, p) \/ DrawnAt(s, g, p))
    BY <1>1, GlyphDrawn
  <1>3. /\ s.cluster \in Int /\ s.slot \in Int /\ s.count \in Nat /\ s.drawn \in Seq(Drawings)
        /\ p.slot \in Int /\ g \in Glyphs /\ g.cluster \in Nat /\ GlyphNum \in Nat
    BY <1>1, <1>2, ShapeAssumption DEF DrawState, Glyphs
  <1>4. m \in Nat /\ DOMAIN s.drawn = 1 .. m
    BY <1>3
  <1> HIDE DEF p
  <1>5. CASE Skipped(s, p)
    <2>1. Kept(p)
      BY <1>2, <1>5 DEF Skipped, Kept
    <2> QED BY <2>1 DEF p
  <1>6. CASE DrawnAt(s, g, p)
    <2>1. /\ Taken(p.slot, Extra(g.cluster), p.count) /\ Taken(p.slot, 0, p.count)
          /\ s.count <= p.count /\ p.count \in Nat
      <3>1. Extra(g.cluster) \in {0, 1}
        BY DEF Extra
      <3>2. p.count \in Nat
        BY <1>2 DEF DrawState
      <3>3. CASE s.cluster # g.cluster /\ s.advance
        <4>1. s.count < GlyphNum /\ p.slot = s.count /\ p.count = s.count + 1 + Extra(g.cluster)
          BY <1>6, <3>3 DEF DrawnAt
        <4> QED BY <1>3, <3>1, <3>2, <4>1 DEF Taken
      <3>4. CASE s.cluster = g.cluster \/ ~s.advance
        <4>1. p.slot = s.slot /\ p.count = s.count + Extra(g.cluster)
          BY <1>6, <3>4 DEF DrawnAt
        <4>2. Taken(s.slot, 0, s.count)
          BY <1>3, <3>4 DEF Kept
        <4> QED BY <1>3, <3>1, <3>2, <4>1, <4>2 DEF Taken
      <3> QED BY <3>3, <3>4
    <2> DEFINE e == [glyph |-> g, slot |-> p.slot]
    <2>2. e \in Drawings /\ e.slot = p.slot /\ e.glyph = g
      BY <1>3 DEF Drawings
    <2>3. p.drawn = Append(s.drawn, e)
      BY <1>6 DEF DrawnAt
    <2> HIDE DEF e
    <2>4. DOMAIN p.drawn = 1 .. m + 1 /\ p.drawn[m + 1] = e /\ \A k \in 1 .. m : p.drawn[k] = s.drawn[k]
      BY <1>3, <2>2, <2>3
    <2>5. ASSUME NEW k \in 1 .. m + 1
          PROVE  Taken(p.drawn[k].slot, Extra(p.drawn[k].glyph.cluster), p.count)
      <3>1. CASE k = m + 1
        BY <2>1, <2>2, <2>4, <3>1
      <3>2. CASE k # m + 1
        <4>1. k \in 1 .. m /\ p.drawn[k] = s.drawn[k]
          BY <1>4, <2>4, <3>2
        <4>2. Taken(s.drawn[k].slot, Extra(s.drawn[k].glyph.cluster), s.count)
          BY <1>4, <4>1 DEF Kept
        <4>3. Extra(s.drawn[k].glyph.cluster) \in {0, 1}
          BY DEF Extra
        <4> QED BY <1>3, <2>1, <4>1, <4>2, <4>3 DEF Taken
      <3> QED BY <3>1, <3>2
    <2>6. Kept(p)
      BY <1>2, <2>1, <2>4, <2>5 DEF Kept
    <2> QED BY <2>6 DEF p
  <1> QED BY <1>2, <1>5, <1>6

\* All that is drawn comes before cluster c.
Follows(s, rtl, c) == \A k \in DOMAIN s.drawn : Before(rtl, s.drawn[k].glyph.cluster, c)

\* The clusters drawn have an advance.
Advancing(d) ==
    \A k \in 1 .. Len(d) - 1 :
        d[k].glyph.cluster # d[k + 1].glyph.cluster => d[k].glyph.advance

\* The places of two drawn glyphs, k before l.
Apart(d, k, l) ==
    IF d[k].glyph.cluster = d[l].glyph.cluster THEN d[k].slot = d[l].slot
    ELSE d[l].slot > d[k].slot + Extra(d[k].glyph.cluster)

\* The clusters are in order.  And if they have advances the last place is that
\* of the last cluster, and all are behind those of the clusters before.
Places(s, rtl) ==
    LET d == s.drawn
        m == Len(d)
    IN  /\ m = 0 => s.cluster = -1 /\ s.advance
        /\ m # 0 => s.advance = d[m].glyph.advance /\ s.slot = d[m].slot
        /\ \A k, l \in 1 .. m : k <= l => Before(rtl, d[k].glyph.cluster, d[l].glyph.cluster)
        /\ Advancing(d) => /\ m # 0 => s.cluster = d[m].glyph.cluster
                           /\ \A k \in 1 .. m : d[k].slot + Extra(d[k].glyph.cluster) < s.count
                           /\ \A k, l \in 1 .. m : k < l => Apart(d, k, l)

\* The cluster is that of the glyph before, whose place it shares, or a new one,
\* behind all of them.
LEMMA GlyphPlaced ==
    ASSUME NEW s \in DrawState, NEW rtl \in BOOLEAN, Places(s, rtl), NEW g \in Glyphs,
           Follows(s, rtl, g.cluster)
    PROVE  Places(DrawGlyph(s, g), rtl)
  <1> DEFINE p == DrawGlyph(s, g)
             d == s.drawn
             m == Len(d)
             e == [glyph |-> g, slot |-> p.slot]
             f == p.drawn
             c(k) == d[k].glyph.cluster
             x(k) == Extra(c(k))
  <1>1. p \in DrawState /\ (Skipped(s, p) \/ DrawnAt(s, g, p))
    BY GlyphDrawn
  <1>2. /\ s.cluster \in Int /\ s.slot \in Int /\ s.count \in Nat /\ d \in Seq(Drawings)
        /\ p.slot \in Int /\ g.cluster \in Nat
    BY <1>1 DEF DrawState, Glyphs
  <1>3. m \in Nat /\ DOMAIN d = 1 .. m
    BY <1>2
  <1>4. CASE Skipped(s, p)
    <2> HIDE DEF p
    <2>1. /\ p.cluster = s.cluster /\ p.advance = s.advance /\ p.slot = s.slot
          /\ p.count = s.count /\ p.drawn = s.drawn
      BY <1>4 DEF Skipped
    <2>2. Places(p, rtl)
      BY Zenon, <2>1 DEF Places
    <2> QED BY <2>2 DEF p
  <1>5. CASE DrawnAt(s, g, p)
    <2>1. e \in Drawings /\ e.slot = p.slot /\ e.glyph = g
      BY <1>2 DEF Drawings
    <2> HIDE DEF p
    <2>2. f = Append(d, e)
      BY <1>5 DEF DrawnAt
    <2> HIDE DEF d, e, f
    <2>3. /\ Len(f) = m + 1 /\ f[m + 1] = e /\ \A k \in 1 .. m : f[k] = d[k]
      BY <1>2, <2>1, <2>2
    <2>4. \A k \in 1 .. m : c(k) \in Nat /\ d[k].slot \in Int /\ x(k) \in {0, 1}
      <3> SUFFICES ASSUME NEW k \in 1 .. m PROVE c(k) \in Nat /\ d[k].slot \in Int /\ x(k) \in {0, 1}
        OBVIOUS
      <3>1. d[k] \in Drawings
        BY <1>2, <1>3
      <3>2. d[k].glyph \in Glyphs /\ d[k].slot \in Int
        BY <3>1 DEF Drawings
      <3>3. c(k) \in Nat
        BY <3>2 DEF Glyphs
      <3> QED BY <3>2, <3>3 DEF Extra
    <2>5. \A k \in 1 .. m : Before(rtl, c(k), g.cluster)
      BY <1>3 DEF Follows, d
    <2>6. /\ m = 0 => s.cluster = -1 /\ s.advance
          /\ m # 0 => s.advance = d[m].glyph.advance /\ s.slot = d[m].slot
          /\ \A k, l \in 1 .. m : k <= l => Before(rtl, c(k), c(l))
      BY DEF Places, d
    <2>7. Advancing(d) => /\ m # 0 => s.cluster = c(m)
                          /\ \A k \in 1 .. m : d[k].slot + x(k) < s.count
                          /\ \A k, l \in 1 .. m : k < l => Apart(d, k, l)
      BY DEF Places, d
    <2>8. p.advance = g.advance /\ Extra(g.cluster) \in {0, 1}
      BY <1>5 DEF DrawnAt, Extra
    <2>9. \/ /\ s.cluster # g.cluster /\ s.advance
             /\ p.cluster = g.cluster /\ p.slot = s.count
             /\ p.count = s.count + 1 + Extra(g.cluster)
          \/ /\ s.cluster = g.cluster \/ ~s.advance
             /\ p.cluster = s.cluster /\ p.slot = s.slot
             /\ p.count = s.count + Extra(g.cluster)
      BY <1>5 DEF DrawnAt
    <2>10. f[m + 1].glyph = g /\ f[m + 1].slot = p.slot
      BY <2>1, <2>3
    <2>11. ASSUME NEW k \in 1 .. m + 1, NEW l \in 1 .. m + 1, k <= l
           PROVE  Before(rtl, f[k].glyph.cluster, f[l].glyph.cluster)
      <3>1. CASE l = m + 1 /\ k = m + 1
        BY <1>2, <2>10, <3>1 DEF Before
      <3>2. CASE l = m + 1 /\ k \in 1 .. m
        BY <2>3, <2>5, <2>10, <3>2
      <3>3. CASE l \in 1 .. m
        <4>1. k \in 1 .. m
          BY <1>3, <2>11, <3>3
        <4> QED BY <2>3, <2>6, <2>11, <3>3, <4>1
      <3> QED BY <1>3, <3>1, <3>2, <3>3
    <2>12. ASSUME Advancing(f)
           PROVE  /\ p.cluster = f[m + 1].glyph.cluster
                  /\ \A k \in 1 .. m + 1 : f[k].slot + Extra(f[k].glyph.cluster) < p.count
                  /\ \A k, l \in 1 .. m + 1 : k < l => Apart(f, k, l)
      <3>1. Advancing(d)
        <4> SUFFICES ASSUME NEW k \in 1 .. m - 1, c(k) # c(k + 1) PROVE d[k].glyph.advance
          BY DEF Advancing
        <4>1. k \in 1 .. m /\ k + 1 \in 1 .. m /\ k \in 1 .. Len(f) - 1
          BY <1>3, <2>3
        <4>2. f[k] = d[k] /\ f[k + 1] = d[k + 1]
          BY <2>3, <4>1
        <4> QED BY <2>12, <4>1, <4>2 DEF Advancing
      <3>2. m # 0 /\ c(m) # g.cluster => d[m].glyph.advance
        <4> SUFFICES ASSUME m # 0, c(m) # g.cluster PROVE d[m].glyph.advance
          OBVIOUS
        <4>1. m \in 1 .. m /\ m \in 1 .. Len(f) - 1
          BY <1>3, <2>3
        <4>2. f[m] = d[m]
          BY <2>3, <4>1
        <4> QED BY <2>10, <2>12, <4>1, <4>2 DEF Advancing
      <3>3. m # 0 => m \in 1 .. m /\ s.cluster = c(m)
        BY <1>3, <2>7, <3>1
      <3>4. /\ \A k \in 1 .. m : d[k].slot + x(k) < s.count
            /\ \A k, l \in 1 .. m : k < l => Apart(d, k, l)
        BY <2>7, <3>1
      <3>5. CASE m # 0 /\ c(m) = g.cluster
        <4>1. p.cluster = g.cluster /\ p.slot = d[m].slot /\ p.count = s.count + Extra(g.cluster)
              /\ m \in 1 .. m
          BY <2>6, <2>9, <3>3, <3>5
        <4>2. d[m].slot + Extra(g.cluster) < s.count
          BY <3>4, <3>5, <4>1
        <4>3. \A k \in 1 .. m : d[k].slot + x(k) < p.count
          BY <1>2, <2>4, <2>8, <3>4, <4>1
        <4>4. p.slot + Extra(g.cluster) < p.count
          BY <1>2, <2>4, <2>8, <4>1, <4>2
        <4>5. ASSUME NEW k \in 1 .. m + 1
              PROVE  f[k].slot + Extra(f[k].glyph.cluster) < p.count
          <5>1. CASE k = m + 1
            BY <2>10, <4>4, <5>1
          <5>2. CASE k \in 1 .. m
            BY <2>3, <4>3, <5>2
          <5> QED BY <1>3, <5>1, <5>2
        <4>6. ASSUME NEW k \in 1 .. m + 1, NEW l \in 1 .. m + 1, k < l PROVE Apart(f, k, l)
          <5>1. k \in 1 .. m
            BY <1>3, <4>6
          <5>2. CASE l \in 1 .. m
            <6>1. Apart(d, k, l)
              BY <3>4, <4>6, <5>1, <5>2
            <6> QED BY <2>3, <5>1, <5>2, <6>1 DEF Apart
          <5>3. CASE l = m + 1
            <6>1. CASE k = m
              BY <2>3, <2>10, <3>5, <4>1, <5>1, <5>3, <6>1 DEF Apart
            <6>2. CASE k # m
              <7>1. k < m
                <8>1. m \in Nat
                  BY <1>3
                <8> HIDE DEF m
                <8> QED BY <5>1, <6>2, <8>1
              <7>2. Apart(d, k, m)
                BY <3>4, <4>1, <5>1, <7>1
              <7> QED BY <2>3, <2>10, <3>5, <4>1, <5>1, <5>3, <7>2 DEF Apart
            <6> QED BY <6>1, <6>2
          <5> QED BY <1>3, <5>2, <5>3
        <4>7. p.cluster = f[m + 1].glyph.cluster
          BY <2>10, <4>1
        <4> QED BY <4>5, <4>6, <4>7
      <3>6. CASE m = 0 \/ c(m) # g.cluster
        <4>1. s.cluster # g.cluster /\ s.advance
          BY <1>2, <2>6, <3>2, <3>3, <3>6
        <4>2. p.cluster = g.cluster /\ p.slot = s.count /\ p.count = s.count + 1 + Extra(g.cluster)
          BY <2>9, <4>1
        <4>3. ASSUME NEW k \in 1 .. m PROVE c(k) # g.cluster
          <5>1. m \in 1 .. m /\ m # 0 /\ k <= m
            BY <1>3
          <5>2. Before(rtl, c(k), c(m)) /\ Before(rtl, c(m), g.cluster)
            BY <2>5, <2>6, <5>1
          <5>3. c(m) # g.cluster /\ c(k) \in Nat /\ c(m) \in Nat
            BY <2>4, <3>6, <5>1
          <5> HIDE DEF c
          <5> QED BY <1>2, <5>2, <5>3 DEF Before
        <4>4. ASSUME NEW k \in 1 .. m + 1
              PROVE  f[k].slot + Extra(f[k].glyph.cluster) < p.count
          <5>1. CASE k = m + 1
            BY <1>2, <2>8, <2>10, <4>2, <5>1
          <5>2. CASE k \in 1 .. m
            <6>1. f[k] = d[k] /\ d[k].slot + x(k) < s.count
              BY <2>3, <3>4, <5>2
            <6>2. d[k].slot + x(k) \in Int
              BY <2>4, <5>2
            <6>3. s.count \in Int /\ p.count \in Int
              BY <1>2, <2>8, <4>2
            <6>4. s.count < p.count
              BY <1>2, <2>8, <4>2
            <6>5. d[k].slot + x(k) < p.count
              <7> HIDE DEF x
              <7> QED BY <6>1, <6>2, <6>3, <6>4
            <6> QED BY <6>1, <6>5
          <5> QED BY <1>3, <5>1, <5>2
        <4>5. ASSUME NEW k \in 1 .. m + 1, NEW l \in 1 .. m + 1, k < l PROVE Apart(f, k, l)
          <5>1. k \in 1 .. m
            BY <1>3, <4>5
          <5>2. CASE l \in 1 .. m
            <6>1. Apart(d, k, l)
              BY <3>4, <4>5, <5>1, <5>2
            <6> QED BY <2>3, <5>1, <5>2, <6>1 DEF Apart
          <5>3. CASE l = m + 1
            <6>1. d[k].slot + x(k) < s.count /\ c(k) # g.cluster
              BY <3>4, <4>3, <5>1
            <6>2. p.slot > d[k].slot + x(k)
              BY <1>2, <2>4, <4>2, <5>1, <6>1
            <6> QED BY <2>3, <2>10, <5>1, <5>3, <6>1, <6>2 DEF Apart
          <5> QED BY <1>3, <5>2, <5>3
        <4>6. p.cluster = f[m + 1].glyph.cluster
          BY <2>10, <4>2
        <4> QED BY <4>4, <4>5, <4>6
      <3> QED BY <3>5, <3>6
    <2>13. Len(f) # 0 /\ p.advance = f[m + 1].glyph.advance /\ p.slot = f[m + 1].slot
      BY <1>3, <2>3, <2>8, <2>10
    <2>14. Places(p, rtl)
      BY <2>3, <2>11, <2>12, <2>13 DEF Places, f
    <2> QED BY <2>14 DEF p
  <1> QED BY <1>1, <1>4, <1>5

\* What is drawn comes before c, if it did and the glyph does.
LEMMA GlyphFollowed ==
    ASSUME NEW s \in DrawState, NEW rtl \in BOOLEAN, NEW g \in Glyphs, NEW c,
           Follows(s, rtl, c), Before(rtl, g.cluster, c)
    PROVE  Follows(DrawGlyph(s, g), rtl, c)
  <1> DEFINE p == DrawGlyph(s, g)
             e == [glyph |-> g, slot |-> p.slot]
             m == Len(s.drawn)
  <1>1. p \in DrawState /\ (Skipped(s, p) \/ DrawnAt(s, g, p))
    BY GlyphDrawn
  <1>2. s.drawn \in Seq(Drawings) /\ p.slot \in Int
    BY <1>1 DEF DrawState
  <1>3. e \in Drawings /\ e.glyph = g
    BY <1>2 DEF Drawings
  <1> HIDE DEF p, e
  <1>4. CASE p.drawn = s.drawn
    <2>1. Follows(p, rtl, c)
      BY <1>4 DEF Follows
    <2> QED BY <2>1 DEF p
  <1>5. CASE p.drawn = Append(s.drawn, e)
    <2>1. DOMAIN p.drawn = 1 .. m + 1 /\ p.drawn[m + 1] = e /\ (\A k \in 1 .. m : p.drawn[k] = s.drawn[k])
          /\ m \in Nat /\ DOMAIN s.drawn = 1 .. m
      BY <1>2, <1>3, <1>5
    <2>2. \A k \in 1 .. m + 1 : k = m + 1 \/ k \in 1 .. m
      BY <2>1
    <2>3. Follows(p, rtl, c)
      BY <1>3, <2>1, <2>2 DEF Follows
    <2> QED BY <2>3 DEF p
  <1> QED BY <1>1, <1>4, <1>5 DEF Skipped, DrawnAt, e

\* A group that follows what is drawn is drawn in its place.
LEMMA GroupKept ==
    ASSUME NEW st, Kept(st), NEW rtl \in BOOLEAN, Places(st, rtl),
           NEW glyphs \in Seq(Glyphs),
           \A k, l \in DOMAIN glyphs : k <= l => Before(rtl, glyphs[k].cluster, glyphs[l].cluster),
           \A k \in DOMAIN glyphs : Follows(st, rtl, glyphs[k].cluster),
           NEW C, \A c \in C : Follows(st, rtl, c),
           \A c \in C : \A k \in DOMAIN glyphs : Before(rtl, glyphs[k].cluster, c)
    PROVE  /\ Kept(DrawGroup(st, glyphs)) /\ Places(DrawGroup(st, glyphs), rtl)
           /\ \A c \in C : Follows(DrawGroup(st, glyphs), rtl, c)
  <1> DEFINE n == Len(glyphs)
             b == [st EXCEPT !.broken = FALSE]
             All(s, k) == /\ Kept(s) /\ Places(s, rtl)
                          /\ \A j \in k + 1 .. n : Follows(s, rtl, glyphs[j].cluster)
                          /\ \A c \in C : Follows(s, rtl, c)
             I == [k \in 0 .. n |-> {s \in DrawState : All(s, k)}]
  <1>1. n \in Nat /\ DOMAIN glyphs = 1 .. n /\ \A k \in 1 .. n : glyphs[k] \in Glyphs
    OBVIOUS
  <1>2. st \in DrawState
    BY DEF Kept
  <1>3. b \in DrawState /\ b.cluster = st.cluster /\ b.advance = st.advance /\ b.slot = st.slot
        /\ b.count = st.count /\ b.drawn = st.drawn
    BY <1>2 DEF DrawState
  <1> HIDE DEF n, b
  <1>4. All(b, 0)
    <2>1. Kept(b)
      BY <1>3 DEF Kept
    <2>2. Places(b, rtl)
      BY Zenon, <1>3 DEF Places
    <2>3. \A c : Follows(st, rtl, c) => Follows(b, rtl, c)
      BY <1>3 DEF Follows
    <2>4. \A j \in 0 + 1 .. n : j \in DOMAIN glyphs
      BY <1>1
    <2> QED BY <2>1, <2>2, <2>3, <2>4
  <1>5. ASSUME NEW k \in 1 .. n, NEW s \in DrawState, All(s, k - 1)
        PROVE  DrawGlyph(s, glyphs[k]) \in DrawState /\ All(DrawGlyph(s, glyphs[k]), k)
    <2> DEFINE g == glyphs[k]
               p == DrawGlyph(s, g)
    <2>1. g \in Glyphs /\ k \in (k - 1) + 1 .. n
      BY <1>1
    <2>2. Follows(s, rtl, g.cluster)
      BY <1>5, <2>1
    <2> HIDE DEF g
    <2>3. Kept(p) /\ p \in DrawState
      BY <1>5, <2>1, GlyphKept, GlyphDrawn
    <2>4. Places(p, rtl)
      BY <1>5, <2>1, <2>2, GlyphPlaced
    <2>5. ASSUME NEW j \in k + 1 .. n PROVE Follows(p, rtl, glyphs[j].cluster)
      <3>1. j \in (k - 1) + 1 .. n /\ j \in DOMAIN glyphs /\ k \in DOMAIN glyphs /\ k <= j
        BY <1>1
      <3>2. Follows(s, rtl, glyphs[j].cluster)
        BY <1>5, <3>1
      <3>3. Before(rtl, g.cluster, glyphs[j].cluster)
        BY <3>1 DEF g
      <3> QED BY <2>1, <3>2, <3>3, GlyphFollowed
    <2>6. ASSUME NEW c \in C PROVE Follows(p, rtl, c)
      <3>1. Follows(s, rtl, c)
        BY <1>5
      <3>2. Before(rtl, g.cluster, c)
        BY <1>1 DEF g
      <3> QED BY <2>1, <3>1, <3>2, GlyphFollowed
    <2> QED BY <2>3, <2>4, <2>5, <2>6 DEF g
  <1>6. \A k \in 0 .. n : I[k] = {s \in DrawState : All(s, k)}
    OBVIOUS
  <1>7. /\ 0 \in 0 .. n /\ n \in 0 .. n /\ \A k \in 1 .. n : k \in 0 .. n /\ k - 1 \in 0 .. n
    BY <1>1
  <1> HIDE DEF All, I
  <1>8. b \in I[0]
    BY <1>3, <1>4, <1>6, <1>7
  <1>9. ASSUME NEW k \in 1 .. n, NEW s \in I[k - 1] PROVE DrawGlyph(s, glyphs[k]) \in I[k]
    <2>1. s \in DrawState /\ All(s, k - 1)
      BY <1>6, <1>7
    <2>2. DrawGlyph(s, glyphs[k]) \in DrawState /\ All(DrawGlyph(s, glyphs[k]), k)
      BY <1>5, <2>1
    <2> QED BY <1>6, <1>7, <2>2
  <1>10. DrawGroup(st, glyphs) \in I[n]
    BY <1>1, <1>8, <1>9, GroupDrawn DEF n, b
  <1>11. All(DrawGroup(st, glyphs), n)
    BY <1>6, <1>7, <1>10
  <1> QED BY <1>11 DEF All

(***************************************************************************)
(* Drawing: all of it, while there are places                              *)
(***************************************************************************)

\* The first m codepoints of `of' are drawn, or the places are used up.
Complete(s, of, m) ==
    s.count < GlyphNum => Len(s.drawn) = m /\ \A i \in 1 .. m : s.drawn[i].glyph.of = of[i]

\* A glyph that is left out was refused a place.
LEMMA GlyphComplete ==
    ASSUME NEW s \in DrawState, NEW of, NEW m \in Nat, Complete(s, of, m),
           s.broken => s.count >= GlyphNum,
           NEW g \in Glyphs, g.of = of[m + 1]
    PROVE  /\ Complete(DrawGlyph(s, g), of, m + 1)
           /\ DrawGlyph(s, g).broken => DrawGlyph(s, g).count >= GlyphNum
  <1> DEFINE p == DrawGlyph(s, g)
             e == [glyph |-> g, slot |-> p.slot]
  <1>1. p \in DrawState /\ (Skipped(s, p) \/ DrawnAt(s, g, p))
    BY GlyphDrawn
  <1>2. /\ s.drawn \in Seq(Drawings) /\ p.slot \in Int /\ s.count \in Nat /\ GlyphNum \in Nat
        /\ p.count \in Nat /\ Extra(g.cluster) \in {0, 1}
    BY <1>1, ShapeAssumption DEF DrawState, Extra
  <1>3. e \in Drawings /\ e.glyph = g
    BY <1>2 DEF Drawings
  <1> HIDE DEF p, e
  <1>4. CASE Skipped(s, p)
    <2>1. p.count >= GlyphNum /\ ~ p.count < GlyphNum
      BY <1>2, <1>4 DEF Skipped
    <2>2. Complete(p, of, m + 1)
      BY <2>1 DEF Complete
    <2> QED BY <2>1, <2>2 DEF p
  <1>5. CASE DrawnAt(s, g, p)
    <2>1. p.count >= s.count /\ p.broken = FALSE /\ p.drawn = Append(s.drawn, e)
      BY <1>2, <1>5 DEF DrawnAt, e
    <2>2. ASSUME p.count < GlyphNum
          PROVE  Len(p.drawn) = m + 1 /\ \A i \in 1 .. m + 1 : p.drawn[i].glyph.of = of[i]
      <3>1. s.count < GlyphNum
        BY <1>2, <2>1, <2>2
      <3>2. Len(s.drawn) = m /\ \A i \in 1 .. m : s.drawn[i].glyph.of = of[i]
        BY <3>1 DEF Complete
      <3>3. Len(p.drawn) = m + 1 /\ p.drawn[m + 1] = e /\ \A k \in 1 .. m : p.drawn[k] = s.drawn[k]
        BY <1>2, <1>3, <2>1, <3>2
      <3>4. \A i \in 1 .. m + 1 : i = m + 1 \/ i \in 1 .. m
        OBVIOUS
      <3> QED BY <1>3, <3>2, <3>3, <3>4
    <2>3. Complete(p, of, m + 1)
      BY <2>2 DEF Complete
    <2> QED BY <2>1, <2>3 DEF p
  <1> QED BY <1>1, <1>4, <1>5

\* And so for the glyphs of a group.
LEMMA GroupComplete ==
    ASSUME NEW st \in DrawState, NEW of, NEW m \in Nat, Complete(st, of, m),
           NEW glyphs \in Seq(Glyphs),
           \A k \in DOMAIN glyphs : glyphs[k].of = of[m + k]
    PROVE  Complete(DrawGroup(st, glyphs), of, m + Len(glyphs)) /\ DrawGroup(st, glyphs) \in DrawState
  <1> DEFINE n == Len(glyphs)
             b == [st EXCEPT !.broken = FALSE]
             All(s, k) == Complete(s, of, m + k) /\ (s.broken => s.count >= GlyphNum)
             I == [k \in 0 .. n |-> {s \in DrawState : All(s, k)}]
  <1>1. n \in Nat /\ DOMAIN glyphs = 1 .. n /\ \A k \in 1 .. n : glyphs[k] \in Glyphs
    OBVIOUS
  <1>3. b \in DrawState /\ b.broken = FALSE /\ b.count = st.count /\ b.drawn = st.drawn
    BY DEF DrawState
  <1> HIDE DEF n, b
  <1>4. All(b, 0)
    <2>1. m + 0 = m
      OBVIOUS
    <2>2. Complete(b, of, m)
      BY <1>3 DEF Complete
    <2> QED BY <1>3, <2>1, <2>2
  <1>5. ASSUME NEW k \in 1 .. n, NEW s \in DrawState, All(s, k - 1)
        PROVE  DrawGlyph(s, glyphs[k]) \in DrawState /\ All(DrawGlyph(s, glyphs[k]), k)
    <2> DEFINE g == glyphs[k]
               i == m + (k - 1)
    <2>1. g \in Glyphs /\ i \in Nat /\ i + 1 = m + k
      BY <1>1
    <2>2. g.of = of[i + 1]
      BY <1>1, <2>1
    <2>3. Complete(s, of, i) /\ (s.broken => s.count >= GlyphNum)
      BY <1>5
    <2> HIDE DEF g, i
    <2>4. Complete(DrawGlyph(s, g), of, i + 1)
          /\ (DrawGlyph(s, g).broken => DrawGlyph(s, g).count >= GlyphNum)
      BY <2>1, <2>2, <2>3, GlyphComplete
    <2>5. DrawGlyph(s, g) \in DrawState
      BY <2>1, GlyphDrawn
    <2> QED BY <2>1, <2>4, <2>5 DEF g
  <1>6. \A k \in 0 .. n : I[k] = {s \in DrawState : All(s, k)}
    OBVIOUS
  <1>7. /\ 0 \in 0 .. n /\ n \in 0 .. n /\ \A k \in 1 .. n : k \in 0 .. n /\ k - 1 \in 0 .. n
    BY <1>1
  <1> HIDE DEF All, I
  <1>8. b \in I[0]
    BY <1>3, <1>4, <1>6, <1>7
  <1>9. ASSUME NEW k \in 1 .. n, NEW s \in I[k - 1] PROVE DrawGlyph(s, glyphs[k]) \in I[k]
    <2>1. s \in DrawState /\ All(s, k - 1)
      BY <1>6, <1>7
    <2>2. DrawGlyph(s, glyphs[k]) \in DrawState /\ All(DrawGlyph(s, glyphs[k]), k)
      BY <1>5, <2>1
    <2> QED BY <1>6, <1>7, <2>2
  <1>10. DrawGroup(st, glyphs) \in I[n]
    BY <1>1, <1>8, <1>9, GroupDrawn DEF n, b
  <1>11. All(DrawGroup(st, glyphs), n) /\ DrawGroup(st, glyphs) \in DrawState
    BY <1>6, <1>7, <1>10
  <1> QED BY <1>11 DEF All, n

(***************************************************************************)
(* Drawing: a run                                                          *)
(***************************************************************************)

\* What comes before a comes before what is behind a.
LEMMA FollowsOn ==
    ASSUME NEW s \in DrawState, NEW rtl \in BOOLEAN, NEW a \in Nat, NEW b \in Nat,
           Follows(s, rtl, a), Before(rtl, a, b)
    PROVE  Follows(s, rtl, b)
  <1> SUFFICES ASSUME NEW k \in DOMAIN s.drawn PROVE Before(rtl, s.drawn[k].glyph.cluster, b)
    BY DEF Follows
  <1> DEFINE c == s.drawn[k].glyph.cluster
  <1>1. s.drawn \in Seq(Drawings)
    BY DEF DrawState
  <1>2. s.drawn[k] \in Drawings
    BY <1>1
  <1>3. s.drawn[k].glyph \in Glyphs
    BY <1>2 DEF Drawings
  <1>4. c \in Nat
    BY <1>3 DEF Glyphs
  <1>5. Before(rtl, c, a)
    BY DEF Follows
  <1> HIDE DEF c
  <1>6. Before(rtl, c, b)
    BY <1>4, <1>5 DEF Before
  <1> QED BY <1>6 DEF c

\* Before the first group.
LEMMA StartKept ==
    ASSUME glyph_count \in Nat, NEW rtl \in BOOLEAN
    PROVE  /\ Start \in DrawState /\ Kept(Start) /\ Places(Start, rtl)
           /\ \A c : Follows(Start, rtl, c)
           /\ \A of : Complete(Start, of, 0)
  <1>1. <<>> \in Seq(Drawings)
    OBVIOUS
  <1>2. /\ Start.cluster = -1 /\ Start.advance = TRUE /\ Start.slot = -1 /\ Start.count = glyph_count
        /\ Start.drawn = <<>>
    BY DEF Start
  <1>3. Start \in DrawState
    BY <1>1 DEF Start, DrawState
  <1>4. Len(Start.drawn) = 0 /\ DOMAIN Start.drawn = {}
    BY <1>2
  <1>5. Kept(Start)
    BY <1>2, <1>3, <1>4 DEF Kept
  <1>6. Places(Start, rtl)
    BY <1>2, <1>4 DEF Places
  <1> QED BY <1>3, <1>4, <1>5, <1>6 DEF Follows, Complete

\* Group by group, each of which follows those before it.
LEMMA SegmentKept ==
    ASSUME glyph_count \in Nat, NEW from \in Nat, NEW to \in Nat, from < to,
           NEW rtl \in BOOLEAN, NEW flat, NEW info, ShapedWell(info, from, to, rtl)
    PROVE  Kept(render_segment(info, rtl, flat)) /\ Places(render_segment(info, rtl, flat), rtl)
  <1> DEFINE n == Len(info)
             starts == GroupStarts(info)
             All(s, k) == /\ Kept(s) /\ Places(s, rtl)
                          /\ \A j \in k + 1 .. n : j \in starts => Follows(s, rtl, info[j].cluster)
             I == [k \in 0 .. n |-> {s \in DrawState : All(s, k)}]
  <1>1. n \in Nat /\ n = to - from /\ info \in Seq(Glyphs) /\ DOMAIN info = 1 .. n
    BY DEF ShapedWell
  <1>2. \A k \in 1 .. n : info[k].cluster \in Nat
    <2>1. \A k \in 1 .. n : info[k] \in Glyphs
      BY <1>1
    <2> QED BY <2>1 DEF Glyphs
  <1>3. \A k, l \in 1 .. n : k <= l => Before(rtl, info[k].cluster, info[l].cluster)
    BY <1>1 DEF ShapedWell
  <1> HIDE DEF n, starts
  <1>4. All(Start, 0)
    BY StartKept
  <1>5. ASSUME NEW k \in 1 .. n, NEW s \in DrawState, All(s, k - 1), k \in starts
        PROVE  LET r == DrawGroup(s, GroupGlyphs(info, k, rtl, flat))
               IN  r \in DrawState /\ All(r, k)
    <2> DEFINE last == GroupEnd(info, k)
               glyphs == GroupGlyphs(info, k, rtl, flat)
               r == DrawGroup(s, glyphs)
               C == {info[j].cluster : j \in {j \in last + 1 .. n : j \in starts}}
    <2>1. GroupWell(info, glyphs, k, last, rtl)
      BY <1>1, GroupInOrder
    <2>2. last \in k .. n /\ \A j \in k + 1 .. last : j \notin starts
      BY <1>1, GroupEnds DEF n, starts
    <2> HIDE DEF last, glyphs
    <2>3. /\ glyphs \in Seq(Glyphs)
          /\ \A i, l \in DOMAIN glyphs : i <= l => Before(rtl, glyphs[i].cluster, glyphs[l].cluster)
          /\ \A i \in DOMAIN glyphs : /\ Before(rtl, info[k].cluster, glyphs[i].cluster)
                                      /\ Before(rtl, glyphs[i].cluster, info[last].cluster)
      BY <2>1 DEF GroupWell
    <2>4. \A i \in DOMAIN glyphs : glyphs[i].cluster \in Nat
      <3>1. \A i \in DOMAIN glyphs : glyphs[i] \in Glyphs
        BY <2>3
      <3> QED BY <3>1 DEF Glyphs
    <2>5. Follows(s, rtl, info[k].cluster)
      <3>1. k \in (k - 1) + 1 .. n
        BY <1>1
      <3> QED BY <1>5, <3>1
    <2>6. ASSUME NEW i \in DOMAIN glyphs PROVE Follows(s, rtl, glyphs[i].cluster)
      BY <1>2, <2>3, <2>4, <2>5, FollowsOn
    <2>7. ASSUME NEW c \in C PROVE Follows(s, rtl, c)
      <3>1. PICK j \in last + 1 .. n : j \in starts /\ c = info[j].cluster
        OBVIOUS
      <3>2. j \in (k - 1) + 1 .. n
        BY <1>1, <2>2
      <3> QED BY <1>5, <3>1, <3>2
    <2>8. ASSUME NEW c \in C, NEW i \in DOMAIN glyphs PROVE Before(rtl, glyphs[i].cluster, c)
      <3>1. PICK j \in last + 1 .. n : j \in starts /\ c = info[j].cluster
        OBVIOUS
      <3>2. j \in 1 .. n /\ last \in 1 .. n /\ last <= j
        BY <1>1, <2>2
      <3>3. Before(rtl, info[last].cluster, info[j].cluster)
        BY <1>3, <3>2
      <3>4. info[last].cluster \in Nat /\ info[j].cluster \in Nat /\ glyphs[i].cluster \in Nat
        BY <1>2, <2>4, <3>2
      <3>5. Before(rtl, glyphs[i].cluster, info[last].cluster)
        BY <2>3
      <3>6. Before(rtl, glyphs[i].cluster, info[j].cluster)
        BY <3>3, <3>4, <3>5 DEF Before
      <3> QED BY <3>1, <3>6
    <2> HIDE DEF C
    <2>9. Kept(s) /\ Places(s, rtl)
      BY <1>5
    <2>10. Kept(r) /\ Places(r, rtl) /\ \A c \in C : Follows(r, rtl, c)
      BY <2>3, <2>6, <2>7, <2>8, <2>9, GroupKept
    <2> HIDE DEF r
    <2>11. ASSUME NEW j \in k + 1 .. n, j \in starts PROVE Follows(r, rtl, info[j].cluster)
      <3>1. j \in last + 1 .. n
        BY <1>1, <2>2, <2>11
      <3>2. info[j].cluster \in C
        BY <2>11, <3>1 DEF C
      <3> QED BY <2>10, <3>2
    <2>12. r \in DrawState /\ All(r, k)
      BY <2>10, <2>11 DEF Kept
    <2> QED BY <2>12 DEF r, glyphs
  <1>6. ASSUME NEW k \in 1 .. n, NEW s \in DrawState, All(s, k - 1), k \notin starts
        PROVE  All(s, k)
    <2>1. \A j \in k + 1 .. n : j \in (k - 1) + 1 .. n
      BY <1>1
    <2> QED BY <1>6, <2>1
  <1>7. \A k \in 0 .. n : I[k] = {s \in DrawState : All(s, k)}
    OBVIOUS
  <1>8. /\ 0 \in 0 .. n /\ n \in 0 .. n /\ \A k \in 1 .. n : k \in 0 .. n /\ k - 1 \in 0 .. n
    BY <1>1
  <1> HIDE DEF All, I
  <1>9. Start \in I[0]
    BY <1>4, <1>7, <1>8, StartKept
  <1>10. ASSUME NEW k \in 1 .. n, NEW s \in I[k - 1] PROVE Grouped(info, rtl, flat, k, s) \in I[k]
    <2>1. s \in DrawState /\ All(s, k - 1)
      BY <1>7, <1>8
    <2>2. Grouped(info, rtl, flat, k, s) \in DrawState /\ All(Grouped(info, rtl, flat, k, s), k)
      BY <1>5, <1>6, <2>1 DEF Grouped, starts
    <2> QED BY <1>7, <1>8, <2>2
  <1>11. render_segment(info, rtl, flat) \in I[n]
    BY <1>1, <1>9, <1>10, SegmentDrawn DEF n
  <1>12. All(render_segment(info, rtl, flat), n)
    BY <1>7, <1>8, <1>11
  <1> QED BY <1>12 DEF All

\* After the groups up to glyph k, the codepoints up to the next group are drawn.
LEMMA SegmentComplete ==
    ASSUME glyph_count \in Nat, NEW from \in Nat, NEW to \in Nat, from < to,
           NEW rtl \in BOOLEAN, NEW flat, NEW info, ShapedWell(info, from, to, rtl),
           \A k \in 1 .. Len(info) : info[k].cluster = info[k].of
    PROVE  Complete(render_segment(info, rtl, flat), [k \in 1 .. Len(info) |-> info[k].of], Len(info))
  <1> DEFINE n == Len(info)
             starts == GroupStarts(info)
             of == [k \in 1 .. n |-> info[k].of]
             Upto(s, k, m) == /\ m = n \/ m + 1 \in starts
                              /\ \A j \in k + 1 .. m : j \notin starts
                              /\ Complete(s, of, m)
             All(s, k) == \E m \in k .. n : Upto(s, k, m)
             I == [k \in 0 .. n |-> {s \in DrawState : All(s, k)}]
  <1>1. n \in Nat /\ n = to - from /\ info \in Seq(Glyphs) /\ DOMAIN info = 1 .. n /\ 0 < n
    BY DEF ShapedWell
  <1>2. \A k \in 1 .. n : of[k] = info[k].of
    OBVIOUS
  <1> HIDE DEF n, of
  <1>3. 1 \in starts
    BY <1>1 DEF GroupStarts
  <1> HIDE DEF starts
  <1>4. All(Start, 0)
    <2>1. Complete(Start, of, 0)
      BY StartKept
    <2>2. 0 \in 0 .. n /\ 0 + 1 \in starts /\ \A j \in 0 + 1 .. 0 : j \notin starts
      BY <1>1, <1>3
    <2>3. Upto(Start, 0, 0)
      BY <2>1, <2>2
    <2> QED BY <2>1, <2>2, <2>3
  <1>5. ASSUME NEW k \in 1 .. n, NEW s \in DrawState, All(s, k - 1), k \in starts
        PROVE  LET r == DrawGroup(s, GroupGlyphs(info, k, rtl, flat))
               IN  r \in DrawState /\ All(r, k)
    <2> DEFINE last == GroupEnd(info, k)
               glyphs == GroupGlyphs(info, k, rtl, flat)
               r == DrawGroup(s, glyphs)
               m == k - 1
    <2>1. GroupWell(info, glyphs, k, last, rtl)
      BY <1>1, GroupInOrder
    <2>2. /\ last \in k .. n /\ \A j \in k + 1 .. last : j \notin starts
          /\ last = n \/ last + 1 \in starts
      BY <1>1, GroupEnds DEF n, starts
    <2> HIDE DEF last, glyphs
    <2>3. /\ glyphs \in Seq(Glyphs) /\ Len(glyphs) = last - k + 1
          /\ \A i \in 1 .. last - k + 1 : glyphs[i].of = info[k + i - 1].of
      BY <2>1 DEF GroupWell, n
    <2>4. PICK m0 \in m .. n : Upto(s, m, m0)
      BY <1>5
    <2>5. m0 = m
      <3> SUFFICES ASSUME m0 # m PROVE FALSE
        OBVIOUS
      <3>1. k \in m + 1 .. m0
        BY <1>1, <2>4
      <3> QED BY <1>5, <2>4, <3>1
    <2>6. Complete(s, of, m) /\ m \in Nat
      BY <1>1, <2>4, <2>5
    <2>7. \A i \in DOMAIN glyphs : glyphs[i].of = of[m + i]
      <3> SUFFICES ASSUME NEW i \in DOMAIN glyphs PROVE glyphs[i].of = of[m + i]
        OBVIOUS
      <3>1. i \in 1 .. last - k + 1
        BY <2>3
      <3>2. m + i = k + i - 1 /\ m + i \in 1 .. n
        BY <1>1, <2>2, <3>1
      <3> QED BY <1>2, <2>3, <3>1, <3>2
    <2> HIDE DEF m
    <2>8. Complete(r, of, m + Len(glyphs)) /\ r \in DrawState
      <3>1. glyphs \in Seq(Glyphs) /\ s \in DrawState /\ m \in Nat
        BY <2>3, <2>6
      <3> HIDE DEF Upto, All, I
      <3> QED BY <2>6, <2>7, <3>1, GroupComplete
    <2>9. m + Len(glyphs) = last
      BY <1>1, <2>2, <2>3 DEF m
    <2> HIDE DEF r
    <2>10. Upto(r, k, last)
      BY <2>2, <2>8, <2>9
    <2>11. r \in DrawState /\ All(r, k)
      BY <2>2, <2>8, <2>10
    <2> QED BY <2>11 DEF r, glyphs
  <1>6. ASSUME NEW k \in 1 .. n, NEW s \in DrawState, All(s, k - 1), k \notin starts
        PROVE  All(s, k)
    <2>1. PICK m \in k - 1 .. n : Upto(s, k - 1, m)
      BY <1>6
    <2>2. m # k - 1
      <3>1. (k - 1) + 1 = k /\ k - 1 # n
        BY <1>1
      <3> QED BY <1>6, <2>1, <3>1
    <2>3. m \in k .. n /\ \A j \in k + 1 .. m : j \in (k - 1) + 1 .. m
      BY <1>1, <2>2
    <2>4. Upto(s, k, m)
      BY <2>1, <2>3
    <2> QED BY <1>6, <2>3, <2>4
  <1>7. \A k \in 0 .. n : I[k] = {s \in DrawState : All(s, k)}
    OBVIOUS
  <1>8. /\ 0 \in 0 .. n /\ n \in 0 .. n /\ \A k \in 1 .. n : k \in 0 .. n /\ k - 1 \in 0 .. n
    BY <1>1
  <1>9. \A s : All(s, n) => Complete(s, of, n)
    <2> SUFFICES ASSUME NEW s, All(s, n) PROVE Complete(s, of, n)
      OBVIOUS
    <2>1. PICK m \in n .. n : Upto(s, n, m)
      OBVIOUS
    <2>2. m = n
      BY <1>1
    <2> QED BY <2>1, <2>2
  <1> HIDE DEF All, I
  <1>10. Start \in I[0]
    BY <1>4, <1>7, <1>8, StartKept
  <1>11. ASSUME NEW k \in 1 .. n, NEW s \in I[k - 1] PROVE Grouped(info, rtl, flat, k, s) \in I[k]
    <2>1. s \in DrawState /\ All(s, k - 1)
      BY <1>7, <1>8
    <2>2. Grouped(info, rtl, flat, k, s) \in DrawState /\ All(Grouped(info, rtl, flat, k, s), k)
      BY <1>5, <1>6, <2>1 DEF Grouped, starts
    <2> QED BY <1>7, <1>8, <2>2
  <1>12. render_segment(info, rtl, flat) \in I[n]
    BY <1>1, <1>10, <1>11, SegmentDrawn DEF n
  <1>13. All(render_segment(info, rtl, flat), n)
    BY <1>7, <1>8, <1>12
  <1> QED BY <1>9, <1>13 DEF n, of

\* A run drawn: st is what render_segment leaves.
Rendered(run, info, st) ==
    LET rtl == run.level % 2 = 1
    IN  /\ ShapedWell(info, run.from, run.to, rtl)
        /\ Kept(st) /\ Places(st, rtl)
        /\ (\A k \in 1 .. Len(info) : info[k].cluster = info[k].of)
           => Complete(st, [k \in 1 .. Len(info) |-> info[k].of], Len(info))
        /\ glyph_count' = st.count /\ drawn' = st.drawn

\* A step renders the run it appends.
LEMMA RunRendered ==
    ASSUME TextTyped, glyph_count \in Nat, ShapeNext
    PROVE  \E run, info, st : NewRun(run) /\ Rendered(run, info, st)
  <1>1. PICK run : NewRun(run)
    BY RunAppended DEF TextTyped, ShapeNext
  <1>2. runs \in Seq(Runs) /\ run \in Runs /\ runs' = Append(runs, run)
    BY <1>1 DEF NewRun, TextTyped, Typed
  <1>3. runs'[Len(runs')] = run
    BY <1>2
  <1>4. run.from \in Nat /\ run.to \in Nat /\ run.from < run.to
    BY <1>1 DEF NewRun, TextTyped, Typed
  <1> DEFINE rtl == run.level % 2 = 1
             span == run.from .. run.to - 1
  <1>5. PICK missing \in SUBSET span, flat \in SUBSET {q \in span : text[q + 1] \in Marks} :
           /\ glyph_count' = render_segment(Shaped(run.from, run.to, rtl, missing, flat), rtl, flat).count
           /\ drawn' = render_segment(Shaped(run.from, run.to, rtl, missing, flat), rtl, flat).drawn
    BY Zenon, <1>3 DEF ShapeNext
  <1> DEFINE info == Shaped(run.from, run.to, rtl, missing, flat)
             st == render_segment(info, rtl, flat)
  <1>6. rtl \in BOOLEAN
    OBVIOUS
  <1> HIDE DEF rtl
  <1>7. ShapedWell(info, run.from, run.to, rtl)
    BY <1>4, <1>6, ShapedInOrder
  <1> HIDE DEF info
  <1>8. Kept(st) /\ Places(st, rtl)
    BY <1>4, <1>6, <1>7, SegmentKept
  <1>9. (\A k \in 1 .. Len(info) : info[k].cluster = info[k].of)
        => Complete(st, [k \in 1 .. Len(info) |-> info[k].of], Len(info))
    BY <1>4, <1>6, <1>7, SegmentComplete
  <1>10. glyph_count' = st.count /\ drawn' = st.drawn
    BY <1>5 DEF info
  <1> HIDE DEF st
  <1>11. Rendered(run, info, st)
    BY <1>7, <1>8, <1>9, <1>10 DEF Rendered, rtl
  <1> QED BY <1>1, <1>11

\* What a step draws depends on it only, apart from the count of the places.
LEMMA DrawnRight ==
    ShapeSpec => [](DrawnAtTakenPlaces /\ ClusterOwnsPlace /\ EveryCodepointDrawn)
  <1> DEFINE I == /\ glyph_count \in Nat
                  /\ DrawnAtTakenPlaces /\ ClusterOwnsPlace /\ EveryCodepointDrawn
  <1>1. ShapeInit => I
    BY DEF ShapeInit, Init, DrawnAtTakenPlaces, ClusterOwnsPlace, EveryCodepointDrawn
  <1>2. TextTyped /\ TextTyped' /\ I /\ [ShapeNext]_shapeVars => I'
    <2> SUFFICES ASSUME TextTyped, TextTyped', I, [ShapeNext]_shapeVars PROVE I'
      OBVIOUS
    <2>1. CASE ShapeNext
      <3>1. PICK run, info, st : NewRun(run) /\ Rendered(run, info, st)
        BY <2>1, RunRendered
      <3> DEFINE rtl == run.level % 2 = 1
                 from == run.from
                 to == run.to
                 n == Len(info)
                 d == st.drawn
                 m == Len(d)
      <3>2. rtl \in BOOLEAN
        OBVIOUS
      <3> HIDE DEF rtl
      <3>3. /\ ShapedWell(info, from, to, rtl) /\ Kept(st) /\ Places(st, rtl)
            /\ (\A k \in 1 .. n : info[k].cluster = info[k].of)
               => Complete(st, [k \in 1 .. n |-> info[k].of], n)
            /\ glyph_count' = st.count /\ drawn' = d
        BY <3>1 DEF Rendered, rtl
      <3>4. runs \in Seq(Runs) /\ run \in Runs /\ runs' = Append(runs, run) /\ text' = text
            /\ from \in Nat /\ to \in Nat /\ from < to
        BY <3>1 DEF NewRun, TextTyped, Typed
      <3>5. runs'[Len(runs')] = run
        BY <3>4
      <3>6. d \in Seq(Drawings) /\ st.count \in Nat
        BY <3>3 DEF Kept, DrawState
      <3>7. m \in Nat /\ DOMAIN d = 1 .. m
        BY <3>6
      <3> HIDE DEF d
      <3>8. DrawnAtTakenPlaces'
        <4> SUFFICES ASSUME NEW k \in DOMAIN d,
                            NEW p \in d[k].slot .. d[k].slot + Extra(d[k].glyph.cluster)
                     PROVE  /\ p \in 0 .. st.count - 1
                            /\ p < GlyphNum \/ (p = GlyphNum /\ d[k].slot = GlyphNum - 1)
          BY <3>3, <3>4 DEF DrawnAtTakenPlaces, LastPlace, Glyph, Extra
        <4>1. Taken(d[k].slot, Extra(d[k].glyph.cluster), st.count)
          BY <3>3 DEF Kept, d
        <4>2. Extra(d[k].glyph.cluster) \in {0, 1}
          BY DEF Extra
        <4> QED BY <3>6, <4>1, <4>2, ShapeAssumption DEF Taken
      <3>9. ClusterOwnsPlace'
        <4>1. Advancing(d) => \A k, l \in 1 .. m : k < l => Apart(d, k, l)
          BY <3>3 DEF Places, d
        <4>2. Advancing(d) => \A k, l \in DOMAIN d : k < l => Apart(d, k, l)
          BY <3>7, <4>1
        <4> QED BY <3>3, <3>4, <4>2 DEF ClusterOwnsPlace, LastPlace, Glyph, Advancing, Apart, Extra
      <3>10. EveryCodepointDrawn'
        <4> SUFFICES ASSUME glyph_count' < GlyphNum,
                            \A q \in from .. to - 1 : Cluster(q, from) = q,
                            NEW q \in from .. to - 1
                     PROVE  Cardinality({k \in DOMAIN d : d[k].glyph.of = q}) = 1
          BY <3>3, <3>4, <3>5 DEF EveryCodepointDrawn, Glyph, Cluster
        <4>1. n = to - from
              /\ \A k \in 1 .. n : /\ info[k].of = At(from, to, rtl, k) /\ info[k].of \in from .. to - 1
                                   /\ info[k].cluster = Cluster(At(from, to, rtl, k), from)
          BY <3>3 DEF ShapedWell
        <4>2. \A k \in 1 .. n : info[k].cluster = info[k].of
          BY <4>1
        <4>3. Complete(st, [k \in 1 .. n |-> info[k].of], n)
          BY <3>3, <4>2
        <4>4. m = n /\ \A k \in 1 .. n : d[k].glyph.of = info[k].of
          BY <3>3, <4>3 DEF Complete, d
        <4> DEFINE k0 == IF rtl THEN to - q ELSE q - from + 1
                   S == {k \in DOMAIN d : d[k].glyph.of = q}
        <4>5. k0 \in 1 .. n /\ At(from, to, rtl, k0) = q
          BY <3>2, <3>4, <4>1 DEF At
        <4>6. ASSUME NEW k \in 1 .. n, At(from, to, rtl, k) = q PROVE k = k0
          BY <3>2, <3>4, <4>1, <4>6 DEF At
        <4> HIDE DEF k0
        <4>7. S = {k0}
          BY <3>7, <4>1, <4>4, <4>5, <4>6
        <4> HIDE DEF S
        <4>8. Cardinality(S) = 1
          BY <4>7, FS_Singleton
        <4> QED BY <4>8 DEF S
      <3> QED BY <3>3, <3>6, <3>8, <3>9, <3>10
    <2>2. CASE UNCHANGED shapeVars
      <3>1. /\ text' = text /\ runs' = runs
            /\ glyph_count' = glyph_count /\ drawn' = drawn
        BY <2>2 DEF shapeVars, vars
      <3>2. DrawnAtTakenPlaces' /\ ClusterOwnsPlace'
        BY <3>1 DEF DrawnAtTakenPlaces, ClusterOwnsPlace, LastPlace, Glyph, Extra
      <3>3. EveryCodepointDrawn'
        BY <3>1 DEF EveryCodepointDrawn, Glyph, Cluster
      <3> QED BY <3>1, <3>2, <3>3
    <2> QED BY <2>1, <2>2
  <1>3. I => DrawnAtTakenPlaces /\ ClusterOwnsPlace /\ EveryCodepointDrawn
    OBVIOUS
  <1> HIDE DEF I
  <1> QED BY <1>1, <1>2, <1>3, TypedAlways, PTL DEF ShapeSpec

\* Glyphs are drawn at places that were counted and are in the render buffer, but
\* for the second place of a wide character at the buffer's last one: a glyph that
\* takes no new place comes after one that did, also when the places ran out in an
\* earlier group.
THEOREM GlyphsAtTakenPlaces == ShapeSpec => []DrawnAtTakenPlaces
  BY DrawnRight, PTL

\* A cluster is drawn at one place and the next behind it, wide ones included, in
\* both directions and with any glyphs missing: what a group is shaped from again
\* lies between the groups around it.
THEOREM ClustersApart == ShapeSpec => []ClusterOwnsPlace
  BY DrawnRight, PTL

\* While there are places, each codepoint of a run without longer clusters is
\* drawn once: the groups that are shaped again show what was missing, no more.
THEOREM AllDrawnOnce == ShapeSpec => []EveryCodepointDrawn
  BY DrawnRight, PTL
=============================================================================
