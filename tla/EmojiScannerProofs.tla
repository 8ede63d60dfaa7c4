------------------------- MODULE EmojiScannerProofs -------------------------
(***************************************************************************)
(* That each call of the emoji scanner takes the longest sequence that     *)
(* starts where it starts, for texts of any length over any codepoints.    *)
(*                                                                         *)
(* Three things meet in it.  The binary searches find what is in the       *)
(* tables, so the category of a codepoint tells what the grammar asks of   *)
(* it.  The tables of the automaton hold, row by row, the transitions      *)
(* below.  And after k characters each state of the automaton stands for   *)
(* what those characters are (ReadsTo), from which follows what may still  *)
(* come: a transition that goes on, marks a match or returns is right      *)
(* about every longer text (Answers).                                      *)
(***************************************************************************)
EXTENDS EmojiScanner, ScanProofs

(***************************************************************************)
(* The binary search                                                       *)
(***************************************************************************)

\* The ends of interval k.
Low(interval, k)  == interval[k][1]
High(interval, k) == interval[k][2]

InOneOf(ch, interval) ==
    \E k \in DOMAIN interval : ch \in Low(interval, k) .. High(interval, k)

Sorted(interval) ==
    /\ Len(interval) \in Nat /\ DOMAIN interval = 1 .. Len(interval)
    /\ \A k \in 1 .. Len(interval) :
          /\ Low(interval, k) \in Int /\ High(interval, k) \in Int
          /\ Low(interval, k) <= High(interval, k)
    /\ \A j, k \in 1 .. Len(interval) : j < k => High(interval, j) < Low(interval, k)

Between(ch, interval, low, high) ==
    \E k \in low + 1 .. high : Low(interval, k) <= ch /\ ch <= High(interval, k)

\* What the middle of a range says of its halves.
Halved(ch, interval, low, mid, high) ==
    /\ mid \in low .. high - 1
    /\ ch < Low(interval, mid + 1) =>
         (Between(ch, interval, low, high) <=> Between(ch, interval, low, mid))
    /\ ch > High(interval, mid + 1) =>
         (Between(ch, interval, low, high) <=> Between(ch, interval, mid + 1, high))
    /\ ~(ch < Low(interval, mid + 1)) /\ ~(ch > High(interval, mid + 1)) =>
         Between(ch, interval, low, high)

\* The middle of a range tells the half that a codepoint is in.
LEMMA Halves ==
    ASSUME NEW ch \in Int, NEW interval, Sorted(interval),
           NEW low \in 0 .. Len(interval), NEW high \in 0 .. Len(interval), high > low,
           NEW mid, mid = (low + high) \div 2
    PROVE  Halved(ch, interval, low, mid, high)
  <1>1. Len(interval) \in Nat
    BY DEF Sorted
  <1>2. mid \in low .. high - 1 /\ mid + 1 \in low + 1 .. high
    BY <1>1
  <1>3. \A k \in 1 .. Len(interval) :
           /\ Low(interval, k) \in Int /\ High(interval, k) \in Int
           /\ Low(interval, k) <= High(interval, k)
    BY DEF Sorted
  <1>4. \A k \in low + 1 .. high : k \in 1 .. Len(interval)
    BY <1>1
  <1>5. ASSUME ch < Low(interval, mid + 1), NEW k \in low + 1 .. high, Low(interval, k) <= ch
        PROVE  k <= mid
    <2>1. ASSUME k > mid + 1 PROVE FALSE
      <3>1. High(interval, mid + 1) < Low(interval, k)
        BY <1>1, <1>2, <1>4, <2>1 DEF Sorted
      <3> QED BY <1>2, <1>3, <1>4, <1>5, <3>1
    <2> QED BY <1>2, <1>3, <1>4, <1>5, <2>1
  <1>6. ASSUME ch > High(interval, mid + 1), NEW k \in low + 1 .. high, ch <= High(interval, k)
        PROVE  k > mid + 1
    <2>1. ASSUME k < mid + 1 PROVE FALSE
      <3>1. High(interval, k) < Low(interval, mid + 1)
        BY <1>1, <1>2, <1>4, <2>1 DEF Sorted
      <3> QED BY <1>2, <1>3, <1>4, <1>6, <3>1
    <2> QED BY <1>2, <1>3, <1>4, <1>6, <2>1
  <1>7. mid + 1 \in 1 .. Len(interval)
    BY <1>2, <1>4
  <1> QED BY <1>2, <1>3, <1>5, <1>6, <1>7 DEF Between, Halved

\* bsearch_interval finds a codepoint if and only if one of the intervals has it, in
\* any table whose intervals are in order and do not overlap.
THEOREM SearchFinds ==
    ASSUME NEW ch \in Int, NEW interval, Sorted(interval)
    PROVE  bsearch_interval(ch, interval) <=> InOneOf(ch, interval)
  <1> DEFINE N == Len(interval)
             In(low, high) == Between(ch, interval, low, high)
             Step(f, low, high) ==
                 LET mid == (low + high) \div 2
                 IN  /\ high > low
                     /\ IF ch < interval[mid + 1][1] THEN f[<<low, mid>>]
                        ELSE ch > interval[mid + 1][2] => f[<<mid + 1, high>>]
             Rec(f) == f = [r \in (0 .. N) \X (0 .. N) |-> Step(f, r[1], r[2])]
             found == CHOOSE f : Rec(f)
             g == [r \in (0 .. N) \X (0 .. N) |-> In(r[1], r[2])]
  <1>1. bsearch_interval(ch, interval) = found[<<0, N>>]
    BY DEF bsearch_interval
  <1>2. N \in Nat
    BY DEF Sorted
  <1>3. ASSUME NEW low \in 0 .. N, NEW high \in 0 .. N, NEW f,
               \A l, h \in 0 .. N : h >= l /\ h - l < high - low => (f[<<l, h>>] <=> In(l, h))
        PROVE  Step(f, low, high) <=> In(low, high)
    <2> DEFINE mid == (low + high) \div 2
    <2>1. CASE ~(high > low)
      <3>1. ~In(low, high)
        BY <1>2, <2>1 DEF Between
      <3>2. ~Step(f, low, high)
        BY <2>1
      <3> HIDE DEF In, Step
      <3> QED BY <3>1, <3>2
    <2>2. CASE high > low
      <3>1. /\ mid \in low .. high - 1
            /\ ch < Low(interval, mid + 1) => (In(low, high) <=> In(low, mid))
            /\ ch > High(interval, mid + 1) => (In(low, high) <=> In(mid + 1, high))
            /\ ~(ch < Low(interval, mid + 1)) /\ ~(ch > High(interval, mid + 1)) => In(low, high)
        <4> HIDE DEF mid
        <4>1. mid = (low + high) \div 2
          BY DEF mid
        <4>2. Halved(ch, interval, low, mid, high)
          BY <2>2, <4>1, Halves
        <4> QED BY Zenon, <4>2 DEF Halved
      <3> HIDE DEF In
      <3>2. Step(f, low, high) <=> IF ch < Low(interval, mid + 1) THEN f[<<low, mid>>]
                                   ELSE ch > High(interval, mid + 1) => f[<<mid + 1, high>>]
        BY Zenon, <2>2 DEF mid, Low, High
      <3> HIDE DEF mid, Step
      <3>3. mid \in 0 .. N /\ mid + 1 \in 0 .. N
            /\ mid >= low /\ mid - low < high - low
            /\ high >= mid + 1 /\ high - (mid + 1) < high - low
        BY <1>2, <3>1
      <3>4. f[<<low, mid>>] <=> In(low, mid)
        BY Zenon, <1>3, <3>3
      <3>5. f[<<mid + 1, high>>] <=> In(mid + 1, high)
        BY Zenon, <1>3, <3>3
      <3> QED BY Zenon, <3>1, <3>2, <3>4, <3>5
    <2> QED BY <2>1, <2>2
  <1>12. \A low, high, f : Step(f, low, high) \in BOOLEAN
    BY Zenon
  <1>13. \A low, high : In(low, high) \in BOOLEAN
    BY Zenon DEF Between
  <1> HIDE DEF In, Step
  <1>4. Rec(g)
    <2>1. \A l, h \in 0 .. N : g[<<l, h>>] = In(l, h)
      OBVIOUS
    <2> HIDE DEF g
    <2>2. \A low, high \in 0 .. N : Step(g, low, high) <=> In(low, high)
      BY Zenon, <1>3, <2>1
    <2>3. \A low, high \in 0 .. N : Step(g, low, high) = In(low, high)
      BY Zenon, <1>12, <1>13, <2>2
    <2> QED BY <2>3 DEF g
  <1>5. Rec(found)
    <2> HIDE DEF Rec, g
    <2> QED BY <1>4
  <1> HIDE DEF found
  <1>6. \A low, high \in 0 .. N : found[<<low, high>>] = Step(found, low, high)
    BY <1>5
  <1> HIDE DEF Rec
  <1> DEFINE S == {d \in 0 .. N : \A l, h \in 0 .. N : h - l <= d => (found[<<l, h>>] <=> In(l, h))}
  <1>7. 0 \in S
    <2>1. ASSUME NEW l \in 0 .. N, NEW h \in 0 .. N, h - l <= 0
          PROVE  (found[<<l, h>>] <=> In(l, h))
      <3>1. \A a, b \in 0 .. N : b >= a /\ b - a < h - l => (found[<<a, b>>] <=> In(a, b))
        BY <2>1
      <3> QED BY <1>3, <1>6, <3>1
    <2> QED BY <1>2, <2>1
  <1>8. ASSUME NEW d \in 0 .. N - 1, d \in S PROVE d + 1 \in S
    <2>1. ASSUME NEW l \in 0 .. N, NEW h \in 0 .. N, h - l <= d + 1
          PROVE  (found[<<l, h>>] <=> In(l, h))
      <3>1. \A a, b \in 0 .. N : b >= a /\ b - a < h - l => (found[<<a, b>>] <=> In(a, b))
        BY <1>2, <1>8, <2>1
      <3> QED BY <1>3, <1>6, <3>1
    <2> QED BY <1>2, <2>1
  <1>9. N \in S
    <2>1. 0 .. N \subseteq S
      <3> HIDE DEF S
      <3> QED BY <1>2, <1>7, <1>8, UpTo
    <2> QED BY <1>2, <2>1
  <1>10. found[<<0, N>>] <=> In(0, N)
    BY <1>2, <1>9
  <1>11. In(0, N) <=> InOneOf(ch, interval)
    <2>1. /\ DOMAIN interval = 1 .. N
          /\ \A k \in 1 .. N : Low(interval, k) \in Int /\ High(interval, k) \in Int
      BY DEF Sorted
    <2>2. \A k \in 1 .. N : ch \in Low(interval, k) .. High(interval, k) <=>
                               Low(interval, k) <= ch /\ ch <= High(interval, k)
      BY <2>1
    <2>3. 0 + 1 = 1
      OBVIOUS
    <2> QED BY Zenon, <2>1, <2>2, <2>3 DEF In, Between, InOneOf
  <1> QED BY <1>1, <1>10, <1>11

(***************************************************************************)
(* The tables                                                              *)
(***************************************************************************)

Tables == {Emoji_table, Emoji_Presentation_table, Emoji_Modifier_table, Emoji_Modifier_Base_table}

\* The ends of n intervals, each after the one before it.
Stepwise(interval, n) ==
    /\ Len(interval) = n /\ DOMAIN interval = 1 .. n
    /\ \A k \in 1 .. n :
          /\ Low(interval, k) \in Int /\ High(interval, k) \in Int
          /\ Low(interval, k) <= High(interval, k)
    /\ \A k \in 1 .. n - 1 : High(interval, k) < Low(interval, k + 1)

\* Then each interval comes after all that are before it.
LEMMA StepwiseSorted ==
    ASSUME NEW interval, NEW n \in Nat, Stepwise(interval, n)
    PROVE  Sorted(interval)
  <1>1. ASSUME NEW j \in 1 .. n
        PROVE  \A k \in 1 .. n : j < k => High(interval, j) < Low(interval, k)
    <2> DEFINE Before(d) == \A k \in j + 1 .. j + d : High(interval, j) < Low(interval, k)
               S == {d \in 0 .. n - j : Before(d)}
    <2>1. 0 \in S
      OBVIOUS
    <2>2. ASSUME NEW d \in 0 .. (n - j) - 1, d \in S PROVE d + 1 \in S
      <3>0. Before(d)
        BY <2>2
      <3>1. High(interval, j) < Low(interval, j + (d + 1))
        <4>1. CASE d = 0
          <5>1. j \in 1 .. n - 1 /\ j + (d + 1) = j + 1
            BY <4>1
          <5> QED BY <5>1 DEF Stepwise
        <4>2. CASE d # 0
          <5>1. j + d \in j + 1 .. j + d /\ j + d \in 1 .. n - 1 /\ (j + d) + 1 = j + (d + 1)
                /\ j + (d + 1) \in 1 .. n /\ j + d \in 1 .. n
            BY <4>2
          <5>2. High(interval, j) < Low(interval, j + d)
            BY <3>0, <5>1
          <5>3. /\ Low(interval, j + d) <= High(interval, j + d)
                /\ High(interval, j + d) < Low(interval, (j + d) + 1)
            BY <5>1 DEF Stepwise
          <5>4. /\ High(interval, j) \in Int /\ Low(interval, j + d) \in Int
                /\ High(interval, j + d) \in Int /\ Low(interval, j + (d + 1)) \in Int
            BY <5>1 DEF Stepwise
          <5> QED BY <5>1, <5>2, <5>3, <5>4
        <4> QED BY <4>1, <4>2
      <3>2. \A k \in j + 1 .. j + (d + 1) : k \in j + 1 .. j + d \/ k = j + (d + 1)
        OBVIOUS
      <3>3. Before(d + 1)
        BY Zenon, <3>0, <3>1, <3>2
      <3> HIDE DEF Before
      <3> QED BY <3>3
    <2>3. n - j \in S
      <3>1. n - j \in Nat /\ n - j \in 0 .. n - j
        OBVIOUS
      <3>2. 0 .. n - j \subseteq S
        <4> HIDE DEF S
        <4> QED BY <2>1, <2>2, <3>1, UpTo
      <3> QED BY <3>1, <3>2
    <2>4. Before(n - j) /\ \A k \in 1 .. n : j < k => k \in j + 1 .. j + (n - j)
      BY <2>3
    <2> QED BY <2>4
  <1> QED BY <1>1 DEF Sorted, Stepwise

\* So the four tables of Unicode are,
LEMMA TablesStepwise ==
    /\ Stepwise(Emoji_table, 151) /\ Stepwise(Emoji_Presentation_table, 81)
    /\ Stepwise(Emoji_Modifier_table, 1) /\ Stepwise(Emoji_Modifier_Base_table, 40)
  <1>1. Stepwise(Emoji_table, 151)
    BY SMTT(60) DEF Emoji_table, Stepwise, Low, High
  <1>2. Stepwise(Emoji_Presentation_table, 81)
    BY SMTT(60) DEF Emoji_Presentation_table, Stepwise, Low, High
  <1>3. Stepwise(Emoji_Modifier_table, 1)
    BY SMTT(60) DEF Emoji_Modifier_table, Stepwise, Low, High
  <1>4. Stepwise(Emoji_Modifier_Base_table, 40)
    BY SMTT(60) DEF Emoji_Modifier_Base_table, Stepwise, Low, High
  <1> QED BY <1>1, <1>2, <1>3, <1>4

\* and the search may rely on it.
LEMMA TablesSorted == \A table \in Tables : Sorted(table) /\ Len(table) > 0
  <1>1. ASSUME NEW table, NEW n \in Nat \ {0}, Stepwise(table, n)
        PROVE  Sorted(table) /\ Len(table) > 0
    BY <1>1, StepwiseSorted DEF Stepwise
  <1>2. 151 \in Nat \ {0} /\ 81 \in Nat \ {0} /\ 1 \in Nat \ {0} /\ 40 \in Nat \ {0}
    OBVIOUS
  <1> QED BY Zenon, <1>1, <1>2, TablesStepwise DEF Tables

\* The comparison with the table's first codepoint leaves none out.
LEMMA InTableIs ==
    ASSUME NEW ch \in Int, NEW table \in Tables
    PROVE  IsInTable(ch, table) <=> InOneOf(ch, table)
  <1>1. Sorted(table) /\ Len(table) > 0
    BY TablesSorted
  <1>2. bsearch_interval(ch, table) <=> InOneOf(ch, table)
    BY <1>1, SearchFinds
  <1>3. InOneOf(ch, table) => ch >= Low(table, 1)
    <2> SUFFICES ASSUME NEW k \in 1 .. Len(table), ch \in Low(table, k) .. High(table, k)
                 PROVE  ch >= Low(table, 1)
      BY <1>1 DEF InOneOf, Sorted
    <2>1. 1 \in 1 .. Len(table) /\ (k = 1 \/ 1 < k)
      BY <1>1 DEF Sorted
    <2>2. /\ Low(table, 1) \in Int /\ High(table, 1) \in Int /\ Low(table, 1) <= High(table, 1)
          /\ Low(table, k) \in Int /\ High(table, k) \in Int
      BY <1>1, <2>1 DEF Sorted
    <2>3. k = 1 \/ High(table, 1) < Low(table, k)
      BY <1>1, <2>1 DEF Sorted
    <2> QED BY <2>1, <2>2, <2>3
  <1> QED BY <1>2, <1>3 DEF IsInTable, Low

\* Where the intervals of the other tables are among those of all emoji.
PresentationAt ==
    <<12, 15, 15, 15, 21, 25, 36, 42, 43, 46, 48, 50, 51, 53, 55, 56, 57, 57, 58, 59, 61, 62, 69,
      73, 74, 75, 76, 78, 80, 81, 84, 85, 86, 91, 92, 95, 96, 97, 98, 99, 100, 101, 101, 102, 103,
      104, 104, 104, 107, 107, 107, 108, 109, 109, 109, 110, 111, 112, 114, 118, 119, 131, 132,
      133, 133, 134, 135, 137, 139, 140, 141, 142, 143, 144, 145, 146, 147, 148, 149, 150, 151>>
ModifierBaseAt ==
    <<27, 58, 62, 104, 107, 107, 107, 109, 109, 109, 109, 109, 109, 109, 109, 109, 114, 114, 117,
      118, 131, 131, 132, 132, 132, 133, 142, 142, 142, 142, 142, 143, 144, 144, 144, 144, 144,
      144, 148, 151>>

\* Interval k of a table of n intervals is within interval at[k] of the other.
Within(table, n, at, other, m) ==
    \A k \in 1 .. n : /\ at[k] \in 1 .. m
                      /\ Low(other, at[k]) <= Low(table, k)
                      /\ High(table, k) <= High(other, at[k])

\* Then its codepoints are in the other table, too.
LEMMA WithinFound ==
    ASSUME NEW table, NEW n \in Nat, NEW at, NEW other, NEW m \in Nat,
           Stepwise(table, n), Stepwise(other, m), Within(table, n, at, other, m),
           NEW ch \in Int, InOneOf(ch, table)
    PROVE  InOneOf(ch, other)
  <1>1. PICK k \in 1 .. n : ch \in Low(table, k) .. High(table, k)
    BY DEF InOneOf, Stepwise
  <1>2. PICK j \in 1 .. m : Low(other, j) <= Low(table, k) /\ High(table, k) <= High(other, j)
    BY DEF Within
  <1>3. /\ Low(table, k) \in Int /\ High(table, k) \in Int
        /\ Low(other, j) \in Int /\ High(other, j) \in Int
    BY DEF Stepwise
  <1>4. ch \in Low(other, j) .. High(other, j)
    BY <1>1, <1>2, <1>3
  <1> QED BY <1>4 DEF InOneOf, Stepwise

\* Codepoints shown as emoji are emoji, and none of the first ones.
LEMMA PresentationIsEmoji ==
    ASSUME NEW ch \in Int, InOneOf(ch, Emoji_Presentation_table)
    PROVE  InOneOf(ch, Emoji_table) /\ ch >= \h231A
  <1> DEFINE table == Emoji_Presentation_table
  <1>1. Within(table, 81, PresentationAt, Emoji_table, 151)
    BY SMTT(60) DEF Within, Emoji_Presentation_table, PresentationAt, Emoji_table, Low, High
  <1>2. InOneOf(ch, Emoji_table)
    BY <1>1, TablesStepwise, WithinFound
  <1>3. \A k \in 1 .. 81 : Low(table, k) >= \h231A
    BY SMTT(60) DEF Emoji_Presentation_table, Low
  <1>4. PICK k \in 1 .. 81 : ch \in Low(table, k) .. High(table, k)
    BY TablesStepwise DEF InOneOf, Stepwise
  <1>5. Low(table, k) \in Int /\ High(table, k) \in Int
    BY TablesStepwise DEF Stepwise
  <1> HIDE DEF table
  <1> QED BY <1>2, <1>3, <1>4, <1>5

\* So are those that a modifier may follow, and they are in no other class.
LEMMA ModifierBaseIsEmoji ==
    ASSUME NEW ch \in Int, InOneOf(ch, Emoji_Modifier_Base_table)
    PROVE  /\ InOneOf(ch, Emoji_table)
           /\ ch >= \h231A /\ ch # \h1F3F4
           /\ ch \notin \h1F3FB .. \h1F3FF /\ ch \notin \h1F1E6 .. \h1F1FF
  <1> DEFINE table == Emoji_Modifier_Base_table
  <1>1. Within(table, 40, ModifierBaseAt, Emoji_table, 151)
    BY SMTT(60) DEF Within, Emoji_Modifier_Base_table, ModifierBaseAt, Emoji_table, Low,
                    High
  <1>2. InOneOf(ch, Emoji_table)
    BY <1>1, TablesStepwise, WithinFound
  <1>3. \A k \in 1 .. 40 : /\ Low(table, k) >= \h231A
                           /\ High(table, k) < \h1F3F4 \/ Low(table, k) > \h1F3FF
                           /\ High(table, k) < \h1F1E6 \/ Low(table, k) > \h1F1FF
    BY SMTT(60) DEF Emoji_Modifier_Base_table, Low, High
  <1>4. PICK k \in 1 .. 40 : ch \in Low(table, k) .. High(table, k)
    BY TablesStepwise DEF InOneOf, Stepwise
  <1>5. Low(table, k) \in Int /\ High(table, k) \in Int
    BY TablesStepwise DEF Stepwise
  <1> HIDE DEF table
  <1> QED BY <1>2, <1>3, <1>4, <1>5

\* What the tests of single codepoints take is no emoji by itself.
NoEmoji == \h61 .. \h7A \cup \h41 .. \h5A \cup \hE0030 .. \hE0039 \cup \hE0061 .. \hE007A
             \cup {\h20, \h20E3, \h20E0, \h200D, \hFE0E, \hFE0F, \hE007F}

\* The table leaves them out.
LEMMA NoEmojiInTable ==
    ASSUME NEW ch \in NoEmoji
    PROVE  ~InOneOf(ch, Emoji_table)
  <1> DEFINE low(k)  == Low(Emoji_table, k)
             high(k) == High(Emoji_table, k)
  <1>1. \A k \in 1 .. 151 : /\ low(k) \in Int /\ high(k) \in Int
                            /\ high(k) < \h61 \/ low(k) > \h7A
                            /\ high(k) < \h41 \/ low(k) > \h5A
                            /\ high(k) < \hE0030
    BY SMTT(60) DEF Emoji_table, Low, High
  <1>2. \A k \in 1 .. 151 : /\ high(k) < \h20 \/ low(k) > \h20
                            /\ high(k) < \h20E0 \/ low(k) > \h20E3
                            /\ high(k) < \h200D \/ low(k) > \h200D
                            /\ high(k) < \hFE0E \/ low(k) > \hFE0F
    BY SMTT(60) DEF Emoji_table, Low, High
  <1> HIDE DEF low, high
  <1>3. ASSUME NEW k \in 1 .. 151, ch \in low(k) .. high(k) PROVE FALSE
    <2>1. /\ ch \in Int
          /\ \/ \h61 <= ch /\ ch <= \h7A
             \/ \h41 <= ch /\ ch <= \h5A
             \/ ch >= \hE0030
             \/ ch = \h20
             \/ \h20E0 <= ch /\ ch <= \h20E3
             \/ ch = \h200D
             \/ \hFE0E <= ch /\ ch <= \hFE0F
      BY DEF NoEmoji
    <2>2. low(k) \in Int /\ high(k) \in Int /\ low(k) <= ch /\ ch <= high(k)
      BY <1>1, <1>3
    <2>3. /\ high(k) < \h61 \/ low(k) > \h7A
          /\ high(k) < \h41 \/ low(k) > \h5A
          /\ high(k) < \hE0030
          /\ high(k) < \h20 \/ low(k) > \h20
          /\ high(k) < \h20E0 \/ low(k) > \h20E3
          /\ high(k) < \h200D \/ low(k) > \h200D
          /\ high(k) < \hFE0E \/ low(k) > \hFE0F
      BY SMT, <1>1, <1>2
    <2> QED BY SMT, <2>1, <2>2, <2>3
  <1> QED BY SMT, <1>3, TablesStepwise DEF InOneOf, Stepwise, low, high

\* Codepoints of single tests that are emoji.
LEMMA SingleEmoji ==
    ASSUME NEW ch \in Int
    PROVE  /\ ch \in \h30 .. \h39 \cup {\h23, \h2A} => InOneOf(ch, Emoji_table)
           /\ ch = \h1F3F4 => InOneOf(ch, Emoji_table) /\ InOneOf(ch, Emoji_Presentation_table)
           /\ InOneOf(ch, Emoji_Modifier_table) <=> ch \in \h1F3FB .. \h1F3FF
  <1>1. /\ DOMAIN Emoji_table = 1 .. 151 /\ DOMAIN Emoji_Presentation_table = 1 .. 81
        /\ DOMAIN Emoji_Modifier_table = 1 .. 1
    BY TablesStepwise DEF Stepwise
  <1>2. /\ Low(Emoji_table, 1) = \h23 /\ High(Emoji_table, 1) = \h23
        /\ Low(Emoji_table, 2) = \h2A /\ High(Emoji_table, 2) = \h2A
        /\ Low(Emoji_table, 3) = \h30 /\ High(Emoji_table, 3) = \h39
    BY SMTT(60) DEF Emoji_table, Low, High
  <1>3. Low(Emoji_Presentation_table, 52) = \h1F3F4 /\ High(Emoji_Presentation_table, 52) = \h1F3F4
    BY SMTT(60) DEF Emoji_Presentation_table, Low, High
  <1>4. Low(Emoji_Modifier_table, 1) = \h1F3FB /\ High(Emoji_Modifier_table, 1) = \h1F3FF
    BY SMTT(60) DEF Emoji_Modifier_table, Low, High
  <1>5. ch \in \h30 .. \h39 \cup {\h23, \h2A} => InOneOf(ch, Emoji_table)
    BY <1>1, <1>2 DEF InOneOf
  <1>6. ch = \h1F3F4 => InOneOf(ch, Emoji_Presentation_table)
    BY <1>1, <1>3 DEF InOneOf
  <1>7. InOneOf(ch, Emoji_Modifier_table) <=> ch \in \h1F3FB .. \h1F3FF
    BY <1>1, <1>4 DEF InOneOf
  <1> QED BY <1>5, <1>6, <1>7, PresentationIsEmoji

(***************************************************************************)
(* What the category of a codepoint says                                   *)
(***************************************************************************)

RegionalRange == \h1F1E6 .. \h1F1FF
ModifierRange == \h1F3FB .. \h1F3FF
KeycapSet == \h30 .. \h39 \cup {\h23, \h2A}
TagRange == \hE0030 .. \hE0039 \cup \hE0061 .. \hE007A

\* Emoji that can stand alone.
StandsAlone(ch) == InOneOf(ch, Emoji_table) /\ ch \notin ModifierRange /\ ch \notin RegionalRange

\* The tests by the properties of the tables, in their order.
ByTable(ch) ==
    IF InOneOf(ch, Emoji_Modifier_Base_table) THEN EMOJI_MODIFIER_BASE
    ELSE IF ch \in ModifierRange THEN EMOJI_MODIFIER
    ELSE IF ch \in RegionalRange THEN REGIONAL_INDICATOR
    ELSE IF ch \in KeycapSet THEN KEYCAP_BASE
    ELSE IF InOneOf(ch, Emoji_Presentation_table) THEN EMOJI_EMOJI_PRESENTATION
    ELSE IF InOneOf(ch, Emoji_table) THEN EMOJI_TEXT_PRESENTATION
    ELSE Other

\* What the tests of single codepoints take, emoji or not.
Tested == NoEmoji \cup \h30 .. \h39 \cup {\h1F3F4}

\* Where no test of a single codepoint holds, the tables decide.
LEMMA CategoryByTable ==
    ASSUME NEW ch \in Int, ch \notin Tested
    PROVE  EmojiSegmentationCategory(ch) = ByTable(ch)
  <1>1. \A table \in Tables : IsInTable(ch, table) <=> InOneOf(ch, table)
    BY InTableIs
  <1>2. /\ IsInTable(ch, Emoji_Modifier_Base_table) <=> InOneOf(ch, Emoji_Modifier_Base_table)
        /\ IsInTable(ch, Emoji_Modifier_table) <=> ch \in ModifierRange
        /\ IsInTable(ch, Emoji_Presentation_table) <=> InOneOf(ch, Emoji_Presentation_table)
        /\ IsInTable(ch, Emoji_table) <=> InOneOf(ch, Emoji_table)
    <2>1. InOneOf(ch, Emoji_Modifier_table) <=> ch \in ModifierRange
      BY SingleEmoji DEF ModifierRange
    <2> QED BY Zenon, <1>1, <2>1 DEF Tables
  <1>3. /\ ch \notin \h61 .. \h7A \cup \h41 .. \h5A \cup {\h20} /\ ch \notin \h30 .. \h39
        /\ ch # \h20E3 /\ ch # \h20E0 /\ ch # \h200D /\ ch # \hFE0E /\ ch # \hFE0F
        /\ ch # \h1F3F4 /\ ch # \hE007F
        /\ ch \notin \hE0030 .. \hE0039 \cup \hE0061 .. \hE007A
    BY SMT DEF Tested, NoEmoji
  <1>4. /\ Is_Regional_Indicator(ch) <=> ch \in RegionalRange
        /\ Is_Emoji_Keycap_Base(ch) <=> ch \in KeycapSet
    BY SMT DEF Is_Regional_Indicator, Is_Emoji_Keycap_Base, RegionalRange, KeycapSet
  <1> QED BY SMTT(60), <1>2, <1>3, <1>4 DEF EmojiSegmentationCategory, ByTable

\* The category tells the classes that the grammar is made of.
CategoryTells(ch, c) ==
    /\ c \in 1 .. 16
    /\ c \in {EMOJI_TEXT_PRESENTATION, EMOJI_EMOJI_PRESENTATION, EMOJI_MODIFIER_BASE, KEYCAP_BASE,
              TAG_BASE} <=> StandsAlone(ch)
    /\ c \in {EMOJI_EMOJI_PRESENTATION, EMOJI_MODIFIER_BASE, TAG_BASE}
         <=> /\ StandsAlone(ch)
             /\ \/ InOneOf(ch, Emoji_Presentation_table)
                \/ InOneOf(ch, Emoji_Modifier_Base_table)
    /\ c = EMOJI_MODIFIER_BASE <=> InOneOf(ch, Emoji_Modifier_Base_table)
    /\ c = EMOJI_MODIFIER <=> ch \in ModifierRange
    /\ c = REGIONAL_INDICATOR <=> ch \in RegionalRange
    /\ c = KEYCAP_BASE <=> ch \in KeycapSet
    /\ c = COMBINING_ENCLOSING_KEYCAP <=> ch = \h20E3
    /\ c = COMBINING_ENCLOSING_CIRCLE_BACKSLASH <=> ch = \h20E0
    /\ c = ZWJ <=> ch = \h200D
    /\ c = VS15 <=> ch = \hFE0E
    /\ c = VS16 <=> ch = \hFE0F
    /\ c = TAG_BASE <=> ch = \h1F3F4
    /\ c = TAG_SEQUENCE <=> ch \in TagRange
    /\ c = TAG_TERM <=> ch = \hE007F

\* EmojiSegmentationCategory gives every codepoint the category of its class.
THEOREM CategoryIs ==
    ASSUME NEW ch \in Int
    PROVE  CategoryTells(ch, EmojiSegmentationCategory(ch))
  <1> DEFINE c == EmojiSegmentationCategory(ch)
  <1> USE DEF EMOJI_TEXT_PRESENTATION, EMOJI_EMOJI_PRESENTATION, EMOJI_MODIFIER_BASE,
              EMOJI_MODIFIER, REGIONAL_INDICATOR, KEYCAP_BASE, COMBINING_ENCLOSING_KEYCAP,
              COMBINING_ENCLOSING_CIRCLE_BACKSLASH, ZWJ, VS15, VS16, TAG_BASE, TAG_SEQUENCE,
              TAG_TERM, Other
  <1>1. /\ InOneOf(ch, Emoji_Presentation_table) => InOneOf(ch, Emoji_table) /\ ch >= \h231A
        /\ InOneOf(ch, Emoji_Modifier_Base_table) =>
             /\ InOneOf(ch, Emoji_table) /\ ch >= \h231A /\ ch # \h1F3F4
             /\ ch \notin ModifierRange /\ ch \notin RegionalRange
        /\ ch \in KeycapSet \/ ch = \h1F3F4 => InOneOf(ch, Emoji_table)
        /\ ch = \h1F3F4 => InOneOf(ch, Emoji_Presentation_table)
        /\ ch \in NoEmoji => ~InOneOf(ch, Emoji_table)
    BY SMT, PresentationIsEmoji, ModifierBaseIsEmoji, SingleEmoji, NoEmojiInTable
       DEF ModifierRange, RegionalRange, KeycapSet
  <1>2. CASE ch \notin Tested
    <2>1. c = ByTable(ch)
      BY <1>2, CategoryByTable
    <2>2. /\ ch \notin TagRange
          /\ ch # \h20E3 /\ ch # \h20E0 /\ ch # \h200D /\ ch # \hFE0E /\ ch # \hFE0F
          /\ ch # \h1F3F4 /\ ch # \hE007F
      BY SMT, <1>2 DEF Tested, NoEmoji, TagRange
    <2>3. /\ ch \in ModifierRange => ch \notin RegionalRange
          /\ ch \in KeycapSet =>
               ch \notin RegionalRange /\ ch \notin ModifierRange /\ ~(ch >= \h231A)
      BY SMT DEF ModifierRange, RegionalRange, KeycapSet
    <2> HIDE DEF c
    <2> DEFINE mb == InOneOf(ch, Emoji_Modifier_Base_table)
               pr == InOneOf(ch, Emoji_Presentation_table)
               em == InOneOf(ch, Emoji_table)
               mo == ch \in ModifierRange
               ri == ch \in RegionalRange
               ke == ch \in KeycapSet
    <2> HIDE DEF mb, pr, em, mo, ri, ke
    <2>4. c = IF mb THEN 3 ELSE IF mo THEN 4 ELSE IF ri THEN 6 ELSE IF ke THEN 7
              ELSE IF pr THEN 2 ELSE IF em THEN 1 ELSE 16
      BY Zenon, <2>1 DEF ByTable, mb, pr, em, mo, ri, ke
    <2>5. /\ (pr => em) /\ (mb => em /\ ~mo /\ ~ri /\ ~ke) /\ (mo => ~ri)
          /\ (ke => ~ri /\ ~mo /\ ~pr /\ em)
      BY SMT, <1>1, <2>3 DEF mb, pr, em, mo, ri, ke
    <2>6. /\ c \in 1 .. 16
          /\ c \in {1, 2, 3, 7, 13} <=> (em /\ ~mo /\ ~ri)
          /\ c \in {2, 3, 13} <=> ((em /\ ~mo /\ ~ri) /\ (pr \/ mb))
          /\ (c = 3 <=> mb) /\ (c = 4 <=> mo) /\ (c = 6 <=> ri) /\ (c = 7 <=> ke)
          /\ c # 8 /\ c # 9 /\ c # 10 /\ c # 11 /\ c # 12 /\ c # 13 /\ c # 14 /\ c # 15
      BY <2>4, <2>5
    <2>7. CategoryTells(ch, c)
      BY SMT, <2>2, <2>6 DEF CategoryTells, StandsAlone, mb, pr, em, mo, ri, ke
    <2> QED BY <2>7 DEF c
  <1>3. CASE ch \in \h30 .. \h39
    <2>1. c = 7
      BY SMT, <1>3 DEF EmojiSegmentationCategory
    <2>2. /\ ch \in KeycapSet /\ ch \notin ModifierRange /\ ch \notin RegionalRange
          /\ ch \notin TagRange
          /\ ~(ch >= \h231A)
          /\ ch # \h20E3 /\ ch # \h20E0 /\ ch # \h200D /\ ch # \hFE0E /\ ch # \hFE0F
          /\ ch # \h1F3F4 /\ ch # \hE007F
      BY SMT, <1>3 DEF ModifierRange, RegionalRange, KeycapSet, TagRange
    <2> HIDE DEF c
    <2>3. /\ c \in 1 .. 16 /\ c \in {1, 2, 3, 7, 13} /\ c \notin {2, 3, 13}
          /\ c # 3 /\ c # 4 /\ c # 6
          /\ c # 8 /\ c # 9 /\ c # 10 /\ c # 11 /\ c # 12 /\ c # 13 /\ c # 14 /\ c # 15
      BY SMT, <2>1
    <2>4. CategoryTells(ch, c)
      BY SMT, <1>1, <2>1, <2>2, <2>3 DEF CategoryTells, StandsAlone
    <2> QED BY <2>4 DEF c
  <1>4. CASE ch = \h1F3F4
    <2>1. c = 13
      BY SMT, <1>4 DEF EmojiSegmentationCategory
    <2>2. /\ ch \notin KeycapSet /\ ch \notin ModifierRange /\ ch \notin RegionalRange
          /\ ch \notin TagRange
          /\ ch # \h20E3 /\ ch # \h20E0 /\ ch # \h200D /\ ch # \hFE0E /\ ch # \hFE0F
          /\ ch # \hE007F
      BY SMT, <1>4 DEF ModifierRange, RegionalRange, KeycapSet, TagRange
    <2> HIDE DEF c
    <2>3. /\ c \in 1 .. 16 /\ c \in {1, 2, 3, 7, 13} /\ c \in {2, 3, 13}
          /\ c # 3 /\ c # 4 /\ c # 6 /\ c # 7
          /\ c # 8 /\ c # 9 /\ c # 10 /\ c # 11 /\ c # 12 /\ c # 14 /\ c # 15
      BY SMT, <2>1
    <2>4. CategoryTells(ch, c)
      BY SMT, <1>1, <1>4, <2>1, <2>2, <2>3 DEF CategoryTells, StandsAlone
    <2> QED BY <2>4 DEF c
  <1>5. CASE ch \in NoEmoji
    <2>1. c = IF ch = \h20E3 THEN 8 ELSE IF ch = \h20E0 THEN 9 ELSE IF ch = \h200D THEN 10
              ELSE IF ch = \hFE0E THEN 11 ELSE IF ch = \hFE0F THEN 12
              ELSE IF ch = \hE007F THEN 15 ELSE IF ch \in TagRange THEN 14 ELSE 16
      BY SMT, <1>5 DEF EmojiSegmentationCategory, NoEmoji, TagRange
    <2>2. /\ ch \notin KeycapSet /\ ch \notin ModifierRange /\ ch \notin RegionalRange
          /\ ch # \h1F3F4
          /\ ch \in TagRange => /\ ch # \h20E3 /\ ch # \h20E0 /\ ch # \h200D /\ ch # \hFE0E
                                /\ ch # \hFE0F /\ ch # \hE007F
      BY SMT, <1>5 DEF NoEmoji, ModifierRange, RegionalRange, KeycapSet, TagRange
    <2> HIDE DEF c
    <2> DEFINE tag == ch \in TagRange
    <2> HIDE DEF tag
    <2>3. /\ c \in 1 .. 16 /\ c \notin {1, 2, 3, 7, 13} /\ c \notin {2, 3, 13}
          /\ c # 3 /\ c # 4 /\ c # 6 /\ c # 7 /\ c # 13
          /\ c = 8 <=> ch = \h20E3
          /\ c = 9 <=> ch = \h20E0
          /\ c = 10 <=> ch = \h200D
          /\ c = 11 <=> ch = \hFE0E
          /\ c = 12 <=> ch = \hFE0F
          /\ c = 14 <=> tag
          /\ c = 15 <=> ch = \hE007F
      BY SMT, <2>1, <2>2 DEF tag
    <2>4. CategoryTells(ch, c)
      BY SMT, <1>1, <1>5, <2>2, <2>3 DEF CategoryTells, StandsAlone, tag
    <2> QED BY <2>4 DEF c
  <1> QED BY SMT, <1>2, <1>3, <1>4, <1>5 DEF Tested

(***************************************************************************)
(* The rows of the automaton                                               *)
(***************************************************************************)

\* Where the keys of state cs are, and the k-th of them.
Key(cs, k) == trans_keys[key_offsets[cs + 1] + k + 1]

\* The key that c is tells the transition,
LEMMA KeyTransition ==
    ASSUME NEW cs \in 0 .. 11, NEW c \in Int, NEW k \in 0 .. single_lengths[cs + 1] - 1,
           Key(cs, k) = c,
           \A j \in 0 .. single_lengths[cs + 1] - 1 : Key(cs, j) = c => j = k
    PROVE  Transition(cs, c) = indicies[index_offsets[cs + 1] + k + 1]
  <1> DEFINE hits == {j \in 0 .. single_lengths[cs + 1] - 1 : Key(cs, j) = c}
  <1>1. hits = {k}
    OBVIOUS
  <1>2. hits # {} /\ (CHOOSE j \in hits : TRUE) = k
    <2> HIDE DEF hits
    <2> QED BY <1>1
  <1>3. Transition(cs, c) = indicies[index_offsets[cs + 1] + (CHOOSE j \in hits : TRUE) + 1]
    BY Zenon, <1>2 DEF Transition, Key
  <1> QED BY <1>2, <1>3

\* where it is none of them, the range that it is in, if there is one,
LEMMA RangeTransition ==
    ASSUME NEW cs \in {0, 2}, NEW c \in Int,
           \A j \in 0 .. single_lengths[cs + 1] - 1 : Key(cs, j) # c,
           Key(cs, single_lengths[cs + 1]) <= c, c <= Key(cs, single_lengths[cs + 1] + 1)
    PROVE  Transition(cs, c) = indicies[index_offsets[cs + 1] + single_lengths[cs + 1] + 1]
  <1> DEFINE first == key_offsets[cs + 1]
             single == single_lengths[cs + 1]
             ranges == range_lengths[cs + 1]
             hits == {j \in 0 .. single - 1 : trans_keys[first + j + 1] = c}
             within == {k \in 0 .. ranges - 1 :
                          /\ trans_keys[first + single + 2 * k + 1] <= c
                          /\ c <= trans_keys[first + single + 2 * k + 1 + 1]}
  <1>1. hits = {}
    BY DEF Key
  <1>2. ranges = 1 /\ single \in Int /\ first \in Int
    BY DEF range_lengths, single_lengths, key_offsets
  <1>3. within = {0}
    <2> HIDE DEF single, first, ranges
    <2>1. \A k \in 0 .. ranges - 1 : k = 0
      BY <1>2
    <2>2. 0 \in 0 .. ranges - 1
      BY <1>2
    <2>3. /\ first + single + 2 * 0 + 1 = first + single + 1
          /\ first + single + 2 * 0 + 1 + 1 = first + (single + 1) + 1
      BY <1>2
    <2>4. trans_keys[first + single + 1] <= c /\ c <= trans_keys[first + (single + 1) + 1]
      BY DEF Key, single, first
    <2> QED BY <2>1, <2>2, <2>3, <2>4
  <1>4. Transition(cs, c) =
          indicies[index_offsets[cs + 1] + (single + (CHOOSE k \in within : TRUE)) + 1]
    <2>1. within # {}
      BY <1>3
    <2> QED BY Zenon, <1>1, <2>1 DEF Transition
  <1>5. (CHOOSE k \in within : TRUE) = 0
    <2> HIDE DEF within
    <2> QED BY <1>3
  <1>6. index_offsets[cs + 1] \in Int
    BY DEF index_offsets
  <1> HIDE DEF single
  <1>7. single + 0 = single
    BY <1>2
  <1> QED BY Zenon, <1>4, <1>5, <1>7 DEF single

\* and otherwise the default.
LEMMA DefaultTransition ==
    ASSUME NEW cs \in 0 .. 11, NEW c \in Int,
           \A j \in 0 .. single_lengths[cs + 1] - 1 : Key(cs, j) # c,
           cs \in {0, 2} => ~(/\ Key(cs, single_lengths[cs + 1]) <= c
                              /\ c <= Key(cs, single_lengths[cs + 1] + 1))
    PROVE  Transition(cs, c) =
              indicies[index_offsets[cs + 1] + single_lengths[cs + 1] + range_lengths[cs + 1] + 1]
  <1> DEFINE first == key_offsets[cs + 1]
             single == single_lengths[cs + 1]
             ranges == range_lengths[cs + 1]
             hits == {j \in 0 .. single - 1 : trans_keys[first + j + 1] = c}
             within == {k \in 0 .. ranges - 1 :
                          /\ trans_keys[first + single + 2 * k + 1] <= c
                          /\ c <= trans_keys[first + single + 2 * k + 1 + 1]}
  <1>1. hits = {}
    BY DEF Key
  <1>2. ranges = (IF cs \in {0, 2} THEN 1 ELSE 0) /\ single \in Int /\ first \in Int
    BY DEF range_lengths, single_lengths, key_offsets
  <1>3. within = {}
    <2> HIDE DEF single, first, ranges
    <2>1. \A k \in 0 .. ranges - 1 : k = 0 /\ cs \in {0, 2}
      BY <1>2
    <2>3. /\ first + single + 2 * 0 + 1 = first + single + 1
          /\ first + single + 2 * 0 + 1 + 1 = first + (single + 1) + 1
      BY <1>2
    <2>4. cs \in {0, 2} =>
            ~(trans_keys[first + single + 1] <= c /\ c <= trans_keys[first + (single + 1) + 1])
      BY DEF Key, single, first
    <2>0. cs \in {0, 1, 2, 3, 4, 5, 6, 7, 8, 9, 10, 11}
      OBVIOUS
    <2> QED BY Zenon, <2>0, <2>1, <2>3, <2>4
  <1>4. Transition(cs, c) =
          indicies[index_offsets[cs + 1] + (single + ranges) + 1]
    BY Zenon, <1>1, <1>3 DEF Transition
  <1>6. index_offsets[cs + 1] \in Int
    BY DEF index_offsets
  <1> QED BY <1>2, <1>4, <1>6

\* The rows of the automaton.
Row(cs, c) ==
    CASE cs = 0  -> IF c = 3 THEN 2 ELSE IF c \in {1, 2, 7, 13} THEN 1 ELSE 0
      [] cs = 1  -> IF c = 14 THEN 4 ELSE IF c = 15 THEN 5 ELSE 3
      [] cs = 2  -> IF c = 1 THEN 6 ELSE IF c = 2 THEN 7 ELSE IF c = 3 THEN 8 ELSE IF c = 6 THEN 10
                    ELSE IF c = 7 THEN 11 ELSE IF c = 13 THEN 12 ELSE 9
      [] cs = 3  -> IF c = 9 THEN 5 ELSE IF c = 10 THEN 13 ELSE IF c = 11 THEN 14
                    ELSE IF c = 12 THEN 15 ELSE 0
      [] cs = 4  -> IF c = 10 THEN 13 ELSE IF c = 12 THEN 15 ELSE 16
      [] cs = 5  -> IF c = 10 THEN 13 ELSE 16
      [] cs = 6  -> IF c = 10 THEN 13 ELSE IF c \in {4, 12} THEN 15 ELSE 16
      [] cs = 7  -> IF c = 9 THEN 5 ELSE IF c = 10 THEN 13 ELSE IF c = 11 THEN 14
                    ELSE IF c \in {4, 12} THEN 15 ELSE 16
      [] cs = 8  -> IF c = 6 THEN 5 ELSE 17
      [] cs = 9  -> IF c = 9 THEN 5 ELSE IF c = 10 THEN 13 ELSE IF c = 11 THEN 14
                    ELSE IF c = 12 THEN 18 ELSE 17
      [] cs = 10 -> IF c = 8 THEN 5 ELSE IF c = 10 THEN 13 ELSE 16
      [] cs = 11 -> IF c = 9 THEN 5 ELSE IF c = 10 THEN 13 ELSE IF c = 11 THEN 14
                    ELSE IF c = 12 THEN 15 ELSE IF c = 14 THEN 4 ELSE 16

\* The compressed tables hold these rows.
THEOREM RowIs ==
    ASSUME NEW cs \in 0 .. 11, NEW c \in 1 .. 16
    PROVE  Transition(cs, c) = Row(cs, c)
  <1> DEFINE single == single_lengths[cs + 1]
             ranges == range_lengths[cs + 1]
             goes(k) == indicies[index_offsets[cs + 1] + k]
             row == Row(cs, c)
             Hit == \E k \in 0 .. single - 1 :
                       /\ Key(cs, k) = c
                       /\ \A j \in 0 .. single - 1 : Key(cs, j) = c => j = k
                       /\ goes(k + 1) = row
             InRange == /\ cs \in {0, 2}
                        /\ \A j \in 0 .. single - 1 : Key(cs, j) # c
                        /\ Key(cs, single) <= c /\ c <= Key(cs, single + 1)
                        /\ goes(single + 1) = row
             Default == /\ \A j \in 0 .. single - 1 : Key(cs, j) # c
                        /\ cs \in {0, 2} => ~(Key(cs, single) <= c /\ c <= Key(cs, single + 1))
                        /\ goes(single + ranges + 1) = row
  <1>1. ASSUME cs = 0 PROVE Hit \/ InRange \/ Default
    <2>1. /\ single = 3 /\ ranges = 1
          /\ Key(cs, 0) = 3 /\ Key(cs, 1) = 7 /\ Key(cs, 2) = 13 /\ Key(cs, 3) = 0
          /\ Key(cs, 4) = 2
          /\ goes(1) = 2 /\ goes(2) = 1 /\ goes(3) = 1 /\ goes(4) = 1 /\ goes(5) = 0
      BY <1>1 DEF Key, key_offsets, trans_keys, single_lengths, range_lengths,
                  index_offsets, indicies
    <2>2. row = Row(0, c)
      BY <1>1
    <2> HIDE DEF single, ranges, goes, row
    <2>3. CASE c \in {3, 7, 13}
      <3>1. \A j \in 0 .. single - 1 : j \in {0, 1, 2}
        BY <2>1
      <3>2. /\ 0 \in 0 .. single - 1 /\ 1 \in 0 .. single - 1 /\ 2 \in 0 .. single - 1
            /\ 0 + 1 = 1 /\ 1 + 1 = 2 /\ 2 + 1 = 3
        BY <2>1
      <3>3. c = 3 => row = 2
        BY <1>1, <2>2 DEF Row
      <3>4. c \in {7, 13} => row = 1
        BY <1>1, <2>2 DEF Row
      <3> QED BY <2>1, <2>3, <3>1, <3>2, <3>3, <3>4
    <2>4. CASE c \in {1, 2}
      BY <1>1, <2>1, <2>2, <2>4 DEF Row
    <2>5. CASE c \notin {1, 2, 3, 7, 13}
      BY <1>1, <2>1, <2>2, <2>5 DEF Row
    <2> QED BY <2>3, <2>4, <2>5
  <1>2. ASSUME cs = 1 PROVE Hit \/ InRange \/ Default
    <2>1. /\ single = 2 /\ ranges = 0
          /\ Key(cs, 0) = 14 /\ Key(cs, 1) = 15
          /\ goes(1) = 4 /\ goes(2) = 5 /\ goes(3) = 3
      BY <1>2 DEF Key, key_offsets, trans_keys, single_lengths, range_lengths,
                  index_offsets, indicies
    <2>2. row = Row(1, c)
      BY <1>2
    <2> HIDE DEF single, ranges, goes, row
    <2> QED BY <1>2, <2>1, <2>2 DEF Row
  <1>3. ASSUME cs = 2 PROVE Hit \/ InRange \/ Default
    <2>1. /\ single = 5 /\ ranges = 1
          /\ Key(cs, 0) = 2 /\ Key(cs, 1) = 3 /\ Key(cs, 2) = 6 /\ Key(cs, 3) = 7
          /\ Key(cs, 4) = 13 /\ Key(cs, 5) = 0 /\ Key(cs, 6) = 1
          /\ goes(1) = 7 /\ goes(2) = 8 /\ goes(3) = 10 /\ goes(4) = 11 /\ goes(5) = 12
          /\ goes(6) = 6 /\ goes(7) = 9
      BY <1>3 DEF Key, key_offsets, trans_keys, single_lengths, range_lengths,
                  index_offsets, indicies
    <2>2. row = Row(2, c)
      BY <1>3
    <2> HIDE DEF single, ranges, goes, row
    <2> QED BY <1>3, <2>1, <2>2 DEF Row
  <1>4. ASSUME cs = 3 PROVE Hit \/ InRange \/ Default
    <2>1. /\ single = 4 /\ ranges = 0
          /\ Key(cs, 0) = 9 /\ Key(cs, 1) = 10 /\ Key(cs, 2) = 11 /\ Key(cs, 3) = 12
          /\ goes(1) = 5 /\ goes(2) = 13 /\ goes(3) = 14 /\ goes(4) = 15 /\ goes(5) = 0
      BY <1>4 DEF Key, key_offsets, trans_keys, single_lengths, range_lengths,
                  index_offsets, indicies
    <2>2. row = Row(3, c)
      BY <1>4
    <2> HIDE DEF single, ranges, goes, row
    <2> QED BY <1>4, <2>1, <2>2 DEF Row
  <1>5. ASSUME cs = 4 PROVE Hit \/ InRange \/ Default
    <2>1. /\ single = 2 /\ ranges = 0
          /\ Key(cs, 0) = 10 /\ Key(cs, 1) = 12
          /\ goes(1) = 13 /\ goes(2) = 15 /\ goes(3) = 16
      BY <1>5 DEF Key, key_offsets, trans_keys, single_lengths, range_lengths,
                  index_offsets, indicies
    <2>2. row = Row(4, c)
      BY <1>5
    <2> HIDE DEF single, ranges, goes, row
    <2> QED BY <1>5, <2>1, <2>2 DEF Row
  <1>6. ASSUME cs = 5 PROVE Hit \/ InRange \/ Default
    <2>1. /\ single = 1 /\ ranges = 0
          /\ Key(cs, 0) = 10
          /\ goes(1) = 13 /\ goes(2) = 16
      BY <1>6 DEF Key, key_offsets, trans_keys, single_lengths, range_lengths,
                  index_offsets, indicies
    <2>2. row = Row(5, c)
      BY <1>6
    <2> HIDE DEF single, ranges, goes, row
    <2> QED BY <1>6, <2>1, <2>2 DEF Row
  <1>7. ASSUME cs = 6 PROVE Hit \/ InRange \/ Default
    <2>1. /\ single = 3 /\ ranges = 0
          /\ Key(cs, 0) = 4 /\ Key(cs, 1) = 10 /\ Key(cs, 2) = 12
          /\ goes(1) = 15 /\ goes(2) = 13 /\ goes(3) = 15 /\ goes(4) = 16
      BY <1>7 DEF Key, key_offsets, trans_keys, single_lengths, range_lengths,
                  index_offsets, indicies
    <2>2. row = Row(6, c)
      BY <1>7
    <2> HIDE DEF single, ranges, goes, row
    <2> QED BY <1>7, <2>1, <2>2 DEF Row
  <1>8. ASSUME cs = 7 PROVE Hit \/ InRange \/ Default
    <2>1. /\ single = 5 /\ ranges = 0
          /\ Key(cs, 0) = 4 /\ Key(cs, 1) = 9 /\ Key(cs, 2) = 10 /\ Key(cs, 3) = 11
          /\ Key(cs, 4) = 12
          /\ goes(1) = 15 /\ goes(2) = 5 /\ goes(3) = 13 /\ goes(4) = 14 /\ goes(5) = 15
          /\ goes(6) = 16
      BY <1>8 DEF Key, key_offsets, trans_keys, single_lengths, range_lengths,
                  index_offsets, indicies
    <2>2. row = Row(7, c)
      BY <1>8
    <2> HIDE DEF single, ranges, goes, row
    <2> QED BY <1>8, <2>1, <2>2 DEF Row
  <1>9. ASSUME cs = 8 PROVE Hit \/ InRange \/ Default
    <2>1. /\ single = 1 /\ ranges = 0
          /\ Key(cs, 0) = 6
          /\ goes(1) = 5 /\ goes(2) = 17
      BY <1>9 DEF Key, key_offsets, trans_keys, single_lengths, range_lengths,
                  index_offsets, indicies
    <2>2. row = Row(8, c)
      BY <1>9
    <2> HIDE DEF single, ranges, goes, row
    <2> QED BY <1>9, <2>1, <2>2 DEF Row
  <1>10. ASSUME cs = 9 PROVE Hit \/ InRange \/ Default
    <2>1. /\ single = 4 /\ ranges = 0
          /\ Key(cs, 0) = 9 /\ Key(cs, 1) = 10 /\ Key(cs, 2) = 11 /\ Key(cs, 3) = 12
          /\ goes(1) = 5 /\ goes(2) = 13 /\ goes(3) = 14 /\ goes(4) = 18 /\ goes(5) = 17
      BY <1>10 DEF Key, key_offsets, trans_keys, single_lengths, range_lengths,
                   index_offsets, indicies
    <2>2. row = Row(9, c)
      BY <1>10
    <2> HIDE DEF single, ranges, goes, row
    <2> QED BY <1>10, <2>1, <2>2 DEF Row
  <1>11. ASSUME cs = 10 PROVE Hit \/ InRange \/ Default
    <2>1. /\ single = 2 /\ ranges = 0
          /\ Key(cs, 0) = 8 /\ Key(cs, 1) = 10
          /\ goes(1) = 5 /\ goes(2) = 13 /\ goes(3) = 16
      BY <1>11 DEF Key, key_offsets, trans_keys, single_lengths, range_lengths,
                   index_offsets, indicies
    <2>2. row = Row(10, c)
      BY <1>11
    <2> HIDE DEF single, ranges, goes, row
    <2> QED BY <1>11, <2>1, <2>2 DEF Row
  <1>12. ASSUME cs = 11 PROVE Hit \/ InRange \/ Default
    <2>1. /\ single = 5 /\ ranges = 0
          /\ Key(cs, 0) = 9 /\ Key(cs, 1) = 10 /\ Key(cs, 2) = 11 /\ Key(cs, 3) = 12
          /\ Key(cs, 4) = 14
          /\ goes(1) = 5 /\ goes(2) = 13 /\ goes(3) = 14 /\ goes(4) = 15 /\ goes(5) = 4
          /\ goes(6) = 16
      BY <1>12 DEF Key, key_offsets, trans_keys, single_lengths, range_lengths,
                   index_offsets, indicies
    <2>2. row = Row(11, c)
      BY <1>12
    <2> HIDE DEF single, ranges, goes, row
    <2> QED BY <1>12, <2>1, <2>2 DEF Row
  <1>13. Hit \/ InRange \/ Default
    <2>1. cs \in {0, 1, 2, 3, 4, 5, 6, 7, 8, 9, 10, 11}
      OBVIOUS
    <2> HIDE DEF Hit, InRange, Default
    <2> QED BY Zenon, <2>1, <1>1, <1>2, <1>3, <1>4, <1>5, <1>6, <1>7, <1>8, <1>9, <1>10,
               <1>11, <1>12
  <1>14. c \in Int
    OBVIOUS
  <1> HIDE DEF row
  <1>15. single \in Int /\ index_offsets[cs + 1] \in Int /\ ranges \in Int
    BY DEF single_lengths, index_offsets, range_lengths
  <1>16. CASE Hit
    <2>1. PICK k \in 0 .. single - 1 :
                       /\ Key(cs, k) = c
                       /\ \A j \in 0 .. single - 1 : Key(cs, j) = c => j = k
                       /\ goes(k + 1) = row
      BY <1>16
    <2>2. Transition(cs, c) = indicies[index_offsets[cs + 1] + k + 1]
      BY <1>14, <2>1, KeyTransition
    <2>3. index_offsets[cs + 1] + k + 1 = index_offsets[cs + 1] + (k + 1)
      BY <1>15
    <2> QED BY Zenon, <2>1, <2>2, <2>3 DEF row
  <1>17. CASE InRange
    <2>2. Transition(cs, c) = indicies[index_offsets[cs + 1] + single + 1]
      BY <1>14, <1>17, RangeTransition
    <2>3. index_offsets[cs + 1] + single + 1 = index_offsets[cs + 1] + (single + 1)
      BY <1>15
    <2> QED BY Zenon, <1>17, <2>2, <2>3 DEF row
  <1>18. CASE Default
    <2>2. Transition(cs, c) = indicies[index_offsets[cs + 1] + single + ranges + 1]
      BY <1>14, <1>18, DefaultTransition
    <2>3. index_offsets[cs + 1] + single + ranges + 1 = index_offsets[cs + 1] + (single + ranges + 1)
      BY <1>15
    <2> QED BY Zenon, <1>18, <2>2, <2>3 DEF row
  <1> QED BY Zenon, <1>13, <1>16, <1>17, <1>18

(***************************************************************************)
(* The sequences, told by categories                                       *)
(***************************************************************************)

\* The categories are numbers in what follows.
USE DEF EMOJI_TEXT_PRESENTATION, EMOJI_EMOJI_PRESENTATION, EMOJI_MODIFIER_BASE,
        EMOJI_MODIFIER, REGIONAL_INDICATOR, KEYCAP_BASE, COMBINING_ENCLOSING_KEYCAP,
        COMBINING_ENCLOSING_CIRCLE_BACKSLASH, ZWJ, VS15, VS16, TAG_BASE, TAG_SEQUENCE,
        TAG_TERM

\* Emoji that stand alone, and those that do so as emoji unless told otherwise.
Standing == {EMOJI_TEXT_PRESENTATION, EMOJI_EMOJI_PRESENTATION, EMOJI_MODIFIER_BASE, KEYCAP_BASE,
             TAG_BASE}
ByDefault == {EMOJI_EMOJI_PRESENTATION, EMOJI_MODIFIER_BASE, TAG_BASE}

\* What a joiner may join, from i to j.
ElementAt(y, i, j) ==
    \/ j = i /\ y[i] \in Standing
    \/ j = i + 1 /\ y[i] \in Standing /\ y[j] = VS16
    \/ j = i + 1 /\ y[i] = EMOJI_MODIFIER_BASE /\ y[j] = EMOJI_MODIFIER

\* The place of a joiner, or the one in front of the text.
JointAt(y, a) == a = 0 \/ y[a] = ZWJ

\* No joiner is between a and b.
Neighbours(y, a, b) == a < b /\ \A i \in a + 1 .. b - 1 : y[i] # ZWJ

JoinedTo(y, m) ==
    /\ \E i \in 1 .. m : y[i] = ZWJ
    /\ \A a \in 0 .. m : \A b \in 1 .. m + 1 :
          JointAt(y, a) /\ (b = m + 1 \/ y[b] = ZWJ) /\ Neighbours(y, a, b) =>
             ElementAt(y, a + 1, b - 1)

TaggedTo(y, m) ==
    m >= 3 /\ y[1] = TAG_BASE /\ (\A i \in 2 .. m - 1 : y[i] = TAG_SEQUENCE) /\ y[m] = TAG_TERM

PairTo(y, m) ==
    m = 2 /\ \/ y[1] \in Standing /\ y[2] \in {VS16, COMBINING_ENCLOSING_CIRCLE_BACKSLASH}
             \/ y[1] = EMOJI_MODIFIER_BASE /\ y[2] = EMOJI_MODIFIER
             \/ y[1] = REGIONAL_INDICATOR /\ y[2] = REGIONAL_INDICATOR

KeycapTo(y, m) == m = 3 /\ y[1] = KEYCAP_BASE /\ y[2] = VS16 /\ y[3] = COMBINING_ENCLOSING_KEYCAP

EmojiTo(y, m) ==
    \/ m = 1 /\ y[1] \in ByDefault
    \/ PairTo(y, m)
    \/ KeycapTo(y, m)
    \/ TaggedTo(y, m)
    \/ JoinedTo(y, m)

TextTo(y, m) == m = 2 /\ y[1] \in Standing /\ y[2] = VS15

KnownTo(y, m) == EmojiTo(y, m) \/ TextTo(y, m)

(***************************************************************************)
(* Elements in a row                                                       *)
(***************************************************************************)

\* Up to the joint a, elements and joiners.
ChainTo(y, a) ==
    /\ JointAt(y, a)
    /\ \A i, j \in 0 .. a : JointAt(y, i) /\ JointAt(y, j) /\ Neighbours(y, i, j) =>
       ElementAt(y, i + 1, j - 1)

\* An element has one character or two, and none of them is a joiner.
LEMMA NoJoinerInElement ==
    ASSUME NEW y, NEW i \in Int, NEW j \in Int, ElementAt(y, i, j)
    PROVE  j \in {i, i + 1} /\ \A k \in i .. j : y[k] # ZWJ
  BY DEF ElementAt, Standing

\* The next joiner goes on with them,
LEMMA ChainGoesOn ==
    ASSUME NEW y, NEW a \in Nat, ChainTo(y, a), NEW b \in Nat, a < b, y[b] = ZWJ,
           ElementAt(y, a + 1, b - 1)
    PROVE  ChainTo(y, b)
  <1>1. \A k \in a + 1 .. b - 1 : y[k] # ZWJ
    BY NoJoinerInElement
  <1>2. ASSUME NEW i \in 0 .. b, NEW j \in 0 .. b, JointAt(y, i), JointAt(y, j), Neighbours(y, i, j)
        PROVE  ElementAt(y, i + 1, j - 1)
    <2>1. i \in 0 .. a \/ i = b
      BY <1>1, <1>2 DEF JointAt
    <2>2. j \in 0 .. a \/ j = b
      BY <1>1, <1>2 DEF JointAt
    <2>3. i < j
      BY <1>2 DEF Neighbours
    <2>4. CASE j \in 0 .. a
      <3>1. i \in 0 .. a
        BY <2>1, <2>3, <2>4
      <3> QED BY <1>2, <2>4, <3>1 DEF ChainTo
    <2>5. CASE j = b
      <3>1. i \in 0 .. a
        BY <2>1, <2>3, <2>5
      <3>2. i = a
        <4>1. ASSUME i < a PROVE FALSE
          <5>1. a \in i + 1 .. j - 1 /\ y[a] = ZWJ
            BY <2>5, <4>1 DEF ChainTo, JointAt
          <5> QED BY <1>2, <5>1 DEF Neighbours
        <4> QED BY <3>1, <4>1
      <3> QED BY <2>5, <3>2
    <2> QED BY <2>2, <2>4, <2>5
  <1> QED BY <1>2 DEF ChainTo, JointAt

\* and another element ends a sequence.
LEMMA ChainEnds ==
    ASSUME NEW y, NEW a \in Nat, a >= 1, ChainTo(y, a), NEW m \in Nat, ElementAt(y, a + 1, m)
    PROVE  JoinedTo(y, m)
  <1>1. m \in {a + 1, a + 2} /\ \A k \in a + 1 .. m : y[k] # ZWJ
    BY NoJoinerInElement
  <1>2. y[a] = ZWJ /\ a \in 1 .. m
    BY <1>1 DEF ChainTo, JointAt
  <1>3. ASSUME NEW i \in 0 .. m, NEW j \in 1 .. m + 1, JointAt(y, i), j = m + 1 \/ y[j] = ZWJ,
               Neighbours(y, i, j)
        PROVE  ElementAt(y, i + 1, j - 1)
    <2>1. i \in 0 .. a
      BY <1>1, <1>3 DEF JointAt
    <2>2. CASE j = m + 1
      <3>1. i = a
        <4>1. ASSUME i < a PROVE FALSE
          <5>1. a \in i + 1 .. j - 1
            BY <1>2, <2>2, <4>1
          <5> QED BY <1>2, <1>3, <5>1 DEF Neighbours
        <4> QED BY <2>1, <4>1
      <3> QED BY <2>2, <3>1
    <2>3. CASE j # m + 1
      <3>1. j \in 0 .. a /\ JointAt(y, j)
        BY <1>1, <1>3, <2>3 DEF JointAt
      <3> QED BY <1>3, <2>1, <3>1 DEF ChainTo
    <2> QED BY <2>2, <2>3
  <1> QED BY <1>2, <1>3 DEF JoinedTo

\* A joined sequence goes on from any of its joints with an element.
LEMMA NextElement ==
    ASSUME NEW y, NEW m \in Nat, JoinedTo(y, m), NEW a \in 0 .. m, JointAt(y, a)
    PROVE  \E b \in a + 1 .. m + 1 : (b = m + 1 \/ y[b] = ZWJ) /\ ElementAt(y, a + 1, b - 1)
  <1> DEFINE S == {b \in a + 1 .. m + 1 : b = m + 1 \/ y[b] = ZWJ}
  <1>1. S \in SUBSET Nat /\ S # {}
    OBVIOUS
  <1>2. PICK b \in S : \A c \in S : b <= c
    <2> HIDE DEF S
    <2> QED BY <1>1, LeastNatural
  <1>3. Neighbours(y, a, b)
    <2>1. ASSUME NEW i \in a + 1 .. b - 1, y[i] = ZWJ PROVE FALSE
      <3>1. i \in S
        BY <2>1
      <3> QED BY <1>2, <2>1, <3>1
    <2> QED BY <2>1 DEF Neighbours
  <1>4. b \in 1 .. m + 1
    OBVIOUS
  <1> QED BY <1>3, <1>4 DEF JoinedTo

\* What a joiner says of a sequence it is in,
LEMMA JoinerTells ==
    ASSUME NEW y, NEW m \in Nat, NEW i \in 1 .. m, y[i] = ZWJ, KnownTo(y, m)
    PROVE  JoinedTo(y, m)
  <1>1. ~(m = 1 /\ y[1] \in ByDefault)
    BY DEF ByDefault
  <1>2. ~PairTo(y, m) /\ ~TextTo(y, m)
    BY DEF PairTo, TextTo, Standing
  <1>3. ~KeycapTo(y, m)
    BY DEF KeycapTo
  <1>4. ~TaggedTo(y, m)
    <2>1. i = 1 \/ i = m \/ i \in 2 .. m - 1
      OBVIOUS
    <2> QED BY <2>1 DEF TaggedTo
  <1> QED BY <1>1, <1>2, <1>3, <1>4 DEF KnownTo, EmojiTo

\* and at its end.
LEMMA JoinerEndsNone ==
    ASSUME NEW y, NEW m \in Nat \ {0}, y[m] = ZWJ
    PROVE  ~KnownTo(y, m)
  <1> SUFFICES ASSUME KnownTo(y, m) PROVE FALSE
    OBVIOUS
  <1>1. m \in 1 .. m /\ m \in 0 .. m
    OBVIOUS
  <1>2. JoinedTo(y, m)
    BY <1>1, JoinerTells
  <1>3. PICK b \in m + 1 .. m + 1 : ElementAt(y, m + 1, b - 1)
    BY <1>1, <1>2, NextElement DEF JointAt
  <1> QED BY <1>3 DEF ElementAt

\* A joined sequence that goes on behind the first character of an element,
LEMMA BehindFirst ==
    ASSUME NEW y, NEW k \in Nat \ {0}, JointAt(y, k - 1), y[k] \in Standing,
           NEW m \in Nat, m > k, JoinedTo(y, m)
    PROVE  y[k + 1] \in {ZWJ, VS16} \/ (y[k] = EMOJI_MODIFIER_BASE /\ y[k + 1] = EMOJI_MODIFIER)
  <1>1. k - 1 \in 0 .. m /\ (k - 1) + 1 = k
    OBVIOUS
  <1>2. PICK b \in k .. m + 1 : (b = m + 1 \/ y[b] = ZWJ) /\ ElementAt(y, k, b - 1)
    BY <1>1, NextElement
  <1>3. b - 1 = k \/ b - 1 = k + 1
    BY <1>2 DEF ElementAt
  <1> QED BY <1>2, <1>3 DEF ElementAt

\* behind its second,
LEMMA BehindSecond ==
    ASSUME NEW y, NEW k \in Nat, k >= 2, JointAt(y, k - 2), ElementAt(y, k - 1, k),
           NEW m \in Nat, m > k, JoinedTo(y, m)
    PROVE  y[k + 1] = ZWJ
  <1>1. k - 2 \in 0 .. m /\ (k - 2) + 1 = k - 1
    OBVIOUS
  <1>2. PICK b \in k - 1 .. m + 1 : (b = m + 1 \/ y[b] = ZWJ) /\ ElementAt(y, k - 1, b - 1)
    BY <1>1, NextElement
  <1>3. b - 1 = k - 1 \/ b - 1 = k
    BY <1>2 DEF ElementAt
  <1>4. y[k] # ZWJ
    BY DEF ElementAt, Standing
  <1> QED BY <1>2, <1>3, <1>4

\* and behind a joiner.
LEMMA BehindJoiner ==
    ASSUME NEW y, NEW k \in Nat, JointAt(y, k), NEW m \in Nat, m > k, JoinedTo(y, m)
    PROVE  y[k + 1] \in Standing
  <1>1. k \in 0 .. m
    OBVIOUS
  <1>2. PICK b \in k + 1 .. m + 1 : (b = m + 1 \/ y[b] = ZWJ) /\ ElementAt(y, k + 1, b - 1)
    BY <1>1, NextElement
  <1> QED BY <1>2 DEF ElementAt, Standing

\* What begins with an emoji and does not end there.
LEMMA BehindStanding ==
    ASSUME NEW y, y[1] \in Standing, NEW m \in Nat, m > 1, KnownTo(y, m)
    PROVE  \/ y[2] \in {ZWJ, VS16}
           \/ m = 2 /\ y[2] \in {VS15, COMBINING_ENCLOSING_CIRCLE_BACKSLASH}
           \/ y[1] = EMOJI_MODIFIER_BASE /\ y[2] = EMOJI_MODIFIER
           \/ y[1] = TAG_BASE /\ y[2] = TAG_SEQUENCE
  <1>1. CASE JoinedTo(y, m)
    <2>1. 1 \in Nat \ {0} /\ 1 - 1 = 0 /\ 1 + 1 = 2
      OBVIOUS
    <2>2. JointAt(y, 1 - 1)
      BY <2>1 DEF JointAt
    <2>3. y[1 + 1] \in {ZWJ, VS16} \/ (y[1] = EMOJI_MODIFIER_BASE /\ y[1 + 1] = EMOJI_MODIFIER)
      BY <1>1, <2>1, <2>2, BehindFirst
    <2> QED BY <2>1, <2>3
  <1>2. CASE TaggedTo(y, m)
    <2>1. 2 \in 2 .. m - 1
      BY <1>2 DEF TaggedTo
    <2> QED BY <1>2, <2>1 DEF TaggedTo
  <1>3. CASE PairTo(y, m) \/ TextTo(y, m) \/ KeycapTo(y, m)
    BY <1>3 DEF PairTo, TextTo, KeycapTo, Standing
  <1> QED BY <1>1, <1>2, <1>3 DEF KnownTo, EmojiTo

(***************************************************************************)
(* What each state has read                                                *)
(***************************************************************************)

\* What the first k characters are, in state cs.
ReadsTo(y, cs, k) ==
    /\ k \in Nat \ {0}
    /\ cs \in {0, 1, 3, 4, 5, 6, 7, 8, 9, 10, 11}
    /\ cs = 0 => k >= 2 /\ y[k] = ZWJ /\ ChainTo(y, k)
    /\ cs = 1 => k >= 2 /\ y[1] = TAG_BASE /\ \A i \in 2 .. k : y[i] = TAG_SEQUENCE
    /\ cs \in {4, 6} => /\ k >= 2 /\ ChainTo(y, k - 1) /\ y[k] \in Standing
                        /\ cs = 6 <=> y[k] = EMOJI_MODIFIER_BASE
    /\ cs = 5 =>
         k >= 2 /\ ChainTo(y, k - 2) /\ ElementAt(y, k - 1, k) /\ (k = 2 => y[1] # KEYCAP_BASE)
    /\ cs \in {3, 7, 8, 9, 11} => k = 1
    /\ cs = 3 => y[1] \in {EMOJI_TEXT_PRESENTATION, EMOJI_EMOJI_PRESENTATION}
    /\ cs = 7 => y[1] = EMOJI_MODIFIER_BASE
    /\ cs = 8 => y[1] = REGIONAL_INDICATOR
    /\ cs = 9 => y[1] = KEYCAP_BASE
    /\ cs = 10 => k = 2 /\ y[1] = KEYCAP_BASE /\ y[2] = VS16
    /\ cs = 11 => y[1] = TAG_BASE

NoneFrom(y, k) == \A m \in Nat : m >= k => ~KnownTo(y, m)

\* The transition on the next character is right about the sequences.
Answers(y, k, trans) ==
    /\ trans \in {0, 1, 2, 3, 4, 5, 13, 14, 15, 16, 17, 18}
    /\ trans \in {4, 13} => ~KnownTo(y, k + 1)
    /\ trans \in {1, 2, 5, 15, 18} => EmojiTo(y, k + 1)
    /\ trans = 14 => TextTo(y, k + 1) /\ ~EmojiTo(y, k + 1)
    /\ trans \in {5, 14} => NoneFrom(y, k + 2)
    /\ trans \in {0, 3, 16, 17} => NoneFrom(y, k + 1)
    /\ trans \in {1, 2, 4, 13, 15, 18} => ReadsTo(y, trans_targs[trans + 1], k + 1)

\* The part of it for each transition.
LEMMA AnswersBy ==
    ASSUME NEW y, NEW k \in Nat, NEW trans
    PROVE  /\ trans = 4 /\ ~KnownTo(y, k + 1) /\ ReadsTo(y, 1, k + 1) => Answers(y, k, trans)
           /\ trans = 13 /\ ~KnownTo(y, k + 1) /\ ReadsTo(y, 0, k + 1) => Answers(y, k, trans)
           /\ trans = 1 /\ EmojiTo(y, k + 1) /\ ReadsTo(y, 4, k + 1) => Answers(y, k, trans)
           /\ trans = 2 /\ EmojiTo(y, k + 1) /\ ReadsTo(y, 6, k + 1) => Answers(y, k, trans)
           /\ trans = 15 /\ EmojiTo(y, k + 1) /\ ReadsTo(y, 5, k + 1) => Answers(y, k, trans)
           /\ trans = 18 /\ EmojiTo(y, k + 1) /\ ReadsTo(y, 10, k + 1) => Answers(y, k, trans)
           /\ trans = 5 /\ EmojiTo(y, k + 1) /\ NoneFrom(y, k + 2) => Answers(y, k, trans)
           /\ trans = 14 /\ TextTo(y, k + 1) /\ ~EmojiTo(y, k + 1) /\ NoneFrom(y, k + 2)
                => Answers(y, k, trans)
           /\ trans \in {0, 3, 16, 17} /\ NoneFrom(y, k + 1) => Answers(y, k, trans)
  <1>1. /\ trans_targs[1 + 1] = 4 /\ trans_targs[2 + 1] = 6 /\ trans_targs[4 + 1] = 1
        /\ trans_targs[13 + 1] = 0 /\ trans_targs[15 + 1] = 5 /\ trans_targs[18 + 1] = 10
    BY Targets
  <1> QED BY <1>1 DEF Answers

\* There is nothing in front of the text.
LEMMA ChainBegins ==
    ASSUME NEW y
    PROVE  ChainTo(y, 0)
  <1>1. \A i, j \in 0 .. 0 : ~(i < j)
    OBVIOUS
  <1> QED BY <1>1 DEF ChainTo, JointAt, Neighbours

\* A joiner behind an element that begins behind the joint a.
LEMMA JoinerRead ==
    ASSUME NEW y, NEW a \in Nat, NEW k \in Nat, ChainTo(y, a), k \in {a + 1, a + 2},
           ElementAt(y, a + 1, k), y[k + 1] = ZWJ
    PROVE  ~KnownTo(y, k + 1) /\ ReadsTo(y, 0, k + 1)
  <1>1. ~KnownTo(y, k + 1)
    BY JoinerEndsNone
  <1>2. ChainTo(y, k + 1)
    <2>1. a < k + 1 /\ (k + 1) - 1 = k
      OBVIOUS
    <2> QED BY <2>1, ChainGoesOn
  <1> QED BY <1>1, <1>2 DEF ReadsTo

\* A joiner was read last.
LEMMA FromState0 ==
    ASSUME NEW y, NEW k \in Nat, ReadsTo(y, 0, k), y[k + 1] \in 1 .. 16
    PROVE  Answers(y, k, Row(0, y[k + 1]))
  <1> DEFINE c == y[k + 1]
  <1>1. k \in Nat /\ k >= 2 /\ y[k] = ZWJ /\ ChainTo(y, k) /\ JointAt(y, k)
    BY DEF ReadsTo, ChainTo
  <1>2. CASE c \in Standing
    <2>1. ElementAt(y, k + 1, k + 1)
      BY <1>2 DEF ElementAt
    <2>2. EmojiTo(y, k + 1)
      BY <1>1, <2>1, ChainEnds DEF EmojiTo
    <2>3. ReadsTo(y, IF c = EMOJI_MODIFIER_BASE THEN 6 ELSE 4, k + 1)
      <3>1. (k + 1) - 1 = k
        OBVIOUS
      <3> QED BY <1>1, <1>2, <3>1 DEF ReadsTo
    <2>4. Row(0, c) = IF c = EMOJI_MODIFIER_BASE THEN 2 ELSE 1
      BY <1>2 DEF Row, Standing
    <2> QED BY <2>2, <2>3, <2>4, AnswersBy
  <1>3. CASE c \notin Standing
    <2>1. ASSUME NEW m \in Nat, m >= k + 1, KnownTo(y, m) PROVE FALSE
      <3>1. k \in 1 .. m /\ m > k
        BY <1>1, <2>1
      <3>2. JoinedTo(y, m)
        BY <1>1, <2>1, <3>1, JoinerTells
      <3> QED BY <1>1, <1>3, <3>1, <3>2, BehindJoiner
    <2>2. Row(0, c) = 0
      BY <1>3 DEF Row, Standing
    <2>3. NoneFrom(y, k + 1)
      BY <2>1 DEF NoneFrom
    <2> QED BY <2>2, <2>3, AnswersBy
  <1> QED BY <1>2, <1>3

\* Tags are being read.
LEMMA FromState1 ==
    ASSUME NEW y, NEW k \in Nat, ReadsTo(y, 1, k), y[k + 1] \in 1 .. 16
    PROVE  Answers(y, k, Row(1, y[k + 1]))
  <1> DEFINE c == y[k + 1]
  <1>1. k \in Nat /\ k >= 2 /\ y[1] = TAG_BASE /\ \A i \in 2 .. k : y[i] = TAG_SEQUENCE
    BY DEF ReadsTo
  <1>2. y[2] = TAG_SEQUENCE
    BY <1>1
  <1>3. ASSUME NEW m \in Nat, m >= k + 1, KnownTo(y, m) PROVE TaggedTo(y, m)
    <2>1. y[1] \in Standing /\ m > 1 /\ m >= 3
      BY <1>1, <1>3 DEF Standing
    <2>2. ~KeycapTo(y, m) /\ ~PairTo(y, m) /\ ~TextTo(y, m)
      BY <1>2, <2>1 DEF KeycapTo, PairTo, TextTo
    <2>3. ~JoinedTo(y, m)
      <3>1. 1 \in Nat \ {0} /\ 1 - 1 = 0 /\ 1 + 1 = 2
        OBVIOUS
      <3>2. JointAt(y, 1 - 1)
        BY <3>1 DEF JointAt
      <3> QED BY <1>1, <1>2, <2>1, <3>1, <3>2, BehindFirst
    <2> QED BY <1>3, <2>1, <2>2, <2>3 DEF KnownTo, EmojiTo
  <1>4. CASE c = TAG_SEQUENCE
    <2>1. ~TaggedTo(y, k + 1)
      BY <1>4 DEF TaggedTo
    <2>2. ReadsTo(y, 1, k + 1)
      <3>1. \A i \in 2 .. k + 1 : i \in 2 .. k \/ i = k + 1
        OBVIOUS
      <3>2. \A i \in 2 .. k + 1 : y[i] = TAG_SEQUENCE
        BY <1>1, <1>4, <3>1
      <3> QED BY <1>1, <3>2 DEF ReadsTo
    <2>3. Row(1, c) = 4
      BY <1>4 DEF Row
    <2>4. ~KnownTo(y, k + 1)
      BY <1>3, <2>1
    <2> QED BY <2>2, <2>3, <2>4, AnswersBy
  <1>5. CASE c = TAG_TERM
    <2>1. TaggedTo(y, k + 1)
      <3>1. (k + 1) - 1 = k
        OBVIOUS
      <3> QED BY <1>1, <1>5, <3>1 DEF TaggedTo
    <2>2. ASSUME NEW m \in Nat, m >= k + 2, KnownTo(y, m) PROVE FALSE
      <3>1. TaggedTo(y, m)
        BY <1>3, <2>2
      <3>2. k + 1 \in 2 .. m - 1
        BY <1>1, <2>2
      <3> QED BY <1>5, <3>1, <3>2 DEF TaggedTo
    <2>3. Row(1, c) = 5
      BY <1>5 DEF Row
    <2>4. EmojiTo(y, k + 1) /\ NoneFrom(y, k + 2)
      BY <2>1, <2>2 DEF EmojiTo, NoneFrom
    <2> QED BY <2>3, <2>4, AnswersBy
  <1>6. CASE c \notin {TAG_SEQUENCE, TAG_TERM}
    <2>1. ASSUME NEW m \in Nat, m >= k + 1, KnownTo(y, m) PROVE FALSE
      <3>1. TaggedTo(y, m)
        BY <1>3, <2>1
      <3>2. k + 1 = m \/ k + 1 \in 2 .. m - 1
        BY <1>1, <2>1
      <3> QED BY <1>6, <3>1, <3>2 DEF TaggedTo
    <2>2. Row(1, c) = 3
      BY <1>6 DEF Row
    <2>3. NoneFrom(y, k + 1)
      BY <2>1 DEF NoneFrom
    <2> QED BY <2>2, <2>3, AnswersBy
  <1> QED BY <1>4, <1>5, <1>6

\* A selector or a modifier behind the first character of an element.
LEMMA ElementRead ==
    ASSUME NEW y, NEW k \in Nat \ {0}, ChainTo(y, k - 1), ElementAt(y, k, k + 1),
           k >= 2 \/ y[1] # KEYCAP_BASE
    PROVE  EmojiTo(y, k + 1) /\ ReadsTo(y, 5, k + 1)
  <1>1. (k + 1) - 2 = k - 1 /\ (k + 1) - 1 = k /\ k - 1 \in Nat /\ (k - 1) + 1 = k
        /\ k + 1 \in Nat \ {0}
    OBVIOUS
  <1>2. ReadsTo(y, 5, k + 1)
    BY <1>1 DEF ReadsTo
  <1>3. CASE k >= 2
    <2>1. JoinedTo(y, k + 1)
      BY <1>1, <1>3, ChainEnds
    <2> QED BY <1>2, <2>1 DEF EmojiTo
  <1>4. CASE k = 1
    <2>1. PairTo(y, k + 1)
      BY <1>4 DEF PairTo, ElementAt
    <2> QED BY <1>2, <2>1 DEF EmojiTo
  <1> QED BY <1>3, <1>4

\* The first character of an element behind a joiner,
LEMMA FromJoinedElement ==
    ASSUME NEW y, NEW k \in Nat, NEW cs \in {4, 6}, ReadsTo(y, cs, k), y[k + 1] \in 1 .. 16
    PROVE  Answers(y, k, Row(cs, y[k + 1]))
  <1> DEFINE c == y[k + 1]
  <1>1. /\ k \in Nat \ {0} /\ k >= 2 /\ ChainTo(y, k - 1) /\ y[k] \in Standing
        /\ cs = 6 <=> y[k] = EMOJI_MODIFIER_BASE
    BY DEF ReadsTo
  <1>2. k - 1 \in Nat \ {0} /\ (k - 1) + 1 = k
    BY <1>1
  <1>3. JointAt(y, k - 1) /\ y[k - 1] = ZWJ
    BY <1>1, <1>2 DEF ChainTo, JointAt
  <1>4. ElementAt(y, k, k)
    BY <1>1 DEF ElementAt
  <1>5. CASE c = ZWJ
    <2>1. ~KnownTo(y, k + 1) /\ ReadsTo(y, 0, k + 1)
      BY <1>1, <1>2, <1>4, <1>5, JoinerRead
    <2>2. Row(cs, c) = 13
      BY <1>5 DEF Row
    <2> QED BY <2>1, <2>2, AnswersBy
  <1>6. CASE c = VS16 \/ (cs = 6 /\ c = EMOJI_MODIFIER)
    <2>1. ElementAt(y, k, k + 1)
      BY <1>1, <1>6 DEF ElementAt
    <2>2. EmojiTo(y, k + 1) /\ ReadsTo(y, 5, k + 1)
      BY <1>1, <2>1, ElementRead
    <2>3. Row(cs, c) = 15
      BY <1>6 DEF Row
    <2> QED BY <2>2, <2>3, AnswersBy
  <1>7. CASE c \notin {ZWJ, VS16} /\ ~(cs = 6 /\ c = EMOJI_MODIFIER)
    <2>1. ASSUME NEW m \in Nat, m >= k + 1, KnownTo(y, m) PROVE FALSE
      <3>1. k - 1 \in 1 .. m /\ m > k
        BY <1>1, <2>1
      <3>2. JoinedTo(y, m)
        BY <1>3, <2>1, <3>1, JoinerTells
      <3> QED BY <1>1, <1>3, <1>7, <3>1, <3>2, BehindFirst
    <2>2. Row(cs, c) = 16
      BY <1>7 DEF Row
    <2>3. NoneFrom(y, k + 1)
      BY <2>1 DEF NoneFrom
    <2> QED BY <2>2, <2>3, AnswersBy
  <1> QED BY <1>5, <1>6, <1>7

\* and an element that is complete.
LEMMA FromState5 ==
    ASSUME NEW y, NEW k \in Nat, ReadsTo(y, 5, k), y[k + 1] \in 1 .. 16
    PROVE  Answers(y, k, Row(5, y[k + 1]))
  <1> DEFINE c == y[k + 1]
  <1>1. k >= 2 /\ ChainTo(y, k - 2) /\ ElementAt(y, k - 1, k) /\ (k = 2 => y[1] # KEYCAP_BASE)
    BY DEF ReadsTo
  <1>2. k - 2 \in Nat /\ (k - 2) + 1 = k - 1 /\ k \in {(k - 2) + 1, (k - 2) + 2}
    BY <1>1
  <1>3. JointAt(y, k - 2)
    BY DEF ChainTo, ReadsTo
  <1>4. CASE c = ZWJ
    <2>1. ~KnownTo(y, k + 1) /\ ReadsTo(y, 0, k + 1)
      BY <1>1, <1>2, <1>4, JoinerRead
    <2>2. Row(5, c) = 13
      BY <1>4 DEF Row
    <2> QED BY <2>1, <2>2, AnswersBy
  <1>5. CASE c # ZWJ
    <2>1. ASSUME NEW m \in Nat, m >= k + 1, KnownTo(y, m) PROVE FALSE
      <3>1. JoinedTo(y, m)
        <4>1. CASE k = 2
          <5>1. m >= 3 /\ ElementAt(y, 1, 2) /\ y[1] # KEYCAP_BASE
            BY <1>1, <2>1, <4>1
          <5>2. y[2] # TAG_SEQUENCE
            BY <5>1 DEF ElementAt, Standing
          <5>3. ~TaggedTo(y, m)
            <6>1. 2 \in 2 .. m - 1
              BY <5>1
            <6> QED BY <5>2, <6>1 DEF TaggedTo
          <5> QED BY <2>1, <5>1, <5>3 DEF KnownTo, EmojiTo, PairTo, KeycapTo, TextTo
        <4>2. CASE k # 2
          <5>1. k - 2 \in 1 .. m /\ y[k - 2] = ZWJ
            BY <1>1, <1>3, <2>1, <4>2 DEF JointAt
          <5> QED BY <2>1, <5>1, JoinerTells
        <4> QED BY <4>1, <4>2
      <3>2. m > k
        BY <2>1
      <3> QED BY <1>1, <1>3, <1>5, <2>1, <3>1, <3>2, BehindSecond
    <2>2. Row(5, c) = 16
      BY <1>5 DEF Row
    <2>3. NoneFrom(y, k + 1)
      BY <2>1 DEF NoneFrom
    <2> QED BY <2>2, <2>3, AnswersBy
  <1> QED BY <1>4, <1>5

\* One half of a flag.
LEMMA FromState8 ==
    ASSUME NEW y, NEW k \in Nat, ReadsTo(y, 8, k), y[k + 1] \in 1 .. 16
    PROVE  Answers(y, k, Row(8, y[k + 1]))
  <1> DEFINE c == y[k + 1]
  <1>1. k = 1 /\ y[1] = REGIONAL_INDICATOR /\ k + 1 = 2
    BY DEF ReadsTo
  <1>2. ASSUME NEW m \in Nat, m >= 2, KnownTo(y, m) PROVE m = 2 /\ c = REGIONAL_INDICATOR
    <2>1. y[1] \notin Standing
      BY <1>1 DEF Standing
    <2>2. ~JoinedTo(y, m)
      <3>1. 0 \in 0 .. m /\ JointAt(y, 0) /\ 0 + 1 = 1
        BY DEF JointAt
      <3>2. ASSUME JoinedTo(y, m) PROVE FALSE
        <4>1. PICK b \in 1 .. m + 1 : ElementAt(y, 1, b - 1)
          BY <3>1, <3>2, NextElement
        <4> QED BY <1>1, <2>1, <4>1 DEF ElementAt
      <3> QED BY <3>2
    <2> QED BY <1>1, <1>2, <2>1, <2>2 DEF KnownTo, EmojiTo, PairTo, KeycapTo, TextTo,
                                          TaggedTo
  <1>3. CASE c = REGIONAL_INDICATOR
    <2>1. EmojiTo(y, k + 1)
      BY <1>1, <1>3 DEF EmojiTo, PairTo
    <2>2. NoneFrom(y, k + 2)
      BY <1>1, <1>2 DEF NoneFrom
    <2>3. Row(8, c) = 5
      BY <1>3 DEF Row
    <2> QED BY <2>1, <2>2, <2>3, AnswersBy
  <1>4. CASE c # REGIONAL_INDICATOR
    <2>1. NoneFrom(y, k + 1)
      BY <1>1, <1>2, <1>4 DEF NoneFrom
    <2>2. Row(8, c) = 17
      BY <1>4 DEF Row
    <2> QED BY <2>1, <2>2, AnswersBy
  <1> QED BY <1>3, <1>4

\* A keycap without its cap.
LEMMA FromState10 ==
    ASSUME NEW y, NEW k \in Nat, ReadsTo(y, 10, k), y[k + 1] \in 1 .. 16
    PROVE  Answers(y, k, Row(10, y[k + 1]))
  <1> DEFINE c == y[k + 1]
  <1>1. k = 2 /\ y[1] = KEYCAP_BASE /\ y[2] = VS16 /\ k + 1 = 3
    BY DEF ReadsTo
  <1>2. ChainTo(y, 0) /\ ElementAt(y, 1, 2)
    BY <1>1, ChainBegins DEF ElementAt, Standing
  <1>3. ASSUME NEW m \in Nat, m >= 3, KnownTo(y, m), ~JoinedTo(y, m)
        PROVE  m = 3 /\ c = COMBINING_ENCLOSING_KEYCAP
    BY <1>1, <1>3 DEF KnownTo, EmojiTo, PairTo, KeycapTo, TextTo, TaggedTo
  <1>4. ASSUME NEW m \in Nat, m >= 3, JoinedTo(y, m) PROVE c = ZWJ
    <2>1. JointAt(y, k - 2) /\ k - 1 = 1 /\ m > k
      BY <1>1, <1>4 DEF JointAt
    <2> QED BY <1>1, <1>2, <1>4, <2>1, BehindSecond
  <1>5. CASE c = COMBINING_ENCLOSING_KEYCAP
    <2>1. EmojiTo(y, k + 1)
      BY <1>1, <1>5 DEF EmojiTo, KeycapTo
    <2>2. NoneFrom(y, k + 2)
      BY <1>1, <1>3, <1>4, <1>5 DEF NoneFrom
    <2>3. Row(10, c) = 5
      BY <1>5 DEF Row
    <2> QED BY <2>1, <2>2, <2>3, AnswersBy
  <1>6. CASE c = ZWJ
    <2>1. ~KnownTo(y, k + 1) /\ ReadsTo(y, 0, k + 1)
      BY <1>1, <1>2, <1>6, JoinerRead
    <2>2. Row(10, c) = 13
      BY <1>6 DEF Row
    <2> QED BY <2>1, <2>2, AnswersBy
  <1>7. CASE c \notin {COMBINING_ENCLOSING_KEYCAP, ZWJ}
    <2>1. NoneFrom(y, k + 1)
      BY <1>1, <1>3, <1>4, <1>7 DEF NoneFrom
    <2>2. Row(10, c) = 16
      BY <1>7 DEF Row
    <2> QED BY <2>1, <2>2, AnswersBy
  <1> QED BY <1>5, <1>6, <1>7

\* The states that one emoji leads to.
LEMMA FromFirstEmoji ==
    ASSUME NEW y, NEW k \in Nat, NEW cs \in {3, 7, 9, 11}, ReadsTo(y, cs, k), y[k + 1] \in 1 .. 16
    PROVE  Answers(y, k, Row(cs, y[k + 1]))
  <1> DEFINE c == y[k + 1]
  <1>1. /\ k = 1 /\ y[1] \in Standing /\ k + 1 = 2 /\ k + 2 = 3
        /\ cs = 7 <=> y[1] = EMOJI_MODIFIER_BASE
        /\ cs = 9 <=> y[1] = KEYCAP_BASE
        /\ cs = 11 <=> y[1] = TAG_BASE
    BY DEF ReadsTo, Standing
  <1>2. ASSUME NEW m \in Nat, m >= 2, KnownTo(y, m)
        PROVE  \/ c \in {ZWJ, VS16}
               \/ m = 2 /\ c \in {VS15, COMBINING_ENCLOSING_CIRCLE_BACKSLASH}
               \/ cs = 7 /\ c = EMOJI_MODIFIER
               \/ cs = 11 /\ c = TAG_SEQUENCE
    <2>1. m > 1
      BY <1>2
    <2> QED BY <1>1, <1>2, <2>1, BehindStanding
  <1>3. ChainTo(y, 0) /\ ChainTo(y, k - 1) /\ ElementAt(y, 0 + 1, 1)
    <2>1. k - 1 = 0 /\ 0 + 1 = 1
      BY <1>1
    <2> QED BY <1>1, <2>1, ChainBegins DEF ElementAt
  <1>4. CASE c = COMBINING_ENCLOSING_CIRCLE_BACKSLASH
    <2>1. EmojiTo(y, k + 1)
      BY <1>1, <1>4 DEF EmojiTo, PairTo
    <2>2. NoneFrom(y, k + 2)
      BY <1>1, <1>2, <1>4 DEF NoneFrom
    <2>3. Row(cs, c) = 5
      BY <1>4 DEF Row
    <2> QED BY <2>1, <2>2, <2>3, AnswersBy
  <1>5. CASE c = ZWJ
    <2>1. ~KnownTo(y, k + 1) /\ ReadsTo(y, 0, k + 1)
      BY <1>1, <1>3, <1>5, JoinerRead
    <2>2. Row(cs, c) = 13
      BY <1>5 DEF Row
    <2> QED BY <2>1, <2>2, AnswersBy
  <1>6. CASE c = VS15
    <2>1. TextTo(y, k + 1) /\ NoneFrom(y, k + 2)
      BY <1>1, <1>2, <1>6 DEF NoneFrom, TextTo
    <2>2. ~EmojiTo(y, k + 1)
      <3>1. ~JoinedTo(y, k + 1)
        BY <1>1, <1>6 DEF JoinedTo, Standing
      <3> QED BY <1>1, <1>6, <3>1 DEF EmojiTo, PairTo, KeycapTo, TaggedTo
    <2>3. Row(cs, c) = 14
      BY <1>6 DEF Row
    <2> QED BY <2>1, <2>2, <2>3, AnswersBy
  <1>7. CASE c = VS16 /\ cs = 9
    <2>1. EmojiTo(y, k + 1)
      BY <1>1, <1>7 DEF EmojiTo, PairTo
    <2>2. ReadsTo(y, 10, k + 1)
      BY <1>1, <1>7 DEF ReadsTo
    <2>3. Row(cs, c) = 18
      BY <1>7 DEF Row
    <2> QED BY <2>1, <2>2, <2>3, AnswersBy
  <1>8. CASE (c = VS16 /\ cs # 9) \/ (c = EMOJI_MODIFIER /\ cs = 7)
    <2>1. ElementAt(y, k, k + 1) /\ y[1] # KEYCAP_BASE
      BY <1>1, <1>8 DEF ElementAt
    <2>2. EmojiTo(y, k + 1) /\ ReadsTo(y, 5, k + 1)
      BY <1>1, <1>3, <2>1, ElementRead
    <2>3. Row(cs, c) = 15
      BY <1>8 DEF Row
    <2> QED BY <2>2, <2>3, AnswersBy
  <1>9. CASE c = TAG_SEQUENCE /\ cs = 11
    <2>1. ReadsTo(y, 1, k + 1)
      BY <1>1, <1>9 DEF ReadsTo
    <2>2. ~KnownTo(y, k + 1)
      <3>1. ~JoinedTo(y, k + 1)
        BY <1>1, <1>9 DEF JoinedTo, Standing
      <3> QED BY <1>1, <1>9, <3>1 DEF KnownTo, EmojiTo, TextTo, PairTo, KeycapTo, TaggedTo
    <2>3. Row(cs, c) = 4
      BY <1>9 DEF Row
    <2> QED BY <2>1, <2>2, <2>3, AnswersBy
  <1>10. CASE /\ c \notin {COMBINING_ENCLOSING_CIRCLE_BACKSLASH, ZWJ, VS15, VS16}
              /\ ~(c = EMOJI_MODIFIER /\ cs = 7) /\ ~(c = TAG_SEQUENCE /\ cs = 11)
    <2>1. NoneFrom(y, k + 1)
      BY <1>1, <1>2, <1>10 DEF NoneFrom
    <2>2. Row(cs, c) \in {0, 16, 17}
      BY <1>10 DEF Row
    <2> QED BY <2>1, <2>2, AnswersBy
  <1> QED BY <1>4, <1>5, <1>6, <1>7, <1>8, <1>9, <1>10

(***************************************************************************)
(* What the scanner knows after k characters                               *)
(***************************************************************************)

\* What s, the state after the first k characters from `from' on, stands for: the longest
\* sequence among those that are within them.
KnowsBest(y, s, from, k) ==
    LET best == Mark(s, from + k) - from
    IN  /\ best \in 1 .. k
        /\ \A m \in best + 1 .. k : ~KnownTo(y, m)
        /\ best = 1 \/ KnownTo(y, best)
        /\ IsEmojiMark(s) <=> EmojiTo(y, best)
        /\ s.returned => NoneFrom(y, best + 1)
        /\ ~s.returned => ReadsTo(y, s.cs, k)

\* One more character.
LEMMA TakeKnowsBest ==
    ASSUME NEW y, NEW from \in Nat, NEW k \in Nat \ {0}, NEW s, ~s.returned,
           Knowing(s, from, from + k), KnowsBest(y, s, from, k), y[k + 1] \in 1 .. 16,
           NEW r, r = Take(s, Transition(s.cs, y[k + 1]), from + k)
    PROVE  KnowsBest(y, r, from, k + 1)
  <1> DEFINE q == from + k
             trans == Row(s.cs, y[k + 1])
             best == Mark(s, q) - from
  <1>1. /\ q \in Int /\ from <= q /\ from < q /\ from + (k + 1) = q + 1 /\ s \in ScanState
        /\ s.cs \in 0 .. 11 /\ s.cs # 2 /\ s.te \in Int
        /\ s.cs \in {4, 5, 6, 7, 9, 10, 11} => s.te = q
        /\ s.cs # 8 => s.act \in {2, 3}
    BY DEF Knowing, Scanning, ScanState
  <1>2. /\ best \in 1 .. k
        /\ \A m \in best + 1 .. k : ~KnownTo(y, m)
        /\ best = 1 \/ KnownTo(y, best)
        /\ IsEmojiMark(s) <=> EmojiTo(y, best)
        /\ ReadsTo(y, s.cs, k)
    BY DEF KnowsBest
  <1>3. r = Take(s, trans, q) /\ Transition(s.cs, y[k + 1]) = trans
    BY <1>1, RowIs
  <1>4. Answers(y, k, trans)
    <2>1. s.cs \in {0, 1, 4, 6, 5, 8, 10, 3, 7, 9, 11}
      BY <1>1
    <2> QED BY <1>2, <2>1, FromState0, FromState1, FromJoinedElement, FromState5,
               FromState8,
               FromState10, FromFirstEmoji
  <1>5. /\ trans = 0 => s.cs \in {0, 3}
        /\ trans = 3 => s.cs = 1
        /\ trans = 4 => s.cs \in {1, 11}
        /\ trans = 16 => s.cs \in {4, 5, 6, 7, 10, 11}
        /\ trans = 17 => s.cs \in {8, 9}
        /\ trans = 13 => s.cs # 8
    <2>1. trans = 13 => s.cs # 8
      BY <1>1 DEF Row
    <2> QED BY <1>1, <1>3, <2>1, TransitionFrom
  <1>6. /\ Knowing(r, from, q + 1)
        /\ Mark(s, q) = Mark(r, q + 1) => (IsEmojiMark(s) <=> IsEmojiMark(r))
    BY <1>1, TakeKnowing
  <1>7. trans \in {4, 13} \/ trans \in {1, 2, 15, 18} \/ trans \in {5, 14} \/ trans \in {0, 3, 16, 17}
    BY <1>4 DEF Answers
  <1>8. Mark(s, q) \in Int /\ Mark(s, q) = from + best
    BY <1>1 DEF Mark
  <1> HIDE DEF trans, q, best
  <1>9. ASSUME Mark(r, q + 1) = Mark(s, q), ~KnownTo(y, k + 1), r.returned => NoneFrom(y, k + 1),
               ~r.returned => ReadsTo(y, r.cs, k + 1)
        PROVE  KnowsBest(y, r, from, k + 1)
    <2>1. Mark(r, from + (k + 1)) - from = best
      BY <1>1, <1>2, <1>8, <1>9
    <2>2. IsEmojiMark(r) <=> EmojiTo(y, best)
      BY <1>2, <1>6, <1>9
    <2>3. \A m \in best + 1 .. k + 1 : m \in best + 1 .. k \/ m = k + 1
      BY <1>2
    <2>4. \A m \in best + 1 .. k + 1 : ~KnownTo(y, m)
      BY <1>2, <1>9, <2>3
    <2>5. r.returned => NoneFrom(y, best + 1)
      <3>1. \A m \in Nat : m >= best + 1 => m \in best + 1 .. k \/ m >= k + 1
        BY <1>2
      <3> QED BY <1>2, <1>9, <3>1 DEF NoneFrom
    <2>6. best \in 1 .. k + 1
      BY <1>2
    <2> QED BY Zenon, <1>2, <1>9, <2>1, <2>2, <2>4, <2>5, <2>6 DEF KnowsBest
  <1>10. ASSUME Mark(r, q + 1) = q + 1, KnownTo(y, k + 1), IsEmojiMark(r) <=> EmojiTo(y, k + 1),
                r.returned => NoneFrom(y, k + 2), ~r.returned => ReadsTo(y, r.cs, k + 1)
         PROVE  KnowsBest(y, r, from, k + 1)
    <2>1. Mark(r, from + (k + 1)) - from = k + 1
      BY <1>1, <1>10 DEF q
    <2>2. k + 1 \in 1 .. k + 1 /\ (k + 1) + 1 = k + 2 /\ \A m \in k + 2 .. k + 1 : FALSE
      OBVIOUS
    <2> QED BY Zenon, <1>10, <2>1, <2>2 DEF KnowsBest
  <1>11. CASE trans \in {4, 13}
    <2> DEFINE cs == trans_targs[trans + 1]
    <2>1. r = [s EXCEPT !.cs = cs]
      BY <1>1, <1>3, <1>11, TakeNone
    <2>2. cs \in {0, 1}
      BY <1>11, Targets
    <2>3. ~KnownTo(y, k + 1) /\ ReadsTo(y, cs, k + 1)
      BY <1>4, <1>11 DEF Answers
    <2> HIDE DEF cs
    <2>4. r.cs = cs /\ r.te = s.te /\ ~r.returned
      BY <1>1, <2>1 DEF ScanState
    <2>5. Mark(r, q + 1) = Mark(s, q)
      <3>1. s.cs \in {0, 1, 3} \/ s.te = q
        BY <1>1, <1>5, <1>11
      <3> QED BY <2>2, <2>4, <3>1 DEF Mark
    <2> QED BY <1>9, <2>3, <2>4, <2>5
  <1>12. CASE trans \in {1, 2, 15, 18}
    <2> DEFINE cs == trans_targs[trans + 1]
    <2>1. Matched(r, s, cs, q, 2)
      <3>1. ActOf(trans) = 2
        BY <1>12 DEF ActOf
      <3> QED BY <1>1, <1>3, <1>12, <3>1, TakeTwo
    <2>2. cs \in {4, 5, 6, 10}
      BY <1>12, Targets
    <2>3. EmojiTo(y, k + 1) /\ ReadsTo(y, cs, k + 1)
      BY <1>4, <1>12 DEF Answers
    <2> HIDE DEF cs
    <2>4. r.cs = cs /\ r.act = 2 /\ ~r.returned
      BY <1>1, <2>1 DEF Matched, ScanState
    <2>5. Mark(r, q + 1) = q + 1 /\ IsEmojiMark(r)
      BY <2>2, <2>4 DEF Mark, IsEmojiMark
    <2> QED BY <1>10, <2>3, <2>4, <2>5 DEF KnownTo
  <1>13. CASE trans \in {0, 3, 5, 14, 16, 17}
    <2> DEFINE b == [s EXCEPT !.cs = 2]
               end == EndOf(s, trans, q)
    <2>1. trans = 0 => s.act \in {2, 3}
      BY <1>1, <1>5
    <2>2. ReturnsAs(r, s, trans, b, end)
      BY <1>1, <1>3, <1>13, <2>1, TakeReturns
    <2>3. b \in ScanState
      BY <1>1 DEF ScanState
    <2>4. trans \in {5, 14} => end = q + 1
      BY DEF EndOf
    <2>5. trans \in {0, 3, 16, 17} => end = Mark(s, q)
      BY <1>1, <1>5 DEF EndOf, Mark
    <2> HIDE DEF b, end
    <2>6. r.returned = TRUE /\ r.out = end
      BY <2>2, <2>3 DEF ReturnsAs, Return, ScanState
    <2>7. Mark(r, q + 1) = end
      BY <2>6 DEF Mark
    <2>8. CASE trans = 5
      <3>1. IsEmojiMark(r)
        <4>1. r = Return(b, end, TRUE)
          BY <2>2, <2>8 DEF ReturnsAs, EmojiEnd
        <4>2. r.is_emoji = TRUE
          BY <2>3, <4>1 DEF Return, ScanState
        <4> QED BY <2>6, <4>2 DEF IsEmojiMark
      <3>2. EmojiTo(y, k + 1) /\ NoneFrom(y, k + 2)
        BY <1>4, <2>8 DEF Answers
      <3> QED BY <1>10, <2>4, <2>6, <2>7, <2>8, <3>1, <3>2 DEF KnownTo
    <2>9. CASE trans = 14
      <3>1. ~IsEmojiMark(r)
        <4>1. r = Return(b, end, FALSE)
          <5>1. ~EmojiEnd(s, trans)
            BY <2>9 DEF EmojiEnd
          <5> QED BY <2>2, <5>1 DEF ReturnsAs
        <4>2. r.is_emoji = FALSE
          BY <2>3, <4>1 DEF Return, ScanState
        <4> QED BY <2>6, <4>2 DEF IsEmojiMark
      <3>2. TextTo(y, k + 1) /\ ~EmojiTo(y, k + 1) /\ NoneFrom(y, k + 2)
        BY <1>4, <2>9 DEF Answers
      <3> QED BY <1>10, <2>4, <2>6, <2>7, <2>9, <3>1, <3>2 DEF KnownTo
    <2>10. CASE trans \in {0, 3, 16, 17}
      <3>1. NoneFrom(y, k + 1)
        BY <1>4, <2>10 DEF Answers
      <3>2. ~KnownTo(y, k + 1)
        BY <3>1 DEF NoneFrom
      <3> QED BY <1>9, <2>5, <2>6, <2>7, <2>10, <3>1, <3>2
    <2> QED BY <1>13, <2>8, <2>9, <2>10
  <1> QED BY <1>7, <1>11, <1>12, <1>13

\* What can be known of a text is told by its first character.
LEMMA FirstTells ==
    ASSUME NEW y, NEW m \in Nat \ {0}, KnownTo(y, m)
    PROVE  /\ y[1] \in Standing \cup {REGIONAL_INDICATOR}
           /\ m = 1 => y[1] \in ByDefault
  <1>1. CASE JoinedTo(y, m)
    <2>1. 0 \in 0 .. m /\ JointAt(y, 0) /\ 0 + 1 = 1
      BY DEF JointAt
    <2>2. PICK b \in 1 .. m + 1 : ElementAt(y, 1, b - 1)
      BY <1>1, <2>1, NextElement
    <2>3. y[1] \in Standing
      BY <2>2 DEF ElementAt, Standing
    <2>4. m # 1
      <3>1. PICK i \in 1 .. m : y[i] = ZWJ
        BY <1>1 DEF JoinedTo
      <3> QED BY <2>3, <3>1 DEF Standing
    <2> QED BY <2>3, <2>4
  <1>2. CASE ~JoinedTo(y, m)
    BY <1>2 DEF KnownTo, EmojiTo, TextTo, PairTo, KeycapTo, TaggedTo, Standing, ByDefault
  <1> QED BY <1>1, <1>2

\* The first character.
LEMMA BeginKnowsBest ==
    ASSUME NEW y, NEW from \in Nat, y[1] \in 1 .. 16,
           NEW r, r = Take(Begin, Transition(2, y[1]), from)
    PROVE  KnowsBest(y, r, from, 1)
  <1> DEFINE trans == Row(2, y[1])
  <1>1. /\ Begin \in ScanState /\ ~Begin.returned /\ from \in Int
        /\ Knowing(r, from, from + 1) /\ r.cs \in 0 .. 11
    <2>1. Begin \in ScanState /\ ~Begin.returned /\ Begin.cs = 2 /\ Knowing(Begin, from, from)
      BY DEF Begin, start, ScanState, Knowing, Scanning
    <2>2. Knowing(r, from, from + 1)
      BY <2>1, TakeKnowing
    <2> QED BY <2>1, <2>2 DEF Knowing, Scanning, ScanState
  <1>2. r = Take(Begin, trans, from)
    BY RowIs
  <1>3. /\ trans = 6 <=> y[1] = EMOJI_TEXT_PRESENTATION
        /\ trans = 7 <=> y[1] = EMOJI_EMOJI_PRESENTATION
        /\ trans = 8 <=> y[1] = EMOJI_MODIFIER_BASE
        /\ trans = 10 <=> y[1] = REGIONAL_INDICATOR
        /\ trans = 11 <=> y[1] = KEYCAP_BASE
        /\ trans = 12 <=> y[1] = TAG_BASE
        /\ trans \in {6, 7, 8, 9, 10, 11, 12}
    BY DEF Row
  <1>4. EmojiTo(y, 1) <=> y[1] \in ByDefault
    <2>1. 1 \in Nat \ {0}
      OBVIOUS
    <2> QED BY <2>1, FirstTells DEF KnownTo, EmojiTo
  <1> HIDE DEF trans
  <1>5. ASSUME Mark(r, from + 1) = from + 1, IsEmojiMark(r) <=> y[1] \in ByDefault,
               r.returned => NoneFrom(y, 2), ~r.returned => ReadsTo(y, r.cs, 1)
        PROVE  KnowsBest(y, r, from, 1)
    <2>1. Mark(r, from + 1) - from = 1
      BY <1>5
    <2>2. 1 \in 1 .. 1 /\ 1 + 1 = 2 /\ \A m \in 2 .. 1 : FALSE
      OBVIOUS
    <2> QED BY Zenon, <1>4, <1>5, <2>1, <2>2 DEF KnowsBest
  <1>6. CASE trans \in {6, 7, 8, 11, 12}
    <2> DEFINE cs == trans_targs[trans + 1]
               act == ActOf(trans)
    <2>1. Matched(r, Begin, cs, from, act)
      BY <1>1, <1>2, <1>6, TakeTwo
    <2>2. /\ trans \in {6, 7} => cs = 3
          /\ trans = 8 => cs = 7
          /\ trans = 11 => cs = 9
          /\ trans = 12 => cs = 11
      BY Targets
    <2>3. act = 3 <=> trans \in {6, 11}
      BY DEF ActOf
    <2>4. act \in {2, 3}
      BY DEF ActOf
    <2> HIDE DEF cs, act
    <2>5. r.cs = cs /\ r.te = from + 1 /\ r.act = act /\ ~r.returned
      BY <1>1, <2>1 DEF Matched, ScanState
    <2>6. Mark(r, from + 1) = from + 1
      BY <2>5 DEF Mark
    <2>7. IsEmojiMark(r) <=> y[1] \in ByDefault
      BY <1>3, <1>6, <2>2, <2>3, <2>4, <2>5 DEF IsEmojiMark, ByDefault
    <2>8. ReadsTo(y, r.cs, 1)
      BY <1>3, <1>6, <2>2, <2>5 DEF ReadsTo
    <2> QED BY <1>5, <2>5, <2>6, <2>7, <2>8
  <1>7. CASE trans = 10
    <2>1. r = [Begin EXCEPT !.cs = trans_targs[trans + 1]]
      BY <1>1, <1>2, <1>7, TakeNone
    <2>2. r.cs = 8 /\ ~r.returned
      BY <1>1, <1>7, <2>1, Targets DEF ScanState
    <2>3. Mark(r, from + 1) = from + 1 /\ ~IsEmojiMark(r)
      BY <2>2 DEF Mark, IsEmojiMark
    <2>4. y[1] \notin ByDefault /\ ReadsTo(y, r.cs, 1)
      BY <1>3, <1>7, <2>2 DEF ReadsTo, ByDefault
    <2> QED BY <1>5, <2>2, <2>3, <2>4
  <1>8. CASE trans = 9
    <2> DEFINE b == [Begin EXCEPT !.cs = 2]
               end == EndOf(Begin, trans, from)
    <2>1. ReturnsAs(r, Begin, trans, b, end)
      BY <1>1, <1>2, <1>8, TakeReturns
    <2>2. b \in ScanState
      BY <1>1 DEF ScanState
    <2>3. end = from + 1
      BY <1>8 DEF EndOf
    <2> HIDE DEF b, end
    <2>4. r = Return(b, end, FALSE)
      <3>1. ~EmojiEnd(Begin, trans)
        BY <1>8 DEF EmojiEnd
      <3> QED BY <2>1, <3>1 DEF ReturnsAs
    <2>5. r.returned = TRUE /\ r.out = end /\ r.is_emoji = FALSE
      BY <2>2, <2>4 DEF Return, ScanState
    <2>6. Mark(r, from + 1) = from + 1 /\ ~IsEmojiMark(r)
      BY <2>3, <2>5 DEF Mark, IsEmojiMark
    <2>7. y[1] \notin Standing \cup {REGIONAL_INDICATOR} /\ y[1] \notin ByDefault
      BY <1>3, <1>8 DEF Standing, ByDefault
    <2>8. NoneFrom(y, 2)
      <3>1. ASSUME NEW m \in Nat, m >= 2, KnownTo(y, m) PROVE FALSE
        BY <2>7, <3>1, FirstTells
      <3> QED BY <3>1 DEF NoneFrom
    <2> QED BY <1>5, <2>5, <2>6, <2>7, <2>8
  <1> QED BY <1>3, <1>6, <1>7, <1>8

\* What the call has in front of it.
Ahead(t, from, end) == [i \in 1 .. end - from |-> t[from + i]]

\* The call returns the longest sequence of those that are in front of it, and says
\* whether it is an emoji.
FindsLongest(t, from, end) ==
    LET y    == Ahead(t, from, end)
        best == Scan(t, from, end).out - from
    IN  /\ best \in 1 .. end - from
        /\ \A m \in best + 1 .. end - from : ~KnownTo(y, m)
        /\ best = 1 \/ KnownTo(y, best)
        /\ Scan(t, from, end).is_emoji <=> EmojiTo(y, best)

\* Scan does so in any text of categories, wherever it starts and ends.
THEOREM ScanFindsLongest ==
    ASSUME NEW t, NEW from \in Nat, NEW end \in Nat, from < end,
           \A i \in from + 1 .. end : t[i] \in 1 .. 16
    PROVE  FindsLongest(t, from, end)
  <1> DEFINE y == Ahead(t, from, end)
             best == Scan(t, from, end).out - from
  <1> SUFFICES /\ best \in 1 .. end - from
               /\ \A m \in best + 1 .. end - from : ~KnownTo(y, m)
               /\ best = 1 \/ KnownTo(y, best)
               /\ Scan(t, from, end).is_emoji <=> EmojiTo(y, best)
    BY Zenon DEF FindsLongest
  <1> DEFINE n == end - from
  <1>1. n \in Nat \ {0} /\ n \in 0 .. n /\ n \in 1 .. n /\ from + n = end
    OBVIOUS
  <1>2. \A i \in 1 .. n : y[i] = t[from + i] /\ y[i] \in 1 .. 16
    <2>1. \A i \in 1 .. n : from + i \in from + 1 .. end
      OBVIOUS
    <2> QED BY <2>1 DEF Ahead
  <1> HIDE DEF y
  <1>3. PICK after : Advances(after, t, from, n) /\ AtEnd(t, from, end) = after[n]
    BY AtEndAdvances
  <1> HIDE DEF n
  <1>4. \A k \in 0 .. n : Knowing(after[k], from, from + k)
    BY <1>1, <1>3, AdvancesKnowing
  <1> DEFINE S == {k \in 0 .. n : k # 0 => KnowsBest(y, after[k], from, k)}
  <1>5. 0 \in S
    BY <1>1
  <1>6. ASSUME NEW k \in 0 .. n - 1, k \in S PROVE k + 1 \in S
    <2>1. k + 1 \in 1 .. n /\ k + 1 \in 0 .. n /\ (k + 1) - 1 = k /\ from + (k + 1) - 1 = from + k
          /\ k \in 0 .. n
      BY <1>1
    <2>2. y[k + 1] = t[from + (k + 1)] /\ y[k + 1] \in 1 .. 16
      BY <1>2, <2>1
    <2>3. after[k + 1] = IF after[k].returned THEN after[k]
                         ELSE Take(after[k], Transition(after[k].cs, y[k + 1]), from + k)
      BY <1>3, <2>1, <2>2 DEF Advances
    <2>4. KnowsBest(y, after[k + 1], from, k + 1)
      <3>1. CASE k = 0
        <4>1. after[0] = Begin /\ ~Begin.returned /\ Begin.cs = 2 /\ from + 0 = from /\ 0 + 1 = 1
          BY <1>3 DEF Advances, Begin, start
        <4>2. after[1] = Take(Begin, Transition(2, y[1]), from) /\ y[1] \in 1 .. 16
          BY <2>2, <2>3, <3>1, <4>1
        <4>3. KnowsBest(y, after[1], from, 1)
          BY <4>2, BeginKnowsBest
        <4> QED BY <3>1, <4>1, <4>3
      <3>2. CASE k # 0 /\ ~after[k].returned
        <4>1. KnowsBest(y, after[k], from, k) /\ k \in Nat \ {0} /\ Knowing(after[k], from, from + k)
          BY <1>4, <1>6, <2>1, <3>2
        <4> QED BY <2>2, <2>3, <3>2, <4>1, TakeKnowsBest
      <3>3. CASE k # 0 /\ after[k].returned
        <4>1. KnowsBest(y, after[k], from, k) /\ after[k + 1] = after[k]
          BY <1>6, <2>3, <3>3
        <4> DEFINE b == after[k].out - from
        <4>2. Mark(after[k], from + k) - from = b /\ Mark(after[k], from + (k + 1)) - from = b
          BY <3>3 DEF Mark
        <4>3. /\ b \in 1 .. k /\ (b = 1 \/ KnownTo(y, b))
              /\ IsEmojiMark(after[k]) <=> EmojiTo(y, b)
              /\ NoneFrom(y, b + 1)
          BY <3>3, <4>1, <4>2 DEF KnowsBest
        <4> HIDE DEF b
        <4>4. b \in 1 .. k + 1
          BY <4>3
        <4>5. \A m \in b + 1 .. k + 1 : ~KnownTo(y, m)
          <5>1. \A m \in b + 1 .. k + 1 : m \in Nat /\ m >= b + 1
            BY <4>3
          <5> QED BY <4>3, <5>1 DEF NoneFrom
        <4> QED BY Zenon, <3>3, <4>1, <4>2, <4>3, <4>4, <4>5 DEF KnowsBest
      <3> QED BY <3>1, <3>2, <3>3
    <2> QED BY <2>1, <2>4
  <1>7. KnowsBest(y, after[n], from, n)
    <2>1. 0 .. n \subseteq S
      <3> HIDE DEF S
      <3> QED BY <1>1, <1>5, <1>6, UpTo
    <2> QED BY <1>1, <2>1
  <1>8. Knowing(AtEnd(t, from, end), from, end)
    BY <1>1, <1>3, <1>4
  <1>9. /\ Scan(t, from, end).out = Mark(after[n], from + n)
        /\ Scan(t, from, end).is_emoji = TRUE <=> IsEmojiMark(after[n])
    <2>1. /\ Scan(t, from, end).out = Mark(AtEnd(t, from, end), end)
          /\ Scan(t, from, end).is_emoji = TRUE <=> IsEmojiMark(AtEnd(t, from, end))
      BY <1>8, ScanMark
    <2> QED BY Zenon, <1>1, <1>3, <2>1
  <1>10. Scan(t, from, end).is_emoji \in BOOLEAN
    BY ScanAdvances
  <1> QED BY <1>7, <1>9, <1>10 DEF KnowsBest, n

(***************************************************************************)
(* The sequences of codepoints                                             *)
(***************************************************************************)

\* What the grammar asks of a codepoint, and what the scanner sees of it.
Agree(ch, c) ==
    /\ c \in 1 .. 16
    /\ ch \in AnyEmoji <=> c \in Standing
    /\ ch \in EmojiByDefault <=> c \in ByDefault
    /\ ch \in ModifierBase <=> c = EMOJI_MODIFIER_BASE
    /\ ch \in Modifier <=> c = EMOJI_MODIFIER
    /\ ch \in RegionalIndicator <=> c = REGIONAL_INDICATOR
    /\ ch \in KeycapBase <=> c = KEYCAP_BASE
    /\ ch \in TagCharacter <=> c = TAG_SEQUENCE
    /\ ch = EnclosingKeycap <=> c = COMBINING_ENCLOSING_KEYCAP
    /\ ch = EnclosingCircleBackslash <=> c = COMBINING_ENCLOSING_CIRCLE_BACKSLASH
    /\ ch = Joiner <=> c = ZWJ
    /\ ch = TextSelector <=> c = VS15
    /\ ch = EmojiSelector <=> c = VS16
    /\ ch = BlackFlag <=> c = TAG_BASE
    /\ ch = CancelTag <=> c = TAG_TERM

\* The category of a codepoint is one that agrees with it.
LEMMA CategoryAgrees ==
    ASSUME NEW ch \in Alphabet
    PROVE  Agree(ch, category[ch])
  <1> DEFINE c == EmojiSegmentationCategory(ch)
  <1>1. ch \in Int /\ category[ch] = c
    <2>1. Alphabet \subseteq Nat
      BY TextsAssumption
    <2> QED BY SMT, <2>1 DEF category
  <1>2. CategoryTells(ch, c)
    BY <1>1, CategoryIs
  <1> HIDE DEF c
  <1>3. \A table : ch \in With(table) <=> InOneOf(ch, table)
    BY Zenon DEF With, InOneOf, Low, High
  <1>4. /\ ch \in Modifier <=> ch \in ModifierRange
        /\ ch \in RegionalIndicator <=> ch \in RegionalRange
        /\ ch \in KeycapBase <=> ch \in KeycapSet
        /\ ch \in TagCharacter <=> ch \in TagRange
        /\ ch \in ModifierBase <=> InOneOf(ch, Emoji_Modifier_Base_table)
    <2>1. ch \in Modifier <=> ch \in ModifierRange
      BY SMT, <1>1, <1>3, SingleEmoji DEF Modifier, ModifierRange
    <2> QED BY SMT, <1>3, <2>1 DEF RegionalIndicator, RegionalRange, KeycapBase, KeycapSet,
               TagCharacter, TagRange, ModifierBase
  <1>5. ch \in AnyEmoji <=> StandsAlone(ch)
    BY Zenon, <1>3, <1>4 DEF AnyEmoji, StandsAlone
  <1>6. ch \in EmojiByDefault <=> /\ StandsAlone(ch)
                                  /\ \/ InOneOf(ch, Emoji_Presentation_table)
                                     \/ InOneOf(ch, Emoji_Modifier_Base_table)
    BY Zenon, <1>3, <1>4, <1>5 DEF EmojiByDefault
  <1> QED BY SMT, <1>1, <1>2, <1>4, <1>5, <1>6
          DEF CategoryTells, Agree, Standing, ByDefault, EnclosingKeycap, EnclosingCircleBackslash,
              Joiner, TextSelector, EmojiSelector, BlackFlag, CancelTag

\* y is what the scanner sees of the word w.
Seen(w, y) == w \in Seq(Alphabet) /\ \A i \in 1 .. Len(w) : Agree(w[i], y[i])

\* Elements are elements,
LEMMA ElementSeen ==
    ASSUME NEW w, NEW y, Seen(w, y), NEW i \in 1 .. Len(w) + 1, NEW j \in 0 .. Len(w)
    PROVE  IsElement(SubSeq(w, i, j)) <=> ElementAt(y, i, j)
  <1> DEFINE v == SubSeq(w, i, j)
  <1>1. w \in Seq(Alphabet) /\ Len(w) \in Nat
    BY DEF Seen
  <1>2. Len(v) = IF i <= j THEN (j - i) + 1 ELSE 0
    BY <1>1
  <1>3. \A k \in 1 .. Len(v) : v[k] = w[i + k - 1]
    BY <1>1, <1>2
  <1> HIDE DEF v
  <1>4. CASE j = i
    <2>1. Len(v) = 1 /\ v[1] = w[i] /\ i \in 1 .. Len(w)
      BY <1>1, <1>2, <1>3, <1>4
    <2>2. w[i] \in AnyEmoji <=> y[i] \in Standing
      BY <2>1 DEF Seen, Agree
    <2>3. IsElement(v) <=> w[i] \in AnyEmoji
      BY <2>1 DEF IsElement
    <2>4. ElementAt(y, i, j) <=> y[i] \in Standing
      BY <1>4 DEF ElementAt
    <2> QED BY <2>2, <2>3, <2>4 DEF v
  <1>5. CASE j = i + 1
    <2>1. Len(v) = 2 /\ v[1] = w[i] /\ v[2] = w[j] /\ i \in 1 .. Len(w) /\ j \in 1 .. Len(w)
      BY <1>1, <1>2, <1>3, <1>5
    <2>2. /\ w[i] \in AnyEmoji <=> y[i] \in Standing
          /\ w[j] = EmojiSelector <=> y[j] = VS16
          /\ w[i] \in ModifierBase <=> y[i] = EMOJI_MODIFIER_BASE
          /\ w[j] \in Modifier <=> y[j] = EMOJI_MODIFIER
      BY <2>1 DEF Seen, Agree
    <2>3. IsElement(v) <=> \/ w[i] \in AnyEmoji /\ w[j] = EmojiSelector
                           \/ w[i] \in ModifierBase /\ w[j] \in Modifier
      BY <2>1 DEF IsElement
    <2>4. ElementAt(y, i, j) <=> \/ y[i] \in Standing /\ y[j] = VS16
                                 \/ y[i] = EMOJI_MODIFIER_BASE /\ y[j] = EMOJI_MODIFIER
      BY <1>5 DEF ElementAt
    <2> QED BY <2>2, <2>3, <2>4 DEF v
  <1>6. CASE j \notin {i, i + 1}
    <2>1. Len(v) \notin {1, 2}
      BY <1>1, <1>2, <1>6
    <2> QED BY <1>6, <2>1 DEF IsElement, ElementAt, v
  <1> QED BY <1>4, <1>5, <1>6

\* and what is joined is joined.
LEMMA JoinedSeen ==
    ASSUME NEW w, NEW y, Seen(w, y)
    PROVE  IsJoined(w) <=> JoinedTo(y, Len(w))
  <1> DEFINE m == Len(w)
             joints == {0, m + 1} \cup {k \in DOMAIN w : w[k] = Joiner}
             Pairs(a, b) == a < b /\ \A k \in joints : ~(a < k /\ k < b)
  <1>1. m \in Nat /\ DOMAIN w = 1 .. m
    BY DEF Seen
  <1>2. \A k \in 1 .. m : w[k] = Joiner <=> y[k] = ZWJ
    BY DEF Seen, Agree
  <1>3. IsJoined(w) <=> /\ \E k \in DOMAIN w : w[k] = Joiner
                        /\ \A a, b \in joints : Pairs(a, b) => IsElement(SubSeq(w, a + 1, b - 1))
    BY Zenon DEF IsJoined
  <1> HIDE DEF m
  <1>4. \A k \in joints : k \in 0 .. m + 1
    BY <1>1
  <1>5. \A a \in 0 .. m : a \in joints <=> JointAt(y, a)
    BY <1>1, <1>2 DEF JointAt
  <1>6. \A b \in 1 .. m + 1 : b \in joints <=> (b = m + 1 \/ y[b] = ZWJ)
    BY <1>1, <1>2
  <1>7. ASSUME NEW a \in 0 .. m + 1, NEW b \in 0 .. m + 1
        PROVE  Pairs(a, b) <=> Neighbours(y, a, b)
    <2>1. \A k \in a + 1 .. b - 1 : k \in joints <=> y[k] = ZWJ
      BY <1>1, <1>2
    <2>2. \A k \in joints : (a < k /\ k < b) <=> k \in a + 1 .. b - 1
      BY <1>4
    <2> HIDE DEF joints
    <2> QED BY <2>1, <2>2, <1>4 DEF Neighbours
  <1>8. ASSUME NEW a \in 0 .. m, NEW b \in 1 .. m + 1
        PROVE  IsElement(SubSeq(w, a + 1, b - 1)) <=> ElementAt(y, a + 1, b - 1)
    <2>1. a + 1 \in 1 .. Len(w) + 1 /\ b - 1 \in 0 .. Len(w)
      BY <1>1 DEF m
    <2> QED BY <2>1, ElementSeen
  <1> HIDE DEF joints
  <1>9. (\A a, b \in joints : Pairs(a, b) => IsElement(SubSeq(w, a + 1, b - 1)))
          <=> (\A a \in 0 .. m : \A b \in 1 .. m + 1 :
                  JointAt(y, a) /\ (b = m + 1 \/ y[b] = ZWJ) /\ Neighbours(y, a, b)
                     => ElementAt(y, a + 1, b - 1))
    <2>1. \A a, b \in joints : Pairs(a, b) => a \in 0 .. m /\ b \in 1 .. m + 1
      BY <1>1, <1>4
    <2>2. \A a \in 0 .. m : a \in 0 .. m + 1
      BY <1>1
    <2>3. \A b \in 1 .. m + 1 : b \in 0 .. m + 1
      BY <1>1
    <2> HIDE DEF Pairs
    <2> QED BY Zenon, <1>5, <1>6, <1>7, <1>8, <2>1, <2>2, <2>3
  <1>10. (\E k \in DOMAIN w : w[k] = Joiner) <=> \E i \in 1 .. m : y[i] = ZWJ
    BY <1>1, <1>2
  <1> QED BY Zenon, <1>3, <1>9, <1>10 DEF JoinedTo, m

\* So the grammar of codepoints and that of categories are the same.
LEMMA WordSeen ==
    ASSUME NEW w, NEW y, Seen(w, y), Len(w) >= 1
    PROVE  /\ IsEmoji(w) <=> EmojiTo(y, Len(w))
           /\ IsTextEmoji(w) <=> TextTo(y, Len(w))
  <1> DEFINE m == Len(w)
  <1>1. m \in Nat
    BY DEF Seen
  <1>2. \A i \in 1 .. m : Agree(w[i], y[i])
    BY DEF Seen
  <1>3. IsJoined(w) <=> JoinedTo(y, m)
    BY JoinedSeen
  <1> HIDE DEF m
  <1>4. IsTagged(w) <=> TaggedTo(y, m)
    <2>1. m >= 3 => /\ w[1] = BlackFlag <=> y[1] = TAG_BASE
                    /\ w[m] = CancelTag <=> y[m] = TAG_TERM
      BY <1>1, <1>2 DEF Agree
    <2>2. \A i \in 2 .. m - 1 : w[i] \in TagCharacter <=> y[i] = TAG_SEQUENCE
      BY <1>1, <1>2 DEF Agree
    <2> QED BY Zenon, <2>1, <2>2 DEF IsTagged, TaggedTo, m
  <1>5. m = 1 => (w[1] \in EmojiByDefault <=> y[1] \in ByDefault)
    BY <1>2 DEF Agree
  <1>6. m = 2 => /\ w[1] \in AnyEmoji <=> y[1] \in Standing
                 /\ w[1] \in ModifierBase <=> y[1] = EMOJI_MODIFIER_BASE
                 /\ w[1] \in RegionalIndicator <=> y[1] = REGIONAL_INDICATOR
                 /\ w[2] = EmojiSelector <=> y[2] = VS16
                 /\ w[2] = EnclosingCircleBackslash <=> y[2] = COMBINING_ENCLOSING_CIRCLE_BACKSLASH
                 /\ w[2] = TextSelector <=> y[2] = VS15
                 /\ w[2] \in Modifier <=> y[2] = EMOJI_MODIFIER
                 /\ w[2] \in RegionalIndicator <=> y[2] = REGIONAL_INDICATOR
    BY <1>2 DEF Agree
  <1>7. m = 3 => /\ w[1] \in KeycapBase <=> y[1] = KEYCAP_BASE
                 /\ w[2] = EmojiSelector <=> y[2] = VS16
                 /\ w[3] = EnclosingKeycap <=> y[3] = COMBINING_ENCLOSING_KEYCAP
    BY <1>2 DEF Agree
  <1>8. IsEmoji(w) <=>
           \/ m = 1 /\ w[1] \in EmojiByDefault
           \/ m = 2 /\ \/ /\ w[1] \in AnyEmoji
                          /\ w[2] = EmojiSelector \/ w[2] = EnclosingCircleBackslash
                       \/ w[1] \in ModifierBase /\ w[2] \in Modifier
                       \/ w[1] \in RegionalIndicator /\ w[2] \in RegionalIndicator
           \/ m = 3 /\ w[1] \in KeycapBase /\ w[2] = EmojiSelector /\ w[3] = EnclosingKeycap
           \/ IsTagged(w)
           \/ IsJoined(w)
    BY Zenon DEF IsEmoji, m
  <1>9. EmojiTo(y, m) <=>
           \/ m = 1 /\ y[1] \in ByDefault
           \/ m = 2 /\ \/ y[1] \in Standing
                            /\ (y[2] = VS16 \/ y[2] = COMBINING_ENCLOSING_CIRCLE_BACKSLASH)
                       \/ y[1] = EMOJI_MODIFIER_BASE /\ y[2] = EMOJI_MODIFIER
                       \/ y[1] = REGIONAL_INDICATOR /\ y[2] = REGIONAL_INDICATOR
           \/ m = 3 /\ y[1] = KEYCAP_BASE /\ y[2] = VS16 /\ y[3] = COMBINING_ENCLOSING_KEYCAP
           \/ TaggedTo(y, m)
           \/ JoinedTo(y, m)
    BY Zenon DEF EmojiTo, PairTo, KeycapTo
  <1>10. IsEmoji(w) <=> EmojiTo(y, m)
    BY Zenon, <1>3, <1>4, <1>5, <1>6, <1>7, <1>8, <1>9
  <1>11. IsTextEmoji(w) <=> TextTo(y, m)
    BY Zenon, <1>6 DEF IsTextEmoji, TextTo, m
  <1> QED BY <1>10, <1>11 DEF m

(***************************************************************************)
(* Every call takes the longest sequence                                   *)
(***************************************************************************)

\* LongestSequenceTaken, of a call on text.
CallTakesLongest(call) ==
    LET word(n) == SubSeq(text, call.from + 1, call.from + n)
        emoji   == {n \in 1 .. Len(text) - call.from : IsEmoji(word(n))}
        known   == {n \in 1 .. Len(text) - call.from : n \in emoji \/ IsTextEmoji(word(n))}
        length  == IF known = {} THEN 1 ELSE CHOOSE n \in known : \A m \in known : m <= n
    IN  /\ call.to = call.from + length
        /\ call.is_emoji <=> length \in emoji
        /\ call.returned

\* A call that is made of the scanner takes the longest sequence.
LEMMA CallIsLongest ==
    ASSUME text \in Seq(Alphabet), NEW from \in Nat, from < Len(text), NEW call,
           LET s == Scan(CategoriesOf(text), from, Len(text))
           IN  call = [from |-> from, to |-> s.out,
                       is_emoji |-> s.is_emoji, returned |-> s.returned]
    PROVE  CallTakesLongest(call) /\ call.to \in from + 1 .. Len(text)
  <1> DEFINE N == Len(text)
             t == CategoriesOf(text)
             s == Scan(t, from, N)
             y == Ahead(t, from, N)
             best == s.out - from
             word(n) == SubSeq(text, from + 1, from + n)
             emoji == {n \in 1 .. N - from : IsEmoji(word(n))}
             known == {n \in 1 .. N - from : n \in emoji \/ IsTextEmoji(word(n))}
  <1>1. N \in Nat /\ from < N /\ \A i \in 1 .. N : text[i] \in Alphabet
    OBVIOUS
  <1>2. \A i \in 1 .. N : t[i] = category[text[i]]
    BY DEF CategoriesOf
  <1>3. \A i \in 1 .. N : Agree(text[i], t[i])
    BY <1>1, <1>2, CategoryAgrees
  <1> HIDE DEF t, N
  <1>4. \A i \in from + 1 .. N : t[i] \in 1 .. 16
    BY <1>1, <1>3 DEF Agree
  <1>5. /\ best \in 1 .. N - from
        /\ \A m \in best + 1 .. N - from : ~KnownTo(y, m)
        /\ best = 1 \/ KnownTo(y, best)
        /\ s.is_emoji <=> EmojiTo(y, best)
    <2>1. FindsLongest(t, from, N)
      BY <1>1, <1>4, ScanFindsLongest
    <2> QED BY Zenon, <2>1 DEF FindsLongest
  <1>6. s.returned /\ s.out \in from + 1 .. N /\ s.is_emoji \in BOOLEAN
    BY <1>1, ScanAdvances
  <1>7. ASSUME NEW n \in 1 .. N - from
        PROVE  (n \in emoji <=> EmojiTo(y, n)) /\ (n \in known <=> KnownTo(y, n))
    <2> DEFINE w == word(n)
    <2>1. w \in Seq(Alphabet) /\ Len(w) = n /\ \A i \in 1 .. n : w[i] = text[from + i]
      BY <1>1 DEF N
    <2>2. \A i \in 1 .. n : from + i \in 1 .. N /\ y[i] = t[from + i]
      BY <1>1 DEF Ahead
    <2> HIDE DEF w, y
    <2>3. Seen(w, y)
      BY <1>3, <2>1, <2>2 DEF Seen
    <2>4. (IsEmoji(w) <=> EmojiTo(y, n)) /\ (IsTextEmoji(w) <=> TextTo(y, n))
      BY <2>1, <2>3, WordSeen
    <2> QED BY <2>4 DEF w, KnownTo
  <1> HIDE DEF y, s, emoji, known
  <1> DEFINE length == IF known = {} THEN 1 ELSE CHOOSE n \in known : \A m \in known : m <= n
  <1>8. \A m \in known : m \in 1 .. N - from /\ m <= best
    <2>1. ASSUME NEW m \in known, m > best PROVE FALSE
      <3>1. m \in 1 .. N - from
        BY DEF known
      <3>2. m \in best + 1 .. N - from
        <4> HIDE DEF best
        <4> QED BY <1>1, <1>5, <2>1, <3>1
      <3> QED BY <1>5, <1>7, <3>1, <3>2
    <2>2. \A m \in known : m \in 1 .. N - from
      BY DEF known
    <2> HIDE DEF best
    <2> QED BY <1>5, <2>1, <2>2
  <1>9. length = best
    <2>1. CASE best \in known
      <3> HIDE DEF best
      <3>1. \A n \in known : (\A m \in known : m <= n) => n = best
        BY <1>5, <1>8, <2>1
      <3> QED BY <1>8, <2>1, <3>1
    <2>2. CASE best \notin known
      <3>1. best = 1
        BY <1>5, <1>7, <2>2
      <3>2. known = {}
        <4>1. ASSUME NEW m \in known PROVE FALSE
          <5>1. m = 1
            BY <1>8, <3>1
          <5> QED BY <2>2, <3>1, <4>1, <5>1
        <4> QED BY <4>1
      <3> QED BY <3>1, <3>2
    <2> QED BY <2>1, <2>2
  <1>10. s.is_emoji <=> best \in emoji
    BY <1>5, <1>7
  <1>11. s.out = from + best
    BY <1>6
  <1>12. call = [from |-> from, to |-> s.out, is_emoji |-> s.is_emoji, returned |-> s.returned]
    BY DEF s, t, N
  <1>13. /\ call.from = from /\ call.to = s.out
         /\ call.is_emoji = s.is_emoji /\ call.returned = s.returned
    BY <1>12
  <1> HIDE DEF best, length
  <1>14. CallTakesLongest(call) <=> /\ call.to = from + length
                                    /\ call.is_emoji <=> length \in emoji
                                    /\ call.returned
    BY Zenon, <1>13 DEF CallTakesLongest, length, known, emoji, N
  <1> QED BY <1>6, <1>9, <1>10, <1>11, <1>13, <1>14 DEF N

\* What is left to scan is within the text.
CallsOnText == text \in Seq(Alphabet) /\ p \in 0 .. Len(text) /\ LongestSequenceTaken

\* An invariant: each step is such a call, and goes forward.
LEMMA CallsOnTextInvariant ==
    Spec => []CallsOnText
  <1>1. Init => CallsOnText
    <2> SUFFICES ASSUME Init PROVE CallsOnText
      OBVIOUS
    <2>1. text \in Seq(Alphabet) /\ p = 0 /\ last = NoCall
      BY TextsAssumption DEF Init
    <2>2. LongestSequenceTaken
      BY <2>1 DEF LongestSequenceTaken
    <2> QED BY <2>1, <2>2 DEF CallsOnText
  <1>2. CallsOnText /\ [Next]_vars => CallsOnText'
    <2> SUFFICES ASSUME CallsOnText, [Next]_vars PROVE CallsOnText'
      OBVIOUS
    <2>1. CASE ScanNext
      <3>1. text \in Seq(Alphabet) /\ p \in Nat /\ p < Len(text) /\ text' = text
        BY <2>1 DEF CallsOnText, ScanNext
      <3>2. CallTakesLongest(last') /\ last'.to \in p + 1 .. Len(text) /\ p' = last'.to
        <4> DEFINE s == Scan(CategoriesOf(text), p, Len(text))
        <4>1. /\ p' = s.out
              /\ last' = [from |-> p, to |-> s.out,
                          is_emoji |-> s.is_emoji, returned |-> s.returned]
          BY Zenon, <2>1 DEF ScanNext
        <4> HIDE DEF s
        <4>2. p' = last'.to
          BY <4>1
        <4> QED BY <3>1, <4>1, <4>2, CallIsLongest DEF s
      <3>3. LongestSequenceTaken'
        BY Zenon, <3>1, <3>2 DEF LongestSequenceTaken, CallTakesLongest
      <3> QED BY <3>1, <3>2, <3>3 DEF CallsOnText
    <2>2. CASE UNCHANGED vars
      BY Zenon, <2>2 DEF CallsOnText, LongestSequenceTaken, vars
    <2> QED BY <2>1, <2>2 DEF Next
  <1> QED BY <1>1, <1>2, PTL DEF Spec

\* Each call takes the longest emoji sequence, or emoji with VS15, that starts where it
\* starts, whatever the text, says which, and returns.
THEOREM LongestTaken ==
    Spec => []LongestSequenceTaken
  <1>1. CallsOnText => LongestSequenceTaken
    BY DEF CallsOnText
  <1> QED BY <1>1, CallsOnTextInvariant, PTL
=============================================================================
