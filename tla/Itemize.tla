------------------------------- MODULE Itemize -------------------------------
(***************************************************************************)
(* How fontsystem_shape (shape.c) cuts a decoded text into the runs it     *)
(* shapes: the three itemizers are nested, each looks for the end of a run *)
(* from the same start within the end the one before it found.  What is    *)
(* done with each run, and the specification, are in Shape.                *)
(*                                                                         *)
(* A codepoint is what the libraries say of it: its embedding level, its   *)
(* script and its emoji category.  Positions count from 0, and a run goes  *)
(* up to, and not including, its end.                                      *)
(***************************************************************************)
EXTENDS EmojiAutomaton, FiniteSetsExt

CONSTANTS Texts,     \* texts to be shaped: sequences of codepoints
          Levels, Scripts,
          Common     \* the scripts that are not real: common, inherited, unknown

Codepoints == [level : Levels, script : Scripts \cup {Common}, category : Categories]

ASSUME ItemizeAssumption == Texts \subseteq Seq(Codepoints) /\ Common \notin Scripts

VARIABLES text,      \* system->str and its embedding levels
          current,   \* where the next run starts
          runs       \* the runs given to render_segment

vars == <<text, current, runs>>

Level(q)  == text[q + 1].level
Script(q) == text[q + 1].script
categories == [k \in DOMAIN text |-> text[k].category]

(***************************************************************************)
(* The itemizers: where the run from `from' on, within `to', ends          *)
(***************************************************************************)

ItemizeEmbeddings(from, to) ==
    Min({to} \cup {q \in from .. to - 1 : Level(q) # Level(from)})

\* Mutant: any script replaces the one remembered, also one that is not real.
ItemizeScriptForgets(from, to) ==
    LET end == Min({to} \cup {q \in from + 1 .. to - 1 :
                     /\ Script(q) # Common /\ Script(q - 1) # Common
                     /\ Script(q - 1) # Script(q)})
    IN  [end |-> end, script |-> Script(end - 1)]

\* The run ends before the second real script; the first, if any, is its own.
ItemizeScript(from, to) ==
    LET real == {q \in from .. to - 1 : Script(q) # Common}
        own  == IF real = {} THEN Common ELSE Script(Min(real))
    IN  [end |-> Min({to} \cup {q \in real : Script(q) # own}), script |-> own]

\* The calls of the scanner, until `to'.
Scans(from, to) ==
    LET scan[k \in 0 .. to - from - 1] ==
            IF k = 0 THEN Scan(categories, from, to)
            ELSE LET s == scan[k - 1]
                 IN  IF s.out < to THEN Scan(categories, s.out, to) ELSE s
    IN  scan

Differing(scan) == {k \in DOMAIN scan : scan[k].is_emoji # scan[0].is_emoji}

\* Mutants: the end of the run that differs; one before the first scan's end.
EmojiRunPast(scan, to) ==
    [end |-> IF Differing(scan) = {} THEN to ELSE scan[Min(Differing(scan))].out,
     is_emoji |-> scan[0].is_emoji]
EmojiRunBack(scan, to) ==
    [end |-> IF Differing(scan) = {} THEN to ELSE scan[Min(Differing(scan)) - 1].out - 1,
     is_emoji |-> scan[0].is_emoji]

\* One codepoint before the end of the first sequence that is of the other
\* kind.
EmojiRun(scan, to) ==
    [end |-> IF Differing(scan) = {} THEN to ELSE scan[Min(Differing(scan))].out - 1,
     is_emoji |-> scan[0].is_emoji]

ItemizeEmoji(from, to) == EmojiRun(Scans(from, to), to)

(***************************************************************************)
(* The loop                                                                *)
(***************************************************************************)

Init ==
    /\ text \in Texts
    /\ current = 0
    /\ runs = <<>>

ShapeRun ==
    /\ current < Len(text)
    /\ LET script == ItemizeScript(current, ItemizeEmbeddings(current, Len(text)))
           emoji  == ItemizeEmoji(current, script.end)
       IN  /\ runs' = Append(runs, [from |-> current, to |-> emoji.end,
                                    level |-> Level(current), script |-> script.script,
                                    is_emoji |-> emoji.is_emoji])
           /\ current' = emoji.end
    /\ UNCHANGED text

(***************************************************************************)
(* Properties                                                              *)
(***************************************************************************)

\* The runs cover the text from its start to `current', each codepoint once and
\* in order, and none is empty: the loop ends, and renders everything.
RunsTile ==
    /\ \A k \in DOMAIN runs :
         /\ runs[k].from = (IF k = 1 THEN 0 ELSE runs[k - 1].to)
         /\ runs[k].from < runs[k].to
    /\ current = (IF runs = <<>> THEN 0 ELSE runs[Len(runs)].to)
    /\ current <= Len(text)

\* What render_segment tells the shaper of a run is true of all of it: one
\* direction, and one script, the run's own, apart from codepoints without one.
RunsUniform ==
    \A k \in DOMAIN runs : \A q \in runs[k].from .. runs[k].to - 1 :
        /\ Level(q) = runs[k].level
        /\ Script(q) \in {runs[k].script, Common}

\* As long as all the emoji of the text are single codepoints, a run holds
\* emoji only or none.  (With longer ones it need not: see ItemizeEmoji.)
RunsOfOneKind ==
    (\A q \in 0 .. Len(text) - 1 : Scan(categories, q, Len(text)).out = q + 1)
    => \A k \in DOMAIN runs : \A q \in runs[k].from .. runs[k].to - 1 :
           Scan(categories, q, q + 1).is_emoji = runs[k].is_emoji
=============================================================================
