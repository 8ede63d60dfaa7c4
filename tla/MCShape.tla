------------------------------- MODULE MCShape -------------------------------
(* Bounded texts for the itemizers and render_segment. *)
EXTENDS Shape

TwoLevels == {0, 1}
TwoScripts == {"Latin", "Arabic"}

\* Letters in both directions, marks, and emoji, joiners and selectors, which
\* have no script.  An emoji is wide.
Letters == {[level |-> 0, script |-> "Latin", category |-> Other],
            [level |-> 1, script |-> "Arabic", category |-> Other],
            [level |-> 0, script |-> "Arabic", category |-> Other]}
Signs == [level : {0}, script : {Common}, category : {Other, EMOJI_TEXT_PRESENTATION,
                                                      EMOJI_EMOJI_PRESENTATION, VS16, ZWJ}]
ArabicMark == [level |-> 1, script |-> Common, category |-> Other]
SomeMarks == {ArabicMark} \cup {s \in Signs : s.category \in {VS16, ZWJ}}
WideSigns == {s \in Signs : s.category = EMOJI_EMOJI_PRESENTATION}

BoundedTexts == UNION {[1 .. n -> Letters \cup Signs \cup {ArabicMark}] : n \in 1 .. 4}
=============================================================================
