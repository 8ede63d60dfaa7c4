--------------------------- MODULE EmojiAutomaton ---------------------------
(***************************************************************************)
(* The scanner that cuts a text into emoji and other runs                  *)
(* (emoji_presentation_scanner.c): the table-driven automaton that Ragel   *)
(* generated, longest match with backtracking.  A codepoint is represented *)
(* by its category, what EmojiSegmentationCategory returns for it.         *)
(* Positions count from 0; the character at p is text[p + 1].              *)
(***************************************************************************)
EXTENDS Integers, SequencesExt

EMOJI_TEXT_PRESENTATION == 1
EMOJI_EMOJI_PRESENTATION == 2
EMOJI_MODIFIER_BASE == 3
EMOJI_MODIFIER == 4
REGIONAL_INDICATOR == 6
KEYCAP_BASE == 7
COMBINING_ENCLOSING_KEYCAP == 8
COMBINING_ENCLOSING_CIRCLE_BACKSLASH == 9
ZWJ == 10
VS15 == 11
VS16 == 12
TAG_BASE == 13
TAG_SEQUENCE == 14
TAG_TERM == 15
Other == 16   \* MaxEmojiScannerCategory

\* The categories a codepoint can have: EMOJI and EMOJI_VS_BASE are never
\* returned.
Categories == 1 .. 16 \ {5}

(***************************************************************************)
(* The tables                                                              *)
(***************************************************************************)

actions == <<0, 1, 0, 1, 1, 1, 5, 1, 6, 1, 7, 1, 8, 1, 9, 1, 10, 1, 11, 2, 2, 3, 2, 2, 4>>
key_offsets == <<0, 5, 7, 14, 18, 20, 21, 24, 29, 30, 34, 36>>
trans_keys == <<3, 7, 13, 0, 2, 14, 15, 2, 3, 6, 7, 13, 0, 1, 9, 10, 11, 12, 10, 12, 10,
                4, 10, 12, 4, 9, 10, 11, 12, 6, 9, 10, 11, 12, 8, 10, 9, 10, 11, 12, 14, 0>>
single_lengths == <<3, 2, 5, 4, 2, 1, 3, 5, 1, 4, 2, 5>>
range_lengths == <<1, 0, 1, 0, 0, 0, 0, 0, 0, 0, 0, 0>>
index_offsets == <<0, 5, 8, 15, 20, 23, 25, 29, 35, 37, 42, 45>>
indicies == <<2, 1, 1, 1, 0, 4, 5, 3, 7, 8, 10, 11, 12, 6, 9, 5, 13, 14, 15, 0, 13, 15, 16,
              13, 16, 15, 13, 15, 16, 15, 5, 13, 14, 15, 16, 5, 17, 5, 13, 14, 18, 17, 5, 13,
              16, 5, 13, 14, 15, 4, 16, 0>>
trans_targs == <<2, 4, 6, 2, 1, 2, 3, 3, 7, 2, 8, 9, 11, 0, 2, 5, 2, 2, 10>>
trans_actions == <<17, 19, 19, 15, 0, 7, 22, 19, 19, 9, 0, 22, 19, 0, 5, 19, 11, 13, 19>>
eof_trans == <<1, 4, 0, 1, 17, 17, 17, 17, 18, 18, 17, 17>>
start == 2

(***************************************************************************)
(* One call of scan_emoji_presentation                                     *)
(***************************************************************************)

\* The transition of state cs on category c: the place of c among the single
\* keys of the state, or of its range among the ranges, or the default.
Transition(cs, c) ==
    LET first  == key_offsets[cs + 1]
        single == single_lengths[cs + 1]
        ranges == range_lengths[cs + 1]
        key(k) == trans_keys[k + 1]
        hits   == {k \in 0 .. single - 1 : key(first + k) = c}
        within == {k \in 0 .. ranges - 1 :
                     /\ key(first + single + 2 * k) <= c
                     /\ c <= key(first + single + 2 * k + 1)}
        offset == IF hits # {} THEN CHOOSE k \in hits : TRUE
                  ELSE single + (IF within # {} THEN CHOOSE k \in within : TRUE ELSE ranges)
    IN  indicies[index_offsets[cs + 1] + offset + 1]

\* The actions of a transition, in order.
ActionsOf(trans) ==
    LET a == trans_actions[trans + 1]
    IN  IF a = 0 THEN <<>> ELSE SubSeq(actions, a + 2, a + 1 + actions[a + 1])

\* The scanner's locals (ts is never used), and what it returned.
Begin == [cs |-> start, te |-> 0, act |-> 0, returned |-> FALSE, out |-> 0, is_emoji |-> FALSE]

Return(s, end, flag) == [s EXCEPT !.te = end, !.returned = TRUE, !.out = end, !.is_emoji = flag]

\* Mutant: a match that has to be backed up to returns where the scan stands.
PerformAhead(s, a, p) ==
    CASE a = 2  -> [s EXCEPT !.te = p + 1]
      [] a = 3  -> [s EXCEPT !.act = 2]
      [] a = 4  -> [s EXCEPT !.act = 3]
      [] a = 5  -> Return(s, p + 1, FALSE)
      [] a = 6  -> Return(s, p + 1, TRUE)
      [] a = 7  -> Return(s, p + 1, FALSE)
      [] a = 8  -> Return(s, p, TRUE)
      [] a = 9  -> Return(s, p, FALSE)
      [] a = 10 -> Return(s, p, TRUE)
      [] a = 11 /\ s.act \in {2, 3} -> Return(s, p, s.act = 2)
      [] OTHER -> s

\* Action a at position p.
Perform(s, a, p) ==
    CASE a = 2  -> [s EXCEPT !.te = p + 1]
      [] a = 3  -> [s EXCEPT !.act = 2]
      [] a = 4  -> [s EXCEPT !.act = 3]
      [] a = 5  -> Return(s, p + 1, FALSE)
      [] a = 6  -> Return(s, p + 1, TRUE)
      [] a = 7  -> Return(s, p + 1, FALSE)
      [] a = 8  -> Return(s, p, TRUE)
      [] a = 9  -> Return(s, p, FALSE)
      [] a = 10 -> Return(s, s.te, TRUE)
      [] a = 11 /\ s.act = 2 -> Return(s, s.te, TRUE)
      [] a = 11 /\ s.act = 3 -> Return(s, s.te, FALSE)
      [] OTHER -> s

\* The actions of a transition, until one of them returns.
Take(s, trans, p) ==
    LET todo == ActionsOf(trans)
        done[k \in 0 .. Len(todo)] ==
            IF k = 0 THEN [s EXCEPT !.cs = trans_targs[trans + 1]]
            ELSE IF done[k - 1].returned THEN done[k - 1]
            ELSE Perform(done[k - 1], todo[k], p)
    IN  done[Len(todo)]

\* The scan of text from p up to the position pe, which is its end.
AtEnd(text, p, pe) ==
    LET after[k \in 0 .. pe - p] ==
            IF k = 0 THEN Begin
            ELSE LET s == after[k - 1]
                 IN  IF s.returned THEN s
                     ELSE Take(s, Transition(s.cs, text[p + k]), p + k - 1)
    IN  after[pe - p]

\* Mutant: the transitions at the end of the text are not taken.
ScanWithoutEof(text, p, pe) ==
    LET s == AtEnd(text, p, pe)
    IN  IF s.returned THEN s ELSE [s EXCEPT !.out = pe]

\* The call.  Without a transition for the end of the text it falls through to
\* the lines that "should not be reached".
Scan(text, p, pe) ==
    LET s == AtEnd(text, p, pe)
    IN  IF s.returned THEN s
        ELSE IF eof_trans[s.cs + 1] > 0 THEN Take(s, eof_trans[s.cs + 1] - 1, pe)
        ELSE [s EXCEPT !.out = pe]
=============================================================================
