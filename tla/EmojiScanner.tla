---------------------------- MODULE EmojiScanner ----------------------------
(***************************************************************************)
(* The emoji scanner, called again and again until a text is used up, and  *)
(* what each call should find: the sequences of Unicode Technical Standard *)
(* 51 that the automaton was generated from, over the codepoints that the  *)
(* Unicode tables say are emoji.                                           *)
(***************************************************************************)
EXTENDS EmojiCategory

CONSTANTS Texts,      \* sequences of codepoints to be scanned
          Alphabet    \* the codepoints they are made of

ASSUME TextsAssumption == Alphabet \subseteq Nat /\ Texts \subseteq Seq(Alphabet)

\* What the scanner reads of a text, through the macro *p.
category == [ch \in Alphabet |-> EmojiSegmentationCategory(ch)]
CategoriesOf(t) == [k \in DOMAIN t |-> category[t[k]]]

(***************************************************************************)
(* A text scanned call by call                                             *)
(***************************************************************************)

VARIABLES text, p,   \* what is scanned, and from where on
          last       \* the last call: [from, to, is_emoji, returned]

vars == <<text, p, last>>

NoCall == [from |-> 0, to |-> 0, is_emoji |-> FALSE, returned |-> TRUE]

Init ==
    /\ text \in Texts
    /\ p = 0
    /\ last = NoCall

\* One call, as in the loop of itemize_emoji.
ScanNext ==
    /\ p < Len(text)
    /\ LET s == Scan(CategoriesOf(text), p, Len(text))
       IN  /\ p' = s.out
           /\ last' = [from |-> p, to |-> s.out, is_emoji |-> s.is_emoji,
                       returned |-> s.returned]
    /\ UNCHANGED text

Next == ScanNext

Spec == Init /\ [][Next]_vars

(***************************************************************************)
(* The sequences the automaton was generated from                          *)
(***************************************************************************)

With(table) == {ch \in Alphabet : \E k \in DOMAIN table : ch \in table[k][1] .. table[k][2]}

RegionalIndicator == Alphabet \cap \h1F1E6 .. \h1F1FF
Modifier == With(Emoji_Modifier_table)
ModifierBase == With(Emoji_Modifier_Base_table)
KeycapBase == Alphabet \cap (\h30 .. \h39 \cup {\h23, \h2A})
TagCharacter == Alphabet \cap (\hE0030 .. \hE0039 \cup \hE0061 .. \hE007A)

\* Emoji that stand alone, and those that do so as emoji unless told otherwise.
AnyEmoji == With(Emoji_table) \ (Modifier \cup RegionalIndicator)
EmojiByDefault == AnyEmoji \cap (With(Emoji_Presentation_table) \cup ModifierBase)

TextSelector == \hFE0E
EmojiSelector == \hFE0F
Joiner == \h200D
BlackFlag == \h1F3F4
CancelTag == \hE007F
EnclosingKeycap == \h20E3
EnclosingCircleBackslash == \h20E0

\* What a joiner may join.
IsElement(w) ==
    \/ Len(w) = 1 /\ w[1] \in AnyEmoji
    \/ Len(w) = 2 /\ w[1] \in AnyEmoji /\ w[2] = EmojiSelector
    \/ Len(w) = 2 /\ w[1] \in ModifierBase /\ w[2] \in Modifier

IsJoined(w) ==
    LET joints == {0, Len(w) + 1} \cup {k \in DOMAIN w : w[k] = Joiner}
    IN  /\ \E k \in DOMAIN w : w[k] = Joiner
        /\ \A a, b \in joints :
             a < b /\ (\A k \in joints : ~(a < k /\ k < b)) =>
                IsElement(SubSeq(w, a + 1, b - 1))

IsTagged(w) ==
    /\ Len(w) >= 3
    /\ w[1] = BlackFlag
    /\ \A k \in 2 .. Len(w) - 1 : w[k] \in TagCharacter
    /\ w[Len(w)] = CancelTag

IsEmoji(w) ==
    \/ Len(w) = 1 /\ w[1] \in EmojiByDefault
    \/ Len(w) = 2 /\ w[1] \in AnyEmoji /\ w[2] \in {EmojiSelector, EnclosingCircleBackslash}
    \/ Len(w) = 2 /\ w[1] \in ModifierBase /\ w[2] \in Modifier
    \/ Len(w) = 2 /\ w[1] \in RegionalIndicator /\ w[2] \in RegionalIndicator
    \/ Len(w) = 3 /\ w[1] \in KeycapBase /\ w[2] = EmojiSelector /\ w[3] = EnclosingKeycap
    \/ IsTagged(w)
    \/ IsJoined(w)

\* An emoji asked to be shown as text.
IsTextEmoji(w) == Len(w) = 2 /\ w[1] \in AnyEmoji /\ w[2] = TextSelector

(***************************************************************************)
(* Properties                                                              *)
(***************************************************************************)

\* Each call takes the longest emoji sequence, or an emoji with VS15, that
\* starts where it starts, and otherwise a single codepoint as text; it says
\* which.  The binary searches find the codepoints of the tables, at the ends
\* of their intervals too, and the automaton finds the sequence with one pass
\* and two marks (te, act), also when a longer one breaks off and it must come
\* back, and never gets to the lines that "should not be reached".
LongestSequenceTaken ==
    last # NoCall =>
        LET word(n) == SubSeq(text, last.from + 1, last.from + n)
            emoji   == {n \in 1 .. Len(text) - last.from : IsEmoji(word(n))}
            known   == {n \in 1 .. Len(text) - last.from : n \in emoji \/ IsTextEmoji(word(n))}
            length  == IF known = {} THEN 1 ELSE CHOOSE n \in known : \A m \in known : m <= n
        IN  /\ last.to = last.from + length
            /\ last.is_emoji <=> length \in emoji
            /\ last.returned
=============================================================================
