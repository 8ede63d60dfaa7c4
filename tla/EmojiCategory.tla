---------------------------- MODULE EmojiCategory ----------------------------
(***************************************************************************)
(* What the emoji scanner takes a codepoint for (emoji_scanner.c): tests   *)
(* for single codepoints and ranges, and binary searches in the tables.    *)
(***************************************************************************)
EXTENDS EmojiAutomaton, EmojiTable

\* Mutant: the upper bound is taken for an element still to be searched.
bsearch_interval_closed(ch, interval) ==
    LET found[r \in (0 .. Len(interval)) \X (-1 .. Len(interval))] ==
            LET low  == r[1]
                high == r[2]
                mid  == (low + high) \div 2
            IN  /\ high > low
                /\ IF ch < interval[mid + 1][1] THEN found[<<low, mid - 1>>]
                   ELSE ch > interval[mid + 1][2] => found[<<mid + 1, high>>]
    IN  found[<<0, Len(interval)>>]

\* The loop from [low, high) on finds the codepoint.
bsearch_interval(ch, interval) ==
    LET found[r \in (0 .. Len(interval)) \X (0 .. Len(interval))] ==
            LET low  == r[1]
                high == r[2]
                mid  == (low + high) \div 2
            IN  /\ high > low
                /\ IF ch < interval[mid + 1][1] THEN found[<<low, mid>>]
                   ELSE ch > interval[mid + 1][2] => found[<<mid + 1, high>>]
    IN  found[<<0, Len(interval)>>]

\* Is_Emoji, Is_Emoji_Modifier and the others, by the name of their table.
IsInTable(ch, table) == ch >= table[1][1] /\ bsearch_interval(ch, table)

Is_Emoji_Keycap_Base(ch) == ch \in \h30 .. \h39 \cup {\h23, \h2A}
Is_Regional_Indicator(ch) == ch \in \h1F1E6 .. \h1F1FF

\* The first test that holds decides.
EmojiSegmentationCategory(codepoint) ==
    CASE codepoint \in \h61 .. \h7A \cup \h41 .. \h5A \cup {\h20} -> Other
      [] OTHER ->
    CASE codepoint \in \h30 .. \h39 -> KEYCAP_BASE
      [] codepoint = \h20E3 -> COMBINING_ENCLOSING_KEYCAP
      [] codepoint = \h20E0 -> COMBINING_ENCLOSING_CIRCLE_BACKSLASH
      [] codepoint = \h200D -> ZWJ
      [] codepoint = \hFE0E -> VS15
      [] codepoint = \hFE0F -> VS16
      [] codepoint = \h1F3F4 -> TAG_BASE
      [] codepoint = \hE007F -> TAG_TERM
      [] codepoint \in \hE0030 .. \hE0039 \cup \hE0061 .. \hE007A -> TAG_SEQUENCE
      [] OTHER ->
    IF IsInTable(codepoint, Emoji_Modifier_Base_table) THEN EMOJI_MODIFIER_BASE
    ELSE IF IsInTable(codepoint, Emoji_Modifier_table) THEN EMOJI_MODIFIER
    ELSE IF Is_Regional_Indicator(codepoint) THEN REGIONAL_INDICATOR
    ELSE IF Is_Emoji_Keycap_Base(codepoint) THEN KEYCAP_BASE
    ELSE IF IsInTable(codepoint, Emoji_Presentation_table) THEN EMOJI_EMOJI_PRESENTATION
    ELSE IF IsInTable(codepoint, Emoji_table) THEN EMOJI_TEXT_PRESENTATION
    ELSE Other
=============================================================================
