--------------------------- MODULE MCEmojiScanner ---------------------------
(* Bounded texts for the emoji scanner. *)
EXTENDS EmojiScanner

\* One codepoint of each category, from (c) to the letter a.
Samples == {\hA9, \h1F600, \h1F466, \h1F3FB, \h1F1E6, \h30, \h20E3, \h20E0, \h200D,
            \hFE0E, \hFE0F, \h1F3F4, \hE0061, \hE007F, \h61}
Joining == {\hA9, \h1F466, \h1F3FB, \h30, \h20E3, \h200D, \hFE0F}
Tagging == {\h1F3F4, \hE0061, \hE007F, \h200D}

\* The ends of every interval of the tables and of the ranges in the code, and
\* the codepoints next to them.
EndsOf(table) == UNION {{table[k][1], table[k][2]} : k \in DOMAIN table}
Ranges == <<<<\h20, \h20>>, <<\h41, \h5A>>, <<\h61, \h7A>>, <<\h1F1E6, \h1F1FF>>,
            <<\hE0030, \hE0039>>, <<\hE0061, \hE007A>>, <<\h1F3F4, \h1F3F4>>>>
Ends == UNION {EndsOf(table) : table \in {Emoji_table, Emoji_Presentation_table,
                   Emoji_Modifier_table, Emoji_Modifier_Base_table, Ranges}}
Edges == UNION {{e - 1, e, e + 1} : e \in Ends}
SomeAlphabet == Samples \cup Edges

\* Every text of up to three samples, longer ones of the samples that occur in
\* sequences of more than two, and every edge, alone and before what changes
\* the way it is shown.
BoundedTexts ==
    UNION {[1 .. n -> Samples] : n \in 1 .. 3}
        \cup [1 .. 5 -> Joining] \cup [1 .. 5 -> Tagging]
        \cup {<<ch>> : ch \in Edges}
        \cup {<<ch, next>> : ch \in Edges, next \in {\hFE0E, \hFE0F, \h1F3FB, \h1F1E6}}
=============================================================================
