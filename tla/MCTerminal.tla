----------------------------- MODULE MCTerminal -----------------------------
(***************************************************************************)
(* Small instances of the terminal.                                        *)
(***************************************************************************)
EXTENDS TerminalText

\* What a read may return: characters, a line end whole and cut in halves, and
\* a read that holds parts of two lines.
TextChunks == {<<"glyph">>, <<"glyph", "CR">>, <<"LF">>, <<"glyph", "glyph">>,
               <<"CR", "LF", "glyph">>}

\* The shortest reads, a carriage return alone among them.
ByteChunks == {<<"glyph">>, <<"CR">>, <<"LF">>}

\* A window of w by h cells of 8 by 16 pixels, with some pixels to spare.
Window(w, h) == [w |-> 8 * w + 6, h |-> 16 * h + 7]

OneSize    == {Window(2, 2)}
TallSize   == {Window(3, 3)}
ThreeSizes == {Window(2, 1), Window(1, 2), Window(2, 2)}
=============================================================================
