------------------------------ MODULE MCDisplay ------------------------------
(* A small font, windows of one to four cells, and bytes of every kind. *)
EXTENDS Display

\* The space is empty; one glyph is higher than the ascent, one has a descender,
\* the others stand on the baseline.
SmallFont ==
    [ch \in Printable |->
       CASE ch = 32 -> [left |-> 0, top |-> 0, rows |-> 0, width |-> 0]
         [] ch = 65 -> [left |-> 0, top |-> 5, rows |-> 5, width |-> 3]
         [] ch = 41 -> [left |-> 2, top |-> 3, rows |-> 4, width |-> 3]
         [] OTHER   -> [left |-> 1, top |-> 3, rows |-> 2, width |-> 3]]

\* One cell with room to spare, two in a row, two and two, and three columns.
SomeSizes == {<<13, 11>>, <<14, 9>>, <<14, 14>>, <<21, 9>>}

\* The ends of a row of tiles, the first and the last tile, a letter, and bytes
\* that are not printable.
Corner == {<<0, 0>>, <<1, 0>>, <<0, 1>>, <<1, 1>>}
Text(a, b, c, d) == [p \in Corner |-> CASE p = <<0, 0>> -> a [] p = <<1, 0>> -> b
                                        [] p = <<0, 1>> -> c [] OTHER -> d]
Started == [p \in {<<0, 0>>} |-> 127]
SomeTexts == {Started, Text(41, 42, 32, 126), Text(10, -61, 127, 65)}
=============================================================================
