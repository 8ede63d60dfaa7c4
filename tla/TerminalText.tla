---------------------------- MODULE TerminalText ----------------------------
(***************************************************************************)
(* What the terminal should make of the bytes it has read, stated on the   *)
(* stream alone: lines end at line feeds, a carriage return before a line  *)
(* feed belongs to it, and how the bytes were split into reads makes no    *)
(* difference.  The properties compare this with the segments, the cursor  *)
(* and the screen that Terminal builds read by read.                       *)
(***************************************************************************)
EXTENDS Terminal, FiniteSets

(***************************************************************************)
(* The stream's lines                                                      *)
(***************************************************************************)

Positions == 0 .. Len(stream) - 1
Kind(p)   == stream[p + 1]
Glyphs    == {p \in Positions : Kind(p) = "glyph"}
Feeds     == {p \in Positions : Kind(p) = "LF"}

\* Every carriage return is followed by a line feed, or by nothing yet.  (One
\* that is followed by text drops a part of the stream that depends on the
\* reads: see ScanReturn.)
OnlyLineEnds ==
    \A p \in Positions : Kind(p) = "CR" /\ p + 1 \in Positions => Kind(p + 1) = "LF"

Line(p)     == Cardinality({q \in Feeds : q < p})
LastLine    == Cardinality(Feeds)
LineText(l) == {p \in Glyphs : Line(p) = l}
Length(l)   == Cardinality(LineText(l))
Column(p)   == Cardinality({q \in LineText(Line(p)) : q < p})

\* The rows above line l: one for each line before it, and one more for each
\* time that line fills the width.
RowsAbove[l \in 0 .. LastLine] ==
    IF l = 0 THEN 0 ELSE RowsAbove[l - 1] + (Length(l - 1) \div tw) + 1

(***************************************************************************)
(* The screen the stream asks for                                          *)
(***************************************************************************)

\* The bottom row of line l: the lines are stacked upwards from the cursor, and
\* a last line without text takes no row.
BottomRow[l \in 0 .. LastLine] ==
    IF l = LastLine THEN FirstRow
    ELSE IF l + 1 = LastLine /\ Length(LastLine) = 0 THEN FirstRow
    ELSE BottomRow[l + 1] - RowsOf(Length(l + 1))

Cell(p) ==
    LET l == Line(p)
    IN  (BottomRow[l] - RowsOf(Length(l)) + 1 + (Column(p) \div tw)) * tw
          + (Column(p) % tw)

StreamScreen ==
    LET cell == [p \in Glyphs |-> Cell(p)]
    IN  [c \in DOMAIN Cleared |->
           IF \E p \in Glyphs : cell[p] = c
           THEN CHOOSE p \in Glyphs : cell[p] = c
           ELSE IF c = CursorY * tw + CursorX THEN CursorMark ELSE Blank]

(***************************************************************************)
(* Properties                                                              *)
(***************************************************************************)

Idle == pc = "events"

TypeOK ==
    /\ Ring!TypeOK
    /\ stream \in Seq(Kinds) /\ Len(stream) = AbsoluteFilledSize + rd
    /\ sg \in Seq([buf : Ring!Range, line_end : BOOLEAN])
    /\ CursorX \in Nat /\ CursorY \in Nat
    /\ xw \in Sizes
    /\ tw = Cols(xw) /\ th = Lines(xw)
    /\ DOMAIN screen = 0 .. tw * th - 1
    /\ render \in BOOLEAN
    /\ pc \in {"events", "tty", "process", "scan", "draw"}
    /\ buf \in Ring!Range /\ i \in Nat
    /\ shrunk \in BOOLEAN

CursorOnScreen == CursorX \in 0 .. tw - 1 /\ CursorY \in 0 .. th - 1

\* The cursor stays on the screen as long as no resize has made the screen
\* smaller: AdvanceColumn and AdvanceRow compare it with the current size only
\* after moving it by one, so one step may not pass the edge.  (resize does not
\* move it, and a smaller screen leaves it outside.)
CursorInScreen == ~shrunk => CursorOnScreen

\* The cursor is where the stream puts it, however the reads split the lines
\* and the line ends: its column is the length of the last line modulo the
\* width, its row counts every line and every wrap down to the bottom row.
CursorMatchesStream ==
    Idle /\ OnlyLineEnds =>
        LET rows == RowsAbove[LastLine] + (Length(LastLine) \div tw)
        IN  /\ CursorX = Length(LastLine) % tw
            /\ CursorY = IF rows > th - 1 THEN th - 1 ELSE rows

\* Each character is in one segment, no segment holds anything else, and the
\* line a segment belongs to, counted by the segments that end a line before
\* it, is the line of the stream.  A line end split over two reads included.
SegmentsCoverStream ==
    Idle /\ OnlyLineEnds =>
        LET At(p) == {k \in 1 .. SegmentCount :
                        /\ sg[k].buf.AbsoluteP <= p
                        /\ p < sg[k].buf.AbsoluteP + sg[k].buf.Count}
        IN  \A p \in Positions :
              IF p \in Glyphs
              THEN \E k \in 1 .. SegmentCount :
                     /\ At(p) = {k}
                     /\ Cardinality({m \in 1 .. k - 1 : sg[m].line_end}) = Line(p)
              ELSE At(p) = {}

\* ProcessInput works on committed bytes only: what is left of its range is the
\* end of the stream so far, and the range's pointer reads just these bytes, at
\* whatever place of the double mapping the reads of the visit were put.
ProcessesCommitted ==
    pc \in {"process", "scan"} /\ buf.Count > 0 =>
        /\ buf.AbsoluteP + buf.Count = AbsoluteFilledSize
        /\ \A k \in 0 .. buf.Count - 1 : Data[Ring!Mirror(buf.Data + k)] = buf.AbsoluteP + k

\* A segment's pointer reads the bytes the segment was made from, as long as
\* they are among the last DataSize bytes read.
SegmentsReadBack ==
    \A k \in 1 .. SegmentCount : \A m \in 0 .. sg[k].buf.Count - 1 :
        LET p == sg[k].buf.AbsoluteP + m
        IN  AbsoluteFilledSize + rd - p <= DataSize =>
              Data[Ring!Mirror(sg[k].buf.Data + m)] = p

\* After a redraw the screen shows the bottom of the stream: every character
\* in its cell, laid out in rows of tw, wherever the reads were split and the
\* buffer wrapped.  It is claimed while every line is shorter than the screen
\* (Render gathers no more than th * tw characters of a line, whose start it
\* then loses) and no carriage return on an empty last line waits for its line
\* feed (see EmptyGroupEndsLine).
ScreenShowsStream ==
    (/\ Idle /\ ~render /\ OnlyLineEnds
     /\ \A l \in 0 .. LastLine : Length(l) < tw * th
     /\ ~(Len(stream) > 0 /\ Kind(Len(stream) - 1) = "CR" /\ Length(LastLine) = 0))
    => screen = StreamScreen

\* Nothing is left undrawn: while render is off, drawing again would change
\* nothing, after any reads and resizes.
NothingUndrawn == ~render => screen = Rendered

\* Render's comment on a group without characters, "Purely a newline only
\* segment": the group for which a turn goes up a row, and above which another
\* one draws its characters, ends a line.
EmptyGroupEndsLine ==
    pc = "draw" /\ render =>
        \A n \in Turns :
            /\ GroupLength(n) = 0
            /\ n + 1 \in Turns /\ GroupLength(n + 1) > 0
            => sg[GroupEnd[n - 1]].line_end

\* Whatever is read from the pty gets committed, cut up and drawn: no input
\* makes ProcessInput loop for ever, and no resize loses the redraw.
ReadsReachScreen ==
    \A n \in 1 .. MaxFilled :
        (AbsoluteFilledSize + rd >= n) ~> (AbsoluteFilledSize >= n /\ ~render)
=============================================================================
