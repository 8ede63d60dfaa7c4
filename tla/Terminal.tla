------------------------------ MODULE Terminal ------------------------------
(***************************************************************************)
(* The terminal: main.c's loop around the circular buffer of SourceBuffer. *)
(* One turn of the loop handles the pending X events (a resize among       *)
(* them), reads what the pty has, cuts it into segments while moving the   *)
(* cursor (ProcessInput), and redraws the screen from the segments, bottom *)
(* up (Render).                                                            *)
(*                                                                         *)
(* The loop runs in one thread, so pc is the place in it.  ProcessInput is *)
(* modelled one iteration of its loops at a time.  A byte is identified by *)
(* its position in the stream, and `stream' says what kind of byte each    *)
(* position is; only carriage return and line feed are told apart.  The    *)
(* screen maps a cell y * tw + x to the position of the byte shown there.  *)
(***************************************************************************)
EXTENDS Integers, Sequences, FiniteSetsExt

CONSTANTS DataSize, MaxFilled,  \* of the circular buffer
          Chunks,               \* what one read() may return
          Sizes,                \* window sizes in pixels the X server may give
          GlyphW, GlyphH,       \* t.gw and t.gh, the size of a cell
          BorderPx              \* t.borderpx

Kinds == {"glyph", "CR", "LF"}

\* (xw.w - borderpx) / gw and (xw.h - borderpx) / gh of set_terminalsz
Cols(size)  == (size.w - BorderPx) \div GlyphW
Lines(size) == (size.h - BorderPx) \div GlyphH

ASSUME RingAssumption == DataSize \in Nat \ {0} /\ MaxFilled \in Nat
ASSUME ChunksAssumption == Chunks \subseteq Seq(Kinds) \ {<<>>}
ASSUME SizesShowACell ==
    \A size \in Sizes : Cols(size) \in Nat \ {0} /\ Lines(size) \in Nat \ {0}

VARIABLES
    RelativePoint, AbsoluteFilledSize, Data, x, rd, writing,  \* SourceBuffer
    stream,            \* the kinds of the bytes read so far
    sg,                \* the segments; SegmentCount is its length
    CursorX, CursorY,
    xw,                \* window size in pixels
    tw, th,            \* tty size in cells
    screen,
    render,            \* the screen must be redrawn
    pc,                \* where the loop is
    buf, i,            \* ProcessInput: the rest of the range, the scan index
    shrunk             \* history: some resize took columns or rows away

ringVars   == <<RelativePoint, AbsoluteFilledSize, Data, x, rd, writing>>
cursorVars == <<CursorX, CursorY>>
sizeVars   == <<xw, tw, th, shrunk>>
vars == <<ringVars, stream, sg, cursorVars, sizeVars, screen, render, pc, buf, i>>

Ring == INSTANCE SourceBuffer

Blank == -1        \* the vertex clear_screen writes
CursorMark == -2   \* the tile of '~' + 1

\* The kind of byte number k of range r, read through its pointer.
ByteAt(r, k) == stream[Data[Ring!Mirror(r.Data + k)] + 1]

(***************************************************************************)
(* Render                                                                  *)
(***************************************************************************)

SegmentCount == Len(sg)

\* Characters of the first k segments, and of segments j .. k.
TextUpTo[k \in 0 .. SegmentCount] ==
    IF k = 0 THEN 0 ELSE TextUpTo[k - 1] + sg[k].buf.Count

TextLength(j, k) == TextUpTo[k] - TextUpTo[j - 1]

\* start_segment after the do-while loop that begins at cg = k: the segment
\* before the group of segments that Render lays out as one line.
StartSegment(k) ==
    Max({0} \cup {m \in 1 .. k - 1 :
                    sg[m].line_end \/ TextLength(m + 1, k) >= th * tw})

\* cg after n turns of Render's outer loop.  Turn n draws the segments
\* GroupEnd[n] + 1 .. GroupEnd[n - 1].
GroupEnd[n \in 0 .. SegmentCount] ==
    IF n = 0 THEN SegmentCount ELSE StartSegment(GroupEnd[n - 1])

GroupLength(n) == TextLength(GroupEnd[n] + 1, GroupEnd[n - 1])

\* Rows of a line of c characters; CursorBack leaves it on the row above them.
RowsOf(c) == IF c = 0 THEN 1 ELSE (c - 1) \div tw + 1

\* The row of the cell before the cursor.
FirstRow == IF CursorX = 0 THEN CursorY - 1 ELSE CursorY

\* The row turn n starts at; it draws unless the rows or the segments are used
\* up.
GroupRow[n \in 1 .. SegmentCount] ==
    IF n = 1 THEN FirstRow ELSE GroupRow[n - 1] - RowsOf(GroupLength(n - 1))

Turns == {n \in 1 .. SegmentCount : GroupEnd[n - 1] > 0 /\ GroupRow[n] >= 0}

\* Mutant: the last character goes one column too far right.
LastCellShifted(n) == GroupRow[n] * tw + (GroupLength(n) % tw)

\* The cell of the group's last character; the others go before it, cell by
\* cell, and stop above the screen.
LastCell(n) == GroupRow[n] * tw + ((GroupLength(n) - 1) % tw)

\* The byte that turn n draws in cell c, read through its segment's pointer.
GroupByte(n, c) ==
    LET first   == GroupEnd[n] + 1
        m       == GroupLength(n) - 1 - (LastCell(n) - c)
        before(s) == TextLength(first, s - 1)
        s       == CHOOSE s \in first .. GroupEnd[n - 1] :
                       before(s) <= m /\ m < before(s) + sg[s].buf.Count
    IN  Data[Ring!Mirror(sg[s].buf.Data + m - before(s))]

Cleared == [c \in 0 .. tw * th - 1 |-> Blank]

\* clear_screen and Render: what is drawn now.  The turns draw disjoint cells,
\* each above the ones before it, and over the cursor.  Cells past the end of
\* t.screen are written too, outside this model.
Rendered ==
    [c \in DOMAIN Cleared |->
       LET at == {n \in Turns : LastCell(n) - c \in 0 .. GroupLength(n) - 1}
       IN  IF at # {} THEN GroupByte(CHOOSE n \in at : TRUE, c)
           ELSE IF c = CursorY * tw + CursorX THEN CursorMark
           ELSE Blank]

(***************************************************************************)
(* The cursor                                                              *)
(***************************************************************************)

\* Mutant: the row is clipped one row below the screen.
AdvanceRowLate ==
    /\ CursorX' = 0
    /\ CursorY' = IF CursorY + 1 > th THEN th ELSE CursorY + 1

AdvanceRow ==
    /\ CursorX' = 0
    /\ CursorY' = IF CursorY + 1 >= th THEN th - 1 ELSE CursorY + 1

\* Mutant: a full row does not wrap until one more character.
AdvanceColumnLate ==
    IF CursorX + 1 > tw
    THEN AdvanceRow
    ELSE CursorX' = CursorX + 1 /\ UNCHANGED CursorY

AdvanceColumn ==
    IF CursorX + 1 >= tw
    THEN AdvanceRow
    ELSE CursorX' = CursorX + 1 /\ UNCHANGED CursorY

(***************************************************************************)
(* The loop                                                                *)
(***************************************************************************)

Init ==
    /\ Ring!Init
    /\ stream = <<>>
    /\ sg = <<>>
    /\ CursorX = 0 /\ CursorY = 0
    /\ xw \in Sizes
    /\ tw = Cols(xw) /\ th = Lines(xw)
    /\ screen = Cleared
    /\ render = TRUE
    /\ pc = "events"
    /\ buf = Ring!NoRange /\ i = 0
    /\ shrunk = FALSE

\* set_terminalsz for a window of the given size.
SetTerminalSize(size) ==
    /\ xw' = size
    /\ tw' = Cols(size)
    /\ th' = Lines(size)
    /\ shrunk' = (shrunk \/ tw' < tw \/ th' < th)

\* Mutants: a resize does not ask for a redraw; it keeps the old screen array.
HandleResizeSilent ==
    /\ pc = "events"
    /\ \E size \in Sizes \ {xw} : SetTerminalSize(size)
    /\ screen' = Cleared'
    /\ UNCHANGED <<ringVars, stream, sg, cursorVars, render, pc, buf, i>>
HandleResizeUnsynced ==
    /\ pc = "events"
    /\ \E size \in Sizes \ {xw} : SetTerminalSize(size)
    /\ render' = TRUE
    /\ UNCHANGED <<ringVars, stream, sg, cursorVars, screen, pc, buf, i>>

\* A ConfigureNotify event with a new size: resize and resize_screen.  The
\* cursor is left alone.
HandleResize ==
    /\ pc = "events"
    /\ \E size \in Sizes \ {xw} : SetTerminalSize(size)
    /\ render' = TRUE
    /\ screen' = Cleared'
    /\ UNCHANGED <<ringVars, stream, sg, cursorVars, pc, buf, i>>

\* No X event is pending any more.
EventsDone ==
    /\ pc = "events"
    /\ pc' = "tty"
    /\ UNCHANGED <<ringVars, stream, sg, cursorVars, sizeVars, screen, render, buf, i>>

\* pselect reported the pty readable, or it did not.
BeginRead ==
    /\ pc = "tty"
    /\ Ring!BeginRead
    /\ UNCHANGED <<stream, sg, cursorVars, sizeVars, screen, render, pc, buf, i>>

NothingToRead ==
    /\ pc = "tty"
    /\ ~writing
    /\ pc' = "draw"
    /\ UNCHANGED <<ringVars, stream, sg, cursorVars, sizeVars, screen, render, buf, i>>

ReadTty ==
    /\ pc = "tty"
    /\ \E chunk \in Chunks :
         /\ Ring!ReadTty(Len(chunk))
         /\ stream' = stream \o chunk
    /\ render' = TRUE
    /\ UNCHANGED <<sg, cursorVars, sizeVars, screen, pc, buf, i>>

\* Mutant: the bytes read are processed but not committed.
EndReadUncommitted ==
    /\ pc = "tty"
    /\ writing
    /\ writing' = FALSE
    /\ IF rd # 0
       THEN pc' = "process" /\ x' = [x EXCEPT !.Count = rd] /\ buf' = x'
       ELSE pc' = "draw" /\ UNCHANGED <<x, buf>>
    /\ rd' = 0
    /\ UNCHANGED <<RelativePoint, AbsoluteFilledSize, Data, stream, sg, cursorVars,
                   sizeVars, screen, render, i>>

EndRead ==
    /\ pc = "tty"
    /\ Ring!EndRead
    /\ IF rd # 0
       THEN pc' = "process" /\ buf' = x'
       ELSE pc' = "draw" /\ UNCHANGED buf
    /\ UNCHANGED <<stream, sg, cursorVars, sizeVars, screen, render, i>>

\* The head of ProcessInput's outer loop opens a segment.
OpenSegment ==
    /\ pc = "process"
    /\ buf.Count > 0
    /\ sg' = Append(sg, [buf |-> [buf EXCEPT !.Count = 0], line_end |-> FALSE])
    /\ i' = 0
    /\ pc' = "scan"
    /\ UNCHANGED <<ringVars, stream, cursorVars, sizeVars, screen, render, buf>>

ProcessDone ==
    /\ pc = "process"
    /\ buf.Count = 0
    /\ pc' = "draw"
    /\ UNCHANGED <<ringVars, stream, sg, cursorVars, sizeVars, screen, render, buf, i>>

\* The inner loop on an ordinary character, the last of the range perhaps.
ScanGlyph ==
    /\ pc = "scan"
    /\ i < buf.Count
    /\ ByteAt(buf, i) = "glyph"
    /\ sg' = [sg EXCEPT ![SegmentCount].buf.Count = @ + 1]
    /\ AdvanceColumn
    /\ IF i = buf.Count - 1
       THEN buf' = Ring!ConsumeCount(buf, buf.Count)
       ELSE UNCHANGED buf
    /\ i' = i + 1
    /\ UNCHANGED <<ringVars, stream, sizeVars, screen, render, pc>>

\* Mutant: the line feed after a carriage return is left in the range.
ScanLineEndKeepsFeed ==
    /\ pc = "scan"
    /\ i < buf.Count
    /\ \/ ByteAt(buf, i) = "LF"
       \/ /\ ByteAt(buf, i) = "CR"
          /\ i + 1 < buf.Count
          /\ ByteAt(buf, i + 1) = "LF"
    /\ buf' = Ring!ConsumeCount(buf, i + 1)
    /\ sg' = [sg EXCEPT ![SegmentCount].line_end = TRUE]
    /\ AdvanceRow
    /\ pc' = "process"
    /\ UNCHANGED <<ringVars, stream, sizeVars, screen, render, i>>

\* A line feed, or a carriage return with its line feed, ends the line.
ScanLineEnd ==
    /\ pc = "scan"
    /\ i < buf.Count
    /\ \/ /\ ByteAt(buf, i) = "CR"
          /\ i + 1 < buf.Count
          /\ ByteAt(buf, i + 1) = "LF"
          /\ buf' = Ring!ConsumeCount(buf, i + 2)
       \/ /\ ByteAt(buf, i) = "LF"
          /\ buf' = Ring!ConsumeCount(buf, i + 1)
    /\ sg' = [sg EXCEPT ![SegmentCount].line_end = TRUE]
    /\ AdvanceRow
    /\ pc' = "process"
    /\ UNCHANGED <<ringVars, stream, sizeVars, screen, render, i>>

\* Mutant: the scan waits at a carriage return for its line feed.
ScanReturnWaits ==
    /\ pc = "scan"
    /\ i < buf.Count
    /\ ByteAt(buf, i) = "CR"
    /\ ~(i + 1 < buf.Count /\ ByteAt(buf, i + 1) = "LF")
    /\ UNCHANGED vars

\* A carriage return alone: the rest of the range is dropped.
ScanReturn ==
    /\ pc = "scan"
    /\ i < buf.Count
    /\ ByteAt(buf, i) = "CR"
    /\ ~(i + 1 < buf.Count /\ ByteAt(buf, i + 1) = "LF")
    /\ buf' = [buf EXCEPT !.Count = 0]
    /\ pc' = "process"
    /\ UNCHANGED <<ringVars, stream, sg, cursorVars, sizeVars, screen, render, i>>

ScanDone ==
    /\ pc = "scan"
    /\ i >= buf.Count
    /\ pc' = "process"
    /\ UNCHANGED <<ringVars, stream, sg, cursorVars, sizeVars, screen, render, buf, i>>

ProcessInput ==
    OpenSegment \/ ScanGlyph \/ ScanLineEnd \/ ScanReturn \/ ScanDone \/ ProcessDone

Draw ==
    /\ pc = "draw"
    /\ screen' = IF render THEN Rendered ELSE screen
    /\ render' = FALSE
    /\ pc' = "events"
    /\ UNCHANGED <<ringVars, stream, sg, cursorVars, sizeVars, buf, i>>

Next ==
    \/ HandleResize \/ EventsDone
    \/ BeginRead \/ NothingToRead \/ ReadTty \/ EndRead
    \/ ProcessInput
    \/ Draw

Spec == Init /\ [][Next]_vars

\* The loop runs on: the X queue runs empty, the reading loop stops within its
\* 36 ms, and the steps between never block.  (Draw is always what leaves
\* "draw"; the fairness does not need to say what it draws.)
LiveSpec ==
    /\ Spec
    /\ WF_vars(EventsDone \/ BeginRead \/ NothingToRead \/ EndRead \/ ProcessInput)
    /\ WF_pc(pc = "draw" /\ pc' = "events")
=============================================================================
