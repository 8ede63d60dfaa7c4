------------------------------- MODULE Display -------------------------------
(***************************************************************************)
(* From the window's size and the text to the pixels: the start-up in main *)
(* (main.c), the window's part of the terminal (window.c), the atlas of    *)
(* glyphs (freetype.c), the two textures and what the shader makes of them *)
(* (grid.f.glsl).  What is read and how Render lays it out is the subject  *)
(* of EventLoop and Terminal; here it is some byte in each cell.           *)
(*                                                                         *)
(* External: the X server, whose events wait in a queue, and OpenGL, where *)
(* glTexImage2D and glTexSubImage2D act on the active texture unit.  The   *)
(* font is one of bitmaps, as the one main loads.                          *)
(***************************************************************************)
EXTENDS Integers, Sequences

CONSTANTS Ascent, Descent, Advance,  \* metrics of the font, of 'M' the advance
          Bitmap,                    \* of each character: left, top, rows, width
          Sizes,                     \* <<width, height>> the window may be given
          Texts,                     \* what Render may put into the cells
          MaxResizes, MaxExposures   \* bounds on what the server does

(***************************************************************************)
(* The font and its atlas                                                  *)
(***************************************************************************)

gh == Ascent + Descent
gw == Advance
borderpx == 4
TopLeftMargin == 4

Printable == 32 .. 126   \* ascii_printable
Cursor == 127            \* the tile behind them

ASSUME FontAssumption ==
    /\ Ascent \in Nat /\ Descent \in Nat /\ Advance \in Nat
    /\ gh > borderpx /\ gw > borderpx
    /\ Bitmap \in [Printable -> [left : Nat, top : Int, rows : Nat, width : 0 .. 8]]

\* A glyph does not reach out of its cell, but for one that is too high.
ASSUME GlyphsFitAssumption ==
    \A ch \in Printable :
        /\ Bitmap[ch].left + Bitmap[ch].width <= gw
        /\ Bitmap[ch].rows <= gh
        /\ Bitmap[ch].top <= Ascent => Bitmap[ch].rows <= Descent + Bitmap[ch].top

ASSUME WindowAssumption ==
    /\ \A s \in Sizes : s \in Nat \X Nat /\ s[1] >= borderpx + gw /\ s[2] >= borderpx + gh
    /\ \A t \in Texts : \A c \in DOMAIN t : t[c] \in Int
    /\ MaxResizes \in Nat /\ MaxExposures \in Nat

\* The atlas's texels in a row: column m of row l of the f-th tile in tile row k.
INDEX(k, f, l, m) == k * gw * gh * 10 + f * gw + l * gw * 10 + m

\* The row of its cell in which a glyph begins.
GlyphTop(ch) == IF Bitmap[ch].top > Ascent THEN 0 ELSE gh - Descent - Bitmap[ch].top

\* What render_ascii and render_cursor write, and where: the pixel <<z, l>> of a
\* character's bitmap, and the full texels of the cursor.
GlyphWrites ==
    UNION {{<<INDEX((ch - 32) \div 10, (ch - 32) % 10, l + GlyphTop(ch), Bitmap[ch].left + z),
              <<ch, z, l>>>> :
            l \in 0 .. Bitmap[ch].rows - 1, z \in 0 .. Bitmap[ch].width - 1} : ch \in Printable}
CursorWrites ==
    {<<INDEX(9, 5, l, m), <<Cursor, 0, 0>>>> : l \in 0 .. gh - 1, m \in 0 .. gw - 1}

Empty == <<0, 0, 0>>   \* a texel left as calloc made it
Atlas ==
    LET writes == GlyphWrites \cup CursorWrites
    IN  [n \in 0 .. 100 * gw * gh - 1 |->
           IF \E t \in writes : t[1] = n THEN (CHOOSE t \in writes : t[1] = n)[2] ELSE Empty]

(***************************************************************************)
(* The terminal, its textures, and the window                              *)
(***************************************************************************)

VARIABLES
    pc,                \* where main is
    w, h,              \* t.xw: the window's size, as far as main knows
    tw, th,            \* the terminal's
    screen,            \* t.screen: for each cell its tile in the atlas
    render,            \* t.render
    unit,              \* the active texture unit
    tex,               \* what is in the texture bound to each unit
    TermSize, scissor, \* the uniform, and what part of the window is drawn to
    events,            \* X events that main has not read
    size, mapped,      \* of the window, at the server
    shown,             \* the frame that the window shows
    resizes, exposures \* counters

mainVars == <<w, h, tw, th, screen, render>>
glVars == <<unit, tex, TermSize, scissor>>
serverVars == <<events, size, mapped, shown, resizes, exposures>>
vars == <<pc, mainVars, glVars, serverVars>>

gt_slot == 0
ct_slot == 1

Cells(x, y) == (0 .. x - 1) \X (0 .. y - 1)

NoTexture == [kind |-> "none", size |-> <<0, 0>>, data |-> <<>>]
GlyphTexture == [kind |-> "glyphs", size |-> <<10 * gw, 10 * gh>>, data |-> <<>>]
CellTexture(x, y, data) == [kind |-> "cells", size |-> <<x, y>>, data |-> data]

NoFrame == [size |-> <<0, 0>>, scissor |-> <<0, 0>>, grid |-> <<0, 0>>,
            glyphs |-> NoTexture, cells |-> NoTexture, text |-> <<>>]

Configure(s) == [type |-> "ConfigureNotify", size |-> s]
MapNotify == [type |-> "MapNotify", size |-> <<0, 0>>]
Expose == [type |-> "Expose", size |-> <<0, 0>>]
Event == {MapNotify, Expose} \cup {Configure(s) : s \in Sizes}

Init ==
    /\ pc = "prepare"
    /\ w = 0 /\ h = 0 /\ tw = 0 /\ th = 0 /\ screen = <<>>
    /\ render = TRUE
    /\ unit = gt_slot /\ tex = [u \in {gt_slot, ct_slot} |-> NoTexture]
    /\ TermSize = <<0, 0>>
    /\ size \in Sizes /\ scissor = size
    /\ events = <<>> /\ mapped = FALSE /\ shown = NoFrame
    /\ resizes = 0 /\ exposures = 0

(***************************************************************************)
(* Sizes                                                                   *)
(***************************************************************************)

\* Division in C, towards zero.
Quotient(a, b) == IF a >= 0 THEN a \div b ELSE -((-a) \div b)

Columns(width) == Quotient(width - borderpx, gw)
Rows(height) == Quotient(height - borderpx, gh)

\* Mutant: the border is left out.
set_terminalsz_borderless(width, height) ==
    LET x == width \div gw
        y == height \div gh
    IN  /\ tw' = x /\ th' = y
        /\ TermSize' = <<x, y>>
        /\ screen' = [c \in Cells(x, y) |-> <<0, 0>>]
        /\ tex' = [tex EXCEPT ![unit] = CellTexture(x, y, <<>>)]

\* set_terminalsz and resize_screen: a new screen, and a new image for the
\* texture of the active unit.
set_terminalsz(width, height) ==
    LET x == Columns(width)
        y == Rows(height)
    IN  /\ tw' = x /\ th' = y
        /\ TermSize' = <<x, y>>
        /\ screen' = [c \in Cells(x, y) |-> <<0, 0>>]
        /\ tex' = [tex EXCEPT ![unit] = CellTexture(x, y, <<>>)]

\* Mutants: nothing is drawn until there is output; width and height swapped.
resize_silent(s) ==
    IF s = <<w, h>> THEN UNCHANGED <<w, h, tw, th, screen, tex, TermSize, scissor, render>>
    ELSE /\ w' = s[1] /\ h' = s[2]
         /\ set_terminalsz(s[1], s[2])
         /\ scissor' = s
         /\ UNCHANGED render
resize_swapped(s) ==
    IF s = <<w, h>> THEN UNCHANGED <<w, h, tw, th, screen, tex, TermSize, scissor, render>>
    ELSE /\ render' = TRUE
         /\ w' = s[2] /\ h' = s[1]
         /\ set_terminalsz(s[2], s[1])
         /\ scissor' = s

resize(s) ==
    IF s = <<w, h>> THEN UNCHANGED <<w, h, tw, th, screen, tex, TermSize, scissor, render>>
    ELSE /\ render' = TRUE
         /\ w' = s[1] /\ h' = s[2]
         /\ set_terminalsz(s[1], s[2])
         /\ scissor' = s

(***************************************************************************)
(* Start-up                                                                *)
(***************************************************************************)

\* prepare_glcontext, which ends with the cells' unit active, set_props, and the
\* request of map_window.
Prepare ==
    /\ pc = "prepare"
    /\ unit' = ct_slot
    /\ pc' = "mapping"
    /\ UNCHANGED <<mainVars, tex, TermSize, scissor, serverVars>>

\* The loop of map_window.
MapWindow ==
    /\ pc = "mapping" /\ events # <<>>
    /\ IF Head(events).type = "ConfigureNotify" THEN resize(Head(events).size)
       ELSE UNCHANGED <<w, h, tw, th, screen, tex, TermSize, scissor, render>>
    /\ pc' = IF Head(events).type = "MapNotify" THEN "upload" ELSE "mapping"
    /\ events' = Tail(events)
    /\ UNCHANGED <<unit, size, mapped, shown, resizes, exposures>>

\* Mutant: the cells' unit is not made active again.
UploadUnswitched ==
    /\ pc = "upload"
    /\ tw' = Columns(w) /\ th' = Rows(h)
    /\ TermSize' = <<tw', th'>>
    /\ screen' = [c \in Cells(tw', th') |-> <<0, 0>>]
    /\ tex' = [u \in {gt_slot, ct_slot} |-> CellTexture(tw', th', <<>>)]
    /\ unit' = gt_slot
    /\ pc' = "events"
    /\ UNCHANGED <<w, h, render, scissor, serverVars>>

\* set_terminalsz once more, the atlas to its unit, the cells to theirs.
Upload ==
    /\ pc = "upload"
    /\ tw' = Columns(w) /\ th' = Rows(h)
    /\ TermSize' = <<tw', th'>>
    /\ screen' = [c \in Cells(tw', th') |-> <<0, 0>>]
    /\ tex' = [u \in {gt_slot, ct_slot} |->
                 IF u = gt_slot THEN GlyphTexture ELSE CellTexture(tw', th', <<>>)]
    /\ unit' = ct_slot
    /\ pc' = "events"
    /\ UNCHANGED <<w, h, render, scissor, serverVars>>

(***************************************************************************)
(* A turn of the loop                                                      *)
(***************************************************************************)

\* The next event; those without a handler are dropped.
HandleEvent ==
    /\ pc = "events" /\ events # <<>>
    /\ IF Head(events).type = "ConfigureNotify" THEN resize(Head(events).size)
       ELSE UNCHANGED <<w, h, tw, th, screen, tex, TermSize, scissor, render>>
    /\ events' = Tail(events)
    /\ UNCHANGED <<pc, unit, size, mapped, shown, resizes, exposures>>

\* No more events: there may be output.
Read ==
    /\ pc = "events" /\ events = <<>>
    /\ render' \in {render, TRUE}
    /\ pc' = "draw"
    /\ UNCHANGED <<w, h, tw, th, screen, glVars, serverVars>>

\* Mutant: column and row of the tile are swapped.
TileSwapped(ch) ==
    LET c == IF ch < 32 \/ ch > 127 THEN 63 ELSE ch
    IN  <<(c - 32) \div 10, (c - 32) % 10>>

\* SetCell: the tile of a byte, of '?' for one that has none.
Tile(ch) ==
    LET c == IF ch < 32 \/ ch > 127 THEN 63 ELSE ch
    IN  <<(c - 32) % 10, (c - 32) \div 10>>

\* clear_screen leaves the first tile, the space, where Render sets nothing;
\* the byte of the cursor's cell is '~' + 1.
Rendered(text) ==
    [c \in Cells(tw, th) |-> IF c \in DOMAIN text THEN Tile(text[c]) ELSE <<0, 0>>]

\* glTexSubImage2D fails on a texture of another kind or a smaller one.
Uploaded(data) ==
    IF tex[unit].kind = "cells" /\ tw <= tex[unit].size[1] /\ th <= tex[unit].size[2]
    THEN [tex EXCEPT ![unit].data = data]
    ELSE tex

Draw ==
    /\ pc = "draw"
    /\ pc' = "events"
    /\ \/ ~render /\ UNCHANGED <<screen, render, tex, shown>>
       \/ /\ render
          /\ render' = FALSE
          /\ \E text \in Texts :
               /\ screen' = Rendered(text)
               /\ tex' = Uploaded(Rendered(text))
               /\ shown' = [size |-> <<w, h>>, scissor |-> scissor, grid |-> TermSize,
                            glyphs |-> tex'[gt_slot], cells |-> tex'[ct_slot], text |-> text]
    /\ UNCHANGED <<w, h, tw, th, unit, TermSize, scissor, events, size, mapped, resizes, exposures>>

MainStep == Prepare \/ MapWindow \/ Upload \/ HandleEvent \/ Read \/ Draw

(***************************************************************************)
(* The X server                                                            *)
(***************************************************************************)

\* The window is mapped: by a window manager, who gives it a size of his, or
\* without one.
XMaps ==
    /\ pc = "mapping" /\ ~mapped
    /\ mapped' = TRUE
    /\ \/ \E s \in Sizes : size' = s /\ events' = events \o <<Configure(s), MapNotify>>
       \/ UNCHANGED size /\ events' = Append(events, MapNotify)
    /\ UNCHANGED <<pc, mainVars, glVars, shown, resizes, exposures>>

\* It is resized, or moved.
XResizes ==
    /\ mapped /\ resizes < MaxResizes
    /\ \E s \in Sizes : size' = s /\ events' = Append(events, Configure(s))
    /\ resizes' = resizes + 1
    /\ UNCHANGED <<pc, mainVars, glVars, mapped, shown, exposures>>

\* What it shows was covered, and is lost.
XExposes ==
    /\ mapped /\ exposures < MaxExposures
    /\ shown' = NoFrame
    /\ events' = Append(events, Expose)
    /\ exposures' = exposures + 1
    /\ UNCHANGED <<pc, mainVars, glVars, size, mapped, resizes>>

XStep == XMaps \/ XResizes \/ XExposes

Next == MainStep \/ XStep

Spec == Init /\ [][Next]_vars

\* The program runs, and the server answers the request to map the window.
LiveSpec == Spec /\ WF_vars(MainStep) /\ WF_vars(XMaps)

(***************************************************************************)
(* The shader                                                              *)
(***************************************************************************)

\* What is no texel of the atlas.
Margin == <<-1, 0, 0>>
Undefined == <<-2, 0, 0>>

\* The texel that the pixel at x, y of the window shows.
ComputeOutputColor(frame, x, y) ==
    LET index == <<(x - TopLeftMargin) \div gw, (y - TopLeftMargin) \div gh>>
        pos   == <<(x - TopLeftMargin) % gw, (y - TopLeftMargin) % gh>>
    IN  IF \/ x < TopLeftMargin \/ y < TopLeftMargin
           \/ index[1] >= frame.grid[1] \/ index[2] >= frame.grid[2] THEN Margin
        ELSE IF frame.glyphs.kind # "glyphs" \/ index \notin DOMAIN frame.cells.data THEN Undefined
        ELSE LET tile == frame.cells.data[index]
             IN  Atlas[(tile[2] * gh + pos[2]) * 10 * gw + tile[1] * gw + pos[1]]

(***************************************************************************)
(* Properties                                                              *)
(***************************************************************************)

\* Where main is, and the sizes it knows.
TypeOK ==
    /\ pc \in {"prepare", "mapping", "upload", "events", "draw"}
    /\ <<w, h>> \in Sizes \cup {<<0, 0>>}
    /\ tw \in Nat /\ th \in Nat /\ TermSize \in Nat \X Nat
    /\ render \in BOOLEAN /\ mapped \in BOOLEAN
    /\ unit \in {gt_slot, ct_slot} /\ DOMAIN tex = {gt_slot, ct_slot}
    /\ size \in Sizes /\ events \in Seq(Event)
    /\ resizes \in 0 .. MaxResizes /\ exposures \in 0 .. MaxExposures

\* In the loop the screen, the texture of the cells and the shader agree on the
\* size of the terminal, which is the window's, and the atlas is where the
\* shader looks for it: the texture uploads of start-up and of every resize have
\* found the unit active that they mean.
InLoop == pc \in {"events", "draw"}
TexturesInStep ==
    InLoop =>
        /\ tw = Columns(w) /\ th = Rows(h)
        /\ TermSize = <<tw, th>>
        /\ DOMAIN screen = Cells(tw, th)
        /\ unit = ct_slot
        /\ tex[gt_slot] = GlyphTexture
        /\ tex[ct_slot].kind = "cells" /\ tex[ct_slot].size = <<tw, th>>

\* The cells fill the window that main knows as far as whole ones do, and none
\* is cut off: the border that the size is computed with is the margin that the
\* shader leaves.
CellsWhole ==
    tw > 0 /\ th > 0 =>
        /\ w - gw < TopLeftMargin + tw * gw /\ TopLeftMargin + tw * gw <= w
        /\ h - gh < TopLeftMargin + th * gh /\ TopLeftMargin + th * gh <= h

\* What a pixel of a cell with the byte ch should show, m to the right and l down
\* from the cell's corner: its pixel of the glyph, which stands on the baseline.
GlyphPixel(ch, m, l) ==
    LET b   == Bitmap[ch]
        row == l - (IF b.top > Ascent THEN 0 ELSE Ascent - b.top)
    IN  IF m - b.left \in 0 .. b.width - 1 /\ row \in 0 .. b.rows - 1
        THEN <<ch, m - b.left, row>> ELSE Empty
PixelOf(ch, m, l) ==
    IF ch = Cursor THEN <<Cursor, 0, 0>> ELSE GlyphPixel(IF ch \in Printable THEN ch ELSE 63, m, l)

\* Every frame shows, pixel for pixel, the glyphs of the bytes in its cells, '?'
\* for those that have none, and the margin around them: atlas, tile numbers,
\* texture sizes and uniforms fit, whatever the window's size was before.  (The
\* byte DEL is shown as the cursor.)
FrameShowsText ==
    LET grid == Cells(shown.grid[1], shown.grid[2])
        at(x, y) == ComputeOutputColor(shown, x, y)
    IN  /\ shown.size[1] <= shown.scissor[1] /\ shown.size[2] <= shown.scissor[2]
        /\ \A c \in grid : \A m \in 0 .. gw - 1, l \in 0 .. gh - 1 :
             at(TopLeftMargin + c[1] * gw + m, TopLeftMargin + c[2] * gh + l) =
                 PixelOf(IF c \in DOMAIN shown.text THEN shown.text[c] ELSE 32, m, l)
        /\ \A x \in 0 .. shown.size[1] - 1, y \in 0 .. shown.size[2] - 1 :
             at(x, y) = Margin <=>
                 ~ \E c \in grid : /\ x - TopLeftMargin - c[1] * gw \in 0 .. gw - 1
                                  /\ y - TopLeftMargin - c[2] * gh \in 0 .. gh - 1

\* A new size that main is told of is drawn, unless another one follows; also
\* when it is told while it waits for the window to be mapped, or several at once.
\* (A frame that is lost after it was drawn is not: Expose has no handler.)
Told(s) == \E k \in DOMAIN events : events[k] = Configure(s)
WindowCatchesUp ==
    \A s \in Sizes :
        Told(s) /\ <<w, h>> # s ~> (size # s \/ shown.size = s)
=============================================================================
