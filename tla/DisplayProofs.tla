---------------------------- MODULE DisplayProofs ----------------------------
(***************************************************************************)
(* Theorems about Display, for every font of bitmaps that fit into their   *)
(* cells, every set of window sizes that show a cell, every text and any   *)
(* number of resizes and exposures.                                        *)
(***************************************************************************)
EXTENDS Display, TLAPS

(***************************************************************************)
(* Arithmetic                                                              *)
(***************************************************************************)

\* Division leaves less than the divisor.
LEMMA Division ==
    ASSUME NEW a \in Int, NEW b \in Nat, b > 0
    PROVE  /\ a \div b \in Int
           /\ a \in Nat => a \div b \in Nat
           /\ (a \div b) * b <= a
           /\ a < (a \div b) * b + b
OBVIOUS

\* Quotient and remainder are the ones that the number is made of.
LEMMA Remainder ==
    ASSUME NEW b \in Nat, b > 0, NEW q \in Int, NEW r \in 0 .. b - 1
    PROVE  (q * b + r) \div b = q /\ (q * b + r) % b = r
OBVIOUS

\* The font's metrics.
LEMMA Metrics == gh \in Nat /\ gw \in Nat /\ gh > 4 /\ gw > 4
BY FontAssumption DEF gh, gw, borderpx

\* A size of the window, and the numbers of cells that fit it.
LEMMA WindowSizes ==
    ASSUME NEW s \in Sizes
    PROVE  /\ s = <<s[1], s[2]>> /\ s[1] \in Nat /\ s[2] \in Nat
           /\ s[1] >= 4 + gw /\ s[2] >= 4 + gh
BY WindowAssumption DEF borderpx

LEMMA WholeCells ==
    ASSUME NEW x \in Nat
    PROVE  /\ x >= 4 + gw => /\ Columns(x) \in Nat
                             /\ x - gw < 4 + Columns(x) * gw /\ 4 + Columns(x) * gw <= x
           /\ x >= 4 + gh => /\ Rows(x) \in Nat
                             /\ x - gh < 4 + Rows(x) * gh /\ 4 + Rows(x) * gh <= x
           /\ Columns(0) = 0 /\ Rows(0) = 0
<1>1. ASSUME NEW b \in Nat, b > 4
      PROVE  /\ Quotient(0 - 4, b) = 0
             /\ x >= 4 + b => /\ Quotient(x - 4, b) \in Nat
                              /\ x - b < 4 + Quotient(x - 4, b) * b
                              /\ 4 + Quotient(x - 4, b) * b <= x
  <2>1. 4 \div b = 0
    BY <1>1
  <2>2. Quotient(0 - 4, b) = 0
    BY <2>1 DEF Quotient
  <2>3. ASSUME x >= 4 + b
        PROVE  /\ Quotient(x - 4, b) \in Nat
               /\ x - b < 4 + Quotient(x - 4, b) * b
               /\ 4 + Quotient(x - 4, b) * b <= x
    <3>1. x - 4 \in Nat /\ Quotient(x - 4, b) = (x - 4) \div b
      BY <1>1, <2>3 DEF Quotient
    <3>2. /\ (x - 4) \div b \in Nat
          /\ ((x - 4) \div b) * b <= x - 4
          /\ x - 4 < ((x - 4) \div b) * b + b
      BY <1>1, <3>1, Division
    <3> QED BY <1>1, <3>1, <3>2
  <2> QED BY <2>2, <2>3
<1> QED BY <1>1, Metrics DEF Columns, Rows, borderpx

(***************************************************************************)
(* The inductive invariant                                                 *)
(***************************************************************************)

\* Before the first ConfigureNotify main knows no size, and has no cells; the
\* cells' unit is active from prepare_glcontext on; and what TexturesInStep says,
\* with the texture of the cells as a whole.
GridFits ==
    \/ w = 0 /\ h = 0 /\ tw = 0 /\ th = 0
    \/ <<w, h>> \in Sizes /\ tw = Columns(w) /\ th = Rows(h)
Textures ==
    /\ TermSize = <<tw, th>>
    /\ DOMAIN screen = Cells(tw, th)
    /\ tex[gt_slot] = GlyphTexture
    /\ tex[ct_slot] = CellTexture(tw, th, tex[ct_slot].data)
IInv ==
    /\ TypeOK
    /\ GridFits
    /\ pc # "prepare" => unit = ct_slot
    /\ InLoop => Textures

\* An event tells a size if it is a ConfigureNotify.
LEMMA EventSizes ==
    ASSUME NEW e \in Event, e.type = "ConfigureNotify"
    PROVE  e.size \in Sizes
BY DEF Event, Configure, MapNotify, Expose

\* What a resize does to the terminal and its textures.
LEMMA Resized ==
    ASSUME TypeOK, GridFits, NEW s \in Sizes, resize(s)
    PROVE  /\ <<w', h'>> \in Sizes
           /\ tw' = Columns(w') /\ th' = Rows(h')
           /\ tw' \in Nat /\ th' \in Nat /\ TermSize' \in Nat \X Nat
           /\ render' \in BOOLEAN
           /\ DOMAIN tex' = {gt_slot, ct_slot}
           /\ unit = ct_slot /\ Textures /\ unit' = unit => Textures'
<1>1. /\ s = <<s[1], s[2]>> /\ s[1] \in Nat /\ s[2] \in Nat
      /\ Columns(s[1]) \in Nat /\ Rows(s[2]) \in Nat
  BY WindowSizes, WholeCells
<1>2. CASE s = <<w, h>>
  <2>1. UNCHANGED <<w, h, tw, th, screen, tex, TermSize, scissor, render>>
    BY <1>2 DEF resize
  <2>2. w = s[1] /\ h = s[2] /\ <<w, h>> \in Sizes
    BY <1>2
  <2>3. tw = Columns(w) /\ th = Rows(h)
    BY <2>2, <1>1, WindowSizes, Metrics DEF GridFits
  <2> QED BY <2>1, <2>2, <2>3, <1>1 DEF TypeOK, Textures
<1>3. CASE s # <<w, h>>
  <2>1. /\ render' = TRUE /\ w' = s[1] /\ h' = s[2]
        /\ tw' = Columns(s[1]) /\ th' = Rows(s[2])
        /\ TermSize' = <<tw', th'>>
        /\ screen' = [c \in Cells(tw', th') |-> <<0, 0>>]
        /\ tex' = [tex EXCEPT ![unit] = CellTexture(tw', th', <<>>)]
    BY <1>3 DEF resize, set_terminalsz
  <2>2. DOMAIN tex' = {gt_slot, ct_slot}
    BY <2>1 DEF TypeOK
  <2>3. ASSUME unit = ct_slot, Textures
        PROVE  Textures'
    <3>1. tex'[gt_slot] = GlyphTexture
      BY <2>1, <2>3 DEF Textures, TypeOK, gt_slot, ct_slot
    <3>2. tex'[ct_slot] = CellTexture(tw', th', <<>>)
      BY <2>1, <2>3 DEF TypeOK
    <3>3. tex'[ct_slot].data = <<>>
      BY <3>2 DEF CellTexture
    <3> QED BY <2>1, <3>1, <3>2, <3>3 DEF Textures
  <2> QED BY <1>1, <2>1, <2>2, <2>3
<1> QED BY <1>2, <1>3

LEMMA InitIInv == Init => IInv
<1> SUFFICES ASSUME Init PROVE IInv
  OBVIOUS
<1>1. events \in Seq(Event) /\ 0 \in 0 .. MaxResizes /\ 0 \in 0 .. MaxExposures
  BY WindowAssumption DEF Init
<1>2. TypeOK
  BY <1>1 DEF Init, TypeOK, gt_slot, ct_slot
<1> QED BY <1>2 DEF Init, IInv, GridFits, InLoop

\* The sizes known and the cells are natural numbers.
LEMMA GridTypes ==
    ASSUME IInv
    PROVE  /\ w \in Nat /\ h \in Nat
           /\ Columns(w) \in Nat /\ Rows(h) \in Nat
<1>1. CASE w = 0 /\ h = 0
  BY <1>1, WholeCells
<1>2. CASE <<w, h>> \in Sizes
  <2>1. w \in Nat /\ h \in Nat /\ w >= 4 + gw /\ h >= 4 + gh
    BY <1>2, WindowSizes
  <2> QED BY <2>1, WholeCells
<1> QED BY <1>1, <1>2 DEF IInv, GridFits

\* A step of main that takes an event, in map_window or in the loop.
LEMMA EventTaken ==
    ASSUME IInv, events # <<>>, events' = Tail(events),
           IF Head(events).type = "ConfigureNotify" THEN resize(Head(events).size)
           ELSE UNCHANGED <<w, h, tw, th, screen, tex, TermSize, scissor, render>>,
           pc # "prepare", pc' # "prepare", InLoop' => InLoop \/ pc' = "upload",
           pc' \in {"mapping", "upload", "events", "draw"},
           UNCHANGED <<unit, size, mapped, resizes, exposures>>
    PROVE  IInv'
<1>1. events' \in Seq(Event) /\ Head(events) \in Event
  BY DEF IInv, TypeOK
<1>2. CASE Head(events).type = "ConfigureNotify"
  <2>1. Head(events).size \in Sizes /\ resize(Head(events).size)
    BY <1>1, <1>2, EventSizes
  <2>2. /\ <<w', h'>> \in Sizes
        /\ tw' = Columns(w') /\ th' = Rows(h')
        /\ tw' \in Nat /\ th' \in Nat /\ TermSize' \in Nat \X Nat
        /\ render' \in BOOLEAN
        /\ DOMAIN tex' = {gt_slot, ct_slot}
        /\ unit = ct_slot /\ Textures /\ unit' = unit => Textures'
    BY <2>1, Resized DEF IInv
  <2>3. TypeOK'
    BY <1>1, <2>2 DEF IInv, TypeOK
  <2>4. GridFits' /\ unit' = ct_slot
    BY <2>2 DEF IInv, GridFits
  <2>5. InLoop' => Textures'
    BY <2>2 DEF IInv, InLoop
  <2> QED BY <2>3, <2>4, <2>5 DEF IInv
<1>3. CASE Head(events).type # "ConfigureNotify"
  <2>1. UNCHANGED <<w, h, tw, th, screen, tex, TermSize, scissor, render>>
    BY <1>3
  <2> QED BY <1>1, <2>1 DEF IInv, TypeOK, GridFits, InLoop, Textures
<1> QED BY <1>2, <1>3

LEMMA StepIInv == IInv /\ [Next]_vars => IInv'
<1> SUFFICES ASSUME IInv, [Next]_vars
             PROVE  IInv'
  OBVIOUS
<1> USE DEF IInv
<1>1. CASE Prepare
  BY <1>1 DEF Prepare, TypeOK, GridFits, InLoop, mainVars, serverVars
<1>2. CASE MapWindow
  <2>1. pc = "mapping" /\ pc' \in {"mapping", "upload"} /\ ~InLoop'
    BY <1>2 DEF MapWindow, InLoop
  <2> QED BY <1>2, <2>1, EventTaken DEF MapWindow
<1>3. CASE Upload
  <2>1. Columns(w) \in Nat /\ Rows(h) \in Nat
    BY GridTypes
  <2>2. /\ tw' = Columns(w) /\ th' = Rows(h) /\ TermSize' = <<tw', th'>>
        /\ DOMAIN screen' = Cells(tw', th')
        /\ DOMAIN tex' = {gt_slot, ct_slot}
        /\ tex'[gt_slot] = GlyphTexture
        /\ tex'[ct_slot] = CellTexture(tw', th', <<>>)
        /\ unit' = ct_slot /\ pc' = "events"
        /\ UNCHANGED <<w, h, render, scissor, serverVars>>
    BY <1>3 DEF Upload, gt_slot, ct_slot
  <2>3. TypeOK'
    BY <2>1, <2>2 DEF TypeOK, serverVars
  <2>4. GridFits'
    BY <2>2, WholeCells DEF GridFits
  <2>5. Textures'
    BY <2>2 DEF Textures, CellTexture
  <2> QED BY <2>2, <2>3, <2>4, <2>5
<1>4. CASE HandleEvent
  <2>1. pc = "events" /\ pc' = pc /\ InLoop
    BY <1>4 DEF HandleEvent, InLoop
  <2> QED BY <1>4, <2>1, EventTaken DEF HandleEvent
<1>5. CASE Read
  <2>1. render' \in BOOLEAN
    BY <1>5 DEF Read, TypeOK
  <2> QED BY <1>5, <2>1 DEF Read, TypeOK, GridFits, InLoop, Textures, glVars, serverVars
<1>6. CASE Draw
  <2>1. /\ pc' = "events" /\ InLoop
        /\ UNCHANGED <<w, h, tw, th, unit, TermSize, scissor, events, size, mapped, resizes,
                       exposures>>
    BY <1>6 DEF Draw, InLoop
  <2>2. /\ render' \in BOOLEAN
        /\ DOMAIN tex' = {gt_slot, ct_slot}
        /\ Textures'
    <3>1. CASE ~render /\ UNCHANGED <<screen, render, tex, shown>>
      BY <2>1, <3>1 DEF Textures, TypeOK
    <3>2. ASSUME NEW text \in Texts, render' = FALSE,
                 screen' = Rendered(text), tex' = Uploaded(Rendered(text))
          PROVE  /\ render' \in BOOLEAN
                 /\ DOMAIN tex' = {gt_slot, ct_slot}
                 /\ Textures'
      <4>1. DOMAIN tex' = {gt_slot, ct_slot} /\ tex'[gt_slot] = tex[gt_slot]
        BY <2>1, <3>2 DEF Uploaded, TypeOK, InLoop, gt_slot, ct_slot
      <4>2. tex'[ct_slot] = CellTexture(tw, th, tex'[ct_slot].data)
        BY <2>1, <3>2 DEF Uploaded, TypeOK, InLoop, Textures, CellTexture
      <4>3. DOMAIN screen' = Cells(tw, th)
        BY <3>2 DEF Rendered
      <4> QED BY <2>1, <3>2, <4>1, <4>2, <4>3 DEF Textures
    <3> QED BY <1>6, <3>1, <3>2 DEF Draw
  <2>3. TypeOK'
    BY <2>1, <2>2 DEF TypeOK
  <2> QED BY <2>1, <2>2, <2>3 DEF GridFits, InLoop
<1>7. CASE XMaps
  <2>1. /\ size' \in Sizes /\ events' \in Seq(Event) /\ mapped' = TRUE
        /\ UNCHANGED <<pc, mainVars, glVars, shown, resizes, exposures>>
    <3>1. MapNotify \in Event /\ \A s \in Sizes : Configure(s) \in Event
      BY DEF Event
    <3>2. \A s \in Sizes : events \o <<Configure(s), MapNotify>> \in Seq(Event)
      BY <3>1 DEF TypeOK
    <3>3. Append(events, MapNotify) \in Seq(Event) /\ size \in Sizes
      BY <3>1 DEF TypeOK
    <3>4. UNCHANGED <<pc, mainVars, glVars, shown, resizes, exposures>> /\ mapped' = TRUE
      BY <1>7 DEF XMaps
    <3>5. \/ \E s \in Sizes : size' = s /\ events' = events \o <<Configure(s), MapNotify>>
          \/ UNCHANGED size /\ events' = Append(events, MapNotify)
      BY <1>7 DEF XMaps
    <3>6. size' \in Sizes /\ events' \in Seq(Event)
      BY <3>2, <3>3, <3>5
    <3> QED BY <3>4, <3>6
  <2> QED BY <2>1 DEF TypeOK, GridFits, InLoop, Textures, mainVars, glVars
<1>8. CASE XResizes
  <2>1. /\ size' \in Sizes /\ events' \in Seq(Event)
        /\ resizes' \in 0 .. MaxResizes
        /\ UNCHANGED <<pc, mainVars, glVars, mapped, shown, exposures>>
    BY <1>8, WindowAssumption DEF XResizes, TypeOK, Event
  <2> QED BY <2>1 DEF TypeOK, GridFits, InLoop, Textures, mainVars, glVars
<1>9. CASE XExposes
  <2>1. /\ events' \in Seq(Event)
        /\ exposures' \in 0 .. MaxExposures
        /\ UNCHANGED <<pc, mainVars, glVars, size, mapped, resizes>>
    BY <1>9, WindowAssumption DEF XExposes, TypeOK, Event
  <2> QED BY <2>1 DEF TypeOK, GridFits, InLoop, Textures, mainVars, glVars
<1>10. CASE UNCHANGED vars
  BY <1>10 DEF vars, mainVars, glVars, serverVars, TypeOK, GridFits, InLoop, Textures
<1> QED
  BY <1>1, <1>2, <1>3, <1>4, <1>5, <1>6, <1>7, <1>8, <1>9, <1>10 DEF Next, MainStep, XStep

(***************************************************************************)
(* The atlas                                                               *)
(***************************************************************************)

\* A texel's index by its row in the atlas and its place in the row.
LEMMA RowAndPlace ==
    ASSUME NEW k \in Int, NEW f \in Int, NEW l \in Int, NEW m \in Int
    PROVE  /\ INDEX(k, f, l, m) = (k * gh + l) * (10 * gw) + (f * gw + m)
           /\ INDEX(k, f, l, m) = (k * gh + l) * 10 * gw + f * gw + m
<1>1. gh \in Int /\ gw \in Int
  BY Metrics
<1>2. k * gw * gh * 10 + l * gw * 10 = (k * gh + l) * 10 * gw
  BY <1>1
<1>3. (k * gh + l) * 10 * gw = (k * gh + l) * (10 * gw)
  BY <1>1
<1> QED BY <1>1, <1>2, <1>3 DEF INDEX

\* The place of a texel in its row.
LEMMA PlaceInRow ==
    ASSUME NEW f \in 0 .. 9, NEW m \in 0 .. gw - 1
    PROVE  f * gw + m \in 0 .. 10 * gw - 1
<1>1. f * gw >= 0 /\ f * gw <= 9 * gw /\ f * gw \in Int
  BY Metrics
<1> QED BY <1>1, Metrics

\* A texel's index tells its tile and its place there: no two texels of the tiles
\* have the same one.
TexelAt(n) ==
    <<(n \div (10 * gw)) \div gh, (n % (10 * gw)) \div gw,
      (n \div (10 * gw)) % gh, (n % (10 * gw)) % gw>>
LEMMA TexelsApart ==
    ASSUME NEW k \in 0 .. 9, NEW f \in 0 .. 9, NEW l \in 0 .. gh - 1, NEW m \in 0 .. gw - 1
    PROVE  TexelAt(INDEX(k, f, l, m)) = <<k, f, l, m>>
<1> DEFINE row == k * gh + l
           place == f * gw + m
           n == INDEX(k, f, l, m)
<1>1. row \in Int /\ place \in 0 .. 10 * gw - 1 /\ 10 * gw \in Nat /\ 10 * gw > 0
  BY Metrics, PlaceInRow
<1>2. n = row * (10 * gw) + place
  BY RowAndPlace
<1>3. row \div gh = k /\ row % gh = l /\ place \div gw = f /\ place % gw = m
  BY Metrics, Remainder
<1> HIDE DEF row, place, n
<1>4. n \div (10 * gw) = row /\ n % (10 * gw) = place
  BY <1>1, <1>2, Remainder
<1> QED BY <1>3, <1>4 DEF TexelAt, n

\* The texel m to the right and l down in a tile lies in the atlas.
LEMMA TexelInAtlas ==
    ASSUME NEW k \in 0 .. 9, NEW f \in 0 .. 9, NEW l \in 0 .. gh - 1, NEW m \in 0 .. gw - 1
    PROVE  INDEX(k, f, l, m) \in DOMAIN Atlas
<1> DEFINE row == k * gh + l
           place == f * gw + m
<1>1. k * gh >= 0 /\ k * gh <= 9 * gh /\ k * gh \in Int
  BY Metrics
<1>2. row \in 0 .. 10 * gh - 1 /\ place \in 0 .. 10 * gw - 1
  BY <1>1, Metrics, PlaceInRow
<1>3. INDEX(k, f, l, m) = row * (10 * gw) + place
  BY RowAndPlace
<1> HIDE DEF row, place
<1>4. row * (10 * gw) >= 0 /\ row * (10 * gw) <= (10 * gh - 1) * (10 * gw) /\ row * (10 * gw) \in Int
  BY <1>2, Metrics
<1>5. (10 * gh - 1) * (10 * gw) = 100 * gw * gh - 10 * gw
  BY Metrics
<1>6. row * (10 * gw) + place \in 0 .. 100 * gw * gh - 1
  BY <1>2, <1>4, <1>5, Metrics
<1> QED BY <1>3, <1>6 DEF Atlas

\* The tile of a character, by row and column of tiles.
LEMMA TileOf ==
    ASSUME NEW k \in 0 .. 9, NEW f \in 0 .. 9
    PROVE  LET ch == 32 + 10 * k + f IN (ch - 32) \div 10 = k /\ (ch - 32) % 10 = f
OBVIOUS

LEMMA CharOf ==
    ASSUME NEW ch \in Printable \cup {Cursor}
    PROVE  \E q \in 0 .. 9, r \in 0 .. 9 :
             /\ (ch - 32) \div 10 = q /\ (ch - 32) % 10 = r
             /\ ch = 32 + 10 * q + r
<1> DEFINE q == (ch - 32) \div 10
           r == ch - 32 - q * 10
<1>1. ch - 32 \in 0 .. 95 /\ ch \in Int
  BY DEF Printable, Cursor
<1>2. q \in 0 .. 9 /\ r \in 0 .. 9 /\ ch - 32 = q * 10 + r
  BY <1>1
<1> HIDE DEF q, r
<1>3. (ch - 32) \div 10 = q /\ (ch - 32) % 10 = r
  BY <1>2, Remainder
<1>4. ch = 32 + 10 * q + r
  BY <1>1, <1>2
<1> QED BY <1>2, <1>3, <1>4

\* The glyphs' pixels are in their cells.
LEMMA GlyphInCell ==
    ASSUME NEW ch \in Printable,
           NEW l \in 0 .. Bitmap[ch].rows - 1, NEW z \in 0 .. Bitmap[ch].width - 1
    PROVE  /\ l + GlyphTop(ch) \in 0 .. gh - 1 /\ GlyphTop(ch) \in Int
           /\ Bitmap[ch].left + z \in 0 .. gw - 1
           /\ GlyphTop(ch) = IF Bitmap[ch].top > Ascent THEN 0 ELSE Ascent - Bitmap[ch].top
<1>1. /\ Bitmap[ch].left \in Nat /\ Bitmap[ch].top \in Int /\ Bitmap[ch].rows \in Nat
      /\ Bitmap[ch].width \in Nat
  BY FontAssumption
<1>2. /\ Bitmap[ch].left + Bitmap[ch].width <= gw
      /\ Bitmap[ch].rows <= gh
      /\ Bitmap[ch].top <= Ascent => Bitmap[ch].rows <= Descent + Bitmap[ch].top
  BY GlyphsFitAssumption
<1>3. gh = Ascent + Descent /\ Ascent \in Nat /\ Descent \in Nat
  BY FontAssumption DEF gh
<1> QED BY <1>1, <1>2, <1>3, Metrics DEF GlyphTop

\* What is written to a texel of a tile is the pixel that should be there.
LEMMA WrittenThere ==
    ASSUME NEW k \in 0 .. 9, NEW f \in 0 .. 9, NEW l \in 0 .. gh - 1, NEW m \in 0 .. gw - 1,
           32 + 10 * k + f \in Printable \cup {Cursor},
           NEW t \in GlyphWrites \cup CursorWrites, t[1] = INDEX(k, f, l, m)
    PROVE  t[2] = PixelOf(32 + 10 * k + f, m, l)
<1>1. CASE t \in CursorWrites
  <2>1. PICK l2 \in 0 .. gh - 1, m2 \in 0 .. gw - 1 : t = <<INDEX(9, 5, l2, m2), <<Cursor, 0, 0>>>>
    BY <1>1 DEF CursorWrites
  <2>2. TexelAt(INDEX(k, f, l, m)) = <<k, f, l, m>>
    BY TexelsApart
  <2>3. \A a \in 0 .. 9, b \in 0 .. 9 : TexelAt(INDEX(a, b, l2, m2)) = <<a, b, l2, m2>>
    BY TexelsApart
  <2>4. k = 9 /\ f = 5
    BY <2>1, <2>2, <2>3
  <2> QED BY <2>1, <2>4 DEF PixelOf, Cursor
<1>2. CASE t \in GlyphWrites
  <2>1. PICK c \in Printable : \E j \in 0 .. Bitmap[c].rows - 1, z \in 0 .. Bitmap[c].width - 1 :
          t = <<INDEX((c - 32) \div 10, (c - 32) % 10, j + GlyphTop(c), Bitmap[c].left + z),
                <<c, z, j>>>>
    BY <1>2 DEF GlyphWrites
  <2>2. PICK j \in 0 .. Bitmap[c].rows - 1, z \in 0 .. Bitmap[c].width - 1 :
          t = <<INDEX((c - 32) \div 10, (c - 32) % 10, j + GlyphTop(c), Bitmap[c].left + z),
                <<c, z, j>>>>
    BY <2>1
  <2>3. /\ j + GlyphTop(c) \in 0 .. gh - 1 /\ GlyphTop(c) \in Int
        /\ Bitmap[c].left + z \in 0 .. gw - 1
        /\ GlyphTop(c) = IF Bitmap[c].top > Ascent THEN 0 ELSE Ascent - Bitmap[c].top
    BY GlyphInCell
  <2>4. PICK k2 \in 0 .. 9, f2 \in 0 .. 9 :
          /\ (c - 32) \div 10 = k2 /\ (c - 32) % 10 = f2
          /\ c = 32 + 10 * k2 + f2
    BY CharOf
  <2>5. INDEX(k, f, l, m) = INDEX(k2, f2, j + GlyphTop(c), Bitmap[c].left + z)
    BY <2>2, <2>4
  <2>6. k = k2 /\ f = f2 /\ l = j + GlyphTop(c) /\ m = Bitmap[c].left + z
    <3> DEFINE l2 == j + GlyphTop(c)
               m2 == Bitmap[c].left + z
    <3>1. /\ l2 \in 0 .. gh - 1 /\ m2 \in 0 .. gw - 1
          /\ INDEX(k, f, l, m) = INDEX(k2, f2, l2, m2)
      BY <2>3, <2>5
    <3> HIDE DEF l2, m2
    <3>2. TexelAt(INDEX(k, f, l, m)) = <<k, f, l, m>>
      BY TexelsApart
    <3>3. TexelAt(INDEX(k2, f2, l2, m2)) = <<k2, f2, l2, m2>>
      BY <3>1, TexelsApart
    <3>4. k = k2 /\ f = f2 /\ l = l2 /\ m = m2
      BY <3>1, <3>2, <3>3
    <3> QED BY <3>4 DEF l2, m2
  <2>7. 32 + 10 * k + f = c
    BY <2>4, <2>6
  <2>8. Bitmap[c].left \in Int /\ c # Cursor
    BY FontAssumption DEF Printable, Cursor
  <2>9. m - Bitmap[c].left = z /\ l - GlyphTop(c) = j
    BY <2>3, <2>6, <2>8
  <2>10. GlyphPixel(c, m, l) = <<c, z, j>>
    BY <2>3, <2>9 DEF GlyphPixel
  <2> QED BY <2>2, <2>7, <2>8, <2>10 DEF PixelOf
<1> QED BY <1>1, <1>2

\* A pixel that should be there is written.
LEMMA PixelWritten ==
    ASSUME NEW k \in 0 .. 9, NEW f \in 0 .. 9, NEW l \in 0 .. gh - 1, NEW m \in 0 .. gw - 1,
           32 + 10 * k + f \in Printable \cup {Cursor},
           PixelOf(32 + 10 * k + f, m, l) # Empty
    PROVE  \E t \in GlyphWrites \cup CursorWrites : t[1] = INDEX(k, f, l, m)
<1> DEFINE c == 32 + 10 * k + f
<1>1. CASE c = Cursor
  <2>1. k = 9 /\ f = 5
    BY <1>1 DEF Cursor
  <2>2. <<INDEX(9, 5, l, m), <<Cursor, 0, 0>>>> \in CursorWrites
    BY DEF CursorWrites
  <2> QED BY <2>1, <2>2
<1>2. CASE c \in Printable /\ c # Cursor
  <2> DEFINE j == l - (IF Bitmap[c].top > Ascent THEN 0 ELSE Ascent - Bitmap[c].top)
             z == m - Bitmap[c].left
  <2>1. z \in 0 .. Bitmap[c].width - 1 /\ j \in 0 .. Bitmap[c].rows - 1
    BY <1>2 DEF PixelOf, GlyphPixel
  <2>2. /\ GlyphTop(c) = IF Bitmap[c].top > Ascent THEN 0 ELSE Ascent - Bitmap[c].top
        /\ GlyphTop(c) \in Int /\ Bitmap[c].left \in Int
    BY <1>2, <2>1, GlyphInCell, FontAssumption
  <2>3. l = j + GlyphTop(c) /\ m = Bitmap[c].left + z
    BY <2>2
  <2>4. k = (c - 32) \div 10 /\ f = (c - 32) % 10
    BY TileOf
  <2> HIDE DEF c, j, z
  <2>5. <<INDEX((c - 32) \div 10, (c - 32) % 10, j + GlyphTop(c), Bitmap[c].left + z), <<c, z, j>>>>
          \in GlyphWrites
    BY <1>2, <2>1 DEF GlyphWrites
  <2> QED BY <2>3, <2>4, <2>5
<1> QED BY <1>1, <1>2

\* In every tile of the atlas is the glyph of its character.
LEMMA AtlasShowsGlyphs ==
    ASSUME NEW k \in 0 .. 9, NEW f \in 0 .. 9, NEW l \in 0 .. gh - 1, NEW m \in 0 .. gw - 1,
           32 + 10 * k + f \in Printable \cup {Cursor}
    PROVE  Atlas[INDEX(k, f, l, m)] = PixelOf(32 + 10 * k + f, m, l)
<1> DEFINE writes == GlyphWrites \cup CursorWrites
           n == INDEX(k, f, l, m)
           pixel == PixelOf(32 + 10 * k + f, m, l)
<1>1. \A t \in writes : t[1] = n => t[2] = pixel
  BY WrittenThere
<1>2. pixel # Empty => \E t \in writes : t[1] = n
  BY PixelWritten
<1>3. n \in 0 .. 100 * gw * gh - 1
  BY TexelInAtlas DEF Atlas
<1>4. Atlas[n] = IF \E t \in writes : t[1] = n THEN (CHOOSE t \in writes : t[1] = n)[2] ELSE Empty
  BY <1>3 DEF Atlas
<1> HIDE DEF writes, n, pixel
<1> QED BY <1>1, <1>2, <1>4 DEF n, pixel

(***************************************************************************)
(* A frame                                                                 *)
(***************************************************************************)

\* The frame of a text in x columns and y rows.
CellsOf(x, y, text) ==
    [c \in Cells(x, y) |-> IF c \in DOMAIN text THEN Tile(text[c]) ELSE <<0, 0>>]
FrameOf(s, sc, x, y, text) ==
    [size |-> s, scissor |-> sc, grid |-> <<x, y>>, glyphs |-> GlyphTexture,
     cells |-> CellTexture(x, y, CellsOf(x, y, text)), text |-> text]

\* The byte in a cell.
ByteAt(text, c) == IF c \in DOMAIN text THEN text[c] ELSE 32

\* A byte's tile is in the atlas, and the glyph there the one that should be seen.
LEMMA TileShown ==
    ASSUME NEW byte \in Int, NEW m, NEW l
    PROVE  \E q \in 0 .. 9, r \in 0 .. 9 :
             /\ Tile(byte) = <<r, q>>
             /\ 32 + 10 * q + r \in Printable \cup {Cursor}
             /\ PixelOf(32 + 10 * q + r, m, l) = PixelOf(byte, m, l)
<1> DEFINE ch == IF byte < 32 \/ byte > 127 THEN 63 ELSE byte
<1>1. ch \in Printable \cup {Cursor} /\ ch \in Int
  BY DEF Printable, Cursor
<1>2. PixelOf(ch, m, l) = PixelOf(byte, m, l)
  BY DEF PixelOf, Printable, Cursor
<1>3. Tile(byte) = <<(ch - 32) % 10, (ch - 32) \div 10>>
  BY DEF Tile
<1> HIDE DEF ch
<1>4. PICK q \in 0 .. 9, r \in 0 .. 9 :
        /\ (ch - 32) \div 10 = q /\ (ch - 32) % 10 = r
        /\ ch = 32 + 10 * q + r
  BY <1>1, CharOf
<1>5. Tile(byte) = <<r, q>>
  BY <1>3, <1>4
<1> QED BY <1>1, <1>2, <1>4, <1>5

\* The space's tile is the one that clear_screen puts everywhere.
LEMMA CellTile ==
    ASSUME NEW text \in Texts, NEW x, NEW y, NEW c \in Cells(x, y)
    PROVE  CellsOf(x, y, text)[c] = Tile(ByteAt(text, c)) /\ ByteAt(text, c) \in Int
<1>1. Tile(32) = <<0, 0>>
  BY DEF Tile
<1>2. ByteAt(text, c) \in Int
  BY WindowAssumption DEF ByteAt
<1> QED BY <1>1, <1>2 DEF CellsOf, ByteAt

\* What a glyph shows is not what the shader shows around the cells.
LEMMA NoMarginInCells ==
    ASSUME NEW ch, NEW m, NEW l
    PROVE  PixelOf(ch, m, l) # Margin
<1>1. ASSUME NEW b \in Printable PROVE GlyphPixel(b, m, l) # Margin
  BY DEF GlyphPixel, Margin, Empty, Printable
<1> QED BY <1>1 DEF PixelOf, Margin, Cursor, Printable

\* The shader finds the cell of a pixel, and the pixel in the cell's glyph.
LEMMA PixelShown ==
    ASSUME NEW s, NEW sc, NEW x \in Nat, NEW y \in Nat, NEW text \in Texts,
           NEW c \in Cells(x, y), NEW m \in 0 .. gw - 1, NEW l \in 0 .. gh - 1
    PROVE  ComputeOutputColor(FrameOf(s, sc, x, y, text),
                              TopLeftMargin + c[1] * gw + m, TopLeftMargin + c[2] * gh + l)
             = PixelOf(ByteAt(text, c), m, l)
<1> DEFINE px == TopLeftMargin + c[1] * gw + m
           py == TopLeftMargin + c[2] * gh + l
           frame == FrameOf(s, sc, x, y, text)
<1>1. /\ c = <<c[1], c[2]>> /\ c[1] \in Nat /\ c[2] \in Nat /\ c[1] < x /\ c[2] < y
      /\ c[1] * gw \in Nat /\ c[2] * gh \in Nat
  BY Metrics DEF Cells
<1>2. /\ px - TopLeftMargin = c[1] * gw + m /\ py - TopLeftMargin = c[2] * gh + l
      /\ px \in Int /\ py \in Int /\ px >= TopLeftMargin /\ py >= TopLeftMargin
  BY <1>1, Metrics DEF TopLeftMargin
<1>3. /\ (c[1] * gw + m) \div gw = c[1] /\ (c[1] * gw + m) % gw = m
      /\ (c[2] * gh + l) \div gh = c[2] /\ (c[2] * gh + l) % gh = l
  <2>1. /\ gw \in Nat /\ gw > 0 /\ gh \in Nat /\ gh > 0
        /\ c[1] \in Int /\ c[2] \in Int
    BY <1>1, Metrics
  <2>2. (c[1] * gw + m) \div gw = c[1] /\ (c[1] * gw + m) % gw = m
    BY <2>1, Remainder
  <2>3. (c[2] * gh + l) \div gh = c[2] /\ (c[2] * gh + l) % gh = l
    BY <2>1, Remainder
  <2> QED BY <2>2, <2>3
<1>4. /\ (px - TopLeftMargin) \div gw = c[1] /\ (px - TopLeftMargin) % gw = m
      /\ (py - TopLeftMargin) \div gh = c[2] /\ (py - TopLeftMargin) % gh = l
  BY <1>2, <1>3
<1>5. PICK q \in 0 .. 9, r \in 0 .. 9 :
        /\ Tile(ByteAt(text, c)) = <<r, q>>
        /\ 32 + 10 * q + r \in Printable \cup {Cursor}
        /\ PixelOf(32 + 10 * q + r, m, l) = PixelOf(ByteAt(text, c), m, l)
  BY CellTile, TileShown
<1>6. /\ frame.grid = <<x, y>> /\ frame.glyphs.kind = "glyphs"
      /\ c \in DOMAIN frame.cells.data /\ frame.cells.data[c] = <<r, q>>
  BY <1>5, CellTile DEF FrameOf, CellTexture, GlyphTexture, CellsOf
<1>7. Atlas[INDEX(q, r, l, m)] = PixelOf(ByteAt(text, c), m, l)
  BY <1>5, AtlasShowsGlyphs
<1>8. INDEX(q, r, l, m) = (q * gh + l) * 10 * gw + r * gw + m
  BY RowAndPlace
<1> HIDE DEF px, py, frame
<1>9. ComputeOutputColor(frame, px, py) = Atlas[(q * gh + l) * 10 * gw + r * gw + m]
  <2>1. ~ (\/ px < TopLeftMargin \/ py < TopLeftMargin
           \/ c[1] >= frame.grid[1] \/ c[2] >= frame.grid[2])
    BY <1>1, <1>2, <1>6 DEF TopLeftMargin
  <2>2. <<(px - TopLeftMargin) \div gw, (py - TopLeftMargin) \div gh>> = c
    BY <1>1, <1>4
  <2> QED BY <1>4, <1>6, <2>1, <2>2 DEF ComputeOutputColor
<1> QED BY <1>7, <1>8, <1>9 DEF px, py, frame

\* The margin is seen where no cell is.
LEMMA MarginShown ==
    ASSUME NEW s, NEW sc, NEW x \in Nat, NEW y \in Nat, NEW text \in Texts,
           NEW px \in Nat, NEW py \in Nat
    PROVE  ComputeOutputColor(FrameOf(s, sc, x, y, text), px, py) = Margin <=>
             ~ \E c \in Cells(x, y) : /\ px - TopLeftMargin - c[1] * gw \in 0 .. gw - 1
                                     /\ py - TopLeftMargin - c[2] * gh \in 0 .. gh - 1
<1> DEFINE frame == FrameOf(s, sc, x, y, text)
<1>1. ASSUME NEW c \in Cells(x, y),
             px - TopLeftMargin - c[1] * gw \in 0 .. gw - 1,
             py - TopLeftMargin - c[2] * gh \in 0 .. gh - 1
      PROVE  ComputeOutputColor(frame, px, py) # Margin
  <2> DEFINE m == px - TopLeftMargin - c[1] * gw
             l == py - TopLeftMargin - c[2] * gh
  <2>1. c[1] * gw \in Nat /\ c[2] * gh \in Nat
    BY Metrics DEF Cells
  <2>2. /\ px = TopLeftMargin + c[1] * gw + m /\ py = TopLeftMargin + c[2] * gh + l
        /\ m \in 0 .. gw - 1 /\ l \in 0 .. gh - 1
    BY <1>1, <2>1 DEF TopLeftMargin
  <2> HIDE DEF m, l, frame
  <2>3. ComputeOutputColor(frame, TopLeftMargin + c[1] * gw + m, TopLeftMargin + c[2] * gh + l)
          = PixelOf(ByteAt(text, c), m, l)
    BY <2>2, PixelShown DEF frame
  <2> QED BY <2>2, <2>3, NoMarginInCells
<1>2. ASSUME ComputeOutputColor(frame, px, py) # Margin
      PROVE  \E c \in Cells(x, y) : /\ px - TopLeftMargin - c[1] * gw \in 0 .. gw - 1
                                   /\ py - TopLeftMargin - c[2] * gh \in 0 .. gh - 1
  <2> DEFINE i == (px - TopLeftMargin) \div gw
             j == (py - TopLeftMargin) \div gh
  <2>1. /\ px >= TopLeftMargin /\ py >= TopLeftMargin
        /\ ~ (i >= frame.grid[1]) /\ ~ (j >= frame.grid[2])
    BY <1>2 DEF ComputeOutputColor, TopLeftMargin
  <2>2. frame.grid = <<x, y>>
    BY DEF FrameOf
  <2>3. /\ i \in Nat /\ i * gw <= px - TopLeftMargin /\ px - TopLeftMargin < i * gw + gw
        /\ j \in Nat /\ j * gh <= py - TopLeftMargin /\ py - TopLeftMargin < j * gh + gh
    <3>1. px - TopLeftMargin \in Nat /\ py - TopLeftMargin \in Nat
      BY <2>1 DEF TopLeftMargin
    <3> QED BY <3>1, Metrics, Division
  <2> HIDE DEF i, j
  <2>4. <<i, j>> \in Cells(x, y)
    BY <2>1, <2>2, <2>3 DEF Cells
  <2>5. i * gw \in Int /\ j * gh \in Int
    BY <2>3, Metrics
  <2>6. /\ px - TopLeftMargin - i * gw \in 0 .. gw - 1
        /\ py - TopLeftMargin - j * gh \in 0 .. gh - 1
    BY <2>3, <2>5, Metrics DEF TopLeftMargin
  <2> QED BY <2>4, <2>6
<1> QED BY <1>1, <1>2

\* The window shows nothing, or a frame of some text.
FrameInv ==
    /\ scissor \in Nat \X Nat
    /\ <<w, h>> = <<0, 0>> \/ scissor = <<w, h>>
    /\ \/ shown = NoFrame
       \/ \E s \in Nat \X Nat, sc \in Nat \X Nat, x \in Nat, y \in Nat, text \in Texts :
            s[1] <= sc[1] /\ s[2] <= sc[2] /\ shown = FrameOf(s, sc, x, y, text)

LEMMA FramesShowText == FrameInv => FrameShowsText
<1> SUFFICES ASSUME FrameInv PROVE FrameShowsText
  OBVIOUS
<1>1. CASE shown = NoFrame
  <2>1. /\ shown.size = <<0, 0>> /\ shown.scissor = <<0, 0>> /\ shown.grid = <<0, 0>>
    BY <1>1 DEF NoFrame
  <2>2. Cells(shown.grid[1], shown.grid[2]) = {}
    BY <2>1 DEF Cells
  <2> QED BY <2>1, <2>2 DEF FrameShowsText
<1>2. ASSUME NEW s \in Nat \X Nat, NEW sc \in Nat \X Nat, NEW x \in Nat, NEW y \in Nat,
             NEW text \in Texts, s[1] <= sc[1] /\ s[2] <= sc[2],
             shown = FrameOf(s, sc, x, y, text)
      PROVE  FrameShowsText
  <2>1. /\ shown.size = s /\ shown.scissor = sc /\ shown.grid = <<x, y>> /\ shown.text = text
    BY <1>2 DEF FrameOf
  <2>2. \A c \in Cells(x, y) : \A m \in 0 .. gw - 1, l \in 0 .. gh - 1 :
          ComputeOutputColor(shown, TopLeftMargin + c[1] * gw + m, TopLeftMargin + c[2] * gh + l)
            = PixelOf(IF c \in DOMAIN text THEN text[c] ELSE 32, m, l)
    BY <1>2, PixelShown DEF ByteAt
  <2>3. \A px \in 0 .. s[1] - 1, py \in 0 .. s[2] - 1 :
          ComputeOutputColor(shown, px, py) = Margin <=>
            ~ \E c \in Cells(x, y) : /\ px - TopLeftMargin - c[1] * gw \in 0 .. gw - 1
                                    /\ py - TopLeftMargin - c[2] * gh \in 0 .. gh - 1
    BY <1>2, MarginShown
  <2> QED BY <1>2, <2>1, <2>2, <2>3 DEF FrameShowsText
<1> QED BY <1>1, <1>2 DEF FrameInv

\* A resize sets the scissor to the size.
LEMMA ScissorResized ==
    ASSUME FrameInv, NEW s \in Sizes, resize(s)
    PROVE  scissor' \in Nat \X Nat /\ (<<w', h'>> = <<0, 0>> \/ scissor' = <<w', h'>>)
<1>1. s = <<s[1], s[2]>> /\ s[1] \in Nat /\ s[2] \in Nat
  BY WindowSizes
<1>2. CASE s = <<w, h>>
  BY <1>2 DEF resize, FrameInv
<1>3. CASE s # <<w, h>>
  BY <1>1, <1>3 DEF resize
<1> QED BY <1>2, <1>3

LEMMA StepFrame == IInv /\ FrameInv /\ [Next]_vars => FrameInv'
<1> SUFFICES ASSUME IInv, FrameInv, [Next]_vars
             PROVE  FrameInv'
  OBVIOUS
<1>1. CASE Prepare \/ Upload \/ Read
  <2>1. UNCHANGED <<w, h, scissor, shown>>
    BY <1>1 DEF Prepare, Upload, Read, mainVars, glVars, serverVars
  <2> QED BY <2>1 DEF FrameInv
<1>2. CASE MapWindow \/ HandleEvent
  <2>1. /\ shown' = shown
        /\ \/ UNCHANGED <<w, h, scissor>>
           \/ Head(events).type = "ConfigureNotify" /\ resize(Head(events).size)
    BY <1>2 DEF MapWindow, HandleEvent
  <2>2. Head(events) \in Event
    BY <1>2 DEF IInv, TypeOK, MapWindow, HandleEvent
  <2>3. scissor' \in Nat \X Nat /\ (<<w', h'>> = <<0, 0>> \/ scissor' = <<w', h'>>)
    BY <2>1, <2>2, EventSizes, ScissorResized DEF FrameInv
  <2> QED BY <2>1, <2>3 DEF FrameInv
<1>3. CASE Draw
  <2>1. UNCHANGED <<w, h, tw, th, TermSize, scissor>> /\ InLoop
    BY <1>3 DEF Draw, InLoop
  <2>2. CASE UNCHANGED shown
    BY <2>1, <2>2 DEF FrameInv
  <2>3. ASSUME NEW text \in Texts, tex' = Uploaded(Rendered(text)),
               shown' = [size |-> <<w, h>>, scissor |-> scissor, grid |-> TermSize,
                         glyphs |-> tex'[gt_slot], cells |-> tex'[ct_slot], text |-> text]
        PROVE  FrameInv'
    <3>1. /\ unit = ct_slot /\ TermSize = <<tw, th>> /\ tex[gt_slot] = GlyphTexture
          /\ tex[ct_slot] = CellTexture(tw, th, tex[ct_slot].data)
          /\ DOMAIN tex = {gt_slot, ct_slot} /\ tw \in Nat /\ th \in Nat
      BY <2>1 DEF IInv, TypeOK, Textures, InLoop
    <3>2. tex' = [tex EXCEPT ![ct_slot].data = Rendered(text)]
      BY <2>3, <3>1 DEF Uploaded, CellTexture
    <3>3. tex'[gt_slot] = GlyphTexture
      BY <3>1, <3>2 DEF gt_slot, ct_slot
    <3>4. tex'[ct_slot] = CellTexture(tw, th, Rendered(text))
      BY <3>1, <3>2 DEF CellTexture
    <3>5. Rendered(text) = CellsOf(tw, th, text)
      BY DEF Rendered, CellsOf
    <3>6. shown' = FrameOf(<<w, h>>, scissor, tw, th, text)
      BY <2>3, <3>1, <3>3, <3>4, <3>5 DEF FrameOf
    <3>7. /\ <<w, h>> \in Nat \X Nat /\ scissor \in Nat \X Nat
          /\ w <= scissor[1] /\ h <= scissor[2]
      BY GridTypes DEF FrameInv
    <3> QED BY <2>1, <3>1, <3>6, <3>7 DEF FrameInv
  <2> QED BY <1>3, <2>2, <2>3 DEF Draw
<1>4. CASE XStep
  BY <1>4 DEF XStep, XMaps, XResizes, XExposes, FrameInv, mainVars, glVars
<1>5. CASE UNCHANGED vars
  BY <1>5 DEF vars, FrameInv, mainVars, glVars, serverVars
<1> QED BY <1>1, <1>2, <1>3, <1>4, <1>5 DEF Next, MainStep

(***************************************************************************)
(* Theorems                                                                *)
(***************************************************************************)

THEOREM InvariantKept == Spec => [](IInv /\ FrameInv)
<1>1. Init => IInv /\ FrameInv
  BY InitIInv, WindowAssumption DEF Init, FrameInv
<1>2. IInv /\ FrameInv /\ [Next]_vars => (IInv /\ FrameInv)'
  BY StepIInv, StepFrame
<1> QED BY <1>1, <1>2, PTL DEF Spec

\* Type correctness.
THEOREM TypeCorrect == Spec => []TypeOK
<1>1. IInv => TypeOK
  BY DEF IInv
<1> QED BY InvariantKept, <1>1, PTL

\* In the loop the two textures, the uniform and the screen fit each other and
\* the window, however often and when it was resized.
THEOREM TexturesStayInStep == Spec => []TexturesInStep
<1>1. IInv => TexturesInStep
  <2> SUFFICES ASSUME IInv, InLoop PROVE TexturesInStep
    BY DEF TexturesInStep
  <2>1. tw = Columns(w) /\ th = Rows(h)
    BY WholeCells DEF IInv, GridFits
  <2>2. unit = ct_slot /\ Textures
    BY DEF IInv, InLoop
  <2>3. tex[ct_slot].kind = "cells" /\ tex[ct_slot].size = <<tw, th>>
    BY <2>2 DEF Textures, CellTexture
  <2> QED BY <2>1, <2>2, <2>3 DEF TexturesInStep, Textures
<1> QED BY InvariantKept, <1>1, PTL

\* Whole cells, as many as the window holds.
THEOREM CellsStayWhole == Spec => []CellsWhole
<1>1. IInv => CellsWhole
  <2> SUFFICES ASSUME IInv, tw > 0 PROVE CellsWhole
    BY DEF CellsWhole, IInv
  <2>1. <<w, h>> \in Sizes /\ tw = Columns(w) /\ th = Rows(h)
    BY DEF IInv, GridFits
  <2>2. w \in Nat /\ h \in Nat /\ w >= 4 + gw /\ h >= 4 + gh
    BY <2>1, WindowSizes
  <2> QED BY <2>1, <2>2, WholeCells DEF CellsWhole, TopLeftMargin
<1> QED BY InvariantKept, <1>1, PTL

\* Every pixel of every frame is the right one: with every font of bitmaps that fit
\* their cells, at every size of the window.
THEOREM FramesAlwaysShowText == Spec => []FrameShowsText
BY InvariantKept, FramesShowText, PTL
=============================================================================
