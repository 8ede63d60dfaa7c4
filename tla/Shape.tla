-------------------------------- MODULE Shape --------------------------------
(***************************************************************************)
(* Shaping a text: the loop of Itemize with what render_segment (shape.c)  *)
(* does with each run.  The run is shaped with the main font; each group   *)
(* of consecutive glyphs that font does not have is shaped again with      *)
(* another font; and each cluster of glyphs is drawn at a place of its own *)
(* in the render buffer, two places wide for a wide character.             *)
(*                                                                         *)
(* HarfBuzz is external.  It gives one glyph per codepoint (no ligatures:  *)
(* render_segment counts on it), in visual order, with the position of the *)
(* first codepoint of the grapheme as its cluster.                         *)
(***************************************************************************)
EXTENDS Itemize

CONSTANTS GlyphNum,     \* render_glyph_num
          Wide,         \* codepoints for which wcwidth is 2
          Marks         \* codepoints that join the grapheme before them

ASSUME ShapeAssumption ==
    GlyphNum \in Nat \ {0} /\ Wide \subseteq Codepoints /\ Marks \subseteq Codepoints

VARIABLES glyph_count,  \* places taken
          drawn         \* history: the glyphs drawn for the last run

shapeVars == <<vars, glyph_count, drawn>>

(***************************************************************************)
(* What HarfBuzz gives: codepoints from .. to - 1 of the text, of which    *)
(* `missing' are not in the font and `flat' have no advance                *)
(***************************************************************************)

Cluster(q, from) == Max({from} \cup {s \in from .. q : text[s + 1] \notin Marks})

Shaped(from, to, rtl, missing, flat) ==
    [k \in 1 .. to - from |->
        LET q == IF rtl THEN to - k ELSE from + k - 1
        IN  [of |-> q, cluster |-> Cluster(q, from), notdef |-> q \in missing,
             advance |-> q \notin flat]]

(***************************************************************************)
(* render_segment                                                          *)
(***************************************************************************)

\* current_cluster, prev_advance_x, the slot, glyph_count; and what was drawn.
Start == [cluster |-> -1, advance |-> TRUE, slot |-> -1, count |-> glyph_count,
          broken |-> FALSE, drawn |-> <<>>]

\* The second place of a wide character.
Extra(cluster) == IF text[cluster + 1] \in Wide THEN 1 ELSE 0

\* A glyph drawn, at a new place or at the one before.  Every glyph of a wide
\* character, not only its first, takes one more place, unchecked.
Placed(st, g, new) ==
    LET slot == IF new THEN st.count ELSE st.slot
    IN  [st EXCEPT !.cluster = IF new THEN g.cluster ELSE @,
                   !.slot = slot,
                   !.count = (IF new THEN @ + 1 ELSE @) + Extra(g.cluster),
                   !.advance = g.advance,
                   !.drawn = Append(@, [glyph |-> g, slot |-> slot])]

\* Mutants: one place too many; a place per glyph instead of per cluster.
DrawGlyphLate(st, g) ==
    LET new == st.cluster # g.cluster /\ st.advance
    IN  IF st.broken \/ (new /\ st.count > GlyphNum) THEN [st EXCEPT !.broken = TRUE]
        ELSE Placed(st, g, new)
DrawGlyphAlone(st, g) ==
    IF st.broken \/ (st.advance /\ st.count >= GlyphNum) THEN [st EXCEPT !.broken = TRUE]
    ELSE Placed(st, g, st.advance)

\* One glyph.  Without a place left the loop over the group is broken off.
DrawGlyph(st, g) ==
    LET new == st.cluster # g.cluster /\ st.advance
    IN  IF st.broken \/ (new /\ st.count >= GlyphNum) THEN [st EXCEPT !.broken = TRUE]
        ELSE Placed(st, g, new)

\* Mutant: the ends of a group are in the order of the text in both directions.
FallbackRangeUnswapped(info, first, last, rtl) ==
    [from |-> info[first].cluster, to |-> Max({info[first].cluster, info[last].cluster + 1})]

\* The codepoints a group of missing glyphs is shaped from again.
FallbackRange(info, first, last, rtl) ==
    LET a == info[first].cluster
        b == info[last].cluster
    IN  IF rtl THEN [from |-> b, to |-> a + 1] ELSE [from |-> a, to |-> b + 1]

\* Where the groups of glyphs that are all missing, or all there, begin.
GroupStarts(info) ==
    {k \in DOMAIN info : k = 1 \/ info[k].notdef # info[k - 1].notdef}

\* The glyphs of the group from `first' on, as they are drawn.
GroupGlyphs(info, first, rtl, flat) ==
    LET last == Max({k \in first .. Len(info) :
                       \A j \in first .. k : info[j].notdef = info[first].notdef})
        again == FallbackRange(info, first, last, rtl)
    IN  IF info[first].notdef THEN Shaped(again.from, again.to, rtl, {}, flat)
        ELSE SubSeq(info, first, last)

\* The loop over the glyphs of a group.
DrawGroup(st, glyphs) ==
    LET after[k \in 0 .. Len(glyphs)] ==
            IF k = 0 THEN [st EXCEPT !.broken = FALSE] ELSE DrawGlyph(after[k - 1], glyphs[k])
    IN  after[Len(glyphs)]

render_segment(info, rtl, flat) ==
    LET after[k \in 0 .. Len(info)] ==
            IF k = 0 THEN Start
            ELSE IF k \in GroupStarts(info)
                 THEN DrawGroup(after[k - 1], GroupGlyphs(info, k, rtl, flat))
                 ELSE after[k - 1]
    IN  after[Len(info)]

(***************************************************************************)
(* fontsystem_shape                                                        *)
(***************************************************************************)

ShapeInit ==
    /\ Init
    /\ glyph_count = 0
    /\ drawn = <<>>

ShapeNext ==
    /\ ShapeRun
    /\ LET run  == runs'[Len(runs')]
           span == run.from .. run.to - 1
           rtl  == run.level % 2 = 1
       IN  \E missing \in SUBSET span, flat \in SUBSET {q \in span : text[q + 1] \in Marks} :
             LET st == render_segment(Shaped(run.from, run.to, rtl, missing, flat), rtl, flat)
             IN  /\ glyph_count' = st.count
                 /\ drawn' = st.drawn

ShapeSpec == ShapeInit /\ [][ShapeNext]_shapeVars

(***************************************************************************)
(* Properties                                                              *)
(***************************************************************************)

Glyph(k) == drawn[k].glyph
LastPlace(k) == drawn[k].slot + Extra(Glyph(k).cluster)

\* What a glyph is drawn at, its own place and the second one of a wide
\* character, has been counted, and is in the render buffer: also when the
\* places run out in one group and the next group is still tried, and over all
\* the runs of a text.  One case is left out, for which the code does nothing: a
\* wide character whose own place is the last of the buffer has its second one
\* behind the buffer, since only the first is checked.
DrawnAtTakenPlaces ==
    \A k \in DOMAIN drawn : \A p \in drawn[k].slot .. LastPlace(k) :
        /\ p \in 0 .. glyph_count - 1
        /\ p < GlyphNum \/ (p = GlyphNum /\ drawn[k].slot = GlyphNum - 1)

\* A cluster is drawn at one place, and the next cluster behind it, and behind
\* the second place of a wide one, if the last glyph of a cluster has an
\* advance.  (If it has none, as a mark after its letter, the next cluster is
\* drawn over it: new places are taken only after an advance.)
ClusterOwnsPlace ==
    (\A k \in 1 .. Len(drawn) - 1 :
        Glyph(k).cluster # Glyph(k + 1).cluster => Glyph(k).advance)
    => \A k, l \in DOMAIN drawn : k < l =>
          IF Glyph(k).cluster = Glyph(l).cluster THEN drawn[k].slot = drawn[l].slot
          ELSE drawn[l].slot > LastPlace(k)

\* While there are places, every codepoint of a run without longer clusters is
\* drawn once, with the main font or with another, in either direction.  (With
\* longer clusters it need not be: the range that is shaped again ends behind
\* the first codepoint of its last cluster.)
EveryCodepointDrawn ==
    LET run  == runs[Len(runs)]
        span == run.from .. run.to - 1
        alone(q) == Cluster(q, run.from) = q /\ (q + 1 \in span => text[q + 2] \notin Marks)
        drawnOnce(q) == Cardinality({k \in DOMAIN drawn : Glyph(k).of = q}) = 1
    IN  runs # <<>> /\ glyph_count < GlyphNum /\ (\A q \in span : alone(q))
        => \A q \in span : drawnOnce(q)
=============================================================================
