---------------------------- MODULE MCGlyphTable ----------------------------
(* Instances of GlyphTable for TLC. *)
EXTENDS GlyphTable

\* Two slots, and as many hashes as entries in one of them.
FourHashes == {0, 1, 2, 4}

\* A texture the reserved tiles fill a row of, and one a single tile wide.
TwoLayouts == {[ReservedTileCount |-> 2, CacheTileCountInX |-> 3],
               [ReservedTileCount |-> 1, CacheTileCountInX |-> 1]}
OneLayout == {[ReservedTileCount |-> 2, CacheTileCountInX |-> 3]}

\* Rasterised, in one tile.
OneFill == {<<2, 1>>}

\* Pages fresh from mmap.
Zeroed == {0}

\* A block malloc returned after something else used it.
Used == {0, 1}
=============================================================================
