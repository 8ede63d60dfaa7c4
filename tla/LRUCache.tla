------------------------------ MODULE LRUCache ------------------------------
(***************************************************************************)
(* What refterm_glyph_cache.h promises of the glyph cache: a map of at     *)
(* most Capacity hashes that remembers, for each, the two values the user  *)
(* stored, and makes room by forgetting the hash unused for longest.       *)
(***************************************************************************)
EXTENDS Integers, SequencesExt

CONSTANTS Hashes,     \* hashes of glyphs
          Capacity,   \* how many of them are remembered
          Fills       \* <<FilledState, TileCount>> pairs the user may store

VARIABLES recent,   \* the hashes remembered, most recently used first
          info,     \* what is stored for each of them
          answer,   \* what the last lookup reported
          stats     \* lookups since the statistics were last taken

vars == <<recent, info, answer, stats>>

Empty == <<0, 0>>
NoStats == [HitCount |-> 0, MissCount |-> 0, RecycleCount |-> 0]
Remembered == ToSet(recent)

Init ==
    /\ recent = <<>>
    /\ info = [h \in {} |-> Empty]
    /\ answer = Empty
    /\ stats = NoStats

Hit(h) ==
    /\ \E k \in 1 .. Len(recent) :
         /\ recent[k] = h
         /\ recent' = <<h>> \o RemoveAt(recent, k)
    /\ answer' = info[h]
    /\ stats' = [stats EXCEPT !.HitCount = @ + 1]
    /\ UNCHANGED info

\* A hash that is not remembered comes in empty, in the place of the least
\* recently used one when there is no other.
Miss(h) ==
    /\ h \notin Remembered
    /\ LET full == Len(recent) = Capacity
       IN  /\ recent' = <<h>> \o (IF full THEN Front(recent) ELSE recent)
           /\ stats' = [stats EXCEPT !.MissCount = @ + 1,
                                     !.RecycleCount = IF full THEN @ + 1 ELSE @]
    /\ info' = [g \in Remembered' |-> IF g = h THEN Empty ELSE info[g]]
    /\ answer' = Empty

\* The user stores values for the glyph it looked up last.
Store(fill) ==
    /\ recent # <<>>
    /\ info' = [info EXCEPT ![Head(recent)] = fill]
    /\ UNCHANGED <<recent, answer, stats>>

TakeStats ==
    /\ stats' = NoStats
    /\ UNCHANGED <<recent, info, answer>>

Next ==
    \/ \E h \in Hashes : Hit(h) \/ Miss(h)
    \/ \E fill \in Fills : Store(fill)
    \/ TakeStats

Spec == Init /\ [][Next]_vars
=============================================================================
