----------------------------- MODULE GlyphTable -----------------------------
(***************************************************************************)
(* The glyph cache (refterm_glyph_cache.c).  One array of entries carries  *)
(* three kinds of list, all linked by index, with 0 (the sentinel) as end: *)
(*   - a chain per slot of the hash table, through NextWithSameHash;       *)
(*   - the free chain, which starts at the sentinel's NextWithSameHash;    *)
(*   - the doubly linked LRU list, which starts and ends at the sentinel.  *)
(* The cache is not concurrent: one call is one action, and the functions  *)
(* a call is made of are operators from table to table.                    *)
(***************************************************************************)
EXTENDS Integers, Sequences

CONSTANTS Hashes,      \* glyph_hash values, as numbers: the low bits pick a slot
          HashCount, EntryCount,
          Layouts,     \* the other two glyph_table_params
          Fills,       \* <<NewState, NewIndexCount>> the user may store
          Memory,      \* what a word of the memory handed in may hold
          MaxCalls     \* bound of the model: lookups between two GetAndClearStats

ASSUME ParamsAssumption ==
    /\ HashCount \in Nat \ {0}
    /\ EntryCount \in Nat /\ EntryCount >= 2
    /\ \A p \in Layouts : p.ReservedTileCount \in Nat /\ p.CacheTileCountInX \in Nat \ {0}
\* The header's 16.16 value has room for 65536 columns.
ASSUME PackingAssumption == \A p \in Layouts : p.CacheTileCountInX <= 65536
ASSUME InputsAssumption ==
    Hashes \subseteq Nat /\ Fills \subseteq Nat \X Nat /\ MaxCalls \in Nat
ASSUME MemoryAssumption == Memory \subseteq Nat /\ Memory # {}

VARIABLES Params,   \* the layout the table was placed with
          Table,    \* glyph_table and its entries
          State     \* the glyph_state the last lookup returned

vars == <<Params, Table, State>>

Indices == 0 .. EntryCount - 1
Slots == 0 .. HashCount - 1
Sentinel == 0
NoStats == [HitCount |-> 0, MissCount |-> 0, RecycleCount |-> 0]
NoState == [ID |-> 0, GPUIndex |-> 0, FilledState |-> 0, TileCount |-> 0]

(***************************************************************************)
(* Lists                                                                   *)
(***************************************************************************)

\* EntryCount links from start on; after the end of the list, 0.
Links(next, start) ==
    LET at[k \in 1 .. EntryCount] ==
            IF k = 1 THEN start ELSE IF at[k - 1] = 0 THEN 0 ELSE next[at[k - 1]]
    IN  at

\* The indices met until 0, cut off after EntryCount of them.
Walk(next, start) ==
    LET at  == Links(next, start)
        end == CHOOSE n \in 0 .. EntryCount : \A k \in 1 .. EntryCount : at[k] # 0 <=> k <= n
    IN  [k \in 1 .. end |-> at[k]]

Elements(s) == {s[k] : k \in 1 .. Len(s)}

SameHashLinks(T) == [e \in Indices |-> T.Entries[e].NextWithSameHash]
NextLinks(T) == [e \in Indices |-> T.Entries[e].NextLRU]
PrevLinks(T) == [e \in Indices |-> T.Entries[e].PrevLRU]
SlotOf(h) == h % HashCount
HashChain(T, s) == Walk(SameHashLinks(T), T.HashTable[s])
FreeChain(T) == Walk(SameHashLinks(T), T.Entries[Sentinel].NextWithSameHash)
FromNewest(T) == Walk(NextLinks(T), T.Entries[Sentinel].NextLRU)
FromOldest(T) == Walk(PrevLinks(T), T.Entries[Sentinel].PrevLRU)

(***************************************************************************)
(* Tiles of the cache texture                                              *)
(***************************************************************************)

\* (Y << 16) | X in 32 bits, X being a column: of the row 16 bits are left.
PackGlyphCachePoint(X, Y) == (Y % 65536) * 65536 + X

\* The columns and rows of n tiles in a texture w tiles wide, from <<X, Y>> on.
TilePoints(X, Y, w, n) ==
    LET wrapped(p) == IF p[1] >= w THEN <<0, p[2] + 1>> ELSE p
        at[k \in 1 .. n] == IF k = 1 THEN wrapped(<<X, Y>>)
                            ELSE wrapped(<<at[k - 1][1] + 1, at[k - 1][2]>>)
    IN  at

TileRun(X, Y, w, n) ==
    LET at == TilePoints(X, Y, w, n)
    IN  [k \in 1 .. n |-> PackGlyphCachePoint(at[k][1], at[k][2])]

InitializeDirectGlyphTable(p) ==
    TileRun(1, 0, p.CacheTileCountInX, p.ReservedTileCount)

\* Mutant: the reserved tiles are not counted.
StartingTileReserved(p) == 1

StartingTile(p) == 1 + p.ReservedTileCount

(***************************************************************************)
(* The functions                                                           *)
(***************************************************************************)

\* Mutant: the loop runs over every entry.
PlaceToTheLast(p, word) ==
    LET w     == p.CacheTileCountInX
        tiles == TileRun(StartingTile(p) % w, StartingTile(p) \div w, w, EntryCount)
    IN  [Entries |-> [e \in Indices |->
            [HashValue |-> word, NextLRU |-> word, PrevLRU |-> word,
             NextWithSameHash |-> e + 1, GPUIndex |-> tiles[e + 1],
             FilledState |-> 0, IndexCount |-> 0]],
         HashTable |-> [s \in Slots |-> 0],
         Stats |-> NoStats]

\* The table in memory whose words all hold `word'.  The loop stops one short
\* of the last entry, and nothing sets the LRU links.
PlaceGlyphTableInMemory(p, word) ==
    LET w     == p.CacheTileCountInX
        tiles == TileRun(StartingTile(p) % w, StartingTile(p) \div w, w, EntryCount - 1)
        set(e, v) == IF e < EntryCount - 1 THEN v ELSE word
    IN  [Entries |-> [e \in Indices |->
            [HashValue |-> word, NextLRU |-> word, PrevLRU |-> word,
             NextWithSameHash |-> set(e, e + 1),
             GPUIndex |-> IF e < EntryCount - 1 THEN tiles[e + 1] ELSE word,
             FilledState |-> set(e, 0), IndexCount |-> set(e, 0)]],
         HashTable |-> [s \in Slots |-> 0],
         Stats |-> NoStats]

UpdateGlyphCacheEntry(T, ID, NewState, NewIndexCount) ==
    [T EXCEPT !.Entries[ID].FilledState = NewState,
              !.Entries[ID].IndexCount = NewIndexCount]

\* Mutant: the entry is searched for behind the head of its chain only.
LeaveHashChainPastHead(T, e) ==
    LET s    == SlotOf(T.Entries[e].HashValue)
        prev == {p \in Elements(HashChain(T, s)) : T.Entries[p].NextWithSameHash = e}
        rest == T.Entries[e].NextWithSameHash
    IN  IF prev = {} THEN T
        ELSE [T EXCEPT !.Entries[CHOOSE p \in prev : TRUE].NextWithSameHash = rest]

\* Entry e is taken out of its hash chain.
LeaveHashChain(T, e) ==
    LET s    == SlotOf(T.Entries[e].HashValue)
        rest == T.Entries[e].NextWithSameHash
        prev == {p \in Elements(HashChain(T, s)) : T.Entries[p].NextWithSameHash = e}
    IN  IF T.HashTable[s] = e
        THEN [T EXCEPT !.HashTable[s] = rest]
        ELSE [T EXCEPT !.Entries[CHOOSE p \in prev : TRUE].NextWithSameHash = rest]

\* Mutant: the entry keeps what the user stored in it.
JoinFreeChainFilled(T, e) ==
    [T EXCEPT !.Entries[e].NextWithSameHash = T.Entries[Sentinel].NextWithSameHash,
              !.Entries[Sentinel].NextWithSameHash = e]

JoinFreeChain(T, e) ==
    LET freed == [T EXCEPT
                    !.Entries[e].NextWithSameHash = T.Entries[Sentinel].NextWithSameHash,
                    !.Entries[Sentinel].NextWithSameHash = e]
    IN  UpdateGlyphCacheEntry(freed, e, 0, 0)

\* Mutant: the newest entry is evicted.
LeastRecentlyUsedNewest(T) == T.Entries[Sentinel].NextLRU

LeastRecentlyUsed(T) == T.Entries[Sentinel].PrevLRU

\* The LRU list without its last entry.
DropOldest(T) ==
    LET prev == T.Entries[LeastRecentlyUsed(T)].PrevLRU
    IN  [T EXCEPT !.Entries[prev].NextLRU = 0, !.Entries[Sentinel].PrevLRU = prev]

\* The least recently used entry moves from the LRU list and its hash chain to
\* the free chain.
RecycleLRU(T) ==
    LET e == LeastRecentlyUsed(T)
    IN  [JoinFreeChain(LeaveHashChain(DropOldest(T), e), e) EXCEPT !.Stats.RecycleCount = @ + 1]

\* The table PopFreeEntry pops from: one with a free entry.
WithFreeEntry(T) ==
    IF T.Entries[Sentinel].NextWithSameHash = 0 THEN RecycleLRU(T) ELSE T

\* The entry it pops.
FreeEntry(T) == WithFreeEntry(T).Entries[Sentinel].NextWithSameHash

PopFreeEntry(T) ==
    LET free == WithFreeEntry(T)
        e    == FreeEntry(T)
    IN  [free EXCEPT !.Entries[Sentinel].NextWithSameHash = free.Entries[e].NextWithSameHash,
                     !.Entries[e].NextWithSameHash = 0]

\* Mutant: the entries already in the slot are lost.
InsertHashAlone(T, h) ==
    LET e == FreeEntry(T)
    IN  [PopFreeEntry(T) EXCEPT !.Entries[e].HashValue = h,
                                !.HashTable[SlotOf(h)] = e,
                                !.Stats.MissCount = @ + 1]

\* A miss: the popped entry becomes the head of the chain of its slot.
InsertHash(T, h) ==
    LET e == FreeEntry(T)
        popped == PopFreeEntry(T)
    IN  [popped EXCEPT !.Entries[e].NextWithSameHash = popped.HashTable[SlotOf(h)],
                       !.Entries[e].HashValue = h,
                       !.HashTable[SlotOf(h)] = e,
                       !.Stats.MissCount = @ + 1]

\* Mutant: the next entry keeps pointing back at the entry.
LeaveLRUForward(T, e) ==
    [T EXCEPT !.Entries[T.Entries[e].PrevLRU].NextLRU = T.Entries[e].NextLRU,
              !.Stats.HitCount = @ + 1]

\* A hit: entry e is taken out of the LRU list.
LeaveLRU(T, e) ==
    [T EXCEPT !.Entries[T.Entries[e].PrevLRU].NextLRU = T.Entries[e].NextLRU,
              !.Entries[T.Entries[e].NextLRU].PrevLRU = T.Entries[e].PrevLRU,
              !.Stats.HitCount = @ + 1]

BecomeNewest(T, e) ==
    LET newest == T.Entries[Sentinel].NextLRU
    IN  [T EXCEPT !.Entries[e].NextLRU = newest,
                  !.Entries[e].PrevLRU = 0,
                  !.Entries[newest].PrevLRU = e,
                  !.Entries[Sentinel].NextLRU = e]

\* Where in its slot's chain the hash h is stored, and the entry at the first of
\* these places.
Matches(T, h) ==
    LET chain == HashChain(T, SlotOf(h))
    IN  {k \in 1 .. Len(chain) : T.Entries[chain[k]].HashValue = h}
FirstMatch(T, h) ==
    HashChain(T, SlotOf(h))[CHOOSE k \in Matches(T, h) : \A j \in Matches(T, h) : k <= j]

(***************************************************************************)
(* Actions                                                                 *)
(***************************************************************************)

Init ==
    /\ Params \in Layouts
    /\ \E word \in Memory : Table = PlaceGlyphTableInMemory(Params, word)
    /\ State = NoState

FindGlyphEntryByHash(RunHash) ==
    /\ Table.Stats.HitCount + Table.Stats.MissCount < MaxCalls
    /\ LET found == Matches(Table, RunHash)
           e     == IF found = {} THEN FreeEntry(Table) ELSE FirstMatch(Table, RunHash)
       IN  /\ Table' = BecomeNewest(IF found = {} THEN InsertHash(Table, RunHash)
                                    ELSE LeaveLRU(Table, e), e)
           /\ State' = [ID |-> e,
                        TileCount |-> Table'.Entries[e].IndexCount,
                        GPUIndex |-> Table'.Entries[e].GPUIndex,
                        FilledState |-> Table'.Entries[e].FilledState]
    /\ UNCHANGED Params

\* The user rasterised the glyph it looked up last, or resized it.
UpdateEntry(fill) ==
    /\ State.ID # 0
    /\ Table' = UpdateGlyphCacheEntry(Table, State.ID, fill[1], fill[2])
    /\ UNCHANGED <<Params, State>>

GetAndClearStats ==
    /\ Table' = [Table EXCEPT !.Stats = NoStats]
    /\ UNCHANGED <<Params, State>>

Next ==
    \/ \E h \in Hashes : FindGlyphEntryByHash(h)
    \/ \E fill \in Fills : UpdateEntry(fill)
    \/ GetAndClearStats

Spec == Init /\ [][Next]_vars

(***************************************************************************)
(* Properties                                                              *)
(***************************************************************************)

Entry == [HashValue : Nat, NextWithSameHash : Indices, NextLRU : Indices,
          PrevLRU : Indices, GPUIndex : Nat, FilledState : Nat, IndexCount : Nat]

\* Every link is an index GetEntry accepts.
TypeOK ==
    /\ Params \in Layouts
    /\ Table.Entries \in [Indices -> Entry]
    /\ Table.HashTable \in [Slots -> Indices]
    /\ Table.Stats \in [HitCount : Nat, MissCount : Nat, RecycleCount : Nat]
    /\ State \in [ID : Indices, GPUIndex : Nat, FilledState : Nat, TileCount : Nat]

NoDuplicates(s) == \A j, k \in 1 .. Len(s) : s[j] = s[k] => j = k

\* The LRU list read backwards (PrevLRU, the end RecycleLRU takes from) is the
\* list read forwards (NextLRU), and it ends.
LRUListSound ==
    LET newest == FromNewest(Table)
        oldest == FromOldest(Table)
    IN  /\ NoDuplicates(newest)
        /\ Len(oldest) = Len(newest)
        /\ \A k \in 1 .. Len(newest) : oldest[k] = newest[Len(newest) + 1 - k]

\* The three kinds of list divide the entries: every entry but the sentinel is
\* either free, or used: then it is in the LRU list and in the chain of the
\* slot of its hash.  So the search loops end, and RecycleLRU finds the entry
\* it looks for.
ListsPartitionEntries ==
    LET free == FreeChain(Table)
        used == Elements(FromNewest(Table))
    IN  /\ NoDuplicates(free)
        /\ Elements(free) \cup used = Indices \ {Sentinel}
        /\ Elements(free) \cap used = {}
        /\ \A s \in Slots :
             /\ NoDuplicates(HashChain(Table, s))
             /\ Elements(HashChain(Table, s)) =
                    {e \in used : SlotOf(Table.Entries[e].HashValue) = s}

\* The entry a miss is about to pop is a real one with nothing stored: what
\* PopFreeEntry asserts, and why a new glyph is never taken for a filled one.
FreeEntryClean ==
    LET e == FreeEntry(Table)
        popped == PopFreeEntry(Table).Entries[e]
    IN  /\ e # Sentinel
        /\ popped.FilledState = 0
        /\ popped.IndexCount = 0

\* No two entries share a tile, and none has a tile of the direct table.  (The
\* null tile is the subject of NullTileUnused.)
TilesApart ==
    \A e, f \in Indices \ {Sentinel} :
        LET tile == Table.Entries[e].GPUIndex
        IN  /\ e # f => tile # Table.Entries[f].GPUIndex
            /\ tile \notin Elements(InitializeDirectGlyphTable(Params))

\* "0,0 is never used, because it is the null tile".
NullTileUnused == State.ID # 0 => State.GPUIndex # PackGlyphCachePoint(0, 0)

\* Which entry holds which hash.
Holdings == {<<Table.Entries[e].HashValue, e>> : e \in Elements(FromNewest(Table))}

\* As long as a glyph stays in the cache it stays in one entry, hence in one
\* tile of the texture, whatever is looked up or evicted in between.
GlyphKeepsEntry ==
    [][\A p \in Holdings, q \in Holdings' : p[1] = q[1] => p[2] = q[2]]_vars

RecentHashes ==
    LET newest == FromNewest(Table)
    IN  [k \in 1 .. Len(newest) |-> Table.Entries[newest[k]].HashValue]

StoredInfo ==
    LET used == Elements(FromNewest(Table))
    IN  [h \in {Table.Entries[e].HashValue : e \in used} |->
           LET e == CHOOSE e \in used : Table.Entries[e].HashValue = h
           IN  <<Table.Entries[e].FilledState, Table.Entries[e].IndexCount>>]

\* The table is an LRU cache of EntryCount - 1 hashes.
Abstract == INSTANCE LRUCache WITH
    Capacity <- EntryCount - 1,
    recent   <- RecentHashes,
    info     <- StoredInfo,
    answer   <- <<State.FilledState, State.TileCount>>,
    stats    <- Table.Stats

CacheSpec == Abstract!Spec
=============================================================================
