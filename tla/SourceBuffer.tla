---------------------------- MODULE SourceBuffer ----------------------------
(***************************************************************************)
(* The circular byte buffer between the pty and the terminal               *)
(* (refterm_example_source_buffer.c) and the only code that fills it, the  *)
(* reading loop of main.c.                                                 *)
(*                                                                         *)
(* DataSize bytes of memory are mapped twice, back to back, so a range of  *)
(* up to DataSize bytes that starts anywhere in the first mapping is       *)
(* contiguous.  Pointers are offsets from Buffer->Data, in 0 .. 2*DataSize.*)
(* A byte is identified by its position in the stream read from the pty,   *)
(* which tells a byte from the ones that later replace it.                 *)
(***************************************************************************)
EXTENDS Integers

CONSTANTS DataSize,   \* bytes in one mapping; getps() * 256 * 2 in main
          MaxFilled   \* bound of the model: the bytes a behaviour may read

ASSUME SizeAssumption == DataSize \in Nat \ {0}
ASSUME BoundAssumption == MaxFilled \in Nat

VARIABLES
    RelativePoint,       \* write head, an offset into the first mapping
    AbsoluteFilledSize,  \* bytes committed since the start
    Data,                \* contents of the memory, one entry per physical byte
    x,                   \* the writable range handed to the reading loop
    rd,                  \* bytes read into x so far, not yet committed
    writing              \* the reading loop is between its first and last line

vars == <<RelativePoint, AbsoluteFilledSize, Data, x, rd, writing>>

Cells == 0 .. DataSize - 1
Unwritten == -1   \* memfd pages start zeroed; no stream position

\* A source_buffer_range; Data is an offset into the double mapping.
Range == [Count : Nat, Data : Nat, AbsoluteP : Nat]
NoRange == [Count |-> 0, Data |-> 0, AbsoluteP |-> 0]

(***************************************************************************)
(* Pure operations                                                         *)
(***************************************************************************)

\* The physical byte behind an address of the double mapping.
Mirror(a) == IF a < DataSize THEN a ELSE a - DataSize

\* The same, for an address counted back from the write head.
Wrapped(a) == IF a < 0 THEN a + DataSize ELSE Mirror(a)

\* How far after address a the physical byte c is first met.
Ahead(a, c) == LET d == c - Mirror(a) IN IF d < 0 THEN d + DataSize ELSE d

IsInBuffer(P) ==
    /\ P < AbsoluteFilledSize
    /\ AbsoluteFilledSize - P < DataSize

\* Mutant: the pointer is taken after the count has been clipped.
ReadSourceAtClipped(P, Count) ==
    LET behind == AbsoluteFilledSize - P
        c      == IF behind > Count THEN Count ELSE behind
    IN  IF IsInBuffer(P)
        THEN [AbsoluteP |-> P, Data |-> DataSize + RelativePoint - c, Count |-> c]
        ELSE NoRange

\* The range of at most Count bytes from stream position P, none if that is not
\* in the buffer.
ReadSourceAt(P, Count) ==
    LET behind == AbsoluteFilledSize - P
    IN  IF IsInBuffer(P)
        THEN [AbsoluteP |-> P,
              Data      |-> DataSize + RelativePoint - behind,
              Count     |-> IF behind > Count THEN Count ELSE behind]
        ELSE NoRange

\* Called with LARGEST_AVAILABLE, so the whole mapping is offered.
GetNextWritableRange ==
    [AbsoluteP |-> AbsoluteFilledSize, Data |-> RelativePoint, Count |-> DataSize]

\* Mutant: the bytes are counted off but the pointer stays.
ConsumeCountStill(r, n) ==
    LET c == IF n > r.Count THEN r.Count ELSE n
    IN  [Count |-> r.Count - c, Data |-> r.Data, AbsoluteP |-> r.AbsoluteP + c]

ConsumeCount(r, n) ==
    LET c == IF n > r.Count THEN r.Count ELSE n
    IN  [Count |-> r.Count - c, Data |-> r.Data + c, AbsoluteP |-> r.AbsoluteP + c]

(***************************************************************************)
(* Actions                                                                 *)
(***************************************************************************)

Init ==
    /\ RelativePoint = 0
    /\ AbsoluteFilledSize = 0
    /\ Data = [c \in Cells |-> Unwritten]
    /\ x = NoRange
    /\ rd = 0
    /\ writing = FALSE

BeginRead ==
    /\ ~writing
    /\ writing' = TRUE
    /\ x' = GetNextWritableRange
    /\ rd' = 0
    /\ UNCHANGED <<RelativePoint, AbsoluteFilledSize, Data>>

\* Mutant: every read() of one visit to the loop goes to the start of x.
ReadTtyAtStart(n) ==
    /\ writing
    /\ x.Count - rd > 0
    /\ n <= x.Count - rd
    /\ AbsoluteFilledSize + rd + n <= MaxFilled
    /\ Data' = [c \in Cells |->
                  LET k == Ahead(x.Data, c)
                  IN  IF k < n THEN AbsoluteFilledSize + rd + k ELSE Data[c]]
    /\ rd' = rd + n
    /\ UNCHANGED <<RelativePoint, AbsoluteFilledSize, x, writing>>

\* One read() of n bytes at x.Data + rd.
ReadTty(n) ==
    /\ writing
    /\ x.Count - rd > 0
    /\ n <= x.Count - rd
    /\ AbsoluteFilledSize + rd + n <= MaxFilled
    /\ Data' = [c \in Cells |->
                  LET k == Ahead(x.Data + rd, c)
                  IN  IF k < n THEN AbsoluteFilledSize + rd + k ELSE Data[c]]
    /\ rd' = rd + n
    /\ UNCHANGED <<RelativePoint, AbsoluteFilledSize, x, writing>>

\* Mutants: the write head is never wrapped; it wraps one byte late.
CommitWriteUnwrapped(Size) ==
    /\ AbsoluteFilledSize' = AbsoluteFilledSize + Size
    /\ RelativePoint' = RelativePoint + Size
CommitWriteLate(Size) ==
    /\ AbsoluteFilledSize' = AbsoluteFilledSize + Size
    /\ RelativePoint' = IF RelativePoint + Size > DataSize
                        THEN RelativePoint + Size - DataSize
                        ELSE RelativePoint + Size

CommitWrite(Size) ==
    /\ AbsoluteFilledSize' = AbsoluteFilledSize + Size
    /\ RelativePoint' = IF RelativePoint + Size >= DataSize
                        THEN RelativePoint + Size - DataSize
                        ELSE RelativePoint + Size

\* The loop may stop after any read: no more data, an X event, or 36 ms.
EndRead ==
    /\ writing
    /\ writing' = FALSE
    /\ IF rd # 0
       THEN x' = [x EXCEPT !.Count = rd] /\ CommitWrite(rd)
       ELSE UNCHANGED <<x, RelativePoint, AbsoluteFilledSize>>
    /\ rd' = 0
    /\ UNCHANGED Data

Next ==
    \/ BeginRead
    \/ \E n \in 1 .. DataSize : ReadTty(n)
    \/ EndRead

Spec == Init /\ [][Next]_vars

(***************************************************************************)
(* Properties                                                              *)
(***************************************************************************)

TypeOK ==
    /\ RelativePoint \in Cells
    /\ AbsoluteFilledSize \in Nat
    /\ Data \in [Cells -> Nat \cup {Unwritten}]
    /\ x \in Range
    /\ rd \in Nat
    /\ writing \in BOOLEAN

\* While the reading loop runs, its range is the one GetNextWritableRange
\* gives for the current head, and rd stays within it.
RangeCurrent ==
    IF writing THEN x = GetNextWritableRange /\ rd <= DataSize ELSE rd = 0

\* The last DataSize bytes read, committed or not, are in memory: the byte k
\* places before the next one to be read lies k places behind its address.
WindowIntact ==
    \A k \in 1 .. DataSize :
        k <= AbsoluteFilledSize + rd =>
            Data[Wrapped(RelativePoint + rd - k)] = AbsoluteFilledSize + rd - k

\* What readers of the buffer rely on: outside the reading loop every position
\* that IsInBuffer accepts reads back, through the pointer ReadSourceAt
\* returns, as the bytes from that position on, as many as were asked for and
\* have been read.
ReadBack ==
    ~writing => \A P \in 0 .. AbsoluteFilledSize, n \in 1 .. DataSize :
        IsInBuffer(P) =>
            LET r == ReadSourceAt(P, n)
            IN  /\ r.Count = n \/ (r.Count < n /\ P + r.Count = AbsoluteFilledSize)
                /\ \A k \in 0 .. r.Count - 1 : Data[Mirror(r.Data + k)] = P + k

\* Every address the code dereferences lies inside the double mapping: the
\* free part of the range given to read(), and the ranges ReadSourceAt gives.
PointersMapped ==
    /\ writing => x.Data >= 0 /\ x.Data + x.Count <= 2 * DataSize
    /\ \A P \in 0 .. AbsoluteFilledSize, n \in 1 .. DataSize :
         IsInBuffer(P) => LET r == ReadSourceAt(P, n)
                          IN  r.Data >= 0 /\ r.Data + r.Count <= 2 * DataSize
=============================================================================
