------------------------- MODULE SourceBufferProofs -------------------------
(***************************************************************************)
(* The circular buffer keeps the last DataSize bytes, for every size of    *)
(* the mapping and every split of the stream into reads.                   *)
(*                                                                         *)
(* The inductive invariant is IInv.  ReadBack alone is not inductive: it   *)
(* says nothing while a read is under way, when part of the window belongs *)
(* to bytes that are in memory but not committed yet.  WindowIntact counts *)
(* them; RangeCurrent ties the range and rd of the reading loop to the     *)
(* head it will move.                                                      *)
(***************************************************************************)
EXTENDS SourceBuffer, TLAPS

IInv == TypeOK /\ RangeCurrent /\ WindowIntact

\* The reading loop starts empty, with nothing in the window.
LEMMA InitIInv == Init => IInv
<1> SUFFICES ASSUME Init PROVE IInv
  OBVIOUS
<1> USE SizeAssumption
<1>1. TypeOK
  <2>1. Data \in [Cells -> Nat \cup {Unwritten}]
    BY DEF Init
  <2>2. x \in Range
    BY DEF Init, Range, NoRange
  <2>3. /\ RelativePoint \in Cells /\ AbsoluteFilledSize \in Nat /\ rd \in Nat
    BY DEF Init, Cells
  <2>4. writing \in BOOLEAN
    BY DEF Init
  <2> QED BY <2>1, <2>2, <2>3, <2>4 DEF TypeOK
<1>2. RangeCurrent
  BY DEF Init, RangeCurrent
<1>3. WindowIntact
  BY DEF Init, WindowIntact
<1> QED BY <1>1, <1>2, <1>3 DEF IInv

\* GetNextWritableRange hands out a range of the declared type.
LEMMA BeginReadIInv == IInv /\ BeginRead => IInv'
<1> SUFFICES ASSUME IInv, BeginRead PROVE IInv'
  OBVIOUS
<1> USE SizeAssumption
<1>1. TypeOK'
  BY DEF IInv, TypeOK, BeginRead, GetNextWritableRange, Cells, Range
<1>2. RangeCurrent'
  BY DEF IInv, TypeOK, BeginRead, RangeCurrent, GetNextWritableRange
<1>3. WindowIntact'
  BY DEF IInv, BeginRead, WindowIntact, RangeCurrent, Wrapped, Mirror
<1> QED BY <1>1, <1>2, <1>3 DEF IInv

\* A read of n bytes puts them, and only them, in the n cells after the bytes
\* already read; the cells it replaces hold the bytes that leave the window.
LEMMA ReadTtyIInv ==
    ASSUME IInv, NEW n \in 1 .. DataSize, ReadTty(n)
    PROVE  IInv'
<1> USE SizeAssumption
<1>0. /\ RelativePoint \in Cells /\ AbsoluteFilledSize \in Nat /\ rd \in Nat
      /\ Data \in [Cells -> Nat \cup {Unwritten}] /\ n \in Nat
      /\ x = GetNextWritableRange /\ x.Data = RelativePoint /\ rd + n <= DataSize
  BY DEF IInv, TypeOK, RangeCurrent, ReadTty, GetNextWritableRange
<1>1. TypeOK'
  <2>1. ASSUME NEW c \in Cells
        PROVE  Ahead(x.Data + rd, c) \in Nat
    BY <1>0 DEF Ahead, Mirror, Cells
  <2>2. Data' \in [Cells -> Nat \cup {Unwritten}]
    BY <1>0, <2>1 DEF ReadTty
  <2> QED BY <1>0, <2>2 DEF IInv, TypeOK, ReadTty
<1>2. RangeCurrent'
  BY <1>0 DEF ReadTty, RangeCurrent, GetNextWritableRange
<1>3. WindowIntact'
  <2> SUFFICES ASSUME NEW k \in 1 .. DataSize, k <= AbsoluteFilledSize + rd + n
               PROVE  Data'[Wrapped(RelativePoint + rd + n - k)]
                        = AbsoluteFilledSize + rd + n - k
    <3>1. /\ RelativePoint' = RelativePoint /\ AbsoluteFilledSize' = AbsoluteFilledSize
          /\ rd' = rd + n
      BY DEF ReadTty
    <3>2. RelativePoint \in Int
      BY <1>0 DEF Cells
    <3> QED BY <1>0, <3>1, <3>2 DEF WindowIntact
  <2> DEFINE c == Wrapped(RelativePoint + rd + n - k)
             w == Ahead(x.Data + rd, c)
  <2>1. c \in Cells
    BY <1>0 DEF Wrapped, Mirror, Cells
  <2>2. Data'[c] = IF w < n THEN AbsoluteFilledSize + rd + w ELSE Data[c]
    BY <2>1 DEF ReadTty
  <2>3. CASE k <= n
    <3>1. w = n - k
      BY <1>0, <2>3 DEF Ahead, Wrapped, Mirror, Cells
    <3> QED BY <1>0, <2>2, <2>3, <3>1
  <2>4. CASE k > n
    <3>1. w = DataSize + n - k
      BY <1>0, <2>4 DEF Ahead, Wrapped, Mirror, Cells
    <3>2. Data'[c] = Data[c]
      BY <1>0, <2>2, <3>1
    <3>3. k - n \in 1 .. DataSize /\ k - n <= AbsoluteFilledSize + rd
      BY <1>0, <2>4
    <3>4. Data[Wrapped(RelativePoint + rd - (k - n))] = AbsoluteFilledSize + rd - (k - n)
      BY <3>3 DEF IInv, WindowIntact
    <3>5. RelativePoint + rd - (k - n) = RelativePoint + rd + n - k
      BY <1>0 DEF Cells
    <3>6. AbsoluteFilledSize + rd - (k - n) = AbsoluteFilledSize + rd + n - k
      BY <1>0
    <3> QED BY <3>2, <3>4, <3>5, <3>6
  <2> QED BY <1>0, <2>3, <2>4
<1> QED BY <1>1, <1>2, <1>3 DEF IInv

\* A commit moves the head over the bytes just read, through the wrap: every
\* byte of the window keeps its cell.
LEMMA EndReadIInv == IInv /\ EndRead => IInv'
<1> SUFFICES ASSUME IInv, EndRead PROVE IInv'
  OBVIOUS
<1> USE SizeAssumption
<1>0. /\ RelativePoint \in Cells /\ AbsoluteFilledSize \in Nat /\ rd \in Nat
      /\ rd <= DataSize /\ x \in Range /\ Data' = Data /\ rd' = 0 /\ writing' = FALSE
  BY DEF IInv, TypeOK, RangeCurrent, EndRead
<1>1. CASE rd = 0
  <2>1. UNCHANGED <<x, RelativePoint, AbsoluteFilledSize>>
    BY <1>1 DEF EndRead
  <2> QED BY <1>0, <1>1, <2>1 DEF IInv, TypeOK, RangeCurrent, WindowIntact, Wrapped, Mirror
<1>2. CASE rd # 0
  <2>1. x' = [x EXCEPT !.Count = rd] /\ CommitWrite(rd)
    BY <1>2 DEF EndRead
  <2>2. TypeOK'
    <3>1. x' \in Range
      BY <1>0, <2>1 DEF Range
    <3>2. RelativePoint' \in Cells /\ AbsoluteFilledSize' \in Nat
      BY <1>0, <2>1 DEF CommitWrite, Cells
    <3> QED BY <1>0, <3>1, <3>2 DEF IInv, TypeOK
  <2>3. RangeCurrent'
    BY <1>0 DEF RangeCurrent
  <2>4. WindowIntact'
    <3> DEFINE head == IF RelativePoint + rd >= DataSize THEN RelativePoint + rd - DataSize
                       ELSE RelativePoint + rd
    <3>1. /\ RelativePoint' = head /\ AbsoluteFilledSize' = AbsoluteFilledSize + rd
          /\ rd' = 0
      BY <1>0, <2>1 DEF CommitWrite
    <3>2. head \in Int
      BY <1>0 DEF Cells
    <3> SUFFICES ASSUME NEW k \in 1 .. DataSize, k <= AbsoluteFilledSize + rd
                 PROVE  Data[Wrapped(head - k)] = AbsoluteFilledSize + rd - k
      <4> HIDE DEF head
      <4> QED BY <1>0, <3>1, <3>2 DEF WindowIntact
    <3>3. Data[Wrapped(RelativePoint + rd - k)] = AbsoluteFilledSize + rd - k
      BY DEF IInv, WindowIntact
    <3>4. Wrapped(head - k) = Wrapped(RelativePoint + rd - k)
      BY <1>0 DEF Wrapped, Mirror, Cells
    <3> HIDE DEF head
    <3> QED BY <3>3, <3>4
  <2> QED BY <2>2, <2>3, <2>4 DEF IInv
<1> QED BY <1>1, <1>2

\* IInv holds in every reachable state.
THEOREM WindowKept == Spec => []IInv
<1>1. Init => IInv
  BY InitIInv
<1>2. IInv /\ [Next]_vars => IInv'
  <2> SUFFICES ASSUME IInv, [Next]_vars PROVE IInv'
    OBVIOUS
  <2>1. CASE BeginRead
    BY <2>1, BeginReadIInv
  <2>2. ASSUME NEW n \in 1 .. DataSize, ReadTty(n) PROVE IInv'
    BY <2>2, ReadTtyIInv
  <2>3. CASE EndRead
    BY <2>3, EndReadIInv
  <2>4. CASE UNCHANGED vars
    BY <2>4 DEF vars, IInv, TypeOK, RangeCurrent, WindowIntact, Wrapped, Mirror, Cells,
                GetNextWritableRange
  <2> QED BY <2>1, <2>2, <2>3, <2>4 DEF Next
<1> QED BY <1>1, <1>2, PTL DEF Spec

\* Type correctness of the buffer and of the reading loop.
THEOREM TypeCorrect == Spec => []TypeOK
<1>1. IInv => TypeOK
  BY DEF IInv
<1> QED BY <1>1, WindowKept, PTL

\* The last DataSize bytes read are in the buffer, each at the distance behind
\* the write head that its stream position has behind the bytes read.
THEOREM WindowStaysIntact == Spec => []WindowIntact
<1>1. IInv => WindowIntact
  BY DEF IInv
<1> QED BY <1>1, WindowKept, PTL

\* Outside the reading loop every position IsInBuffer accepts reads back as its
\* own byte through ReadSourceAt, whatever the sizes and the splits.
THEOREM ReadBackCorrect == Spec => []ReadBack
<1>1. IInv => ReadBack
  <2> SUFFICES ASSUME IInv, ~writing,
                      NEW P \in 0 .. AbsoluteFilledSize, NEW n \in 1 .. DataSize,
                      IsInBuffer(P)
               PROVE  LET r == ReadSourceAt(P, n)
                      IN  /\ r.Count = n \/ (r.Count < n /\ P + r.Count = AbsoluteFilledSize)
                          /\ \A k \in 0 .. r.Count - 1 : Data[Mirror(r.Data + k)] = P + k
    BY DEF ReadBack
  <2> USE SizeAssumption
  <2> DEFINE behind == AbsoluteFilledSize - P
             r == ReadSourceAt(P, n)
  <2>0. /\ RelativePoint \in Cells /\ AbsoluteFilledSize \in Nat /\ rd = 0
        /\ behind \in 1 .. DataSize - 1 /\ P \in Nat
    BY DEF IInv, TypeOK, RangeCurrent, IsInBuffer
  <2>1. /\ r.Count = IF behind > n THEN n ELSE behind
        /\ r.Data = DataSize + RelativePoint - behind
    BY DEF ReadSourceAt
  <2>2. r.Count = n \/ (r.Count < n /\ P + r.Count = AbsoluteFilledSize)
    BY <2>0, <2>1
  <2>3. ASSUME NEW k \in 0 .. r.Count - 1
        PROVE  Data[Mirror(r.Data + k)] = P + k
    <3>1. behind - k \in 1 .. DataSize /\ behind - k <= AbsoluteFilledSize
      BY <2>0, <2>1
    <3>2. Data[Wrapped(RelativePoint + rd - (behind - k))]
            = AbsoluteFilledSize + rd - (behind - k)
      BY <2>0, <3>1 DEF IInv, WindowIntact
    <3>3. Mirror(r.Data + k) = Wrapped(RelativePoint + rd - (behind - k))
      BY <2>0, <2>1, <3>1 DEF Wrapped, Mirror, Cells
    <3> QED BY <2>0, <3>2, <3>3
  <2> QED BY <2>2, <2>3
<1> QED BY <1>1, WindowKept, PTL

\* No address the code dereferences leaves the two mappings.
THEOREM PointersStayMapped == Spec => []PointersMapped
<1>1. IInv => PointersMapped
  <2> SUFFICES ASSUME IInv PROVE PointersMapped
    OBVIOUS
  <2> USE SizeAssumption
  <2>0. RelativePoint \in Cells /\ AbsoluteFilledSize \in Nat
    BY DEF IInv, TypeOK
  <2>1. writing => x.Data >= 0 /\ x.Data + x.Count <= 2 * DataSize
    BY <2>0 DEF IInv, RangeCurrent, GetNextWritableRange, Cells
  <2>2. ASSUME NEW P \in 0 .. AbsoluteFilledSize, NEW n \in 1 .. DataSize, IsInBuffer(P)
        PROVE  LET r == ReadSourceAt(P, n)
               IN  r.Data >= 0 /\ r.Data + r.Count <= 2 * DataSize
    BY <2>0, <2>2 DEF IsInBuffer, ReadSourceAt, Cells
  <2> QED BY <2>1, <2>2 DEF PointersMapped
<1> QED BY <1>1, WindowKept, PTL
=============================================================================
