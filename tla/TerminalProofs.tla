--------------------------- MODULE TerminalProofs ---------------------------
(***************************************************************************)
(* For every size of the buffer, every set of window sizes that show a     *)
(* cell and every way of reading: the terminal's types, that it handles    *)
(* the buffer as SourceBuffer says, that the segments' pointers read back  *)
(* the segments' bytes, that the cursor stays on a screen that does not    *)
(* shrink, that the segments hold the characters of the stream, each one   *)
(* once, in its line, that the cursor is where the stream ends, and that   *)
(* the screen shows the bottom of the stream.                              *)
(*                                                                         *)
(* What makes the first of these inductive is InPlace: the pointer of a    *)
(* range leads to the cells that lie as far behind the write head as the   *)
(* range's position lies behind the bytes committed.  The head and the     *)
(* count move together, so ranges made long ago stay in place until they   *)
(* fall out of the window; SourceBufferProofs shows what is in it.         *)
(*                                                                         *)
(* ProcessInput works on a range of the buffer and stores pointers; what   *)
(* is to be shown is about the stream.  Handled is the position of the     *)
(* stream the scan has come to; Covered says that the segments made so far *)
(* are right up to there, and AtEnd that the cursor is.  For the screen,   *)
(* each turn of Render is shown to lay out one line of the stream, from    *)
(* the bottom up, and each character's byte to be still in the buffer.     *)
(***************************************************************************)
EXTENDS TerminalText, SequenceTheorems, FiniteSetTheorems, WellFoundedInduction, TLAPS

RP == INSTANCE SourceBufferProofs

(***************************************************************************)
(* The inductive invariant                                                 *)
(***************************************************************************)

InPlace(r, filled, head) ==
    /\ r \in RP!Range
    /\ r.AbsoluteP + r.Count <= filled
    /\ \A m \in 0 .. r.Count - 1 :
         filled - (r.AbsoluteP + m) <= DataSize =>
           RP!Mirror(r.Data + m) = RP!Wrapped(head - (filled - (r.AbsoluteP + m)))

SegmentsInPlace ==
    \A k \in 1 .. SegmentCount : InPlace(sg[k].buf, AbsoluteFilledSize, RelativePoint)

\* ProcessInput's range is in place, and the segment being scanned is the part
\* of it before the scan index.
RestInPlace ==
    /\ pc \in {"process", "scan"} => InPlace(buf, AbsoluteFilledSize, RelativePoint)
    /\ pc = "scan" =>
         /\ SegmentCount > 0
         /\ i < buf.Count => sg[SegmentCount].buf = [buf EXCEPT !.Count = i]

ReadingInTty == writing => pc = "tty"

TInv ==
    /\ RP!IInv
    /\ TypeOK
    /\ ReadingInTty
    /\ SegmentsInPlace
    /\ RestInPlace
    /\ CursorInScreen

(***************************************************************************)
(* The buffer                                                              *)
(***************************************************************************)

\* The assumptions of SourceBuffer.
LEMMA RingAssumptions == RP!SizeAssumption /\ RP!BoundAssumption
  BY RingAssumption DEF RP!SizeAssumption, RP!BoundAssumption

\* The two instances of SourceBuffer have the same actions.
LEMMA SameRing ==
    /\ Ring!Init <=> RP!Init
    /\ Ring!BeginRead <=> RP!BeginRead
    /\ \A n : Ring!ReadTty(n) <=> RP!ReadTty(n)
    /\ Ring!EndRead <=> RP!EndRead
    /\ Ring!TypeOK <=> RP!TypeOK
  BY DEF Ring!Init, RP!Init, Ring!BeginRead, RP!BeginRead, Ring!ReadTty, RP!ReadTty,
         Ring!EndRead, RP!EndRead, Ring!TypeOK, RP!TypeOK, Ring!CommitWrite,
         RP!CommitWrite, Ring!Cells, RP!Cells, Ring!Unwritten, RP!Unwritten,
         Ring!NoRange, RP!NoRange, Ring!Range, RP!Range, Ring!GetNextWritableRange,
         RP!GetNextWritableRange, Ring!Ahead, RP!Ahead, Ring!Mirror, RP!Mirror

\* A chunk fits what is left of the writable range.
LEMMA ChunkSize ==
    ASSUME RP!IInv, NEW chunk \in Chunks, RP!ReadTty(Len(chunk))
    PROVE  Len(chunk) \in 1 .. DataSize
<1>1. chunk \in Seq(Kinds) /\ chunk # <<>>
  BY ChunksAssumption
<1>2. Len(chunk) \in Nat /\ Len(chunk) # 0
  BY <1>1, EmptySeq, LenProperties
<1>3. x.Count = DataSize /\ rd \in Nat /\ Len(chunk) <= x.Count - rd
  BY DEF RP!IInv, RP!RangeCurrent, RP!GetNextWritableRange, RP!TypeOK, RP!ReadTty
<1> QED BY <1>2, <1>3, RingAssumption

\* A step of the terminal is a step of the buffer, or leaves it alone.
LEMMA RingStep ==
    ASSUME RP!IInv, [Next]_vars
    PROVE  [RP!Next]_(RP!vars)
<1>1. CASE UNCHANGED ringVars
  BY <1>1 DEF ringVars, RP!vars
<1>2. CASE BeginRead
  BY <1>2, SameRing DEF BeginRead, RP!Next
<1>3. CASE ReadTty
  <2>1. PICK chunk \in Chunks : RP!ReadTty(Len(chunk))
    BY <1>3, SameRing DEF ReadTty
  <2> QED BY <2>1, ChunkSize DEF RP!Next
<1>4. CASE EndRead
  BY <1>4, SameRing DEF EndRead, RP!Next
<1> QED
  BY <1>1, <1>2, <1>3, <1>4
  DEF Next, vars, HandleResize, EventsDone, NothingToRead, ProcessInput, OpenSegment,
      ScanGlyph, ScanLineEnd, ScanReturn, ScanDone, ProcessDone, Draw

\* The invariant of the buffer is kept.
LEMMA RingKept ==
    ASSUME RP!IInv, [Next]_vars
    PROVE  RP!IInv'
<1>1. CASE RP!BeginRead
  BY <1>1, RP!BeginReadIInv, RingAssumptions
<1>2. ASSUME NEW n \in 1 .. DataSize, RP!ReadTty(n) PROVE RP!IInv'
  BY <1>2, RP!ReadTtyIInv, RingAssumptions
<1>3. CASE RP!EndRead
  BY <1>3, RP!EndReadIInv, RingAssumptions
<1>4. CASE UNCHANGED RP!vars
  BY <1>4 DEF RP!vars, RP!IInv, RP!TypeOK, RP!RangeCurrent, RP!WindowIntact, RP!Wrapped,
              RP!Mirror, RP!Cells, RP!GetNextWritableRange
<1> QED BY <1>1, <1>2, <1>3, <1>4, RingStep DEF RP!Next

(***************************************************************************)
(* Types                                                                   *)
(***************************************************************************)

Segments == [buf : Ring!Range, line_end : BOOLEAN]

\* A range stays a range when ConsumeCount takes some of it.
LEMMA ConsumeType ==
    ASSUME NEW r \in Ring!Range, NEW n \in Nat
    PROVE  /\ Ring!ConsumeCount(r, n) \in Ring!Range
           /\ Ring!ConsumeCount(r, r.Count).Count = 0
  BY DEF Ring!ConsumeCount, Ring!Range

\* What the three actions that change the segments do to them.
LEMMA SegmentSteps ==
    ASSUME sg \in Seq(Segments), buf \in Ring!Range
    PROVE  /\ OpenSegment =>
                /\ sg' \in Seq(Segments) /\ Len(sg') = Len(sg) + 1
                /\ sg'[Len(sg) + 1].buf = [buf EXCEPT !.Count = 0]
                /\ \A k \in 1 .. Len(sg) : sg'[k] = sg[k]
           /\ ScanGlyph /\ Len(sg) > 0 =>
                /\ sg' \in Seq(Segments) /\ Len(sg') = Len(sg)
                /\ sg'[Len(sg)].buf = [sg[Len(sg)].buf EXCEPT !.Count = @ + 1]
                /\ \A k \in 1 .. Len(sg) - 1 : sg'[k] = sg[k]
           /\ ScanLineEnd /\ Len(sg) > 0 =>
                /\ sg' \in Seq(Segments) /\ Len(sg') = Len(sg)
                /\ \A k \in 1 .. Len(sg) : sg'[k].buf = sg[k].buf
<1>1. ASSUME OpenSegment
      PROVE  /\ sg' \in Seq(Segments) /\ Len(sg') = Len(sg) + 1
             /\ sg'[Len(sg) + 1].buf = [buf EXCEPT !.Count = 0]
             /\ \A k \in 1 .. Len(sg) : sg'[k] = sg[k]
  <2> DEFINE s == [buf |-> [buf EXCEPT !.Count = 0], line_end |-> FALSE]
  <2>1. sg' = Append(sg, s)
    BY <1>1 DEF OpenSegment
  <2>2. s \in Segments /\ s.buf = [buf EXCEPT !.Count = 0]
    BY DEF Segments, Ring!Range
  <2> HIDE DEF s
  <2> QED BY <2>1, <2>2, AppendProperties
<1>2. ASSUME ScanGlyph, Len(sg) > 0
      PROVE  /\ sg' \in Seq(Segments) /\ Len(sg') = Len(sg)
             /\ sg'[Len(sg)].buf = [sg[Len(sg)].buf EXCEPT !.Count = @ + 1]
             /\ \A k \in 1 .. Len(sg) - 1 : sg'[k] = sg[k]
  <2> DEFINE b == [sg[Len(sg)].buf EXCEPT !.Count = @ + 1]
             s == [sg[Len(sg)] EXCEPT !.buf = b]
  <2>1. sg' = [sg EXCEPT ![Len(sg)] = s]
    BY <1>2 DEF ScanGlyph, SegmentCount
  <2>2. Len(sg) \in 1 .. Len(sg) /\ sg[Len(sg)] \in Segments
    BY <1>2, ElementOfSeq, LenProperties
  <2>3. s \in Segments /\ s.buf = b
    <3>1. sg[Len(sg)].buf \in Ring!Range
      BY <2>2 DEF Segments
    <3>2. b \in Ring!Range
      BY <3>1 DEF Ring!Range
    <3> HIDE DEF b
    <3> QED BY <2>2, <3>2 DEF Segments
  <2> HIDE DEF s, b
  <2>4. sg' \in Seq(Segments) /\ Len(sg') = Len(sg)
    BY <2>1, <2>2, <2>3, ExceptSeq
  <2>5. sg'[Len(sg)] = s /\ \A k \in 1 .. Len(sg) - 1 : sg'[k] = sg[k]
    BY <2>1, <2>2, LenProperties
  <2>6. sg'[Len(sg)].buf = b
    BY <2>3, <2>5
  <2>7. b = [sg[Len(sg)].buf EXCEPT !.Count = @ + 1]
    BY DEF b
  <2> QED BY <2>4, <2>5, <2>6, <2>7, Zenon
<1>3. ASSUME ScanLineEnd, Len(sg) > 0
      PROVE  /\ sg' \in Seq(Segments) /\ Len(sg') = Len(sg)
             /\ \A k \in 1 .. Len(sg) : sg'[k].buf = sg[k].buf
  <2> DEFINE s == [sg[Len(sg)] EXCEPT !.line_end = TRUE]
  <2>1. sg' = [sg EXCEPT ![Len(sg)] = s]
    BY <1>3 DEF ScanLineEnd, SegmentCount
  <2>2. Len(sg) \in 1 .. Len(sg) /\ sg[Len(sg)] \in Segments
    BY <1>3, ElementOfSeq, LenProperties
  <2>3. s \in Segments /\ s.buf = sg[Len(sg)].buf
    BY <2>2 DEF Segments
  <2> HIDE DEF s
  <2>4. sg' \in Seq(Segments) /\ Len(sg') = Len(sg)
    BY <2>1, <2>2, <2>3, ExceptSeq
  <2>5. sg'[Len(sg)] = s /\ \A k \in 1 .. Len(sg) - 1 : sg'[k] = sg[k]
    BY <2>1, <2>2, LenProperties
  <2> QED BY <2>3, <2>4, <2>5, LenProperties
<1> QED BY <1>1, <1>2, <1>3

\* Every step of the terminal keeps its types.
LEMMA TypeKept ==
    ASSUME TInv, [Next]_vars
    PROVE  TypeOK'
<1>0. /\ TypeOK /\ sg \in Seq(Segments) /\ buf \in Ring!Range /\ i \in Nat
      /\ pc = "scan" => Len(sg) > 0
  BY DEF TInv, TypeOK, RestInPlace, Segments, SegmentCount
<1>1. Ring!TypeOK'
  <2>1. RP!IInv'
    BY RingKept DEF TInv
  <2>2. RP!TypeOK'
    BY <2>1 DEF RP!IInv
  <2> QED BY <2>2 DEF RP!TypeOK, Ring!TypeOK, RP!Cells, Ring!Cells, RP!Unwritten, Ring!Unwritten,
                      RP!Range, Ring!Range
<1>2. stream' \in Seq(Kinds) /\ Len(stream') = AbsoluteFilledSize' + rd'
  <2>0. stream \in Seq(Kinds) /\ Len(stream) = AbsoluteFilledSize + rd
        /\ AbsoluteFilledSize \in Nat /\ rd \in Nat
    BY <1>0 DEF TypeOK, Ring!TypeOK
  <2>1. CASE ReadTty
    <3>1. PICK chunk \in Chunks : Ring!ReadTty(Len(chunk)) /\ stream' = stream \o chunk
      BY <2>1 DEF ReadTty
    <3>2. chunk \in Seq(Kinds)
      BY ChunksAssumption
    <3>3. stream' \in Seq(Kinds) /\ Len(stream') = Len(stream) + Len(chunk)
      BY <2>0, <3>1, <3>2, ConcatProperties
    <3>4. AbsoluteFilledSize' = AbsoluteFilledSize /\ rd' = rd + Len(chunk)
      BY <3>1 DEF Ring!ReadTty
    <3>5. Len(chunk) \in Nat
      BY <3>2, LenProperties
    <3> QED BY <2>0, <3>3, <3>4, <3>5
  <2>2. CASE EndRead
    <3>1. stream' = stream /\ rd' = 0
      BY <2>2 DEF EndRead, Ring!EndRead
    <3>2. AbsoluteFilledSize' = AbsoluteFilledSize + rd
      <4>1. CASE rd = 0
        BY <2>0, <2>2, <4>1 DEF EndRead, Ring!EndRead
      <4>2. CASE rd # 0
        BY <2>2, <4>2 DEF EndRead, Ring!EndRead, Ring!CommitWrite
      <4> QED BY <4>1, <4>2
    <3> QED BY <2>0, <3>1, <3>2
  <2>3. CASE BeginRead
    <3>1. stream' = stream /\ rd' = 0 /\ AbsoluteFilledSize' = AbsoluteFilledSize /\ rd = 0
      BY <2>3 DEF BeginRead, Ring!BeginRead, TInv, RP!IInv, RP!RangeCurrent
    <3> QED BY <2>0, <3>1
  <2>4. CASE UNCHANGED <<ringVars, stream>>
    BY <2>0, <2>4 DEF ringVars
  <2> QED
    BY <2>1, <2>2, <2>3, <2>4
    DEF Next, vars, HandleResize, EventsDone, NothingToRead, ProcessInput, OpenSegment,
        ScanGlyph, ScanLineEnd, ScanReturn, ScanDone, ProcessDone, Draw
<1>3. sg' \in Seq(Segments)
  BY <1>0, SegmentSteps
  DEF Next, vars, HandleResize, EventsDone, BeginRead, NothingToRead, ReadTty, EndRead,
      ProcessInput, ScanReturn, ScanDone, ProcessDone, Draw, ScanGlyph, ScanLineEnd
<1>4. CursorX' \in Nat /\ CursorY' \in Nat
  <2>1. CursorX \in Nat /\ CursorY \in Nat /\ th \in Nat \ {0}
    BY <1>0, SizesShowACell DEF TypeOK
  <2>2. AdvanceRow => CursorX' \in Nat /\ CursorY' \in Nat
    BY <2>1 DEF AdvanceRow
  <2>3. AdvanceColumn => CursorX' \in Nat /\ CursorY' \in Nat
    BY <2>1, <2>2 DEF AdvanceColumn
  <2> QED
    BY <2>1, <2>2, <2>3
    DEF Next, vars, cursorVars, HandleResize, EventsDone, BeginRead, NothingToRead, ReadTty,
        EndRead, ProcessInput, OpenSegment, ScanGlyph, ScanLineEnd, ScanReturn, ScanDone,
        ProcessDone, Draw
<1>5. /\ xw' \in Sizes /\ tw' = Cols(xw') /\ th' = Lines(xw') /\ shrunk' \in BOOLEAN
  <2>1. CASE HandleResize
    BY <2>1 DEF HandleResize, SetTerminalSize
  <2>2. CASE UNCHANGED sizeVars
    BY <1>0, <2>2 DEF sizeVars, TypeOK, Cols, Lines
  <2> QED
    BY <2>1, <2>2
    DEF Next, vars, EventsDone, BeginRead, NothingToRead, ReadTty, EndRead,
        ProcessInput, OpenSegment, ScanGlyph, ScanLineEnd, ScanReturn, ScanDone,
        ProcessDone, Draw
<1>6. DOMAIN screen' = 0 .. tw' * th' - 1
  <2>1. CASE HandleResize
    BY <2>1 DEF HandleResize, Cleared
  <2>2. CASE Draw
    BY <1>0, <2>2 DEF Draw, sizeVars, Rendered, Cleared, TypeOK
  <2>3. CASE UNCHANGED <<screen, sizeVars>>
    BY <1>0, <2>3 DEF TypeOK, sizeVars
  <2> QED
    BY <2>1, <2>2, <2>3
    DEF Next, vars, EventsDone, BeginRead, NothingToRead, ReadTty, EndRead,
        ProcessInput, OpenSegment, ScanGlyph, ScanLineEnd, ScanReturn, ScanDone, ProcessDone
<1>7. render' \in BOOLEAN /\ pc' \in {"events", "tty", "process", "scan", "draw"}
  BY <1>0
  DEF TypeOK, Next, vars, HandleResize, EventsDone, BeginRead, NothingToRead, ReadTty,
      EndRead, ProcessInput, OpenSegment, ScanGlyph, ScanLineEnd, ScanReturn, ScanDone,
      ProcessDone, Draw
<1>8. buf' \in Ring!Range /\ i' \in Nat
  <2>1. CASE EndRead
    <3>1. x' \in Ring!Range
      BY <1>1 DEF Ring!TypeOK
    <3> QED BY <1>0, <2>1, <3>1 DEF EndRead
  <2>2. CASE ScanGlyph
    BY <1>0, <2>2, ConsumeType DEF ScanGlyph, Ring!Range
  <2>3. CASE ScanLineEnd
    BY <1>0, <2>3, ConsumeType DEF ScanLineEnd
  <2>4. CASE ScanReturn
    BY <1>0, <2>4 DEF ScanReturn, Ring!Range
  <2>5. CASE OpenSegment
    BY <1>0, <2>5 DEF OpenSegment
  <2>6. CASE UNCHANGED <<buf, i>>
    BY <1>0, <2>6
  <2> QED
    BY <2>1, <2>2, <2>3, <2>4, <2>5, <2>6
    DEF Next, vars, HandleResize, EventsDone, BeginRead, NothingToRead, ReadTty,
        ProcessInput, ScanDone, ProcessDone, Draw
<1> QED
  BY <1>1, <1>2, <1>3, <1>4, <1>5, <1>6, <1>7, <1>8 DEF TypeOK, Segments

(***************************************************************************)
(* Places                                                                  *)
(***************************************************************************)

\* A commit of n bytes moves head and count together: a range in place stays.
LEMMA CommitKeepsPlace ==
    ASSUME NEW filled \in Nat, NEW head \in RP!Cells, NEW n \in 0 .. DataSize,
           NEW r, InPlace(r, filled, head)
    PROVE  InPlace(r, filled + n,
                   IF head + n >= DataSize THEN head + n - DataSize ELSE head + n)
<1> DEFINE new == IF head + n >= DataSize THEN head + n - DataSize ELSE head + n
<1>1. r \in RP!Range /\ r.AbsoluteP + r.Count <= filled
      /\ r.AbsoluteP \in Nat /\ r.Count \in Nat /\ r.Data \in Nat
  BY DEF InPlace, RP!Range
<1>2. ASSUME NEW m \in 0 .. r.Count - 1, filled + n - (r.AbsoluteP + m) <= DataSize
      PROVE  RP!Mirror(r.Data + m) = RP!Wrapped(new - (filled + n - (r.AbsoluteP + m)))
  <2>0. filled - (r.AbsoluteP + m) <= DataSize
    BY <1>1, <1>2, RingAssumption
  <2>1. RP!Mirror(r.Data + m) = RP!Wrapped(head - (filled - (r.AbsoluteP + m)))
    BY <2>0 DEF InPlace
  <2>2. RP!Wrapped(head - (filled - (r.AbsoluteP + m)))
          = RP!Wrapped(new - (filled + n - (r.AbsoluteP + m)))
    <3> DEFINE d == filled + n - (r.AbsoluteP + m)
    <3>1. d \in 1 .. DataSize /\ filled - (r.AbsoluteP + m) = d - n /\ d > n
      BY <1>1, <1>2
    <3> HIDE DEF d
    <3>2. RP!Wrapped(head - (d - n)) = RP!Wrapped(new - d)
      BY <3>1, RingAssumption DEF RP!Wrapped, RP!Mirror, RP!Cells
    <3>3. d = filled + n - (r.AbsoluteP + m)
      BY DEF d
    <3> QED BY <3>1, <3>2, <3>3
  <2> QED BY <2>1, <2>2
<1>3. r.AbsoluteP + r.Count <= filled + n
  BY <1>1
<1> HIDE DEF new
<1>4. InPlace(r, filled + n, new)
  BY <1>1, <1>2, <1>3 DEF InPlace
<1> QED BY <1>4 DEF new

\* The range a read has just filled is in place once it is committed.
LEMMA ReadInPlace ==
    ASSUME NEW filled \in Nat, NEW head \in RP!Cells, NEW n \in 0 .. DataSize,
           NEW r \in RP!Range, r.AbsoluteP = filled, r.Data = head, r.Count = n
    PROVE  InPlace(r, filled + n,
                   IF head + n >= DataSize THEN head + n - DataSize ELSE head + n)
<1> DEFINE new == IF head + n >= DataSize THEN head + n - DataSize ELSE head + n
<1>1. ASSUME NEW m \in 0 .. r.Count - 1
      PROVE  RP!Mirror(r.Data + m) = RP!Wrapped(new - (filled + n - (r.AbsoluteP + m)))
  BY RingAssumption DEF RP!Wrapped, RP!Mirror, RP!Cells
<1> HIDE DEF new
<1>2. InPlace(r, filled + n, new)
  BY <1>1 DEF InPlace, RP!Range
<1> QED BY <1>2 DEF new

\* A shorter range, and what ConsumeCount leaves, are in place with the whole.
LEMMA PartInPlace ==
    ASSUME NEW filled \in Nat, NEW head \in RP!Cells, NEW r \in RP!Range,
           InPlace(r, filled, head), NEW n \in 0 .. r.Count
    PROVE  /\ InPlace([r EXCEPT !.Count = n], filled, head)
           /\ InPlace(Ring!ConsumeCount(r, n), filled, head)
<1>0. /\ r.AbsoluteP \in Nat /\ r.Count \in Nat /\ r.Data \in Nat /\ n \in Nat
      /\ r.AbsoluteP + r.Count <= filled
  BY DEF InPlace, RP!Range
<1>1. InPlace([r EXCEPT !.Count = n], filled, head)
  <2> DEFINE s == [r EXCEPT !.Count = n]
  <2>1. s \in RP!Range /\ s.Count = n /\ s.Data = r.Data /\ s.AbsoluteP = r.AbsoluteP
    BY <1>0 DEF RP!Range
  <2> HIDE DEF s
  <2>2. ASSUME NEW m \in 0 .. n - 1, filled - (r.AbsoluteP + m) <= DataSize
        PROVE  RP!Mirror(r.Data + m) = RP!Wrapped(head - (filled - (r.AbsoluteP + m)))
    BY <1>0, <2>2 DEF InPlace
  <2>3. s.AbsoluteP + s.Count <= filled
    BY <1>0, <2>1
  <2>4. InPlace(s, filled, head)
    BY <2>1, <2>2, <2>3 DEF InPlace
  <2>5. s = [r EXCEPT !.Count = n]
    BY DEF s
  <2> QED BY <2>4, <2>5, Zenon
<1>2. InPlace(Ring!ConsumeCount(r, n), filled, head)
  <2> DEFINE s == Ring!ConsumeCount(r, n)
  <2>1. /\ s \in RP!Range /\ s.Count = r.Count - n /\ s.Data = r.Data + n
        /\ s.AbsoluteP = r.AbsoluteP + n
    BY <1>0 DEF Ring!ConsumeCount, RP!Range
  <2> HIDE DEF s
  <2>2. ASSUME NEW m \in 0 .. s.Count - 1, filled - (s.AbsoluteP + m) <= DataSize
        PROVE  RP!Mirror(s.Data + m) = RP!Wrapped(head - (filled - (s.AbsoluteP + m)))
    <3>1. n + m \in 0 .. r.Count - 1
      BY <1>0, <2>1
    <3>2. r.AbsoluteP + (n + m) = s.AbsoluteP + m /\ r.Data + (n + m) = s.Data + m
      BY <1>0, <2>1
    <3> QED BY <2>2, <3>1, <3>2 DEF InPlace
  <2>3. s.AbsoluteP + s.Count <= filled
    BY <1>0, <2>1
  <2>4. InPlace(s, filled, head)
    BY <2>1, <2>2, <2>3 DEF InPlace
  <2>5. s = Ring!ConsumeCount(r, n)
    BY DEF s
  <2> QED BY <2>4, <2>5, Zenon
<1> QED BY <1>1, <1>2

\* The loop reads only where it says.
LEMMA ReadingKept ==
    ASSUME TInv, [Next]_vars
    PROVE  ReadingInTty'
BY DEF TInv, ReadingInTty, Next, vars, ringVars, HandleResize, EventsDone, BeginRead,
       NothingToRead, ReadTty, EndRead, ProcessInput, OpenSegment, ScanGlyph, ScanLineEnd,
       ScanReturn, ScanDone, ProcessDone, Draw, Ring!BeginRead, Ring!ReadTty, Ring!EndRead

\* A step other than the commit leaves head and count alone.
LEMMA HeadSteps ==
    ASSUME TInv, [Next]_vars
    PROVE  \/ UNCHANGED <<AbsoluteFilledSize, RelativePoint>>
           \/ /\ EndRead /\ rd # 0
              /\ AbsoluteFilledSize' = AbsoluteFilledSize + rd
              /\ RelativePoint' = IF RelativePoint + rd >= DataSize
                                  THEN RelativePoint + rd - DataSize
                                  ELSE RelativePoint + rd
BY DEF Next, vars, ringVars, HandleResize, EventsDone, BeginRead,
       NothingToRead, ReadTty, EndRead, ProcessInput, OpenSegment, ScanGlyph, ScanLineEnd,
       ScanReturn, ScanDone, ProcessDone, Draw, Ring!BeginRead, Ring!ReadTty, Ring!EndRead,
       Ring!CommitWrite

\* Segments and the range being processed stay in place.
LEMMA PlacesKept ==
    ASSUME TInv, [Next]_vars
    PROVE  SegmentsInPlace' /\ RestInPlace'
<1>0. /\ AbsoluteFilledSize \in Nat /\ RelativePoint \in RP!Cells /\ rd \in 0 .. DataSize
      /\ sg \in Seq(Segments) /\ buf \in RP!Range /\ Len(sg) \in Nat
      /\ \A k \in 1 .. Len(sg) : InPlace(sg[k].buf, AbsoluteFilledSize, RelativePoint)
      /\ pc \in {"process", "scan"} => InPlace(buf, AbsoluteFilledSize, RelativePoint)
      /\ pc = "scan" => /\ Len(sg) > 0
                        /\ i < buf.Count => sg[Len(sg)].buf = [buf EXCEPT !.Count = i]
      /\ i \in Nat
  <2>1. sg \in Seq(Segments) /\ buf \in RP!Range /\ i \in Nat
    BY DEF TInv, TypeOK, Segments, RP!Range, Ring!Range
  <2>2. Len(sg) \in Nat
    BY <2>1, LenProperties
  <2>3. AbsoluteFilledSize \in Nat /\ RelativePoint \in RP!Cells /\ rd \in 0 .. DataSize
    BY RingAssumption DEF TInv, RP!IInv, RP!TypeOK, RP!RangeCurrent
  <2> QED BY <2>1, <2>2, <2>3 DEF TInv, SegmentsInPlace, RestInPlace, SegmentCount
<1>1. CASE EndRead /\ rd # 0
  <2>1. /\ AbsoluteFilledSize' = AbsoluteFilledSize + rd
        /\ RelativePoint' = IF RelativePoint + rd >= DataSize
                            THEN RelativePoint + rd - DataSize
                            ELSE RelativePoint + rd
        /\ sg' = sg /\ pc' = "process" /\ buf' = [x EXCEPT !.Count = rd]
    BY <1>1 DEF EndRead, Ring!EndRead, Ring!CommitWrite
  <2>2. x.AbsoluteP = AbsoluteFilledSize /\ x.Data = RelativePoint /\ x \in RP!Range
    BY <1>1 DEF EndRead, Ring!EndRead, TInv, RP!IInv, RP!TypeOK, RP!RangeCurrent,
                RP!GetNextWritableRange
  <2> DEFINE r == [x EXCEPT !.Count = rd]
  <2>3. r \in RP!Range /\ r.AbsoluteP = AbsoluteFilledSize /\ r.Data = RelativePoint
        /\ r.Count = rd
    BY <1>0, <2>2 DEF RP!Range
  <2>4. InPlace(buf', AbsoluteFilledSize', RelativePoint')
    <3>1. buf' = r
      BY <2>1
    <3> HIDE DEF r
    <3> QED BY <1>0, <2>1, <2>3, <3>1, ReadInPlace
  <2>5. ASSUME NEW k \in 1 .. Len(sg)
        PROVE  InPlace(sg[k].buf, AbsoluteFilledSize', RelativePoint')
    BY <1>0, <2>1, CommitKeepsPlace
  <2> QED BY <2>1, <2>4, <2>5 DEF SegmentsInPlace, RestInPlace, SegmentCount, InPlace,
                                  RP!Range, RP!Mirror, RP!Wrapped
<1>2. CASE UNCHANGED <<AbsoluteFilledSize, RelativePoint>>
  <2> DEFINE Placed(r) == InPlace(r, AbsoluteFilledSize, RelativePoint)
  <2>0. SUFFICES /\ \A k \in 1 .. Len(sg') : Placed(sg'[k].buf)
                 /\ pc' \in {"process", "scan"} => Placed(buf')
                 /\ pc' = "scan" => /\ Len(sg') > 0
                                    /\ i' < buf'.Count =>
                                         sg'[Len(sg')].buf = [buf' EXCEPT !.Count = i']
    BY <1>2 DEF SegmentsInPlace, RestInPlace, SegmentCount, InPlace,
                RP!Range, RP!Mirror, RP!Wrapped
  <2> USE <1>0
  <2>1. CASE OpenSegment
    <3>1. /\ sg' \in Seq(Segments) /\ Len(sg') = Len(sg) + 1
          /\ sg'[Len(sg) + 1].buf = [buf EXCEPT !.Count = 0]
          /\ \A k \in 1 .. Len(sg) : sg'[k] = sg[k]
      BY <2>1, SegmentSteps DEF RP!Range, Ring!Range
    <3>2. pc = "process" /\ pc' = "scan" /\ buf' = buf /\ i' = 0 /\ buf.Count \in Nat
      BY <2>1 DEF OpenSegment, RP!Range
    <3>3. Placed([buf EXCEPT !.Count = 0])
      BY <3>2, PartInPlace
    <3>4. ASSUME NEW k \in 1 .. Len(sg') PROVE Placed(sg'[k].buf)
      <4>1. CASE k \in 1 .. Len(sg)
        BY <3>1, <4>1
      <4>2. CASE k = Len(sg) + 1
        BY <3>1, <3>3, <4>2
      <4> QED BY <3>1, <4>1, <4>2
    <3> QED BY <3>1, <3>2, <3>4
  <2>2. CASE ScanGlyph
    <3>1. pc = "scan" /\ pc' = "scan" /\ i < buf.Count /\ i' = i + 1 /\ buf.Count \in Nat
          /\ Len(sg) > 0 /\ sg[Len(sg)].buf = [buf EXCEPT !.Count = i] /\ Placed(buf)
      BY <2>2 DEF ScanGlyph, RP!Range
    <3>2. /\ Len(sg') = Len(sg)
          /\ sg'[Len(sg)].buf = [sg[Len(sg)].buf EXCEPT !.Count = @ + 1]
          /\ \A k \in 1 .. Len(sg) - 1 : sg'[k] = sg[k]
      BY <2>2, <3>1, SegmentSteps DEF RP!Range, Ring!Range
    <3>3. sg'[Len(sg)].buf = [buf EXCEPT !.Count = i + 1]
      BY <3>1, <3>2 DEF RP!Range
    <3>4. Placed([buf EXCEPT !.Count = i + 1]) /\ Placed(Ring!ConsumeCount(buf, buf.Count))
      <4>1. i + 1 \in 0 .. buf.Count /\ buf.Count \in 0 .. buf.Count
        BY <3>1
      <4> QED BY <3>1, <4>1, PartInPlace
    <3>5. ASSUME NEW k \in 1 .. Len(sg') PROVE Placed(sg'[k].buf)
      <4>1. CASE k \in 1 .. Len(sg) - 1
        BY <3>2, <4>1
      <4>2. CASE k = Len(sg)
        BY <3>3, <3>4, <4>2
      <4> QED BY <3>2, <4>1, <4>2
    <3>6. CASE i = buf.Count - 1
      <4>1. buf' = Ring!ConsumeCount(buf, buf.Count)
        BY <2>2, <3>6 DEF ScanGlyph
      <4>2. buf'.Count = 0
        BY <4>1, ConsumeType DEF RP!Range, Ring!Range
      <4> QED BY <3>1, <3>2, <3>4, <3>5, <4>1, <4>2
    <3>7. CASE i # buf.Count - 1
      <4>1. buf' = buf
        BY <2>2, <3>7 DEF ScanGlyph
      <4> QED BY <3>1, <3>2, <3>3, <3>5, <4>1
    <3> QED BY <3>6, <3>7
  <2>3. CASE ScanLineEnd
    <3>1. pc = "scan" /\ pc' = "process" /\ i < buf.Count /\ buf.Count \in Nat /\ Len(sg) > 0
          /\ Placed(buf)
      BY <2>3 DEF ScanLineEnd, RP!Range
    <3>2. Len(sg') = Len(sg) /\ \A k \in 1 .. Len(sg) : sg'[k].buf = sg[k].buf
      BY <2>3, <3>1, SegmentSteps DEF RP!Range, Ring!Range
    <3>3. PICK n \in 0 .. buf.Count : buf' = Ring!ConsumeCount(buf, n)
      <4>1. CASE buf' = Ring!ConsumeCount(buf, i + 1)
        BY <3>1, <4>1
      <4>2. CASE buf' = Ring!ConsumeCount(buf, i + 2) /\ i + 1 < buf.Count
        BY <3>1, <4>2
      <4> QED BY <2>3, <4>1, <4>2 DEF ScanLineEnd
    <3>4. Placed(buf')
      BY <3>1, <3>3, PartInPlace
    <3> QED BY <3>1, <3>2, <3>4
  <2>4. CASE ScanReturn
    <3>1. pc = "scan" /\ pc' = "process" /\ buf' = [buf EXCEPT !.Count = 0] /\ sg' = sg
          /\ buf.Count \in Nat
      BY <2>4 DEF ScanReturn, RP!Range
    <3>2. Placed(buf')
      BY <3>1, PartInPlace
    <3> QED BY <3>1, <3>2
  <2>5. CASE UNCHANGED <<sg, buf>> /\ pc' # "scan" /\ (pc' = "process" => pc \in {"process", "scan"})
    BY <2>5
  <2>6. CASE UNCHANGED <<sg, buf, pc, i>>
    BY <2>6
  <2>7. CASE EndRead
    <3>1. rd = 0
      BY <1>2, <2>7 DEF EndRead, Ring!EndRead, Ring!CommitWrite
    <3> QED BY <2>7, <3>1 DEF EndRead
  <2> QED
    BY <2>1, <2>2, <2>3, <2>4, <2>5, <2>6, <2>7
    DEF Next, vars, HandleResize, EventsDone, BeginRead, NothingToRead, ReadTty,
        ProcessInput, ScanDone, ProcessDone, Draw
<1> QED BY <1>1, <1>2, HeadSteps

(***************************************************************************)
(* The cursor                                                              *)
(***************************************************************************)

\* While no resize has shrunk the screen, the cursor stays on it.
LEMMA CursorKept ==
    ASSUME TInv, [Next]_vars
    PROVE  CursorInScreen'
<1>0. /\ CursorX \in Nat /\ CursorY \in Nat /\ tw \in Nat \ {0} /\ th \in Nat \ {0}
      /\ ~shrunk => CursorX < tw /\ CursorY < th
  BY SizesShowACell DEF TInv, TypeOK, CursorInScreen, CursorOnScreen
<1>1. CASE HandleResize
  <2>1. PICK size \in Sizes : SetTerminalSize(size)
    BY <1>1 DEF HandleResize
  <2> DEFINE w == Cols(size)
             h == Lines(size)
  <2>2. w \in Nat \ {0} /\ h \in Nat \ {0}
    BY SizesShowACell
  <2>3. /\ tw' = w /\ th' = h /\ shrunk' = (shrunk \/ tw' < tw \/ th' < th)
        /\ CursorX' = CursorX /\ CursorY' = CursorY
    BY <1>1, <2>1 DEF HandleResize, SetTerminalSize, cursorVars
  <2>4. ASSUME ~shrunk' PROVE ~shrunk /\ ~(w < tw) /\ ~(h < th)
    BY <2>3, <2>4
  <2>5. ASSUME ~shrunk' PROVE CursorX \in 0 .. w - 1 /\ CursorY \in 0 .. h - 1
    <3> HIDE DEF w, h
    <3> QED BY <1>0, <2>2, <2>4, <2>5
  <2> QED BY <2>3, <2>5 DEF CursorInScreen, CursorOnScreen
<1>2. CASE UNCHANGED sizeVars
  <2>1. shrunk' = shrunk /\ tw' = tw /\ th' = th
    BY <1>2 DEF sizeVars
  <2>2. AdvanceRow => CursorInScreen'
    BY <1>0, <2>1 DEF AdvanceRow, CursorInScreen, CursorOnScreen
  <2>3. AdvanceColumn => CursorInScreen'
    BY <1>0, <2>1, <2>2 DEF AdvanceColumn, CursorInScreen, CursorOnScreen
  <2>4. UNCHANGED cursorVars => CursorInScreen'
    BY <2>1 DEF TInv, cursorVars, CursorInScreen, CursorOnScreen
  <2> QED
    BY <2>2, <2>3, <2>4
    DEF Next, vars, HandleResize, EventsDone, BeginRead, NothingToRead, ReadTty, EndRead,
        ProcessInput, OpenSegment, ScanGlyph, ScanLineEnd, ScanReturn, ScanDone,
        ProcessDone, Draw, cursorVars
<1> QED
  BY <1>1, <1>2
  DEF Next, vars, EventsDone, BeginRead, NothingToRead, ReadTty, EndRead,
      ProcessInput, OpenSegment, ScanGlyph, ScanLineEnd, ScanReturn, ScanDone,
      ProcessDone, Draw

(***************************************************************************)
(* Drawing                                                                 *)
(***************************************************************************)

\* The layout Render makes depends on the segments, the cursor and the size.
LEMMA LayoutKept ==
    ASSUME UNCHANGED <<sg, CursorX, CursorY, tw, th>>
    PROVE  /\ \A j, k : TextLength(j, k)' = TextLength(j, k)
           /\ GroupEnd' = GroupEnd
           /\ \A n : GroupLength(n)' = GroupLength(n)
           /\ Turns' = Turns
           /\ \A n : LastCell(n)' = LastCell(n)
<1>0. TextUpTo' = TextUpTo /\ FirstRow' = FirstRow
  BY DEF TextUpTo, SegmentCount, FirstRow
<1>1. ASSUME NEW j, NEW k PROVE TextLength(j, k)' = TextLength(j, k)
  BY <1>0 DEF TextLength
<1>2. ASSUME NEW k PROVE StartSegment(k)' = StartSegment(k)
  BY <1>1 DEF StartSegment
<1>3. GroupEnd' = GroupEnd
  BY <1>2 DEF GroupEnd, SegmentCount
<1>4. ASSUME NEW n PROVE GroupLength(n)' = GroupLength(n)
  BY <1>1, <1>3 DEF GroupLength
<1>5. ASSUME NEW c PROVE RowsOf(c)' = RowsOf(c)
  BY DEF RowsOf
<1>6. GroupRow' = GroupRow
  BY <1>0, <1>4, <1>5 DEF GroupRow, SegmentCount
<1>7. Turns' = Turns
  BY <1>3, <1>6 DEF Turns, SegmentCount
<1>8. ASSUME NEW n PROVE LastCell(n)' = LastCell(n)
  BY <1>4, <1>6 DEF LastCell
<1> QED BY <1>1, <1>3, <1>4, <1>7, <1>8

\* What Render draws depends on these and the bytes of the buffer.
LEMMA RenderedKept ==
    ASSUME UNCHANGED <<sg, Data, CursorX, CursorY, tw, th>>
    PROVE  Rendered' = Rendered
<1>1. ASSUME NEW n, NEW c PROVE GroupByte(n, c)' = GroupByte(n, c)
  <2> DEFINE first == GroupEnd[n] + 1
             m == GroupLength(n) - 1 - (LastCell(n) - c)
             before(s) == TextLength(first, s - 1)
             seg == CHOOSE s \in first .. GroupEnd[n - 1] :
                      before(s) <= m /\ m < before(s) + sg[s].buf.Count
             offset == before(seg)
  <2>1. first' = first /\ m' = m
    BY LayoutKept
  <2>2. ASSUME NEW s PROVE before(s)' = before(s)
    BY <2>1, LayoutKept
  <2>3. seg' = seg
    BY <2>1, <2>2, LayoutKept
  <2>4. offset' = offset
    <3> HIDE DEF seg
    <3>1. TextLength(first, seg - 1)' = TextLength(first, seg - 1)
      BY <2>1, <2>3, LayoutKept
    <3> QED BY <3>1
  <2>5. /\ GroupByte(n, c) = Data[Ring!Mirror(sg[seg].buf.Data + m - offset)]
        /\ GroupByte(n, c)' = Data'[Ring!Mirror(sg'[seg'].buf.Data + m' - offset')]
    BY DEF GroupByte, Ring!Mirror
  <2> HIDE DEF m, seg, offset
  <2> QED BY <2>1, <2>3, <2>4, <2>5
<1> DEFINE at(c) == {n \in Turns : LastCell(n) - c \in 0 .. GroupLength(n) - 1}
           cell(c) == IF at(c) # {} THEN GroupByte(CHOOSE n \in at(c) : TRUE, c)
                      ELSE IF c = CursorY * tw + CursorX THEN CursorMark
                      ELSE Blank
<1>2. Cleared' = Cleared
  BY DEF Cleared
<1>3. ASSUME NEW c PROVE cell(c)' = cell(c)
  <2>1. at(c)' = at(c)
    BY LayoutKept
  <2> HIDE DEF at
  <2> QED BY <2>1, <1>1
<1>4. /\ Rendered = [c \in DOMAIN Cleared |-> cell(c)]
      /\ Rendered' = [c \in DOMAIN Cleared' |-> cell(c)']
  BY DEF Rendered
<1> HIDE DEF cell
<1> QED BY <1>2, <1>3, <1>4

\* Bytes in the range, which are read in the reading loop only, or with
\* ProcessInput have asked for a redraw, and without one drawing again would
\* change nothing.
RedrawAsked ==
    /\ rd # 0 => writing /\ pc = "tty" /\ render
    /\ pc \in {"process", "scan"} => render
    /\ NothingUndrawn

LEMMA RedrawKept ==
    ASSUME RedrawAsked, [Next]_vars
    PROVE  RedrawAsked'
<1>1. CASE HandleResize
  <2>1. render' = TRUE /\ rd = 0 /\ rd' = rd
    BY <1>1 DEF HandleResize, RedrawAsked, ringVars
  <2> QED BY <2>1 DEF RedrawAsked, NothingUndrawn
<1>2. CASE ReadTty
  <2>1. render' = TRUE /\ writing' /\ pc' = "tty"
    BY <1>2 DEF ReadTty, Ring!ReadTty
  <2> QED BY <2>1 DEF RedrawAsked, NothingUndrawn
<1>3. CASE Draw
  <2>1. UNCHANGED <<sg, Data, CursorX, CursorY, tw, th>> /\ rd' = rd /\ rd = 0
    BY <1>3 DEF Draw, RedrawAsked, ringVars, cursorVars, sizeVars
  <2>2. screen' = Rendered
    BY <1>3 DEF Draw, RedrawAsked, NothingUndrawn
  <2>3. render' = FALSE /\ pc' = "events"
    BY <1>3 DEF Draw
  <2> QED BY <2>1, <2>2, <2>3, RenderedKept DEF RedrawAsked, NothingUndrawn
<1>4. CASE ProcessInput
  <2>1. render /\ render' = render /\ rd = 0 /\ rd' = rd
    BY <1>4 DEF RedrawAsked, ProcessInput, OpenSegment, ScanGlyph, ScanLineEnd, ScanReturn,
                ScanDone, ProcessDone, ringVars
  <2> QED BY <2>1 DEF RedrawAsked, NothingUndrawn
<1>5. CASE EventsDone \/ BeginRead \/ NothingToRead \/ EndRead \/ UNCHANGED vars
  <2>1. UNCHANGED <<sg, Data, CursorX, CursorY, tw, th, screen, render>>
    BY <1>5 DEF EventsDone, BeginRead, NothingToRead, EndRead, vars, ringVars, cursorVars,
                sizeVars, Ring!BeginRead, Ring!EndRead
  <2>2. NothingUndrawn'
    BY <2>1, RenderedKept DEF RedrawAsked, NothingUndrawn
  <2>3. rd' # 0 => writing' /\ pc' = "tty" /\ render'
    BY <1>5 DEF RedrawAsked, EventsDone, BeginRead, NothingToRead, EndRead, vars, ringVars,
                Ring!BeginRead, Ring!EndRead
  <2>4. pc' \in {"process", "scan"} => render'
    BY <1>5 DEF RedrawAsked, EventsDone, BeginRead, NothingToRead, EndRead, vars, ringVars,
                Ring!BeginRead, Ring!EndRead
  <2> QED BY <2>2, <2>3, <2>4 DEF RedrawAsked
<1> QED BY <1>1, <1>2, <1>3, <1>4, <1>5 DEF Next

(***************************************************************************)
(* The theorems                                                            *)
(***************************************************************************)

\* The terminal starts in its invariant.
LEMMA InitTInv == Init => TInv
<1> SUFFICES ASSUME Init PROVE TInv
  OBVIOUS
<1>1. RP!IInv
  BY RP!InitIInv, RingAssumptions, SameRing DEF Init
<1>2. tw \in Nat \ {0} /\ th \in Nat \ {0}
  BY SizesShowACell DEF Init
<1>3. TypeOK
  <2>1. Ring!TypeOK
    BY <1>1, SameRing DEF RP!IInv
  <2>2. stream \in Seq(Kinds) /\ Len(stream) = AbsoluteFilledSize + rd
    BY EmptySeq DEF Init, Ring!Init
  <2>3. sg \in Seq([buf : Ring!Range, line_end : BOOLEAN])
    BY EmptySeq DEF Init
  <2>4. DOMAIN screen = 0 .. tw * th - 1
    BY DEF Init, Cleared
  <2>5. buf \in Ring!Range
    BY DEF Init, Ring!NoRange, Ring!Range
  <2>6. render \in BOOLEAN /\ shrunk \in BOOLEAN
    BY DEF Init
  <2> QED BY <2>1, <2>2, <2>3, <2>4, <2>5, <2>6 DEF TypeOK, Init
<1>4. CursorInScreen
  BY <1>2 DEF Init, CursorInScreen, CursorOnScreen
<1>5. ReadingInTty /\ SegmentsInPlace /\ RestInPlace
  <2>1. sg = <<>> /\ Len(sg) = 0 /\ pc = "events" /\ writing = FALSE
    BY EmptySeq DEF Init, Ring!Init
  <2> QED BY <2>1 DEF ReadingInTty, SegmentsInPlace, RestInPlace, SegmentCount
<1> QED BY <1>1, <1>3, <1>4, <1>5 DEF TInv

\* The inductive invariant holds in every reachable state.
THEOREM InvariantKept == Spec => []TInv
<1>1. Init => TInv
  BY InitTInv
<1>2. TInv /\ [Next]_vars => TInv'
  BY RingKept, TypeKept, ReadingKept, PlacesKept, CursorKept DEF TInv
<1> QED BY <1>1, <1>2, PTL DEF Spec

\* Type correctness of the whole terminal.
THEOREM TypeCorrect == Spec => []TypeOK
<1>1. TInv => TypeOK
  BY DEF TInv
<1> QED BY <1>1, InvariantKept, PTL

\* The cursor never leaves a screen that no resize has made smaller.
THEOREM CursorStays == Spec => []CursorInScreen
<1>1. TInv => CursorInScreen
  BY DEF TInv
<1> QED BY <1>1, InvariantKept, PTL

\* The pointer of every segment reads the segment's own bytes while they are
\* among the last DataSize bytes read, through wraps and later reads.
THEOREM SegmentsStayReadable == Spec => []SegmentsReadBack
<1>1. TInv => SegmentsReadBack
  <2> SUFFICES ASSUME TInv, NEW k \in 1 .. SegmentCount, NEW m \in 0 .. sg[k].buf.Count - 1,
                      AbsoluteFilledSize + rd - (sg[k].buf.AbsoluteP + m) <= DataSize
               PROVE  Data[Ring!Mirror(sg[k].buf.Data + m)] = sg[k].buf.AbsoluteP + m
    BY DEF SegmentsReadBack
  <2> DEFINE r == sg[k].buf
             p == r.AbsoluteP + m
             d == AbsoluteFilledSize + rd - p
  <2>1. AbsoluteFilledSize \in Nat /\ RelativePoint \in Int /\ rd \in Nat
    BY DEF TInv, RP!IInv, RP!TypeOK, RP!Cells
  <2>2. InPlace(r, AbsoluteFilledSize, RelativePoint)
    BY DEF TInv, SegmentsInPlace
  <2>3. r \in RP!Range /\ r.AbsoluteP \in Nat /\ r.Count \in Nat
        /\ r.AbsoluteP + r.Count <= AbsoluteFilledSize
    BY <2>2 DEF InPlace, RP!Range
  <2>4. p < AbsoluteFilledSize /\ p \in Nat
    BY <2>1, <2>3
  <2>5. AbsoluteFilledSize - p <= DataSize
    BY <2>1, <2>4, RingAssumption
  <2>6. RP!Mirror(r.Data + m) = RP!Wrapped(RelativePoint - (AbsoluteFilledSize - p))
    BY <2>2, <2>5 DEF InPlace
  <2>7. d \in 1 .. DataSize /\ d <= AbsoluteFilledSize + rd
    BY <2>1, <2>4, RingAssumption
  <2>8. Data[RP!Wrapped(RelativePoint + rd - d)] = AbsoluteFilledSize + rd - d
    BY <2>7 DEF TInv, RP!IInv, RP!WindowIntact
  <2>9. /\ RelativePoint + rd - d = RelativePoint - (AbsoluteFilledSize - p)
        /\ AbsoluteFilledSize + rd - d = p
    BY <2>1, <2>4
  <2>10. Ring!Mirror(r.Data + m) = RP!Mirror(r.Data + m)
    BY DEF Ring!Mirror, RP!Mirror
  <2> HIDE DEF r, d
  <2> QED BY <2>6, <2>8, <2>9, <2>10 DEF r
<1> QED BY <1>1, InvariantKept, PTL

\* No read, resize or key leaves the screen behind: while no redraw is asked
\* for, drawing again would give the screen that is there.
THEOREM NothingStaysUndrawn == Spec => []NothingUndrawn
<1>1. Init => RedrawAsked
  BY DEF Init, Ring!Init, RedrawAsked, NothingUndrawn
<1>2. RedrawAsked /\ [Next]_vars => RedrawAsked'
  BY RedrawKept
<1>3. RedrawAsked => NothingUndrawn
  BY DEF RedrawAsked
<1> QED BY <1>1, <1>2, <1>3, PTL DEF Spec

(***************************************************************************)
(* Segments that cover a stream up to a position                           *)
(***************************************************************************)

FeedsTo(s, h) == {q \in 0 .. Len(s) - 1 : s[q + 1] = "LF" /\ q < h}

\* The positions of segment k, and the line ends among the segments up to k.
Start(g, k)  == g[k].buf.AbsoluteP
Stop(g, k)   == g[k].buf.AbsoluteP + g[k].buf.Count
EndsTo(g, k) == {m \in 1 .. k : g[m].line_end}

Holds(g, k, p) == Start(g, k) <= p /\ p < Stop(g, k)

\* Position p is in a segment, which comes after as many line ends as p does.
Found(s, g, n, p) ==
    \E k \in 1 .. n : /\ Holds(g, k, p)
                      /\ Cardinality(EndsTo(g, k - 1)) = Cardinality(FeedsTo(s, p))

Bounded(g, n) ==
    \A k \in 1 .. n : /\ Start(g, k) \in Nat /\ Stop(g, k) \in Nat
                      /\ Start(g, k) <= Stop(g, k)

\* The n segments of g hold the characters of s before h, in order and in
\* their lines, and nothing else.
Covered(s, g, n, h) ==
    /\ \A k \in 1 .. n : Stop(g, k) <= h
    /\ \A k \in 1 .. n, p \in 0 .. h - 1 : Holds(g, k, p) => s[p + 1] = "glyph"
    /\ \A j, k \in 1 .. n : j < k => Stop(g, j) <= Start(g, k)
    /\ \A p \in 0 .. h - 1 : s[p + 1] = "glyph" => Found(s, g, n, p)
    /\ Cardinality(EndsTo(g, n)) = Cardinality(FeedsTo(s, h))

\* A segment opened at the end, without characters.
LEMMA CoverOpened ==
    ASSUME NEW s, NEW g, NEW g1, NEW n \in Nat, NEW h \in Nat,
           Bounded(g, n), Covered(s, g, n, h),
           \A k \in 1 .. n : g1[k] = g[k],
           Start(g1, n + 1) = h, Stop(g1, n + 1) = h, ~g1[n + 1].line_end
    PROVE  Covered(s, g1, n + 1, h)
<1>1. \A k \in 1 .. n : Start(g1, k) = Start(g, k) /\ Stop(g1, k) = Stop(g, k)
  BY DEF Start, Stop
<1>2. ASSUME NEW m \in 0 .. n PROVE EndsTo(g1, m) = EndsTo(g, m)
  BY <1>2 DEF EndsTo
<1>3. EndsTo(g1, n + 1) = EndsTo(g, n)
  <2>1. \A k \in 1 .. n + 1 : k \in 1 .. n \/ k = n + 1
    OBVIOUS
  <2>2. 1 .. n \subseteq 1 .. n + 1
    OBVIOUS
  <2> QED BY <2>1, <2>2 DEF EndsTo
<1>4. \A p \in Nat : ~Holds(g1, n + 1, p)
  BY DEF Holds
<1>5. \A k \in 1 .. n + 1 : Stop(g1, k) <= h
  BY <1>1 DEF Covered
<1>6. ASSUME NEW k \in 1 .. n + 1, NEW p \in 0 .. h - 1, Holds(g1, k, p)
      PROVE  s[p + 1] = "glyph"
  <2>1. k \in 1 .. n
    BY <1>4, <1>6
  <2>2. Holds(g, k, p)
    BY <1>1, <1>6, <2>1 DEF Holds
  <2> QED BY <2>1, <2>2 DEF Covered
<1>7. ASSUME NEW j \in 1 .. n + 1, NEW k \in 1 .. n + 1, j < k
      PROVE  Stop(g1, j) <= Start(g1, k)
  <2>1. j \in 1 .. n
    BY <1>7
  <2>2. CASE k \in 1 .. n
    <3>1. Stop(g, j) <= Start(g, k)
      BY <1>7, <2>1, <2>2 DEF Covered
    <3> QED BY <1>1, <2>1, <2>2, <3>1
  <2>3. CASE k = n + 1
    BY <1>5, <2>3
  <2> QED BY <2>2, <2>3
<1>8. ASSUME NEW p \in 0 .. h - 1, s[p + 1] = "glyph" PROVE Found(s, g1, n + 1, p)
  <2>1. Found(s, g, n, p)
    BY <1>8 DEF Covered
  <2>2. PICK k \in 1 .. n : /\ Holds(g, k, p)
                            /\ Cardinality(EndsTo(g, k - 1)) = Cardinality(FeedsTo(s, p))
    BY <2>1 DEF Found
  <2>3. k \in 1 .. n + 1 /\ k - 1 \in 0 .. n
    OBVIOUS
  <2>4. Holds(g1, k, p) /\ EndsTo(g1, k - 1) = EndsTo(g, k - 1)
    BY <1>1, <1>2, <2>2, <2>3 DEF Holds
  <2> QED BY <2>2, <2>3, <2>4 DEF Found
<1>9. Cardinality(EndsTo(g1, n + 1)) = Cardinality(FeedsTo(s, h))
  BY <1>3 DEF Covered
<1> QED BY <1>5, <1>6, <1>7, <1>8, <1>9 DEF Covered

\* A character goes into the last segment.
LEMMA CoverGlyph ==
    ASSUME NEW s \in Seq(Kinds), NEW g, NEW g1, NEW n \in Nat \ {0}, NEW h \in Nat,
           Bounded(g, n), Covered(s, g, n, h), s[h + 1] = "glyph",
           \A k \in 1 .. n : Start(g1, k) = Start(g, k) /\ g1[k].line_end = g[k].line_end,
           \A k \in 1 .. n - 1 : Stop(g1, k) = Stop(g, k),
           Stop(g, n) = h, Stop(g1, n) = h + 1, ~g[n].line_end
    PROVE  Covered(s, g1, n, h + 1)
<1>1. \A k \in 1 .. n : k \in 1 .. n - 1 \/ k = n
  OBVIOUS
<1>2. ASSUME NEW m \in 0 .. n PROVE EndsTo(g1, m) = EndsTo(g, m)
  <2>1. \A k \in 1 .. m : g1[k].line_end = g[k].line_end
    OBVIOUS
  <2> QED BY <2>1 DEF EndsTo
<1>3. FeedsTo(s, h + 1) = FeedsTo(s, h)
  <2>1. \A q \in 0 .. Len(s) - 1 : s[q + 1] = "LF" => (q < h <=> q < h + 1)
    OBVIOUS
  <2> QED BY <2>1 DEF FeedsTo
<1>4. \A k \in 1 .. n : Start(g, k) \in Nat /\ Stop(g, k) \in Nat /\ Stop(g, k) <= h
  BY DEF Bounded, Covered
<1>5. ASSUME NEW k \in 1 .. n PROVE Stop(g1, k) <= h + 1
  BY <1>1, <1>4
<1>6. ASSUME NEW k \in 1 .. n, NEW p \in 0 .. h, Holds(g1, k, p)
      PROVE  s[p + 1] = "glyph"
  <2>1. CASE p = h
    BY <2>1
  <2>2. CASE p # h
    <3>1. p \in 0 .. h - 1
      BY <2>2
    <3>2. Holds(g, k, p)
      BY <1>1, <1>4, <1>6, <3>1 DEF Holds
    <3> QED BY <3>1, <3>2 DEF Covered
  <2> QED BY <2>1, <2>2
<1>7. ASSUME NEW j \in 1 .. n, NEW k \in 1 .. n, j < k
      PROVE  Stop(g1, j) <= Start(g1, k)
  <2>1. j \in 1 .. n - 1
    BY <1>7
  <2>2. Stop(g, j) <= Start(g, k)
    BY <1>7 DEF Covered
  <2> QED BY <2>1, <2>2
<1>8. ASSUME NEW p \in 0 .. h, s[p + 1] = "glyph" PROVE Found(s, g1, n, p)
  <2>1. CASE p = h
    <3>1. Holds(g1, n, h)
      BY DEF Bounded, Holds
    <3>2. Cardinality(EndsTo(g1, n - 1)) = Cardinality(FeedsTo(s, h))
      <4>1. EndsTo(g, n - 1) = EndsTo(g, n)
        BY <1>1 DEF EndsTo
      <4>2. EndsTo(g1, n - 1) = EndsTo(g, n - 1)
        BY <1>2
      <4> QED BY <4>1, <4>2 DEF Covered
    <3> QED BY <2>1, <3>1, <3>2 DEF Found
  <2>2. CASE p # h
    <3>1. Found(s, g, n, p)
      BY <1>8, <2>2 DEF Covered
    <3>2. PICK k \in 1 .. n : /\ Holds(g, k, p)
                              /\ Cardinality(EndsTo(g, k - 1)) = Cardinality(FeedsTo(s, p))
      BY <3>1 DEF Found
    <3>3. k - 1 \in 0 .. n
      OBVIOUS
    <3>4. EndsTo(g1, k - 1) = EndsTo(g, k - 1)
      BY <1>2, <3>3
    <3>5. Holds(g1, k, p)
      <4>1. Start(g1, k) = Start(g, k) /\ Stop(g, k) <= Stop(g1, k)
        BY <1>1, <1>4
      <4>2. Stop(g1, k) \in Nat /\ Start(g, k) <= p /\ p < Stop(g, k)
        BY SMTT(30), <1>1, <1>4, <3>2 DEF Holds
      <4> QED BY <1>4, <4>1, <4>2 DEF Holds
    <3> QED BY <3>2, <3>4, <3>5 DEF Found
  <2> QED BY <2>1, <2>2
<1>9. Cardinality(EndsTo(g1, n)) = Cardinality(FeedsTo(s, h + 1))
  BY <1>2, <1>3 DEF Covered
<1>10. (h + 1) - 1 = h
  OBVIOUS
<1> QED BY <1>5, <1>6, <1>7, <1>8, <1>9, <1>10 DEF Covered

\* A line feed, alone or after a carriage return, ends the last segment.
LEMMA CoverLineEnd ==
    ASSUME NEW s \in Seq(Kinds), NEW g, NEW g1, NEW n \in Nat \ {0}, NEW h \in Nat,
           NEW c \in 1 .. 2, h + c <= Len(s), s[h + c] = "LF", c = 2 => s[h + 1] = "CR",
           Bounded(g, n), Covered(s, g, n, h),
           \A k \in 1 .. n : Start(g1, k) = Start(g, k) /\ Stop(g1, k) = Stop(g, k),
           \A k \in 1 .. n - 1 : g1[k].line_end = g[k].line_end,
           ~g[n].line_end, g1[n].line_end
    PROVE  Covered(s, g1, n, h + c)
<1>0. Len(s) \in Nat
  OBVIOUS
<1>1. \A k \in 1 .. n : k \in 1 .. n - 1 \/ k = n
  OBVIOUS
<1>2. ASSUME NEW k \in 1 .. n PROVE EndsTo(g1, k - 1) = EndsTo(g, k - 1)
  <2>1. \A m \in 1 .. k - 1 : g1[m].line_end = g[m].line_end
    OBVIOUS
  <2> QED BY <2>1 DEF EndsTo
<1>3. \A k \in 1 .. n, p \in Nat : Holds(g1, k, p) <=> Holds(g, k, p)
  BY DEF Holds
<1>4. \A k \in 1 .. n : Start(g, k) \in Nat /\ Stop(g, k) \in Nat /\ Stop(g, k) <= h
  BY DEF Bounded, Covered
<1>5. ASSUME NEW p \in 0 .. h + c - 1 PROVE p \in 0 .. h - 1 \/ s[p + 1] # "glyph"
  <2>1. CASE p < h
    BY <2>1
  <2>2. CASE p = h /\ c = 1
    BY <2>2
  <2>3. CASE p = h /\ c = 2
    BY <2>3
  <2>4. CASE p = h + 1 /\ c = 2
    BY <2>4
  <2> QED BY <2>1, <2>2, <2>3, <2>4
<1>6. ASSUME NEW k \in 1 .. n PROVE Stop(g1, k) <= h + c
  BY <1>4
<1>7. ASSUME NEW k \in 1 .. n, NEW p \in 0 .. h + c - 1, Holds(g1, k, p)
      PROVE  s[p + 1] = "glyph"
  <2>1. Holds(g, k, p)
    BY <1>3, <1>7
  <2>2. p \in 0 .. h - 1
    BY <1>4, <2>1 DEF Holds
  <2> QED BY <2>1, <2>2 DEF Covered
<1>8. ASSUME NEW j \in 1 .. n, NEW k \in 1 .. n, j < k
      PROVE  Stop(g1, j) <= Start(g1, k)
  BY <1>8 DEF Covered
<1>9. ASSUME NEW p \in 0 .. h + c - 1, s[p + 1] = "glyph" PROVE Found(s, g1, n, p)
  <2>1. Found(s, g, n, p)
    BY <1>5, <1>9 DEF Covered
  <2>2. PICK k \in 1 .. n : /\ Holds(g, k, p)
                            /\ Cardinality(EndsTo(g, k - 1)) = Cardinality(FeedsTo(s, p))
    BY <2>1 DEF Found
  <2>3. Holds(g1, k, p)
    BY <1>3, <2>2
  <2>4. EndsTo(g1, k - 1) = EndsTo(g, k - 1)
    BY <1>2
  <2> QED BY <2>2, <2>3, <2>4 DEF Found
<1>10. Cardinality(EndsTo(g1, n)) = Cardinality(FeedsTo(s, h + c))
  <2>1. EndsTo(g1, n) = EndsTo(g, n) \cup {n}
    <3>1. \A m \in 1 .. n : g1[m].line_end <=> g[m].line_end \/ m = n
      BY <1>1
    <3> QED BY <3>1 DEF EndsTo
  <2>2. n \notin EndsTo(g, n) /\ IsFiniteSet(EndsTo(g, n))
    <3>1. 1 \in Int /\ n \in Int
      OBVIOUS
    <3>2. IsFiniteSet(1 .. n)
      BY <3>1, FS_Interval
    <3>3. EndsTo(g, n) \subseteq 1 .. n
      BY DEF EndsTo
    <3>4. n \notin EndsTo(g, n)
      BY DEF EndsTo
    <3> QED BY <3>2, <3>3, <3>4, FS_Subset
  <2> DEFINE q == h + c - 1
  <2>3. FeedsTo(s, h + c) = FeedsTo(s, h) \cup {q}
    <3>1. q \in 0 .. Len(s) - 1 /\ s[q + 1] = "LF" /\ q < h + c
      BY <1>0
    <3>2. ASSUME NEW m \in 0 .. Len(s) - 1, s[m + 1] = "LF", m < h + c
          PROVE  m < h \/ m = q
      <4>1. CASE c = 1
        BY <1>0, <3>2, <4>1
      <4>2. CASE c = 2
        BY <1>0, <3>2, <4>2
      <4> QED BY <4>1, <4>2
    <3>3. \A m \in 0 .. Len(s) - 1 : m < h => m < h + c
      BY <1>0
    <3> HIDE DEF q
    <3> QED BY <3>1, <3>2, <3>3 DEF FeedsTo
  <2>4. q \notin FeedsTo(s, h)
    BY DEF FeedsTo
  <2>5. IsFiniteSet(FeedsTo(s, h))
    <3>1. 0 \in Int /\ Len(s) - 1 \in Int
      BY <1>0
    <3>2. IsFiniteSet(0 .. Len(s) - 1)
      BY <3>1, FS_Interval
    <3>3. FeedsTo(s, h) \subseteq 0 .. Len(s) - 1
      BY DEF FeedsTo
    <3> QED BY <3>2, <3>3, FS_Subset
  <2> HIDE DEF q
  <2>6. Cardinality(EndsTo(g1, n)) = Cardinality(EndsTo(g, n)) + 1
    BY <2>1, <2>2, FS_AddElement
  <2>7. Cardinality(FeedsTo(s, h + c)) = Cardinality(FeedsTo(s, h)) + 1
    BY <2>3, <2>4, <2>5, FS_AddElement
  <2> QED BY <2>6, <2>7 DEF Covered
<1> QED BY <1>6, <1>7, <1>8, <1>9, <1>10 DEF Covered

\* A carriage return is passed over.
LEMMA CoverReturn ==
    ASSUME NEW s \in Seq(Kinds), NEW g, NEW n \in Nat, NEW h \in Nat,
           Bounded(g, n), Covered(s, g, n, h), s[h + 1] = "CR"
    PROVE  Covered(s, g, n, h + 1)
<1>1. \A k \in 1 .. n : Start(g, k) \in Nat /\ Stop(g, k) \in Nat /\ Stop(g, k) <= h
  BY DEF Bounded, Covered
<1>2. ASSUME NEW p \in 0 .. h, s[p + 1] = "glyph" PROVE p \in 0 .. h - 1
  <2>1. p # h
    BY <1>2
  <2> QED BY <2>1
<1>3. ASSUME NEW k \in 1 .. n, NEW p \in 0 .. h, Holds(g, k, p)
      PROVE  s[p + 1] = "glyph"
  <2>1. p \in 0 .. h - 1
    BY <1>1, <1>3 DEF Holds
  <2> QED BY <1>3, <2>1 DEF Covered
<1>4. FeedsTo(s, h + 1) = FeedsTo(s, h)
  <2>1. \A q \in 0 .. Len(s) - 1 : s[q + 1] = "LF" => (q < h <=> q < h + 1)
    OBVIOUS
  <2> QED BY <2>1 DEF FeedsTo
<1>5. (h + 1) - 1 = h
  OBVIOUS
<1>6. \A k \in 1 .. n : Stop(g, k) <= h + 1
  BY <1>1
<1> QED BY <1>2, <1>3, <1>4, <1>5, <1>6 DEF Covered, Found

\* More of the stream changes nothing before h.
LEMMA CoverGrown ==
    ASSUME NEW s \in Seq(Kinds), NEW t \in Seq(Kinds), NEW g, NEW n \in Nat,
           NEW h \in 0 .. Len(s), Covered(s, g, n, h),
           Len(s) <= Len(t), \A q \in 1 .. Len(s) : t[q] = s[q]
    PROVE  Covered(t, g, n, h)
<1>0. Len(s) \in Nat /\ Len(t) \in Nat
  OBVIOUS
<1>1. ASSUME NEW p \in 0 .. h PROVE FeedsTo(t, p) = FeedsTo(s, p)
  <2>1. ASSUME NEW q \in 0 .. Len(t) - 1, q < p
        PROVE  q \in 0 .. Len(s) - 1 /\ t[q + 1] = s[q + 1]
    BY <1>0, <2>1
  <2>2. \A q \in 0 .. Len(s) - 1 : q \in 0 .. Len(t) - 1
    BY <1>0
  <2> QED BY <2>1, <2>2 DEF FeedsTo
<1>2. \A p \in 0 .. h - 1 : t[p + 1] = s[p + 1] /\ p \in 0 .. h
  BY <1>0
<1>3. ASSUME NEW p \in 0 .. h - 1, t[p + 1] = "glyph" PROVE Found(t, g, n, p)
  <2>1. Found(s, g, n, p) /\ FeedsTo(t, p) = FeedsTo(s, p)
    BY <1>1, <1>2, <1>3 DEF Covered
  <2> QED BY <2>1 DEF Found
<1>4. FeedsTo(t, h) = FeedsTo(s, h)
  BY <1>0, <1>1
<1> QED BY <1>2, <1>3, <1>4 DEF Covered

(***************************************************************************)
(* The cursor's place in the stream                                        *)
(***************************************************************************)

\* The line ends before h, and the text of line l before h.
LinesTo(s, h)     == Cardinality(FeedsTo(s, h))
TextTo(s, h, l)   == {p \in 0 .. Len(s) - 1 : s[p + 1] = "glyph" /\ p < h /\ LinesTo(s, p) = l}
LengthTo(s, h, l) == Cardinality(TextTo(s, h, l))

\* g counts the rows above each line before h, in a screen w columns wide.
RowsOver(g, s, h, w) ==
    /\ g \in [0 .. LinesTo(s, h) -> Nat]
    /\ g[0] = 0
    /\ \A l \in 1 .. LinesTo(s, h) : g[l] = g[l - 1] + LengthTo(s, h, l - 1) \div w + 1

Clipped(r, b) == IF r > b THEN b ELSE r

\* Column cx and row cy are behind c characters of the last line, which has r
\* rows above it.
Behind(c, r, w, b, cx, cy) == cx = c % w /\ cy = Clipped(r + c \div w, b)

\* Column cx and row cy are where s before h ends; b is the bottom row.
AtEnd(s, h, w, b, cx, cy) ==
    \E g : /\ RowsOver(g, s, h, w)
           /\ Behind(LengthTo(s, h, LinesTo(s, h)), g[LinesTo(s, h)], w, b, cx, cy)

\* The lines and their texts are finite.
LEMMA LinesFinite ==
    ASSUME NEW s \in Seq(Kinds), NEW h \in Nat
    PROVE  /\ IsFiniteSet(FeedsTo(s, h)) /\ LinesTo(s, h) \in Nat
           /\ \A l : IsFiniteSet(TextTo(s, h, l)) /\ LengthTo(s, h, l) \in Nat
           /\ \A p \in 0 .. h : LinesTo(s, p) <= LinesTo(s, h) /\ LinesTo(s, p) \in Nat
<1>1. IsFiniteSet(0 .. Len(s) - 1)
  <2>1. 0 \in Int /\ Len(s) - 1 \in Int
    OBVIOUS
  <2> QED BY <2>1, FS_Interval
<1>2. ASSUME NEW p \in Nat PROVE IsFiniteSet(FeedsTo(s, p)) /\ LinesTo(s, p) \in Nat
  <2>1. FeedsTo(s, p) \subseteq 0 .. Len(s) - 1
    BY DEF FeedsTo
  <2> QED BY <1>1, <2>1, FS_Subset, FS_CardinalityType DEF LinesTo
<1>3. ASSUME NEW l PROVE IsFiniteSet(TextTo(s, h, l)) /\ LengthTo(s, h, l) \in Nat
  <2>1. TextTo(s, h, l) \subseteq 0 .. Len(s) - 1
    BY DEF TextTo
  <2> QED BY <1>1, <2>1, FS_Subset, FS_CardinalityType DEF LengthTo
<1>4. ASSUME NEW p \in 0 .. h PROVE LinesTo(s, p) <= LinesTo(s, h) /\ LinesTo(s, p) \in Nat
  <2>1. FeedsTo(s, p) \subseteq FeedsTo(s, h)
    BY DEF FeedsTo
  <2> QED BY <1>2, <2>1, FS_Subset DEF LinesTo
<1> QED BY <1>2, <1>3, <1>4

\* Quotient and remainder are the ones that the number is made of.
LEMMA Remainder ==
    ASSUME NEW b \in Nat \ {0}, NEW q \in Int, NEW r \in 0 .. b - 1
    PROVE  (q * b + r) \div b = q /\ (q * b + r) % b = r
OBVIOUS

\* Division, with both its results.
LEMMA Division ==
    ASSUME NEW a \in Nat, NEW b \in Nat \ {0}
    PROVE  /\ a \div b \in Nat /\ a % b \in 0 .. b - 1
           /\ a = (a \div b) * b + (a % b)
OBVIOUS

\* One character more moves the cursor the way AdvanceColumn does.
LEMMA BehindNext ==
    ASSUME NEW c \in Nat, NEW r \in Nat, NEW w \in Nat \ {0}, NEW b \in Nat, NEW cx, NEW cy,
           Behind(c, r, w, b, cx, cy)
    PROVE  IF cx + 1 >= w
           THEN Behind(c + 1, r, w, b, 0, IF cy + 1 >= b + 1 THEN b ELSE cy + 1)
           ELSE Behind(c + 1, r, w, b, cx + 1, cy)
<1> DEFINE q == c \div w
           m == c % w
<1>1. /\ q \in Nat /\ m \in 0 .. w - 1 /\ c = q * w + m
  BY Division
<1>2. cx = m /\ cy = Clipped(r + q, b)
  BY DEF Behind
<1> HIDE DEF q, m
<1>3. CASE cx + 1 >= w
  <2>1. c + 1 = (q + 1) * w + 0 /\ 0 \in 0 .. w - 1 /\ q + 1 \in Int
    BY <1>1, <1>2, <1>3
  <2>2. (c + 1) \div w = q + 1 /\ (c + 1) % w = 0
    BY <2>1, Remainder
  <2>3. (IF cy + 1 >= b + 1 THEN b ELSE cy + 1) = Clipped(r + (q + 1), b)
    BY <1>1, <1>2 DEF Clipped
  <2> QED BY <1>3, <2>2, <2>3 DEF Behind
<1>4. CASE ~(cx + 1 >= w)
  <2>1. c + 1 = q * w + (m + 1) /\ m + 1 \in 0 .. w - 1 /\ q \in Int
    BY <1>1, <1>2, <1>4
  <2>2. (c + 1) \div w = q /\ (c + 1) % w = m + 1
    BY <2>1, Remainder
  <2> QED BY <1>2, <1>4, <2>2 DEF Behind
<1> QED BY <1>3, <1>4

\* A line end moves it the way AdvanceRow does.
LEMMA BehindLineEnd ==
    ASSUME NEW c \in Nat, NEW r \in Nat, NEW w \in Nat \ {0}, NEW b \in Nat, NEW cx, NEW cy,
           Behind(c, r, w, b, cx, cy)
    PROVE  Behind(0, r + c \div w + 1, w, b, 0, IF cy + 1 >= b + 1 THEN b ELSE cy + 1)
<1>1. c \div w \in Nat
  BY Division
<1>2. 0 \div w = 0 /\ 0 % w = 0
  OBVIOUS
<1>3. cy = Clipped(r + c \div w, b)
  BY DEF Behind
<1> QED BY <1>1, <1>2, <1>3 DEF Behind, Clipped

\* What a position holds decides what it adds to the lines and their texts.
LEMMA LinesNext ==
    ASSUME NEW s \in Seq(Kinds), NEW h \in 0 .. Len(s) - 1
    PROVE  /\ s[h + 1] = "LF" =>
                /\ LinesTo(s, h + 1) = LinesTo(s, h) + 1
                /\ \A l : TextTo(s, h + 1, l) = TextTo(s, h, l)
           /\ s[h + 1] = "CR" =>
                /\ LinesTo(s, h + 1) = LinesTo(s, h)
                /\ \A l : TextTo(s, h + 1, l) = TextTo(s, h, l)
           /\ s[h + 1] = "glyph" =>
                /\ LinesTo(s, h + 1) = LinesTo(s, h)
                /\ LengthTo(s, h + 1, LinesTo(s, h)) = LengthTo(s, h, LinesTo(s, h)) + 1
                /\ \A l : l # LinesTo(s, h) => TextTo(s, h + 1, l) = TextTo(s, h, l)
<1>0. h \in Nat /\ Len(s) \in Nat /\ h < h + 1
  OBVIOUS
<1>1. \A q \in 0 .. Len(s) - 1 : q < h + 1 <=> q < h \/ q = h
  BY <1>0
<1>2. CASE s[h + 1] = "LF"
  <2>1. FeedsTo(s, h + 1) = FeedsTo(s, h) \cup {h}
    BY <1>0, <1>1, <1>2 DEF FeedsTo
  <2>2. h \notin FeedsTo(s, h) /\ IsFiniteSet(FeedsTo(s, h))
    BY <1>0, LinesFinite DEF FeedsTo
  <2>3. LinesTo(s, h + 1) = LinesTo(s, h) + 1
    BY <2>1, <2>2, FS_AddElement DEF LinesTo
  <2>4. ASSUME NEW l PROVE TextTo(s, h + 1, l) = TextTo(s, h, l)
    BY <1>1, <1>2 DEF TextTo
  <2> QED BY <1>2, <2>3, <2>4
<1>3. ASSUME s[h + 1] # "LF" PROVE LinesTo(s, h + 1) = LinesTo(s, h)
  <2>1. FeedsTo(s, h + 1) = FeedsTo(s, h)
    BY <1>1, <1>3 DEF FeedsTo
  <2> QED BY <2>1 DEF LinesTo
<1>4. CASE s[h + 1] = "CR"
  <2>1. ASSUME NEW l PROVE TextTo(s, h + 1, l) = TextTo(s, h, l)
    BY <1>1, <1>4 DEF TextTo
  <2> QED BY <1>3, <1>4, <2>1
<1>5. CASE s[h + 1] = "glyph"
  <2> DEFINE L == LinesTo(s, h)
  <2>1. TextTo(s, h + 1, L) = TextTo(s, h, L) \cup {h}
    BY <1>0, <1>1, <1>5 DEF TextTo
  <2>2. h \notin TextTo(s, h, L) /\ IsFiniteSet(TextTo(s, h, L))
    <3>1. h \notin TextTo(s, h, L)
      BY <1>0 DEF TextTo
    <3> HIDE DEF L
    <3> QED BY <1>0, <3>1, LinesFinite
  <2>3. LengthTo(s, h + 1, L) = LengthTo(s, h, L) + 1
    BY <2>1, <2>2, FS_AddElement DEF LengthTo
  <2>4. ASSUME NEW l, l # L PROVE TextTo(s, h + 1, l) = TextTo(s, h, l)
    BY <1>1, <1>5, <2>4 DEF TextTo
  <2> QED BY <1>3, <1>5, <2>3, <2>4
<1> QED BY <1>2, <1>4, <1>5

\* A line that has not begun has no text.
LEMMA NextLineEmpty ==
    ASSUME NEW s \in Seq(Kinds), NEW h \in Nat
    PROVE  LengthTo(s, h, LinesTo(s, h) + 1) = 0
<1>1. TextTo(s, h, LinesTo(s, h) + 1) = {}
  <2> SUFFICES ASSUME NEW p \in TextTo(s, h, LinesTo(s, h) + 1) PROVE FALSE
    OBVIOUS
  <2>1. p \in 0 .. h /\ LinesTo(s, p) = LinesTo(s, h) + 1
    BY DEF TextTo
  <2>2. LinesTo(s, p) <= LinesTo(s, h) /\ LinesTo(s, p) \in Nat /\ LinesTo(s, h) \in Nat
    BY <2>1, LinesFinite
  <2> QED BY <2>1, <2>2
<1> QED BY <1>1, FS_EmptySet DEF LengthTo

\* A character moves the end of the stream as AdvanceColumn moves the cursor.
LEMMA EndAtGlyph ==
    ASSUME NEW s \in Seq(Kinds), NEW h \in 0 .. Len(s) - 1, s[h + 1] = "glyph",
           NEW w \in Nat \ {0}, NEW b \in Nat, NEW cx, NEW cy, AtEnd(s, h, w, b, cx, cy)
    PROVE  IF cx + 1 >= w
           THEN AtEnd(s, h + 1, w, b, 0, IF cy + 1 >= b + 1 THEN b ELSE cy + 1)
           ELSE AtEnd(s, h + 1, w, b, cx + 1, cy)
<1> DEFINE L == LinesTo(s, h)
           c == LengthTo(s, h, L)
<1>1. PICK g : RowsOver(g, s, h, w) /\ Behind(c, g[L], w, b, cx, cy)
  BY DEF AtEnd
<1>2. L \in Nat /\ c \in Nat /\ LinesTo(s, h + 1) = L /\ LengthTo(s, h + 1, L) = c + 1
  <2>1. h \in Nat
    OBVIOUS
  <2>2. L \in Nat /\ c \in Nat
    BY <2>1, LinesFinite
  <2> QED BY <2>2, LinesNext
<1>3. \A l : l # L => LengthTo(s, h + 1, l) = LengthTo(s, h, l)
  BY LinesNext DEF LengthTo
<1>4. g[L] \in Nat
  BY <1>1, <1>2 DEF RowsOver
<1>5. RowsOver(g, s, h + 1, w)
  <2>1. \A l \in 1 .. L : l - 1 # L
    BY <1>2
  <2>2. \A l \in 1 .. L : LengthTo(s, h + 1, l - 1) = LengthTo(s, h, l - 1)
    BY <1>3, <2>1
  <2> QED BY <1>1, <1>2, <2>2 DEF RowsOver
<1> HIDE DEF c, L
<1>6. IF cx + 1 >= w
      THEN Behind(c + 1, g[L], w, b, 0, IF cy + 1 >= b + 1 THEN b ELSE cy + 1)
      ELSE Behind(c + 1, g[L], w, b, cx + 1, cy)
  BY <1>1, <1>2, <1>4, BehindNext
<1> QED BY <1>2, <1>5, <1>6 DEF AtEnd

\* A line feed moves it as AdvanceRow does.
LEMMA EndAtFeed ==
    ASSUME NEW s \in Seq(Kinds), NEW h \in 0 .. Len(s) - 1, s[h + 1] = "LF",
           NEW w \in Nat \ {0}, NEW b \in Nat, NEW cx, NEW cy, AtEnd(s, h, w, b, cx, cy)
    PROVE  AtEnd(s, h + 1, w, b, 0, IF cy + 1 >= b + 1 THEN b ELSE cy + 1)
<1> DEFINE L == LinesTo(s, h)
           c == LengthTo(s, h, L)
<1>1. PICK g : RowsOver(g, s, h, w) /\ Behind(c, g[L], w, b, cx, cy)
  BY DEF AtEnd
<1>2. /\ L \in Nat /\ c \in Nat /\ LinesTo(s, h + 1) = L + 1
      /\ \A l : LengthTo(s, h + 1, l) = LengthTo(s, h, l)
  <2>1. h \in Nat
    OBVIOUS
  <2>2. L \in Nat /\ c \in Nat
    BY <2>1, LinesFinite
  <2>3. LinesTo(s, h + 1) = L + 1
    BY LinesNext
  <2>4. \A l : LengthTo(s, h + 1, l) = LengthTo(s, h, l)
    BY LinesNext DEF LengthTo
  <2> QED BY <2>2, <2>3, <2>4
<1>3. LengthTo(s, h + 1, L + 1) = 0
  <2>1. h \in Nat
    OBVIOUS
  <2> QED BY <1>2, <2>1, NextLineEmpty
<1>4. g[L] \in Nat
  BY <1>1, <1>2 DEF RowsOver
<1> DEFINE last == g[L] + c \div w + 1
           f == [l \in 0 .. L + 1 |-> IF l = L + 1 THEN last ELSE g[l]]
<1>5. last \in Nat
  <2>1. c \div w \in Nat
    <3> HIDE DEF c
    <3> QED BY <1>2, Division
  <2> QED BY <1>4, <2>1
<1>6. RowsOver(f, s, h + 1, w)
  <2>1. \A l \in 0 .. L : f[l] = g[l]
    BY <1>2
  <2>2. f[0] = 0 /\ f[L + 1] = last
    BY <1>1, <1>2, <2>1 DEF RowsOver
  <2>3. f \in [0 .. L + 1 -> Nat]
    <3>1. \A l \in 0 .. L + 1 : l = L + 1 \/ l \in 0 .. L
      BY <1>2
    <3>2. \A l \in 0 .. L : g[l] \in Nat
      BY <1>1 DEF RowsOver
    <3> HIDE DEF last
    <3> QED BY <1>5, <3>1, <3>2
  <2> HIDE DEF f
  <2>4. ASSUME NEW l \in 1 .. L + 1
        PROVE  f[l] = f[l - 1] + LengthTo(s, h, l - 1) \div w + 1
    <3>1. CASE l = L + 1
      <4>1. l - 1 = L
        BY <1>2, <3>1
      <4> QED BY <1>2, <2>1, <2>2, <3>1, <4>1
    <3>2. CASE l # L + 1
      <4>1. l \in 1 .. L /\ l - 1 \in 0 .. L /\ l \in 0 .. L
        BY <1>2, <3>2
      <4> QED BY <1>1, <2>1, <4>1 DEF RowsOver
    <3> QED BY <3>1, <3>2
  <2> QED BY <1>2, <2>2, <2>3, <2>4 DEF RowsOver
<1>7. f[L + 1] = last
  BY <1>2
<1> HIDE DEF f, c, L
<1>8. Behind(0, last, w, b, 0, IF cy + 1 >= b + 1 THEN b ELSE cy + 1)
  BY <1>1, <1>2, <1>4, BehindLineEnd
<1> QED BY <1>2, <1>3, <1>6, <1>7, <1>8 DEF AtEnd

\* A carriage return does not move it.
LEMMA EndAtReturn ==
    ASSUME NEW s \in Seq(Kinds), NEW h \in 0 .. Len(s) - 1, s[h + 1] = "CR",
           NEW w, NEW b, NEW cx, NEW cy, AtEnd(s, h, w, b, cx, cy)
    PROVE  AtEnd(s, h + 1, w, b, cx, cy)
<1>1. LinesTo(s, h + 1) = LinesTo(s, h) /\ \A l : LengthTo(s, h + 1, l) = LengthTo(s, h, l)
  BY LinesNext DEF LengthTo
<1> QED BY <1>1 DEF AtEnd, RowsOver

\* Nor does what is read behind it.
LEMMA EndAtGrown ==
    ASSUME NEW s \in Seq(Kinds), NEW t \in Seq(Kinds), NEW h \in 0 .. Len(s),
           Len(s) <= Len(t), \A q \in 1 .. Len(s) : t[q] = s[q],
           NEW w, NEW b, NEW cx, NEW cy, AtEnd(s, h, w, b, cx, cy)
    PROVE  AtEnd(t, h, w, b, cx, cy)
<1>0. Len(s) \in Nat /\ Len(t) \in Nat
  OBVIOUS
<1>1. \A q \in 0 .. Len(t) - 1 : q < h => q \in 0 .. Len(s) - 1 /\ t[q + 1] = s[q + 1]
  BY <1>0
<1>2. \A q \in 0 .. Len(s) - 1 : q \in 0 .. Len(t) - 1
  BY <1>0
<1>3. ASSUME NEW p \in 0 .. h PROVE LinesTo(t, p) = LinesTo(s, p)
  <2>1. \A q \in 0 .. Len(t) - 1 : q < p => q < h
    BY <1>0
  <2>2. FeedsTo(t, p) = FeedsTo(s, p)
    BY <1>0, <1>1, <1>2, <2>1 DEF FeedsTo
  <2> QED BY <2>2 DEF LinesTo
<1>4. ASSUME NEW l PROVE LengthTo(t, h, l) = LengthTo(s, h, l)
  <2>1. \A p \in 0 .. Len(t) - 1 : p < h => p \in 0 .. h
    BY <1>0
  <2>2. TextTo(t, h, l) = TextTo(s, h, l)
    BY <1>1, <1>2, <1>3, <2>1 DEF TextTo
  <2> QED BY <2>2 DEF LengthTo
<1>5. LinesTo(t, h) = LinesTo(s, h)
  BY <1>3
<1> QED BY <1>4, <1>5 DEF AtEnd, RowsOver

(***************************************************************************)
(* The scan                                                                *)
(***************************************************************************)

\* The position of the stream up to which ProcessInput has come.
Handled ==
    IF pc \in {"process", "scan"} /\ buf.Count > 0
    THEN buf.AbsoluteP + (IF pc = "scan" THEN i ELSE 0)
    ELSE AbsoluteFilledSize

\* What is left of the range is the end of what was read; the segment being
\* scanned is still open, and the scan is inside the range or behind it.
RestCurrent ==
    /\ pc \in {"process", "scan"} /\ buf.Count > 0 =>
         buf.Count <= DataSize /\ buf.AbsoluteP + buf.Count = AbsoluteFilledSize
    /\ pc = "scan" =>
         /\ ~sg[SegmentCount].line_end
         /\ buf.Count > 0 => i < buf.Count

CInv ==
    /\ TInv
    /\ RestCurrent
    /\ OnlyLineEnds => Covered(stream, sg, SegmentCount, Handled)

\* The segments made so far have their places in the stream.
LEMMA SegmentsBounded == TypeOK => SegmentCount \in Nat /\ Bounded(sg, SegmentCount)
<1> SUFFICES ASSUME TypeOK PROVE SegmentCount \in Nat /\ Bounded(sg, SegmentCount)
  OBVIOUS
<1>1. sg \in Seq(Segments)
  BY DEF TypeOK, Segments
<1>2. Len(sg) \in Nat
  BY <1>1
<1>3. ASSUME NEW k \in 1 .. Len(sg)
      PROVE  /\ Start(sg, k) \in Nat /\ Stop(sg, k) \in Nat
             /\ Start(sg, k) <= Stop(sg, k)
  <2>1. sg[k] \in Segments
    BY <1>1
  <2>2. sg[k].buf.AbsoluteP \in Nat /\ sg[k].buf.Count \in Nat
    BY <2>1 DEF Segments, Ring!Range
  <2> QED BY <2>2 DEF Start, Stop
<1> QED BY <1>2, <1>3 DEF SegmentCount, Bounded

\* The range's pointer reads the bytes just committed.
LEMMA RestRead ==
    ASSUME TInv, RestCurrent, pc \in {"process", "scan"}, NEW k \in 0 .. buf.Count - 1
    PROVE  /\ buf.AbsoluteP + k \in Positions
           /\ Data[Ring!Mirror(buf.Data + k)] = buf.AbsoluteP + k
<1> DEFINE p == buf.AbsoluteP + k
           d == AbsoluteFilledSize - p
<1>1. /\ AbsoluteFilledSize \in Nat /\ RelativePoint \in Int /\ rd = 0
      /\ InPlace(buf, AbsoluteFilledSize, RelativePoint)
      /\ Len(stream) = AbsoluteFilledSize
  <2>1. writing = FALSE
    BY DEF TInv, ReadingInTty, RP!IInv, RP!TypeOK
  <2>2. rd = 0
    BY <2>1 DEF TInv, RP!IInv, RP!RangeCurrent
  <2> QED BY <2>2 DEF TInv, RP!IInv, RP!TypeOK, RP!Cells, RestInPlace, TypeOK
<1>2. buf.AbsoluteP \in Nat /\ buf.Count \in Nat
  BY <1>1 DEF InPlace, RP!Range
<1>3. buf.Count <= DataSize /\ buf.AbsoluteP + buf.Count = AbsoluteFilledSize
  BY <1>2 DEF RestCurrent
<1>4. d \in 1 .. DataSize /\ p \in 0 .. AbsoluteFilledSize - 1
  BY SMTT(30), <1>1, <1>2, <1>3, RingAssumption
<1>5. RP!Mirror(buf.Data + k) = RP!Wrapped(RelativePoint - d)
  BY <1>1, <1>4 DEF InPlace
<1>6. Data[RP!Wrapped(RelativePoint + rd - d)] = AbsoluteFilledSize + rd - d
  BY <1>1, <1>4 DEF TInv, RP!IInv, RP!WindowIntact
<1>7. RelativePoint + rd - d = RelativePoint - d /\ AbsoluteFilledSize + rd - d = p
  BY <1>1, <1>4
<1>8. Ring!Mirror(buf.Data + k) = RP!Mirror(buf.Data + k)
  BY DEF Ring!Mirror, RP!Mirror
<1> HIDE DEF d
<1>9. Data[Ring!Mirror(buf.Data + k)] = p
  BY <1>5, <1>6, <1>7, <1>8
<1> QED BY <1>1, <1>4, <1>9 DEF Positions

\* What the scan reads through it is the stream.
LEMMA KindRead ==
    ASSUME TInv, RestCurrent, pc \in {"process", "scan"}, NEW k \in 0 .. buf.Count - 1
    PROVE  /\ buf.AbsoluteP + k \in Positions
           /\ ByteAt(buf, k) = stream[buf.AbsoluteP + k + 1]
BY RestRead DEF ByteAt

\* What is left of the range stays the end of what was read.
LEMMA RestKept ==
    ASSUME TInv, RestCurrent, [Next]_vars
    PROVE  RestCurrent'
<1>0. /\ sg \in Seq(Segments) /\ buf \in Ring!Range /\ i \in Nat /\ Len(sg) \in Nat
      /\ buf.Count \in Nat /\ buf.AbsoluteP \in Nat /\ AbsoluteFilledSize \in Nat
      /\ pc = "scan" => Len(sg) > 0
  BY DEF TInv, TypeOK, RestInPlace, Segments, SegmentCount, Ring!TypeOK, Ring!Range
<1>1. CASE OpenSegment
  <2>1. /\ pc = "process" /\ pc' = "scan" /\ buf' = buf /\ i' = 0 /\ buf.Count > 0
        /\ AbsoluteFilledSize' = AbsoluteFilledSize
        /\ sg' = Append(sg, [buf |-> [buf EXCEPT !.Count = 0], line_end |-> FALSE])
    BY <1>1 DEF OpenSegment, ringVars
  <2>2. Len(sg') = Len(sg) + 1 /\ sg'[Len(sg) + 1].line_end = FALSE
    BY <1>0, <2>1
  <2> QED BY <1>0, <2>1, <2>2 DEF RestCurrent, SegmentCount
<1>2. CASE ScanGlyph
  <2>1. /\ pc = "scan" /\ pc' = "scan" /\ i' = i + 1 /\ i < buf.Count
        /\ AbsoluteFilledSize' = AbsoluteFilledSize
        /\ IF i = buf.Count - 1 THEN buf'.Count = 0 ELSE buf' = buf
    BY <1>0, <1>2, ConsumeType DEF ScanGlyph, ringVars
  <2>2. Len(sg') = Len(sg) /\ sg'[Len(sg)].line_end = sg[Len(sg)].line_end
    BY <1>0, <1>2, <2>1 DEF ScanGlyph, SegmentCount
  <2> QED BY <1>0, <2>1, <2>2 DEF RestCurrent, SegmentCount
<1>3. CASE ScanLineEnd
  <2>1. /\ pc = "scan" /\ pc' = "process" /\ i < buf.Count
        /\ AbsoluteFilledSize' = AbsoluteFilledSize
        /\ \E n \in Nat : buf' = Ring!ConsumeCount(buf, n)
    BY <1>0, <1>3 DEF ScanLineEnd, ringVars
  <2>2. PICK n \in Nat : buf' = Ring!ConsumeCount(buf, n)
    BY <2>1
  <2>3. buf'.Count > 0 => buf'.Count <= buf.Count
                          /\ buf'.AbsoluteP + buf'.Count = buf.AbsoluteP + buf.Count
    BY <1>0, <2>2 DEF Ring!ConsumeCount
  <2>4. buf'.Count \in Nat
    BY <1>0, <2>2 DEF Ring!ConsumeCount
  <2> QED BY <1>0, <2>1, <2>3, <2>4, RingAssumption DEF RestCurrent
<1>4. CASE ScanReturn
  <2>1. pc' = "process" /\ buf'.Count = 0
    BY <1>0, <1>4 DEF ScanReturn, Ring!Range
  <2> QED BY <2>1 DEF RestCurrent
<1>5. CASE ScanDone
  BY <1>0, <1>5 DEF ScanDone, RestCurrent, ringVars
<1>6. CASE EndRead
  <2>1. CASE rd = 0
    <3>1. pc' = "draw"
      BY <1>6, <2>1 DEF EndRead
    <3> QED BY <3>1 DEF RestCurrent
  <2>2. CASE rd # 0
    <3>1. /\ pc' = "process" /\ buf' = [x EXCEPT !.Count = rd]
          /\ AbsoluteFilledSize' = AbsoluteFilledSize + rd /\ writing
      BY <1>6, <2>2 DEF EndRead, Ring!EndRead, Ring!CommitWrite
    <3>2. x = RP!GetNextWritableRange /\ rd <= DataSize
      BY <3>1 DEF TInv, RP!IInv, RP!RangeCurrent
    <3>3. buf'.Count = rd /\ buf'.AbsoluteP = AbsoluteFilledSize
      BY <3>1, <3>2 DEF RP!GetNextWritableRange
    <3> QED BY <3>1, <3>2, <3>3 DEF RestCurrent
  <2> QED BY <2>1, <2>2
<1>7. CASE pc' \in {"events", "tty", "draw"}
  BY <1>7 DEF RestCurrent
<1>8. CASE UNCHANGED <<pc, buf, i, sg, AbsoluteFilledSize>>
  BY <1>8 DEF RestCurrent, SegmentCount
<1> QED
  BY <1>1, <1>2, <1>3, <1>4, <1>5, <1>6, <1>7, <1>8
  DEF Next, vars, ringVars, HandleResize, EventsDone, BeginRead, NothingToRead, ReadTty,
      ProcessInput, ProcessDone, Draw, Ring!BeginRead, Ring!ReadTty

\* What is read is added to the stream, and nothing else changes it.
LEMMA StreamGrows ==
    ASSUME TypeOK, [Next]_vars
    PROVE  /\ stream \in Seq(Kinds) /\ stream' \in Seq(Kinds) /\ Len(stream) <= Len(stream')
           /\ \A q \in 1 .. Len(stream) : stream'[q] = stream[q]
<1>0. stream \in Seq(Kinds)
  BY DEF TypeOK
<1>1. CASE ReadTty
  <2>1. PICK chunk \in Chunks : stream' = stream \o chunk
    BY <1>1 DEF ReadTty
  <2>2. chunk \in Seq(Kinds)
    BY ChunksAssumption
  <2> QED BY <1>0, <2>1, <2>2
<1>2. CASE UNCHANGED stream
  BY <1>0, <1>2
<1> QED
  BY <1>1, <1>2
  DEF Next, vars, HandleResize, EventsDone, BeginRead, NothingToRead, EndRead,
      ProcessInput, OpenSegment, ScanGlyph, ScanLineEnd, ScanReturn, ScanDone,
      ProcessDone, Draw

\* If the longer stream has no carriage return alone, the shorter had none.
LEMMA LineEndsKept ==
    ASSUME TypeOK, [Next]_vars, OnlyLineEnds'
    PROVE  OnlyLineEnds
<1>1. /\ Len(stream) \in Nat /\ Len(stream') \in Nat /\ Len(stream) <= Len(stream')
      /\ \A q \in 1 .. Len(stream) : stream'[q] = stream[q]
  BY StreamGrows
<1> SUFFICES ASSUME NEW p \in 0 .. Len(stream) - 1, stream[p + 1] = "CR",
                    p + 1 \in 0 .. Len(stream) - 1
             PROVE  stream[p + 2] = "LF"
  BY <1>1 DEF OnlyLineEnds, Positions, Kind
<1>2. /\ p \in 0 .. Len(stream') - 1 /\ p + 1 \in 0 .. Len(stream') - 1
      /\ stream'[p + 1] = stream[p + 1] /\ stream'[p + 2] = stream[p + 2]
  BY <1>1
<1>3. stream'[(p + 1) + 1] = "LF"
  BY <1>2 DEF OnlyLineEnds, Positions, Kind
<1> QED BY <1>2, <1>3

\* What the scan meets where it has come to, and how far each step goes.
LEMMA ScanMoves ==
    ASSUME TInv, RestCurrent, OnlyLineEnds, ScanGlyph \/ ScanLineEnd \/ ScanReturn
    PROVE  /\ Handled = buf.AbsoluteP + i /\ Handled \in 0 .. Len(stream) - 1
           /\ ScanGlyph => stream[Handled + 1] = "glyph" /\ Handled' = Handled + 1
           /\ ScanReturn => stream[Handled + 1] = "CR" /\ Handled' = Handled + 1
           /\ ScanLineEnd =>
                \E c \in 1 .. 2 :
                   /\ Handled + c <= Len(stream) /\ stream[Handled + c] = "LF"
                   /\ c = 2 => stream[Handled + 1] = "CR"
                   /\ Handled' = Handled + c
<1> DEFINE h == buf.AbsoluteP + i
<1>0. /\ buf \in Ring!Range /\ i \in Nat /\ stream \in Seq(Kinds)
      /\ buf.Count \in Nat /\ buf.AbsoluteP \in Nat /\ AbsoluteFilledSize \in Nat
      /\ pc = "scan" /\ i < buf.Count /\ AbsoluteFilledSize' = AbsoluteFilledSize
      /\ Len(stream) = AbsoluteFilledSize + rd /\ rd \in Nat
  BY DEF TInv, TypeOK, Ring!TypeOK, Ring!Range, ScanGlyph, ScanLineEnd, ScanReturn, ringVars
<1>1. buf.AbsoluteP + buf.Count = AbsoluteFilledSize
  BY <1>0 DEF RestCurrent
<1>2. Handled = h /\ h \in 0 .. Len(stream) - 1
  BY <1>0, <1>1 DEF Handled
<1>3. ASSUME NEW k \in 0 .. buf.Count - 1
      PROVE  ByteAt(buf, k) = stream[buf.AbsoluteP + k + 1] /\ buf.AbsoluteP + k \in Positions
  BY <1>0, KindRead
<1>4. CASE ScanGlyph
  <2>1. stream[h + 1] = "glyph"
    BY <1>0, <1>3, <1>4 DEF ScanGlyph
  <2>2. Handled' = h + 1
    <3>1. pc' = "scan" /\ i' = i + 1
      BY <1>0, <1>4 DEF ScanGlyph
    <3>2. CASE i = buf.Count - 1
      <4>1. buf'.Count = 0
        BY <1>0, <1>4, <3>2, ConsumeType DEF ScanGlyph
      <4> QED BY <1>0, <1>1, <3>2, <4>1 DEF Handled
    <3>3. CASE i # buf.Count - 1
      <4>1. buf' = buf
        BY <1>4, <3>3 DEF ScanGlyph
      <4> QED BY <1>0, <3>1, <4>1 DEF Handled
    <3> QED BY <3>2, <3>3
  <2>3. ~ScanLineEnd /\ ~ScanReturn
    BY <1>4 DEF ScanGlyph, ScanLineEnd, ScanReturn
  <2> QED BY <1>2, <2>1, <2>2, <2>3
<1>5. CASE ScanLineEnd
  <2>1. PICK c \in 1 .. 2 :
          /\ i + c <= buf.Count /\ buf' = Ring!ConsumeCount(buf, i + c)
          /\ ByteAt(buf, i + c - 1) = "LF" /\ (c = 2 => ByteAt(buf, i) = "CR")
    <3>1. CASE ByteAt(buf, i) = "LF" /\ buf' = Ring!ConsumeCount(buf, i + 1)
      BY <1>0, <3>1
    <3>2. CASE /\ ByteAt(buf, i) = "CR" /\ i + 1 < buf.Count
               /\ ByteAt(buf, i + 1) = "LF" /\ buf' = Ring!ConsumeCount(buf, i + 2)
      <4>1. i + 2 - 1 = i + 1 /\ i + 2 <= buf.Count
        BY <1>0, <3>2
      <4> QED BY <3>2, <4>1
    <3> QED BY <1>5, <3>1, <3>2 DEF ScanLineEnd
  <2>2. stream[h + c] = "LF" /\ (c = 2 => stream[h + 1] = "CR")
    <3>1. i + c - 1 \in 0 .. buf.Count - 1 /\ i \in 0 .. buf.Count - 1
      BY <1>0, <2>1
    <3>2. ByteAt(buf, i + c - 1) = stream[buf.AbsoluteP + (i + c - 1) + 1]
      BY <1>3, <3>1
    <3>3. ByteAt(buf, i) = stream[buf.AbsoluteP + i + 1]
      BY <1>3, <3>1
    <3>4. buf.AbsoluteP + (i + c - 1) + 1 = h + c
      BY <1>0
    <3> QED BY <2>1, <3>2, <3>3, <3>4
  <2>3. h + c <= Len(stream)
    BY <1>0, <1>1, <2>1
  <2>4. Handled' = h + c
    <3>1. pc' = "process" /\ c \in Nat
      BY <1>5 DEF ScanLineEnd
    <3>2. buf'.Count = buf.Count - (i + c) /\ buf'.AbsoluteP = buf.AbsoluteP + (i + c)
      BY <1>0, <2>1, <3>1 DEF Ring!ConsumeCount
    <3>3. CASE i + c = buf.Count
      <4>1. ~(buf'.Count > 0)
        BY <1>0, <3>1, <3>2, <3>3
      <4>2. Handled' = AbsoluteFilledSize
        BY <1>0, <4>1 DEF Handled
      <4> QED BY <1>0, <1>1, <3>1, <3>3, <4>2
    <3>4. CASE i + c # buf.Count
      <4>1. buf'.Count > 0
        BY <1>0, <2>1, <3>1, <3>2, <3>4
      <4>2. Handled' = buf'.AbsoluteP + 0
        BY <3>1, <4>1 DEF Handled
      <4> QED BY <1>0, <3>1, <3>2, <4>2
    <3> QED BY <3>3, <3>4
  <2>5. ~ScanGlyph /\ ~ScanReturn
    BY <1>5 DEF ScanGlyph, ScanLineEnd, ScanReturn
  <2>6. Handled = buf.AbsoluteP + i
    BY <1>2
  <2>7. /\ Handled + c <= Len(stream) /\ stream[Handled + c] = "LF"
        /\ c = 2 => stream[Handled + 1] = "CR"
        /\ Handled' = Handled + c
    BY <1>2, <2>2, <2>3, <2>4
  <2> HIDE DEF h
  <2> QED BY <1>2, <2>5, <2>6, <2>7
<1>6. CASE ScanReturn
  <2>1. stream[h + 1] = "CR"
    BY SMTT(30), <1>0, <1>3, <1>6 DEF ScanReturn
  <2>2. i = buf.Count - 1
    <3> SUFFICES ASSUME i + 1 < buf.Count PROVE ByteAt(buf, i + 1) = "LF"
      BY <1>0, <1>6 DEF ScanReturn
    <3>1. i + 1 \in 0 .. buf.Count - 1 /\ i \in 0 .. buf.Count - 1
      BY <1>0
    <3>2. /\ ByteAt(buf, i + 1) = stream[buf.AbsoluteP + (i + 1) + 1]
          /\ buf.AbsoluteP + (i + 1) \in Positions /\ h \in Positions
      BY <1>3, <3>1
    <3>3. buf.AbsoluteP + (i + 1) = h + 1
      BY <1>0
    <3>4. stream[(h + 1) + 1] = "LF"
      <4> HIDE DEF h
      <4> QED BY <2>1, <3>2, <3>3 DEF OnlyLineEnds, Kind
    <3> QED BY <3>2, <3>3, <3>4
  <2>3. Handled' = h + 1
    <3>1. buf'.Count = 0
      BY <1>0, <1>6 DEF ScanReturn, Ring!Range
    <3> QED BY <1>0, <1>1, <2>2, <3>1 DEF Handled
  <2>4. ~ScanGlyph /\ ~ScanLineEnd
    BY <1>6 DEF ScanGlyph, ScanLineEnd, ScanReturn
  <2> QED BY <1>2, <2>1, <2>3, <2>4
<1> QED BY <1>4, <1>5, <1>6

\* The other steps leave the scan where it is.
LEMMA OthersStay ==
    ASSUME TInv, RestCurrent, [Next]_vars, ~(ScanGlyph \/ ScanLineEnd \/ ScanReturn)
    PROVE  Handled' = Handled /\ Handled \in 0 .. Len(stream)
<1>0. /\ buf \in Ring!Range
      /\ buf.Count \in Nat /\ buf.AbsoluteP \in Nat /\ AbsoluteFilledSize \in Nat
      /\ rd \in Nat /\ Len(stream) = AbsoluteFilledSize + rd /\ i \in Nat
  BY DEF TInv, TypeOK, Ring!TypeOK, Ring!Range
<1>1. Handled \in 0 .. Len(stream)
  <2>1. CASE pc \in {"process", "scan"} /\ buf.Count > 0
    <3>1. /\ buf.AbsoluteP + buf.Count = AbsoluteFilledSize
          /\ pc = "scan" => i < buf.Count
      BY <2>1 DEF RestCurrent
    <3> QED BY <1>0, <2>1, <3>1 DEF Handled
  <2>2. CASE ~(pc \in {"process", "scan"} /\ buf.Count > 0)
    BY <1>0, <2>2 DEF Handled
  <2> QED BY <2>1, <2>2
<1>2. CASE OpenSegment
  BY <1>0, <1>1, <1>2 DEF OpenSegment, Handled
<1>3. CASE EndRead
  <2>1. Handled = AbsoluteFilledSize
    BY <1>3 DEF EndRead, Handled
  <2>2. Handled' = AbsoluteFilledSize
    <3>1. CASE rd = 0
      BY <1>3, <3>1 DEF EndRead, Ring!EndRead, Handled
    <3>2. CASE rd # 0
      <4>1. pc' = "process" /\ buf' = [x EXCEPT !.Count = rd] /\ writing
        BY <1>3, <3>2 DEF EndRead, Ring!EndRead
      <4>2. x = RP!GetNextWritableRange
        BY <4>1 DEF TInv, RP!IInv, RP!RangeCurrent
      <4>3. buf'.Count = rd /\ buf'.AbsoluteP = AbsoluteFilledSize
        BY <4>1, <4>2 DEF RP!GetNextWritableRange
      <4> QED BY <1>0, <3>2, <4>1, <4>3 DEF Handled
    <3> QED BY <3>1, <3>2
  <2> QED BY <1>1, <2>1, <2>2
<1>4. CASE ScanDone
  <2>1. /\ ~(buf.Count > 0) /\ buf' = buf
        /\ AbsoluteFilledSize' = AbsoluteFilledSize
    BY <1>0, <1>4 DEF ScanDone, RestCurrent, ringVars
  <2> QED BY <1>1, <2>1 DEF Handled
<1>5. CASE /\ AbsoluteFilledSize' = AbsoluteFilledSize /\ buf' = buf
           /\ \/ pc \notin {"process", "scan"} /\ pc' \notin {"process", "scan"}
              \/ ~(buf.Count > 0)
              \/ pc' = pc /\ i' = i
  BY <1>1, <1>5 DEF Handled
<1> QED
  BY <1>0, <1>2, <1>3, <1>4, <1>5
  DEF Next, vars, ringVars, HandleResize, EventsDone, BeginRead, NothingToRead, ReadTty,
      ProcessInput, ProcessDone, Draw, Ring!BeginRead, Ring!ReadTty

\* The steps that move the scan, seen on the stream.
LEMMA ScanCovers ==
    ASSUME CInv, OnlyLineEnds, ScanGlyph \/ ScanLineEnd \/ ScanReturn
    PROVE  Covered(stream, sg', SegmentCount', Handled')
<1> DEFINE n == Len(sg)
           h == Handled
<1>0. /\ sg \in Seq(Segments) /\ buf \in Ring!Range /\ i \in Nat /\ n \in Nat \ {0}
      /\ buf.Count \in Nat /\ buf.AbsoluteP \in Nat /\ pc = "scan" /\ i < buf.Count
      /\ stream \in Seq(Kinds)
  BY DEF CInv, TInv, TypeOK, RestInPlace, Segments, SegmentCount, Ring!TypeOK, Ring!Range,
         ScanGlyph, ScanLineEnd, ScanReturn
<1>1. ~sg[n].line_end
  BY <1>0 DEF CInv, RestCurrent, SegmentCount
<1>2. h = buf.AbsoluteP + i /\ h \in Nat
  BY ScanMoves DEF CInv
<1>3. Start(sg, n) = buf.AbsoluteP /\ Stop(sg, n) = h
  <2>1. sg[n].buf = [buf EXCEPT !.Count = i]
    BY <1>0 DEF CInv, TInv, RestInPlace, SegmentCount
  <2> QED BY <1>0, <1>2, <2>1 DEF Start, Stop, Ring!Range
<1>4. Bounded(sg, n) /\ Covered(stream, sg, n, h)
  BY SegmentsBounded DEF CInv, TInv, SegmentCount
<1>5. CASE ScanGlyph
  <2>1. stream[h + 1] = "glyph" /\ Handled' = h + 1
    BY <1>5, ScanMoves DEF CInv
  <2>2. /\ sg' \in Seq(Segments) /\ Len(sg') = n
        /\ sg'[n].buf = [sg[n].buf EXCEPT !.Count = @ + 1]
        /\ \A k \in 1 .. n - 1 : sg'[k] = sg[k]
    BY <1>0, <1>5, SegmentSteps
  <2>3. sg'[n].line_end = sg[n].line_end
    BY <1>0, <1>5 DEF ScanGlyph, SegmentCount
  <2>4. Start(sg', n) = Start(sg, n) /\ Stop(sg', n) = h + 1
    <3>1. sg[n].buf \in Ring!Range
      <4>1. sg[n] \in Segments
        BY <1>0
      <4> QED BY <4>1 DEF Segments
    <3> HIDE DEF h
    <3> QED BY <1>0, <1>2, <1>3, <2>2, <3>1 DEF Start, Stop, Ring!Range
  <2>5. \A k \in 1 .. n - 1 : /\ Start(sg', k) = Start(sg, k) /\ Stop(sg', k) = Stop(sg, k)
                              /\ sg'[k].line_end = sg[k].line_end
    BY <2>2 DEF Start, Stop
  <2>6. \A k \in 1 .. n : /\ Start(sg', k) = Start(sg, k)
                          /\ sg'[k].line_end = sg[k].line_end
    BY <1>0, <2>3, <2>4, <2>5
  <2> HIDE DEF n, h
  <2>7. Covered(stream, sg', n, h + 1)
    BY <1>0, <1>1, <1>2, <1>3, <1>4, <2>1, <2>4, <2>5, <2>6, CoverGlyph
  <2> QED BY <2>1, <2>2, <2>7 DEF SegmentCount
<1>6. CASE ScanLineEnd
  <2>1. PICK c \in 1 .. 2 :
          /\ h + c <= Len(stream) /\ stream[h + c] = "LF" /\ (c = 2 => stream[h + 1] = "CR")
          /\ Handled' = h + c
    BY <1>6, ScanMoves DEF CInv
  <2>2. Len(sg') = n /\ \A k \in 1 .. n : sg'[k].buf = sg[k].buf
    BY <1>0, <1>6, SegmentSteps
  <2>3. sg'[n].line_end /\ \A k \in 1 .. n - 1 : sg'[k].line_end = sg[k].line_end
    <3> DEFINE s == [sg[n] EXCEPT !.line_end = TRUE]
    <3>1. sg' = [sg EXCEPT ![n] = s]
      BY <1>6 DEF ScanLineEnd, SegmentCount
    <3>2. n \in 1 .. n /\ sg[n] \in Segments
      BY <1>0, ElementOfSeq, LenProperties
    <3>3. s.line_end
      BY <3>2 DEF Segments
    <3> HIDE DEF s
    <3>4. sg'[n] = s /\ \A k \in 1 .. n - 1 : sg'[k] = sg[k]
      BY <1>0, <3>1, <3>2, LenProperties
    <3> QED BY <3>3, <3>4
  <2>4. \A k \in 1 .. n : Start(sg', k) = Start(sg, k) /\ Stop(sg', k) = Stop(sg, k)
    BY <2>2 DEF Start, Stop
  <2> HIDE DEF n, h
  <2>5. Covered(stream, sg', n, h + c)
    BY <1>0, <1>1, <1>2, <1>4, <2>1, <2>3, <2>4, CoverLineEnd
  <2> QED BY <2>1, <2>2, <2>5 DEF SegmentCount
<1>7. CASE ScanReturn
  <2>1. stream[h + 1] = "CR" /\ Handled' = h + 1 /\ sg' = sg
    BY <1>7, ScanMoves DEF CInv, ScanReturn
  <2> HIDE DEF h
  <2>2. Covered(stream, sg, n, h + 1)
    BY <1>0, <1>2, <1>4, <2>1, CoverReturn
  <2> QED BY <2>1, <2>2 DEF SegmentCount
<1> QED BY <1>5, <1>6, <1>7

\* The other steps leave the segments and their place in the stream alone, or
\* open a segment.
LEMMA OthersCover ==
    ASSUME CInv, [Next]_vars, OnlyLineEnds, ~(ScanGlyph \/ ScanLineEnd \/ ScanReturn)
    PROVE  Covered(stream', sg', SegmentCount', Handled')
<1> DEFINE n == Len(sg)
<1>0. /\ sg \in Seq(Segments) /\ buf \in Ring!Range /\ n \in Nat
      /\ buf.Count \in Nat /\ buf.AbsoluteP \in Nat
  BY DEF CInv, TInv, TypeOK, Segments, Ring!TypeOK, Ring!Range
<1>1. Bounded(sg, n) /\ Covered(stream, sg, n, Handled)
  BY SegmentsBounded DEF CInv, TInv, SegmentCount
<1>2. Handled' = Handled /\ Handled \in 0 .. Len(stream)
  BY OthersStay DEF CInv
<1>3. CASE OpenSegment
  <2>1. Handled = buf.AbsoluteP
    BY <1>0, <1>3 DEF OpenSegment, Handled
  <2>2. /\ Len(sg') = n + 1 /\ sg'[n + 1].buf = [buf EXCEPT !.Count = 0]
        /\ \A k \in 1 .. n : sg'[k] = sg[k]
    BY <1>0, <1>3, SegmentSteps
  <2>3. sg'[n + 1].line_end = FALSE /\ stream' = stream
    BY <1>0, <1>3 DEF OpenSegment
  <2>4. Start(sg', n + 1) = Handled /\ Stop(sg', n + 1) = Handled
    BY <1>0, <2>1, <2>2 DEF Start, Stop, Ring!Range
  <2> HIDE DEF n
  <2>5. Handled \in Nat
    BY <1>2
  <2>6. Covered(stream, sg', n + 1, Handled)
    BY <1>0, <1>1, <2>2, <2>3, <2>4, <2>5, CoverOpened
  <2> QED BY <1>2, <2>2, <2>3, <2>6 DEF SegmentCount
<1>4. CASE sg' = sg
  <2>1. /\ stream \in Seq(Kinds) /\ stream' \in Seq(Kinds) /\ Len(stream) <= Len(stream')
        /\ \A q \in 1 .. Len(stream) : stream'[q] = stream[q]
    BY StreamGrows DEF CInv, TInv
  <2> HIDE DEF n
  <2>2. Covered(stream', sg, n, Handled)
    BY <1>0, <1>1, <1>2, <2>1, CoverGrown
  <2> QED BY <1>2, <1>4, <2>2 DEF SegmentCount, n
<1> QED
  BY <1>3, <1>4
  DEF Next, vars, HandleResize, EventsDone, BeginRead, NothingToRead, ReadTty, EndRead,
      ProcessInput, ScanDone, ProcessDone, Draw

(***************************************************************************)
(* The segments                                                            *)
(***************************************************************************)

\* What the invariant says between two turns of the loop is the property.
LEMMA CoveredMeansProperty == CInv => SegmentsCoverStream
<1> SUFFICES ASSUME CInv, Idle, OnlyLineEnds PROVE SegmentsCoverStream
  BY DEF SegmentsCoverStream
<1> DEFINE n == SegmentCount
           At(p) == {k \in 1 .. n : /\ sg[k].buf.AbsoluteP <= p
                                    /\ p < sg[k].buf.AbsoluteP + sg[k].buf.Count}
<1>1. writing = FALSE
  BY DEF CInv, TInv, ReadingInTty, Idle, RP!IInv, RP!TypeOK
<1>2. rd = 0 /\ AbsoluteFilledSize \in Nat /\ Len(stream) = AbsoluteFilledSize + rd
  BY <1>1 DEF CInv, TInv, RP!IInv, RP!RangeCurrent, RP!TypeOK, TypeOK
<1>3. Handled = Len(stream) /\ Positions = 0 .. Handled - 1
  BY <1>2 DEF Handled, Idle, Positions
<1>4. Covered(stream, sg, n, Handled) /\ n \in Nat /\ Bounded(sg, n)
  BY SegmentsBounded DEF CInv, TInv
<1>5. \A p \in Positions, k \in 1 .. n : k \in At(p) <=> Holds(sg, k, p)
  BY DEF Holds, Start, Stop
<1>6. ASSUME NEW p \in Positions PROVE Line(p) = Cardinality(FeedsTo(stream, p))
  <2>1. {q \in Feeds : q < p} = FeedsTo(stream, p)
    BY DEF FeedsTo, Feeds, Kind, Positions
  <2> QED BY <2>1 DEF Line
<1>7. ASSUME NEW p \in Glyphs
      PROVE  \E k \in 1 .. n :
               /\ At(p) = {k}
               /\ Cardinality({m \in 1 .. k - 1 : sg[m].line_end}) = Line(p)
  <2>1. p \in Positions /\ stream[p + 1] = "glyph"
    BY DEF Glyphs, Kind
  <2>2. Found(stream, sg, n, p)
    BY <1>3, <1>4, <2>1 DEF Covered
  <2>3. PICK k \in 1 .. n :
          /\ Holds(sg, k, p)
          /\ Cardinality(EndsTo(sg, k - 1)) = Cardinality(FeedsTo(stream, p))
    BY <2>2 DEF Found
  <2>4. ASSUME NEW j \in 1 .. n, Holds(sg, j, p) PROVE j = k
    <3>1. /\ Start(sg, j) \in Nat /\ Stop(sg, j) \in Nat
          /\ Start(sg, k) \in Nat /\ Stop(sg, k) \in Nat /\ p \in Int
      BY <1>4, <2>1 DEF Bounded, Positions
    <3>2. j < k => Stop(sg, j) <= Start(sg, k)
      BY <1>4 DEF Covered
    <3>3. k < j => Stop(sg, k) <= Start(sg, j)
      BY <1>4 DEF Covered
    <3>4. ~(j < k) /\ ~(k < j)
      BY <2>3, <2>4, <3>1, <3>2, <3>3 DEF Holds
    <3>5. j \in Int /\ k \in Int
      OBVIOUS
    <3> QED BY <3>4, <3>5
  <2>5. At(p) = {k}
    <3>1. \A j \in 1 .. n : j \in At(p) <=> j = k
      BY <1>5, <2>1, <2>3, <2>4
    <3>2. At(p) \subseteq 1 .. n
      OBVIOUS
    <3> HIDE DEF At
    <3> QED BY <3>1, <3>2
  <2>6. Cardinality({m \in 1 .. k - 1 : sg[m].line_end}) = Line(p)
    BY <1>6, <2>1, <2>3 DEF EndsTo
  <2> QED BY <2>5, <2>6
<1>8. ASSUME NEW p \in Positions, p \notin Glyphs PROVE At(p) = {}
  <2>1. stream[p + 1] # "glyph"
    BY <1>8 DEF Glyphs, Kind
  <2>2. \A k \in 1 .. n : ~Holds(sg, k, p)
    BY <1>3, <1>4, <2>1 DEF Covered
  <2> QED BY <1>5, <2>2
<1> QED BY <1>7, <1>8 DEF SegmentsCoverStream

\* The segments cover the stream as far as it is handled.
THEOREM CoverKept == Spec => []CInv
<1>1. Init => CInv
  <2> SUFFICES ASSUME Init PROVE CInv
    OBVIOUS
  <2>1. sg = <<>> /\ Len(sg) = 0 /\ stream = <<>> /\ Len(stream) = 0
        /\ pc = "events" /\ AbsoluteFilledSize = 0
    BY EmptySeq DEF Init, Ring!Init
  <2>2. Handled = 0
    BY <2>1 DEF Handled
  <2>3. EndsTo(sg, 0) = {} /\ FeedsTo(stream, 0) = {}
    BY <2>1 DEF EndsTo, FeedsTo
  <2>4. Covered(stream, sg, 0, 0)
    BY <2>3 DEF Covered
  <2>5. RestCurrent
    BY <2>1 DEF RestCurrent
  <2> QED BY <2>1, <2>2, <2>4, <2>5, InitTInv DEF CInv, SegmentCount
<1>2. CInv /\ [Next]_vars => CInv'
  <2> SUFFICES ASSUME CInv, [Next]_vars PROVE CInv'
    OBVIOUS
  <2>1. TInv'
    BY RingKept, TypeKept, ReadingKept, PlacesKept, CursorKept DEF CInv, TInv
  <2>2. RestCurrent'
    BY RestKept DEF CInv
  <2>3. ASSUME OnlyLineEnds' PROVE Covered(stream, sg, SegmentCount, Handled)'
    <3>1. OnlyLineEnds
      BY <2>3, LineEndsKept DEF CInv, TInv
    <3>2. CASE ScanGlyph \/ ScanLineEnd \/ ScanReturn
      <4>1. stream' = stream
        BY <3>2 DEF ScanGlyph, ScanLineEnd, ScanReturn
      <4>2. Covered(stream, sg', SegmentCount', Handled')
        BY <3>1, <3>2, ScanCovers
      <4> QED BY <4>1, <4>2 DEF Covered, Found, FeedsTo
    <3>3. CASE ~(ScanGlyph \/ ScanLineEnd \/ ScanReturn)
      <4>1. Covered(stream', sg', SegmentCount', Handled')
        BY <3>1, <3>3, OthersCover
      <4> QED BY <4>1
    <3> QED BY <3>2, <3>3
  <2> QED BY <2>1, <2>2, <2>3 DEF CInv
<1> QED BY <1>1, <1>2, PTL DEF Spec

\* ProcessInput reads committed bytes, and just those that the visit has read
\* and that are still to be handled, through a pointer that stays right over
\* every wrap.
THEOREM OnlyCommittedProcessed == Spec => []ProcessesCommitted
<1>1. CInv => ProcessesCommitted
  <2> SUFFICES ASSUME CInv, pc \in {"process", "scan"}, buf.Count > 0
               PROVE  /\ buf.AbsoluteP + buf.Count = AbsoluteFilledSize
                      /\ \A k \in 0 .. buf.Count - 1 :
                           Data[Ring!Mirror(buf.Data + k)] = buf.AbsoluteP + k
    BY DEF ProcessesCommitted
  <2>1. buf.AbsoluteP + buf.Count = AbsoluteFilledSize
    BY DEF CInv, RestCurrent
  <2>2. \A k \in 0 .. buf.Count - 1 : Data[Ring!Mirror(buf.Data + k)] = buf.AbsoluteP + k
    BY RestRead DEF CInv
  <2> QED BY <2>1, <2>2
<1> QED BY <1>1, CoverKept, PTL

\* Every character read, and nothing else, is in one segment, of its own line,
\* wherever the reads split the text and its line ends.
THEOREM SegmentsCovered == Spec => []SegmentsCoverStream
<1>1. CInv => SegmentsCoverStream
  BY CoveredMeansProperty
<1> QED BY <1>1, CoverKept, PTL

(***************************************************************************)
(* The cursor, as long as the window keeps its size                        *)
(***************************************************************************)

\* The cursor is where the stream handled so far ends.
CursorAtEnd == OnlyLineEnds => AtEnd(stream, Handled, tw, th - 1, CursorX, CursorY)

\* A screen has at least a cell.
LEMMA ScreenTyped ==
    TypeOK => tw \in Nat \ {0} /\ th \in Nat \ {0} /\ th - 1 \in Nat /\ stream \in Seq(Kinds)
<1> SUFFICES ASSUME TypeOK
             PROVE  tw \in Nat \ {0} /\ th \in Nat \ {0} /\ th - 1 \in Nat
                    /\ stream \in Seq(Kinds)
  OBVIOUS
<1>1. tw \in Nat \ {0} /\ th \in Nat \ {0}
  BY SizesShowACell DEF TypeOK
<1> QED BY <1>1 DEF TypeOK

\* A step that is not a resize keeps the cursor at the end of what is handled.
LEMMA CursorKeepsUp ==
    ASSUME CInv, TypeOK', CursorAtEnd, [Next]_vars, xw' = xw
    PROVE  CursorAtEnd'
<1> SUFFICES ASSUME OnlyLineEnds'
             PROVE  AtEnd(stream', Handled', tw', th' - 1, CursorX', CursorY')
  BY DEF CursorAtEnd
<1> DEFINE h == Handled
           b == th - 1
<1>0. TInv /\ RestCurrent /\ OnlyLineEnds /\ TypeOK
  BY LineEndsKept DEF CInv, TInv
<1>1. /\ tw \in Nat \ {0} /\ th \in Nat \ {0} /\ b \in Nat /\ stream \in Seq(Kinds)
      /\ b + 1 = th
  BY <1>0, ScreenTyped
<1>2. tw' = tw /\ th' - 1 = b
  BY <1>0 DEF TypeOK
<1>3. AtEnd(stream, h, tw, b, CursorX, CursorY)
  BY <1>0 DEF CursorAtEnd
<1>4. CASE ScanGlyph
  <2>1. h \in 0 .. Len(stream) - 1 /\ stream[h + 1] = "glyph" /\ Handled' = h + 1
    BY <1>0, <1>4, ScanMoves
  <2>2. stream' = stream /\ AdvanceColumn
    BY <1>4 DEF ScanGlyph
  <2> HIDE DEF h, b
  <2>3. IF CursorX + 1 >= tw
        THEN AtEnd(stream, h + 1, tw, b, 0, IF CursorY + 1 >= b + 1 THEN b ELSE CursorY + 1)
        ELSE AtEnd(stream, h + 1, tw, b, CursorX + 1, CursorY)
    BY <1>1, <1>3, <2>1, EndAtGlyph
  <2>4. CASE CursorX + 1 >= tw
    <3>1. CursorX' = 0 /\ CursorY' = IF CursorY + 1 >= b + 1 THEN b ELSE CursorY + 1
      BY <1>1, <2>2, <2>4 DEF AdvanceColumn, AdvanceRow, b
    <3> QED BY <1>2, <2>1, <2>2, <2>3, <2>4, <3>1
  <2>5. CASE ~(CursorX + 1 >= tw)
    <3>1. CursorX' = CursorX + 1 /\ CursorY' = CursorY
      BY <2>2, <2>5 DEF AdvanceColumn
    <3> QED BY <1>2, <2>1, <2>2, <2>3, <2>5, <3>1
  <2> QED BY <2>4, <2>5
<1>5. CASE ScanLineEnd
  <2>1. PICK c \in 1 .. 2 :
          /\ h + c <= Len(stream) /\ stream[h + c] = "LF"
          /\ c = 2 => stream[h + 1] = "CR"
          /\ Handled' = h + c
    BY <1>0, <1>5, ScanMoves
  <2>2. h \in 0 .. Len(stream) - 1 /\ Len(stream) \in Nat
    BY <1>0, <1>1, <1>5, ScanMoves
  <2>3. stream' = stream /\ AdvanceRow
    BY <1>5 DEF ScanLineEnd
  <2> DEFINE p == h + c - 1
  <2>4. p \in 0 .. Len(stream) - 1 /\ p + 1 = h + c
    BY <2>1, <2>2
  <2> HIDE DEF h, b
  <2>5. AtEnd(stream, p, tw, b, CursorX, CursorY)
    <3>1. CASE c = 1
      <4>1. p = h
        BY <2>2, <3>1
      <4> QED BY <1>3, <4>1
    <3>2. CASE c = 2
      <4>1. p = h + 1 /\ stream[h + 1] = "CR"
        BY <2>1, <2>2, <3>2
      <4>2. AtEnd(stream, h + 1, tw, b, CursorX, CursorY)
        BY <1>1, <1>3, <2>2, <4>1, EndAtReturn
      <4> QED BY <4>1, <4>2
    <3> QED BY <3>1, <3>2
  <2> HIDE DEF p
  <2>6. AtEnd(stream, p + 1, tw, b, 0, IF CursorY + 1 >= b + 1 THEN b ELSE CursorY + 1)
    BY <1>1, <2>1, <2>4, <2>5, EndAtFeed
  <2>7. CursorX' = 0 /\ CursorY' = IF CursorY + 1 >= b + 1 THEN b ELSE CursorY + 1
    BY <1>1, <2>3 DEF AdvanceRow, b
  <2> QED BY <1>2, <2>1, <2>3, <2>4, <2>6, <2>7
<1>6. CASE ScanReturn
  <2>1. h \in 0 .. Len(stream) - 1 /\ stream[h + 1] = "CR" /\ Handled' = h + 1
    BY <1>0, <1>6, ScanMoves
  <2>2. stream' = stream /\ CursorX' = CursorX /\ CursorY' = CursorY
    BY <1>6 DEF ScanReturn, cursorVars
  <2> HIDE DEF h, b
  <2>3. AtEnd(stream, h + 1, tw, b, CursorX, CursorY)
    BY <1>1, <1>3, <2>1, EndAtReturn
  <2> QED BY <1>2, <2>1, <2>2, <2>3
<1>7. CASE ~(ScanGlyph \/ ScanLineEnd \/ ScanReturn)
  <2>1. Handled' = h /\ h \in 0 .. Len(stream)
    BY <1>0, <1>7, OthersStay
  <2>2. CursorX' = CursorX /\ CursorY' = CursorY
    BY <1>7 DEF Next, vars, cursorVars, HandleResize, EventsDone, BeginRead, NothingToRead,
                ReadTty, EndRead, ProcessInput, OpenSegment, ScanDone, ProcessDone, Draw
  <2>3. /\ stream' \in Seq(Kinds) /\ Len(stream) <= Len(stream')
        /\ \A q \in 1 .. Len(stream) : stream'[q] = stream[q]
    BY <1>0, StreamGrows
  <2> HIDE DEF h, b
  <2>4. AtEnd(stream', h, tw, b, CursorX, CursorY)
    BY <1>1, <1>3, <2>1, <2>3, EndAtGrown
  <2> QED BY <1>2, <2>1, <2>2, <2>4
<1> QED BY <1>4, <1>5, <1>6, <1>7

\* A set that has 0 and, with each number below n, the next one, has all up to n.
LEMMA UpToAll ==
    ASSUME NEW S, NEW n \in Nat, 0 \in S, \A k \in 0 .. n - 1 : k \in S => k + 1 \in S
    PROVE  0 .. n \subseteq S
<1> DEFINE M == {k \in 0 .. n : k \notin S}
           R == OpToRel(<, Nat)
<1> SUFFICES ASSUME M # {} PROVE FALSE
  OBVIOUS
<1>1. \A j, k \in Nat : k < j => <<k, j>> \in R
  BY DEF OpToRel
<1>2. M \subseteq Nat
  OBVIOUS
<1> HIDE DEF M, R
<1>3. PICK m \in M : \A k \in M : <<k, m>> \notin R
  BY <1>2, NatLessThanWellFounded, WFMin DEF R
<1> USE DEF M
<1>4. m \in 1 .. n /\ m \notin S
  OBVIOUS
<1>5. m - 1 \in M
  <2>1. m - 1 \in 0 .. n - 1 /\ (m - 1) + 1 = m
    BY <1>4
  <2> QED BY <1>4, <2>1
<1> HIDE DEF M
<1>6. m - 1 \in Nat /\ m \in Nat /\ m - 1 < m
  BY <1>4
<1> QED BY <1>1, <1>3, <1>5, <1>6

\* The rows above a line are what the recursion of RowsAbove adds up.
LEMMA RowsAboveIs ==
    ASSUME NEW g, LastLine \in Nat, DOMAIN g = 0 .. LastLine, g[0] = 0,
           \A l \in 1 .. LastLine : g[l] = g[l - 1] + (Length(l - 1) \div tw) + 1
    PROVE  RowsAbove[LastLine] = g[LastLine]
<1> DEFINE n == LastLine
           Rec(f) == f = [l \in 0 .. n |->
                            IF l = 0 THEN 0 ELSE f[l - 1] + (Length(l - 1) \div tw) + 1]
<1>1. Rec([l \in 0 .. n |-> g[l]])
  OBVIOUS
<1>2. Rec(RowsAbove)
  <2>1. RowsAbove = CHOOSE f : Rec(f)
    BY DEF RowsAbove
  <2> HIDE DEF Rec
  <2> QED BY <1>1, <2>1
<1>3. /\ RowsAbove[0] = 0
      /\ \A l \in 1 .. n : RowsAbove[l] = RowsAbove[l - 1] + (Length(l - 1) \div tw) + 1
  BY <1>2
<1> DEFINE S == {l \in 0 .. n : RowsAbove[l] = g[l]}
<1>4. 0 \in S
  BY <1>3
<1>5. ASSUME NEW k \in 0 .. n - 1, k \in S PROVE k + 1 \in S
  <2>1. k + 1 \in 1 .. n /\ (k + 1) - 1 = k
    OBVIOUS
  <2>2. RowsAbove[k] = g[k]
    BY <1>5
  <2> HIDE DEF n
  <2>3. RowsAbove[k + 1] = g[k + 1]
    BY <1>3, <2>1, <2>2 DEF n
  <2> QED BY <2>1, <2>3
<1> HIDE DEF S, Rec
<1>6. 0 .. n \subseteq S
  BY <1>4, <1>5, UpToAll DEF n
<1>7. n \in S
  BY <1>6
<1> QED BY <1>7 DEF S

\* The stream's lines are those before its end.
LEMMA StreamLines ==
    ASSUME stream \in Seq(Kinds)
    PROVE  /\ LastLine = LinesTo(stream, Len(stream)) /\ LastLine \in Nat
           /\ \A l : LineText(l) = TextTo(stream, Len(stream), l)
           /\ \A l : Length(l) = LengthTo(stream, Len(stream), l) /\ Length(l) \in Nat
           /\ \A p \in Positions : Line(p) = LinesTo(stream, p) /\ Line(p) \in 0 .. LastLine
<1> DEFINE h == Len(stream)
<1>1. h \in Nat /\ Positions = 0 .. h - 1
  BY DEF Positions
<1>2. \A p \in 0 .. h - 1 : FeedsTo(stream, p) = {q \in Feeds : q < p}
  BY DEF FeedsTo, Feeds, Kind, Positions
<1>3. FeedsTo(stream, h) = Feeds
  BY DEF FeedsTo, Feeds, Kind, Positions
<1>4. LinesTo(stream, h) = LastLine /\ LastLine \in Nat
  <2>1. LinesTo(stream, h) \in Nat
    BY <1>1, LinesFinite
  <2> QED BY <1>3, <2>1 DEF LinesTo, LastLine
<1> HIDE DEF h
<1>5. ASSUME NEW p \in 0 .. h - 1 PROVE LinesTo(stream, p) = Line(p) /\ Line(p) \in 0 .. LastLine
  <2>1. LinesTo(stream, p) = Line(p)
    BY <1>2 DEF LinesTo, Line
  <2>2. p \in 0 .. h
    BY <1>1
  <2>3. LinesTo(stream, p) <= LinesTo(stream, h) /\ LinesTo(stream, p) \in Nat
    BY <1>1, <2>2, LinesFinite
  <2> QED BY <1>4, <2>1, <2>3
<1>6. ASSUME NEW l PROVE TextTo(stream, h, l) = LineText(l)
  <2>1. Glyphs = {p \in 0 .. h - 1 : stream[p + 1] = "glyph"}
    BY <1>1 DEF Glyphs, Kind
  <2>2. TextTo(stream, h, l) = {p \in 0 .. h - 1 : stream[p + 1] = "glyph" /\ p < h
                                                   /\ LinesTo(stream, p) = l}
    BY DEF TextTo, h
  <2>3. \A p \in 0 .. h - 1 : p < h
    BY <1>1
  <2> QED BY <1>5, <2>1, <2>2, <2>3 DEF LineText
<1>7. ASSUME NEW l PROVE Length(l) = LengthTo(stream, h, l) /\ Length(l) \in Nat
  <2>1. LengthTo(stream, h, l) \in Nat
    BY <1>1, LinesFinite
  <2> QED BY <1>6, <2>1 DEF LengthTo, Length
<1> QED BY <1>1, <1>4, <1>5, <1>6, <1>7 DEF h

\* Between two turns of the loop all of the stream is handled.
LEMMA AtEndMeansProperty == CInv /\ CursorAtEnd => CursorMatchesStream
<1> SUFFICES ASSUME CInv, CursorAtEnd, Idle, OnlyLineEnds PROVE CursorMatchesStream
  BY DEF CursorMatchesStream
<1> DEFINE h == Len(stream)
<1>1. writing = FALSE
  BY DEF CInv, TInv, ReadingInTty, Idle, RP!IInv, RP!TypeOK
<1>2. /\ rd = 0 /\ AbsoluteFilledSize \in Nat /\ Len(stream) = AbsoluteFilledSize + rd
      /\ stream \in Seq(Kinds)
  BY <1>1 DEF CInv, TInv, RP!IInv, RP!RangeCurrent, RP!TypeOK, TypeOK
<1>3. Handled = h /\ h \in Nat
  BY <1>2 DEF Handled, Idle
<1>4. LinesTo(stream, h) = LastLine /\ LastLine \in Nat /\ \A l : LengthTo(stream, h, l) = Length(l)
  BY <1>2, StreamLines
<1>5. AtEnd(stream, h, tw, th - 1, CursorX, CursorY)
  BY <1>3 DEF CursorAtEnd
<1> HIDE DEF h
<1>6. PICK g : /\ RowsOver(g, stream, h, tw)
               /\ Behind(Length(LastLine), g[LastLine], tw, th - 1, CursorX, CursorY)
  BY <1>4, <1>5 DEF AtEnd
<1>7. RowsAbove[LastLine] = g[LastLine]
  <2>1. /\ DOMAIN g = 0 .. LastLine /\ g[0] = 0
        /\ \A l \in 1 .. LastLine : g[l] = g[l - 1] + (Length(l - 1) \div tw) + 1
    BY <1>4, <1>6 DEF RowsOver
  <2> QED BY <1>4, <2>1, RowsAboveIs
<1> QED BY <1>6, <1>7 DEF CursorMatchesStream, Behind, Clipped

\* As long as the window keeps its size, the cursor is where the stream puts
\* it, wherever the reads split the lines and their ends.  (A resize moves the
\* text to other rows, and leaves the cursor where it was.)
THEOREM CursorFollowsStream == Spec /\ [][xw' = xw]_vars => []CursorMatchesStream
<1>1. Init => CursorAtEnd
  <2> SUFFICES ASSUME Init PROVE AtEnd(stream, Handled, tw, th - 1, CursorX, CursorY)
    BY DEF CursorAtEnd
  <2>1. stream = <<>> /\ stream \in Seq(Kinds) /\ Handled = 0 /\ CursorX = 0 /\ CursorY = 0
    BY EmptySeq DEF Init, Ring!Init, Handled
  <2>2. tw \in Nat \ {0} /\ th - 1 \in Nat
    BY InitTInv, ScreenTyped DEF TInv
  <2>3. FeedsTo(stream, 0) = {} /\ \A l : TextTo(stream, 0, l) = {}
    BY DEF FeedsTo, TextTo
  <2>4. LinesTo(stream, 0) = 0 /\ \A l : LengthTo(stream, 0, l) = 0
    BY <2>3, FS_EmptySet DEF LinesTo, LengthTo
  <2> DEFINE g == [l \in 0 .. 0 |-> 0]
  <2>5. RowsOver(g, stream, 0, tw) /\ g[0] = 0
    BY <2>4 DEF RowsOver
  <2>6. Behind(0, 0, tw, th - 1, 0, 0)
    <3>1. 0 \div tw = 0 /\ 0 % tw = 0
      BY <2>2
    <3> QED BY <2>2, <3>1 DEF Behind, Clipped
  <2> HIDE DEF g
  <2>7. AtEnd(stream, 0, tw, th - 1, 0, 0)
    BY <2>4, <2>5, <2>6 DEF AtEnd
  <2> QED BY <2>1, <2>7
<1>2. CInv /\ TInv' /\ CursorAtEnd /\ [Next]_vars /\ [xw' = xw]_vars => CursorAtEnd'
  <2> SUFFICES ASSUME CInv, TInv', CursorAtEnd, [Next]_vars, [xw' = xw]_vars
               PROVE  CursorAtEnd'
    OBVIOUS
  <2>1. xw' = xw
    BY DEF vars, sizeVars
  <2>2. TypeOK'
    BY DEF TInv
  <2> QED BY <2>1, <2>2, CursorKeepsUp
<1>3. CInv /\ CursorAtEnd => CursorMatchesStream
  BY AtEndMeansProperty
<1> QED BY <1>1, <1>2, <1>3, CoverKept, InvariantKept, PTL DEF Spec

(***************************************************************************)
(* What is left at the end of the stream, and the cursor after resizes     *)
(***************************************************************************)

\* A last segment that holds no text and ends no line is one that was opened
\* for a carriage return, the last byte handled.
TailUsed ==
    /\ pc = "scan" => buf.Count > 0 \/ sg[SegmentCount].buf.Count > 0
    /\ OnlyLineEnds /\ pc # "scan" /\ SegmentCount > 0 =>
         \/ sg[SegmentCount].line_end
         \/ sg[SegmentCount].buf.Count > 0
         \/ Handled > 0 /\ stream[Handled] = "CR"

\* The cursor's row is one of a screen of some size the window can have.
CursorInSizes == \E size \in Sizes : CursorY \in 0 .. Lines(size) - 1

LEMMA TailKept ==
    ASSUME CInv, TailUsed, [Next]_vars
    PROVE  TailUsed'
<1> DEFINE n == Len(sg)
<1>0. /\ TypeOK /\ TInv /\ RestCurrent
      /\ sg \in Seq(Segments) /\ buf \in Ring!Range /\ i \in Nat /\ n \in Nat
      /\ buf.Count \in Nat /\ buf.AbsoluteP \in Nat /\ AbsoluteFilledSize \in Nat
      /\ pc = "scan" => n > 0
  BY DEF CInv, TInv, TypeOK, RestInPlace, Segments, SegmentCount, Ring!TypeOK, Ring!Range
<1>1. CASE OpenSegment
  BY <1>1 DEF OpenSegment, TailUsed
<1>2. CASE ScanGlyph
  <2>1. n > 0 /\ pc' = "scan"
    BY <1>0, <1>2 DEF ScanGlyph
  <2>2. Len(sg') = n /\ sg'[n].buf = [sg[n].buf EXCEPT !.Count = @ + 1]
    BY <1>0, <1>2, <2>1, SegmentSteps
  <2>3. sg[n].buf \in Ring!Range
    <3>1. sg[n] \in Segments
      BY <1>0, <2>1, ElementOfSeq
    <3> HIDE DEF n
    <3> QED BY <3>1 DEF Segments
  <2>4. sg'[n].buf.Count > 0
    BY <2>2, <2>3 DEF Ring!Range
  <2> QED BY <2>1, <2>2, <2>4 DEF TailUsed, SegmentCount
<1>3. CASE ScanLineEnd
  <2>1. n > 0 /\ pc' = "process"
    BY <1>0, <1>3 DEF ScanLineEnd
  <2>2. Len(sg') = n
    BY <1>0, <1>3, <2>1, SegmentSteps
  <2>3. sg'[n].line_end
    <3>1. sg' = [sg EXCEPT ![n].line_end = TRUE] /\ n \in DOMAIN sg
      BY <1>0, <1>3, <2>1 DEF ScanLineEnd, SegmentCount
    <3>2. sg[n] \in Segments
      BY <1>0, <2>1, ElementOfSeq
    <3> HIDE DEF n
    <3> QED BY <3>1, <3>2 DEF Segments
  <2> QED BY <2>1, <2>2, <2>3 DEF TailUsed, SegmentCount
<1>4. CASE ScanReturn
  <2>1. pc' = "process"
    BY <1>4 DEF ScanReturn
  <2>2. ASSUME OnlyLineEnds' PROVE Handled' > 0 /\ stream'[Handled'] = "CR"
    <3>1. OnlyLineEnds
      BY <1>0, <2>2, LineEndsKept
    <3>2. /\ Handled \in 0 .. Len(stream) - 1
          /\ stream[Handled + 1] = "CR" /\ Handled' = Handled + 1
      BY <1>0, <1>4, <3>1, ScanMoves
    <3>3. stream' = stream
      BY <1>4 DEF ScanReturn
    <3> QED BY <3>2, <3>3
  <2> QED BY <2>1, <2>2 DEF TailUsed
<1>5. CASE ScanDone
  <2>1. sg' = sg /\ pc' = "process" /\ ~(buf.Count > 0) /\ pc = "scan"
    BY <1>0, <1>5 DEF ScanDone, RestCurrent
  <2> QED BY <2>1 DEF TailUsed, SegmentCount
<1>6. CASE pc # "scan" /\ pc' # "scan" /\ sg' = sg /\ ~(ScanGlyph \/ ScanLineEnd \/ ScanReturn)
  <2>1. Handled' = Handled /\ Handled \in 0 .. Len(stream)
    BY <1>0, <1>6, OthersStay
  <2>2. /\ stream \in Seq(Kinds) /\ Len(stream) <= Len(stream')
        /\ \A q \in 1 .. Len(stream) : stream'[q] = stream[q]
    BY <1>0, StreamGrows
  <2>3. Handled > 0 => stream'[Handled'] = stream[Handled]
    BY <2>1, <2>2
  <2>4. OnlyLineEnds' => OnlyLineEnds
    BY <1>0, LineEndsKept
  <2> QED BY <1>6, <2>1, <2>3, <2>4 DEF TailUsed, SegmentCount
<1>7. CASE HandleResize \/ EventsDone \/ BeginRead \/ NothingToRead \/ ReadTty \/ EndRead
           \/ ProcessDone \/ Draw
  <2>1. pc # "scan" /\ pc' # "scan" /\ sg' = sg
    BY <1>7 DEF HandleResize, EventsDone, BeginRead, NothingToRead, ReadTty, EndRead,
                ProcessDone, Draw
  <2>2. ~(ScanGlyph \/ ScanLineEnd \/ ScanReturn)
    BY <2>1 DEF ScanGlyph, ScanLineEnd, ScanReturn
  <2> QED BY <1>6, <2>1, <2>2
<1>8. CASE UNCHANGED vars
  BY <1>8 DEF vars, ringVars, TailUsed, SegmentCount, OnlyLineEnds, Positions, Kind, Handled
<1> QED
  BY <1>1, <1>2, <1>3, <1>4, <1>5, <1>7, <1>8 DEF Next, ProcessInput

LEMMA RowKept ==
    ASSUME TInv, CursorInSizes, [Next]_vars
    PROVE  CursorInSizes'
<1>0. /\ CursorY \in Nat /\ th = Lines(xw) /\ xw \in Sizes
      /\ \A size \in Sizes : Lines(size) \in Nat \ {0}
  BY SizesShowACell DEF TInv, TypeOK
<1>1. PICK size \in Sizes : CursorY \in 0 .. Lines(size) - 1
  BY DEF CursorInSizes
<1>2. CASE CursorY' = CursorY
  BY <1>1, <1>2 DEF CursorInSizes
<1>3. CASE AdvanceRow
  <2> DEFINE b == Lines(xw)
  <2>1. CursorY' = IF CursorY + 1 >= b THEN b - 1 ELSE CursorY + 1
    BY <1>0, <1>3 DEF AdvanceRow
  <2>2. b \in Nat \ {0}
    BY <1>0
  <2> HIDE DEF b
  <2>3. CursorY' \in 0 .. b - 1
    BY <1>0, <2>1, <2>2
  <2> QED BY <1>0, <2>3 DEF CursorInSizes, b
<1>4. CASE AdvanceColumn
  BY <1>2, <1>3, <1>4 DEF AdvanceColumn
<1> QED
  BY <1>2, <1>3, <1>4
  DEF Next, vars, cursorVars, HandleResize, EventsDone, BeginRead, NothingToRead, ReadTty,
      EndRead, ProcessInput, OpenSegment, ScanGlyph, ScanLineEnd, ScanReturn, ScanDone,
      ProcessDone, Draw

(***************************************************************************)
(* The text of the segments, counted                                       *)
(***************************************************************************)

\* The characters before h, and those from a to before b.
GlyphsTo(s, h)   == {p \in 0 .. Len(s) - 1 : s[p + 1] = "glyph" /\ p < h}
CountTo(s, h)    == Cardinality(GlyphsTo(s, h))
Between(s, a, b) == {p \in 0 .. Len(s) - 1 : s[p + 1] = "glyph" /\ a <= p /\ p < b}

\* Where the text of the first k segments ends, and the line segment k is in.
End(g, k)    == IF k = 0 THEN 0 ELSE Stop(g, k)
LineOf(g, k) == Cardinality(EndsTo(g, k - 1))

\* The segments after e up to k, of n, are those of one line.
LineSegments(g, n, e, k) ==
    /\ k \in 1 .. n /\ e \in 0 .. k - 1
    /\ e = 0 \/ g[e].line_end
    /\ k = n \/ g[k].line_end
    /\ \A j \in e + 1 .. k - 1 : ~g[j].line_end

LEMMA CountTyped ==
    ASSUME NEW s \in Seq(Kinds), NEW h
    PROVE  IsFiniteSet(GlyphsTo(s, h)) /\ CountTo(s, h) \in Nat
<1>1. 0 \in Int /\ Len(s) - 1 \in Int
  OBVIOUS
<1>2. IsFiniteSet(0 .. Len(s) - 1)
  BY <1>1, FS_Interval
<1>3. GlyphsTo(s, h) \subseteq 0 .. Len(s) - 1
  BY DEF GlyphsTo
<1> QED BY <1>2, <1>3, FS_Subset, FS_CardinalityType DEF CountTo

\* The characters between two positions are the difference of two counts.
LEMMA CountBetween ==
    ASSUME NEW s \in Seq(Kinds), NEW a \in Int, NEW b \in Int, a <= b
    PROVE  /\ IsFiniteSet(Between(s, a, b))
           /\ Cardinality(Between(s, a, b)) = CountTo(s, b) - CountTo(s, a)
           /\ CountTo(s, a) <= CountTo(s, b)
<1>1. IsFiniteSet(GlyphsTo(s, a)) /\ CountTo(s, a) \in Nat /\ CountTo(s, b) \in Nat
  BY CountTyped
<1>2. IsFiniteSet(GlyphsTo(s, b)) /\ Between(s, a, b) \subseteq GlyphsTo(s, b)
  BY CountTyped DEF Between, GlyphsTo
<1>3. IsFiniteSet(Between(s, a, b))
  BY <1>2, FS_Subset
<1>4. Cardinality(Between(s, a, b)) \in Nat
  BY <1>3, FS_CardinalityType
<1>5. GlyphsTo(s, b) = GlyphsTo(s, a) \cup Between(s, a, b)
  <2>1. \A p \in 0 .. Len(s) - 1 : p < b <=> p < a \/ (a <= p /\ p < b)
    OBVIOUS
  <2> QED BY <2>1 DEF Between, GlyphsTo
<1>6. GlyphsTo(s, a) \cap Between(s, a, b) = {}
  <2>1. \A p \in 0 .. Len(s) - 1 : ~(p < a /\ a <= p)
    OBVIOUS
  <2> QED BY <2>1 DEF Between, GlyphsTo
<1>7. CountTo(s, b) = CountTo(s, a) + Cardinality(Between(s, a, b)) - 0
  BY <1>1, <1>3, <1>5, <1>6, FS_Union, FS_EmptySet DEF CountTo
<1> QED BY <1>1, <1>3, <1>4, <1>7

\* Where there are only characters each one counts, and where there is none
\* the count stays.
LEMMA CountRun ==
    ASSUME NEW s \in Seq(Kinds), NEW a \in 0 .. Len(s), NEW b \in a .. Len(s)
    PROVE  /\ (\A p \in a .. b - 1 : s[p + 1] = "glyph") =>
                CountTo(s, b) = CountTo(s, a) + (b - a)
           /\ (\A p \in a .. b - 1 : s[p + 1] # "glyph") => CountTo(s, b) = CountTo(s, a)
<1>1. a \in Int /\ b \in Int /\ a <= b /\ CountTo(s, a) \in Nat /\ CountTo(s, b) \in Nat
      /\ Len(s) \in Nat
  BY CountTyped
<1>2. Cardinality(Between(s, a, b)) = CountTo(s, b) - CountTo(s, a)
  BY <1>1, CountBetween
<1>3. \A p \in 0 .. Len(s) - 1 : a <= p /\ p < b <=> p \in a .. b - 1
  BY <1>1
<1>4. a .. b - 1 \subseteq 0 .. Len(s) - 1
  BY <1>1
<1>5. ASSUME \A p \in a .. b - 1 : s[p + 1] = "glyph"
      PROVE  CountTo(s, b) = CountTo(s, a) + (b - a)
  <2>1. Between(s, a, b) = a .. b - 1
    BY <1>3, <1>4, <1>5 DEF Between
  <2>2. b - 1 \in Int /\ a \in Int
    BY <1>1
  <2>3. Cardinality(a .. b - 1) = IF a > b - 1 THEN 0 ELSE (b - 1) - a + 1
    BY <2>2, FS_Interval
  <2> QED BY <1>1, <1>2, <2>1, <2>3
<1>6. ASSUME \A p \in a .. b - 1 : s[p + 1] # "glyph"
      PROVE  CountTo(s, b) = CountTo(s, a)
  <2>1. Between(s, a, b) = {}
    BY <1>3, <1>6 DEF Between
  <2> QED BY <1>1, <1>2, <2>1, FS_EmptySet
<1> QED BY <1>5, <1>6

\* A character is counted by the positions after it.
LEMMA CountOrder ==
    ASSUME NEW s \in Seq(Kinds), NEW p \in 0 .. Len(s) - 1, NEW q \in Int, p < q,
           s[p + 1] = "glyph"
    PROVE  CountTo(s, p) < CountTo(s, q)
<1>1. p \in Between(s, p, q) /\ p <= q
  BY DEF Between
<1>2. Between(s, p, q) # {}
  BY <1>1
<1>3. /\ IsFiniteSet(Between(s, p, q))
      /\ Cardinality(Between(s, p, q)) = CountTo(s, q) - CountTo(s, p)
      /\ CountTo(s, p) <= CountTo(s, q)
  BY <1>1, CountBetween
<1>4. Cardinality(Between(s, p, q)) # 0
  BY <1>2, <1>3, FS_EmptySet
<1> QED BY <1>3, <1>4, CountTyped

\* The segments' texts follow one another.
LEMMA EndsInOrder ==
    ASSUME NEW s, NEW g, NEW n \in Nat, NEW h \in Nat, Bounded(g, n), Covered(s, g, n, h)
    PROVE  /\ \A k \in 0 .. n : End(g, k) \in 0 .. h
           /\ \A k \in 1 .. n : \A j \in 0 .. k - 1 : End(g, j) <= Start(g, k)
           /\ \A k \in 0 .. n : \A j \in 0 .. k : End(g, j) <= End(g, k)
<1>1. \A k \in 1 .. n : /\ Start(g, k) \in Nat /\ Stop(g, k) \in Nat
                        /\ Start(g, k) <= Stop(g, k) /\ Stop(g, k) <= h
                        /\ End(g, k) = Stop(g, k)
  BY DEF Bounded, Covered, End
<1>2. End(g, 0) = 0
  BY DEF End
<1>3. ASSUME NEW k \in 0 .. n PROVE End(g, k) \in 0 .. h
  <2>1. CASE k = 0
    BY <1>2, <2>1
  <2>2. CASE k \in 1 .. n
    BY <1>1, <2>2
  <2> QED BY <2>1, <2>2
<1>4. ASSUME NEW k \in 1 .. n, NEW j \in 0 .. k - 1 PROVE End(g, j) <= Start(g, k)
  <2>1. CASE j = 0
    BY <1>1, <1>2, <2>1
  <2>2. CASE j \in 1 .. n
    <3>1. Stop(g, j) <= Start(g, k)
      BY <2>2 DEF Covered
    <3> QED BY <1>1, <2>2, <3>1
  <2> QED BY <2>1, <2>2
<1>5. ASSUME NEW k \in 0 .. n, NEW j \in 0 .. k PROVE End(g, j) <= End(g, k)
  <2>1. CASE j = k
    BY <1>3, <2>1
  <2>2. CASE j # k
    <3>1. k \in 1 .. n /\ j \in 0 .. k - 1 /\ j \in 0 .. n
      BY <2>2
    <3>2. End(g, j) <= Start(g, k) /\ End(g, j) \in 0 .. h
      BY <1>3, <1>4, <3>1
    <3> QED BY <1>1, <3>1, <3>2
  <2> QED BY <2>1, <2>2
<1> QED BY <1>3, <1>4, <1>5

\* Within a segment every position counts one more character.
LEMMA SegmentText ==
    ASSUME NEW s \in Seq(Kinds), NEW g, NEW n \in Nat, NEW h \in 0 .. Len(s),
           Bounded(g, n), Covered(s, g, n, h), NEW k \in 1 .. n,
           NEW m \in 0 .. Stop(g, k) - Start(g, k)
    PROVE  CountTo(s, Start(g, k) + m) = CountTo(s, End(g, k - 1)) + m
<1> DEFINE a == End(g, k - 1)
           b == Start(g, k)
<1>0. h \in Nat /\ Len(s) \in Nat /\ h <= Len(s)
  OBVIOUS
<1>1. /\ a \in 0 .. h /\ b \in Nat /\ Stop(g, k) \in Nat /\ a <= b /\ b + m <= Stop(g, k)
      /\ Stop(g, k) <= h
  <2>1. k - 1 \in 0 .. n /\ k - 1 \in 0 .. k - 1
    OBVIOUS
  <2>2. a \in 0 .. h /\ a <= b
    BY <1>0, <2>1, EndsInOrder
  <2>3. b \in Nat /\ Stop(g, k) \in Nat /\ b <= Stop(g, k) /\ Stop(g, k) <= h
    BY DEF Bounded, Covered
  <2> HIDE DEF a, b
  <2> QED BY <2>2, <2>3 DEF b
<1>2. ASSUME NEW p \in a .. b - 1 PROVE s[p + 1] # "glyph"
  <2>1. p \in 0 .. h - 1
    <3> HIDE DEF a, b
    <3> QED BY <1>0, <1>1
  <2> SUFFICES ASSUME Found(s, g, n, p) PROVE FALSE
    BY <2>1 DEF Covered
  <2>2. PICK j \in 1 .. n : Holds(g, j, p)
    BY DEF Found
  <2>3. Start(g, j) \in Nat /\ Stop(g, j) \in Nat /\ Start(g, j) <= p /\ p < Stop(g, j)
    BY <2>2 DEF Holds, Bounded
  <2>4. CASE j < k
    <3>1. j \in 0 .. k - 1 /\ k - 1 \in 0 .. n /\ j # 0
      BY <2>4
    <3>2. End(g, j) <= a /\ End(g, j) = Stop(g, j)
      BY <1>0, <3>1, EndsInOrder DEF End
    <3> HIDE DEF a, b
    <3> QED BY <1>1, <2>1, <2>3, <3>2
  <2>5. CASE j = k
    BY <1>1, <2>3, <2>5
  <2>6. CASE k < j
    <3>1. Stop(g, k) <= Start(g, j)
      BY <2>6 DEF Covered
    <3> QED BY <1>1, <2>3, <3>1
  <2> QED BY <2>4, <2>5, <2>6
<1>3. ASSUME NEW p \in b .. (b + m) - 1 PROVE s[p + 1] = "glyph"
  <2>1. p \in 0 .. h - 1 /\ Holds(g, k, p)
    <3>1. p \in 0 .. h - 1 /\ b <= p /\ p < Stop(g, k)
      <4> HIDE DEF a, b
      <4> QED BY <1>0, <1>1
    <3> QED BY <3>1 DEF Holds
  <2> QED BY <2>1 DEF Covered
<1> HIDE DEF a, b
<1>4. a \in 0 .. Len(s) /\ b \in a .. Len(s) /\ b \in 0 .. Len(s) /\ b + m \in b .. Len(s)
  BY <1>0, <1>1
<1>5. CountTo(s, b) = CountTo(s, a)
  BY <1>2, <1>4, CountRun
<1>6. CountTo(s, b + m) = CountTo(s, b) + ((b + m) - b)
  BY <1>3, <1>4, CountRun
<1>7. (b + m) - b = m
  BY <1>1
<1> QED BY <1>5, <1>6, <1>7 DEF a, b

\* Line ends among the segments, one after the other.
LEMMA EndsCounted ==
    ASSUME NEW g, NEW k \in Nat
    PROVE  /\ Cardinality(EndsTo(g, k)) \in Nat
           /\ \A j \in 0 .. k : Cardinality(EndsTo(g, j)) <= Cardinality(EndsTo(g, k))
           /\ k > 0 => Cardinality(EndsTo(g, k)) = IF g[k].line_end THEN LineOf(g, k) + 1
                                                                    ELSE LineOf(g, k)
           /\ Cardinality(EndsTo(g, 0)) = 0
<1>1. ASSUME NEW j \in Nat PROVE IsFiniteSet(EndsTo(g, j))
  <2>1. 1 \in Int /\ j \in Int
    OBVIOUS
  <2>2. IsFiniteSet(1 .. j) /\ EndsTo(g, j) \subseteq 1 .. j
    BY <2>1, FS_Interval DEF EndsTo
  <2> QED BY <2>2, FS_Subset
<1>2. IsFiniteSet(EndsTo(g, k)) /\ Cardinality(EndsTo(g, k)) \in Nat
  BY <1>1, FS_CardinalityType
<1>3. ASSUME NEW j \in 0 .. k PROVE Cardinality(EndsTo(g, j)) <= Cardinality(EndsTo(g, k))
  <2>1. \A m \in 1 .. j : m \in 1 .. k
    OBVIOUS
  <2>2. EndsTo(g, j) \subseteq EndsTo(g, k)
    BY <2>1 DEF EndsTo
  <2> QED BY <1>2, <2>2, FS_Subset
<1>4. ASSUME k > 0
      PROVE  Cardinality(EndsTo(g, k)) = IF g[k].line_end THEN LineOf(g, k) + 1
                                                          ELSE LineOf(g, k)
  <2>1. \A m : m \in 1 .. k <=> m \in 1 .. k - 1 \/ m = k
    BY <1>4
  <2>2. k - 1 \in Nat /\ k \notin 1 .. k - 1
    BY <1>4
  <2>3. IsFiniteSet(EndsTo(g, k - 1)) /\ k \notin EndsTo(g, k - 1)
    BY <1>1, <2>2 DEF EndsTo
  <2>4. CASE g[k].line_end
    <3>1. EndsTo(g, k) = EndsTo(g, k - 1) \cup {k}
      BY <2>1, <2>4 DEF EndsTo
    <3> QED BY <2>3, <2>4, <3>1, FS_AddElement DEF LineOf
  <2>5. CASE ~g[k].line_end
    <3>1. EndsTo(g, k) = EndsTo(g, k - 1)
      BY <2>1, <2>5 DEF EndsTo
    <3> QED BY <2>5, <3>1 DEF LineOf
  <2> QED BY <2>4, <2>5
<1>5. Cardinality(EndsTo(g, 0)) = 0
  <2>1. EndsTo(g, 0) = {}
    BY DEF EndsTo
  <2> QED BY <2>1, FS_EmptySet
<1> QED BY <1>2, <1>3, <1>4, <1>5

\* The segments from one line end to the next are in one line, and those before
\* and after them in others.
OneLine(g, n, e, k) ==
    /\ \A j \in e + 1 .. k : LineOf(g, j) = LineOf(g, k)
    /\ \A j \in 1 .. e : LineOf(g, j) < LineOf(g, k)
    /\ \A j \in k + 1 .. n : LineOf(g, j) > LineOf(g, k)
    /\ IF e = 0 THEN LineOf(g, k) = 0 ELSE LineOf(g, e) = LineOf(g, k) - 1

LEMMA LineNumbers ==
    ASSUME NEW g, NEW n \in Nat, NEW e, NEW k, LineSegments(g, n, e, k)
    PROVE  OneLine(g, n, e, k)
<1>0. k \in 1 .. n /\ e \in 0 .. k - 1 /\ k - 1 \in Nat /\ e \in Nat /\ k \in Nat
  BY DEF LineSegments
<1>1. ASSUME NEW j \in e .. k - 1 PROVE EndsTo(g, j) = EndsTo(g, e)
  <2>1. ASSUME NEW m \in 1 .. j, g[m].line_end PROVE m \in 1 .. e
    <3>1. m \notin e + 1 .. k - 1
      BY <2>1 DEF LineSegments
    <3> QED BY <1>0, <3>1
  <2>2. \A m \in 1 .. e : m \in 1 .. j
    BY <1>0
  <2> QED BY <2>1, <2>2 DEF EndsTo
<1>2. LineOf(g, k) = Cardinality(EndsTo(g, e))
  <2>1. k - 1 \in e .. k - 1
    BY <1>0
  <2> QED BY <1>1, <2>1 DEF LineOf
<1>3. ASSUME NEW j \in e + 1 .. k PROVE LineOf(g, j) = LineOf(g, k)
  <2>1. j - 1 \in e .. k - 1
    BY <1>0
  <2> QED BY <1>1, <1>2, <2>1 DEF LineOf
<1>4. ASSUME e = 0 PROVE LineOf(g, k) = 0
  BY <1>2, <1>4, EndsCounted
<1>5. IF e = 0 THEN LineOf(g, k) = 0 ELSE LineOf(g, e) = LineOf(g, k) - 1
  <2>1. CASE e # 0
    <3>1. g[e].line_end /\ e > 0
      BY <1>0, <2>1 DEF LineSegments
    <3>2. Cardinality(EndsTo(g, e)) = LineOf(g, e) + 1
      BY <1>0, <3>1, EndsCounted
    <3>3. e - 1 \in Nat
      BY <1>0, <3>1
    <3>4. LineOf(g, e) \in Nat
      BY <3>3, EndsCounted DEF LineOf
    <3> QED BY <1>2, <2>1, <3>2, <3>4
  <2> QED BY <1>4, <2>1
<1>6. ASSUME NEW j \in 1 .. e PROVE LineOf(g, j) < LineOf(g, k)
  <2>1. e # 0 /\ e - 1 \in Nat /\ j - 1 \in 0 .. e - 1
    BY <1>0
  <2>2. LineOf(g, j) <= LineOf(g, e)
    BY <2>1, EndsCounted DEF LineOf
  <2>3. LineOf(g, e) = LineOf(g, k) - 1
    BY <1>5, <2>1
  <2>4. LineOf(g, j) \in Nat /\ LineOf(g, e) \in Nat
    BY <2>1, EndsCounted DEF LineOf
  <2>5. LineOf(g, k) \in Nat
    BY <1>0, EndsCounted DEF LineOf
  <2> QED BY <2>2, <2>3, <2>4, <2>5
<1>7. ASSUME NEW j \in k + 1 .. n PROVE LineOf(g, j) > LineOf(g, k)
  <2>1. k # n /\ j - 1 \in Nat /\ k \in 0 .. j - 1 /\ k > 0
    BY <1>0
  <2>2. g[k].line_end
    BY <2>1 DEF LineSegments
  <2>3. Cardinality(EndsTo(g, k)) = LineOf(g, k) + 1
    BY <1>0, <2>1, <2>2, EndsCounted
  <2>4. Cardinality(EndsTo(g, k)) <= LineOf(g, j)
    BY <2>1, EndsCounted DEF LineOf
  <2>5. LineOf(g, k) \in Nat /\ LineOf(g, j) \in Nat
    BY <1>0, <2>1, EndsCounted DEF LineOf
  <2> QED BY <2>3, <2>4, <2>5
<1> QED BY <1>3, <1>5, <1>6, <1>7 DEF OneLine

\* The text of a line is what lies between the line's segments' ends.
LEMMA TextOfLine ==
    ASSUME NEW s \in Seq(Kinds), NEW g, NEW n \in Nat, NEW h \in 0 .. Len(s),
           Bounded(g, n), Covered(s, g, n, h),
           NEW e, NEW k, LineSegments(g, n, e, k)
    PROVE  TextTo(s, h, LineOf(g, k)) = Between(s, End(g, e), Stop(g, k))
<1> DEFINE L == LineOf(g, k)
<1>0. /\ k \in 1 .. n /\ e \in 0 .. k - 1 /\ e \in 0 .. n /\ k \in 0 .. n /\ h \in Nat
      /\ Len(s) \in Nat
  BY DEF LineSegments
<1>1. End(g, e) \in 0 .. h /\ Stop(g, k) \in 0 .. h /\ End(g, e) <= Start(g, k)
  <2>1. End(g, k) = Stop(g, k)
    BY <1>0 DEF End
  <2> QED BY <1>0, <2>1, EndsInOrder
<1>2. /\ \A j \in e + 1 .. k : LineOf(g, j) = LineOf(g, k)
      /\ \A j \in 1 .. e : LineOf(g, j) < LineOf(g, k)
      /\ \A j \in k + 1 .. n : LineOf(g, j) > LineOf(g, k)
  <2>1. OneLine(g, n, e, k)
    BY LineNumbers
  <2> QED BY <2>1 DEF OneLine
<1>3. ASSUME NEW p \in 0 .. h - 1, NEW j \in 1 .. n, Holds(g, j, p)
      PROVE  LineOf(g, j) = L <=> End(g, e) <= p /\ p < Stop(g, k)
  <2>0. Start(g, j) \in Nat /\ Stop(g, j) \in Nat /\ Start(g, j) <= p /\ p < Stop(g, j)
        /\ Start(g, k) \in Nat /\ Start(g, k) <= Stop(g, k)
    BY <1>0, <1>3 DEF Holds, Bounded
  <2>1. CASE j \in 1 .. e
    <3>1. End(g, j) <= End(g, e) /\ End(g, j) = Stop(g, j)
      <4>1. j \in 0 .. e /\ j # 0
        BY <2>1
      <4> QED BY <1>0, <4>1, EndsInOrder DEF End
    <3>2. LineOf(g, j) < L /\ LineOf(g, j) \in Nat /\ L \in Nat
      <4>1. j - 1 \in Nat /\ k - 1 \in Nat
        BY <1>0
      <4> QED BY <1>2, <2>1, <4>1, EndsCounted DEF LineOf
    <3> HIDE DEF L
    <3> QED BY <1>1, <2>0, <3>1, <3>2
  <2>2. CASE j \in e + 1 .. k
    <3>1. End(g, e) <= Start(g, j)
      <4>1. e \in 0 .. j - 1
        BY <1>0, <2>2
      <4> QED BY <1>0, <4>1, EndsInOrder
    <3>2. Stop(g, j) <= Stop(g, k)
      <4>1. j \in 0 .. k /\ j # 0 /\ k # 0
        BY <1>0, <2>2
      <4> QED BY <1>0, <4>1, EndsInOrder DEF End
    <3>3. LineOf(g, j) = L
      BY <1>2, <2>2
    <3> HIDE DEF L
    <3> QED BY <1>1, <2>0, <3>1, <3>2, <3>3
  <2>3. CASE j \in k + 1 .. n
    <3>1. Stop(g, k) <= Start(g, j)
      BY <1>0, <2>3 DEF Covered
    <3>2. LineOf(g, j) > L /\ LineOf(g, j) \in Nat /\ L \in Nat
      <4>1. j - 1 \in Nat /\ k - 1 \in Nat
        BY <1>0
      <4> QED BY <1>2, <2>3, <4>1, EndsCounted DEF LineOf
    <3> HIDE DEF L
    <3> QED BY <1>1, <2>0, <3>1, <3>2
  <2>4. j \in 1 .. e \/ j \in e + 1 .. k \/ j \in k + 1 .. n
    BY <1>0
  <2> QED BY <2>1, <2>2, <2>3, <2>4
<1>4. ASSUME NEW p \in 0 .. Len(s) - 1, s[p + 1] = "glyph", p < h
      PROVE  LinesTo(s, p) = L <=> End(g, e) <= p /\ p < Stop(g, k)
  <2>1. p \in 0 .. h - 1
    BY <1>0, <1>4
  <2>2. Found(s, g, n, p)
    BY <1>4, <2>1 DEF Covered
  <2>3. PICK j \in 1 .. n : Holds(g, j, p) /\ LineOf(g, j) = LinesTo(s, p)
    BY <2>2 DEF Found, LineOf, LinesTo
  <2> HIDE DEF L
  <2> QED BY <1>3, <2>1, <2>3
<1>5. \A p \in 0 .. Len(s) - 1 : p < Stop(g, k) => p < h
  BY <1>0, <1>1
<1> HIDE DEF L
<1>6. TextTo(s, h, L) = Between(s, End(g, e), Stop(g, k))
  BY <1>4, <1>5 DEF TextTo, Between
<1> QED BY <1>6 DEF L

\* How long a line is, and how much of it lies before one of its characters.
LEMMA LineCounted ==
    ASSUME NEW s \in Seq(Kinds), NEW g, NEW n \in Nat, NEW h \in 0 .. Len(s),
           Bounded(g, n), Covered(s, g, n, h),
           NEW e, NEW k, LineSegments(g, n, e, k)
    PROVE  /\ LengthTo(s, h, LineOf(g, k)) = CountTo(s, Stop(g, k)) - CountTo(s, End(g, e))
           /\ \A p \in TextTo(s, h, LineOf(g, k)) :
                /\ Cardinality({q \in TextTo(s, h, LineOf(g, k)) : q < p})
                     = CountTo(s, p) - CountTo(s, End(g, e))
                /\ CountTo(s, End(g, e)) <= CountTo(s, p)
                /\ CountTo(s, p) < CountTo(s, Stop(g, k))
<1> DEFINE T == TextTo(s, h, LineOf(g, k))
           a == End(g, e)
           b == Stop(g, k)
<1>1. a \in Int /\ b \in Int /\ a <= b
  <2>1. /\ k \in 1 .. n /\ e \in 0 .. k - 1 /\ e \in 0 .. n /\ h \in Nat /\ k # 0
        /\ k \in 0 .. n /\ e \in 0 .. k
    BY DEF LineSegments
  <2>2. End(g, k) = b
    BY <2>1 DEF End
  <2>3. End(g, e) <= End(g, k) /\ End(g, e) \in 0 .. h /\ End(g, k) \in 0 .. h
    BY <2>1, EndsInOrder
  <2> QED BY <2>2, <2>3
<1>2. T = Between(s, a, b)
  BY TextOfLine
<1> HIDE DEF a, b
<1>3. LengthTo(s, h, LineOf(g, k)) = CountTo(s, b) - CountTo(s, a)
  BY <1>1, <1>2, CountBetween DEF LengthTo
<1>4. ASSUME NEW p \in T
      PROVE  /\ Cardinality({q \in T : q < p}) = CountTo(s, p) - CountTo(s, a)
             /\ CountTo(s, a) <= CountTo(s, p) /\ CountTo(s, p) < CountTo(s, b)
  <2>1. p \in 0 .. Len(s) - 1 /\ s[p + 1] = "glyph" /\ a <= p /\ p < b
    BY <1>2 DEF Between
  <2>2. {q \in T : q < p} = Between(s, a, p)
    <3>1. \A q \in 0 .. Len(s) - 1 : q < p => q < b
      BY <1>1, <2>1
    <3> HIDE DEF T
    <3> QED BY <1>2, <3>1 DEF Between
  <2>3. p \in Int
    BY <2>1
  <2> QED BY <1>1, <2>1, <2>2, <2>3, CountBetween, CountOrder
<1> QED BY <1>3, <1>4 DEF a, b

(***************************************************************************)
(* What Render's recursions compute                                        *)
(***************************************************************************)

\* The function F takes the number of a step and the value before it to the
\* value after it.
Closed(A, n, F) == \A k \in 1 .. n : \A a \in A : F[<<k, a>>] \in A

Solves(g, b, n, F) == g = [k \in 0 .. n |-> IF k = 0 THEN b ELSE F[<<k, g[k - 1]>>]]

\* A recursion over 0 .. n has a solution.
LEMMA RecursionSolved ==
    ASSUME NEW A, NEW b \in A, NEW n \in Nat, NEW F, Closed(A, n, F)
    PROVE  \E g \in [0 .. n -> A] : Solves(g, b, n, F)
<1> DEFINE Good(g, m) == /\ g \in [0 .. m -> A]
                         /\ g[0] = b
                         /\ \A k \in 1 .. m : g[k] = F[<<k, g[k - 1]>>]
           S == {m \in 0 .. n : \E g : Good(g, m)}
<1>1. 0 \in S
  <2>1. Good([k \in 0 .. 0 |-> b], 0)
    OBVIOUS
  <2> HIDE DEF Good
  <2> QED BY <2>1
<1>2. ASSUME NEW m \in 0 .. n - 1, m \in S PROVE m + 1 \in S
  <2>1. PICK g : Good(g, m)
    BY <1>2
  <2> DEFINE next == F[<<m + 1, g[m]>>]
             h == [k \in 0 .. m + 1 |-> IF k = m + 1 THEN next ELSE g[k]]
  <2>2. g[m] \in A /\ m + 1 \in 1 .. n
    BY <2>1
  <2>3. next \in A
    BY <2>2 DEF Closed
  <2> HIDE DEF next
  <2>4. h \in [0 .. m + 1 -> A]
    BY <2>1, <2>3
  <2>5. h[0] = b
    BY <2>1
  <2>6. ASSUME NEW k \in 1 .. m + 1 PROVE h[k] = F[<<k, h[k - 1]>>]
    <3>1. h[k - 1] = g[k - 1]
      OBVIOUS
    <3>2. CASE k = m + 1
      <4>1. h[k] = next /\ k - 1 = m
        BY <3>2
      <4> QED BY <3>1, <3>2, <4>1 DEF next
    <3>3. CASE k # m + 1
      <4>1. k \in 1 .. m /\ h[k] = g[k]
        BY <3>3
      <4> QED BY <2>1, <3>1, <4>1
    <3> QED BY <3>2, <3>3
  <2>7. Good(h, m + 1)
    <3> HIDE DEF h
    <3> QED BY <2>4, <2>5, <2>6
  <2> HIDE DEF Good
  <2> QED BY <2>7
<1>3. 0 .. n \subseteq S
  <2> HIDE DEF S
  <2> QED BY <1>1, <1>2, UpToAll
<1>4. PICK g : Good(g, n)
  <2>1. n \in 0 .. n
    OBVIOUS
  <2>2. n \in S
    BY <1>3, <2>1
  <2> HIDE DEF Good
  <2> QED BY <2>2
<1>5. g = [k \in 0 .. n |-> g[k]]
  BY <1>4
<1>6. \A k \in 0 .. n : g[k] = IF k = 0 THEN b ELSE F[<<k, g[k - 1]>>]
  BY <1>4
<1>7. g = [k \in 0 .. n |-> IF k = 0 THEN b ELSE F[<<k, g[k - 1]>>]]
  BY <1>5, <1>6
<1> QED BY <1>4, <1>7 DEF Solves

\* A nonempty set of numbers up to n has a greatest one.
LEMMA MaxIs ==
    ASSUME NEW n \in Nat, NEW S, S \subseteq 0 .. n, S # {}
    PROVE  Max(S) \in S /\ \A y \in S : y <= Max(S)
<1> DEFINE M == {k \in 0 .. n : \A y \in S : y <= n - k}
<1>1. \E z \in S : \A y \in S : z >= y
  <2> SUFFICES ASSUME ~ \E z \in S : \A y \in S : z >= y PROVE FALSE
    OBVIOUS
  <2>1. 0 \in M
    OBVIOUS
  <2>2. ASSUME NEW k \in 0 .. n - 1, k \in M PROVE k + 1 \in M
    <3>1. n - k \notin S
      <4>1. \A y \in S : n - k >= y
        BY <2>2
      <4> QED BY <4>1
    <3>2. ASSUME NEW y \in S PROVE y <= n - (k + 1)
      BY <2>2, <3>1
    <3> QED BY <3>2
  <2>3. 0 .. n \subseteq M
    <3> HIDE DEF M
    <3> QED BY <2>1, <2>2, UpToAll
  <2>4. n \in M
    BY <2>3
  <2>5. \A y \in S : y = 0
    BY <2>4
  <2>6. PICK z \in S : z = 0
    BY <2>5
  <2>7. \A y \in S : z >= y
    <3> HIDE DEF M
    <3> QED BY <2>5, <2>6
  <2> QED BY <2>7
<1> QED BY <1>1 DEF Max

\* The characters of the first k segments.
TextCounted ==
    \A k \in 0 .. SegmentCount : /\ TextUpTo[k] = CountTo(stream, End(sg, k))
                                 /\ TextUpTo[k] \in Nat

LEMMA TextUpToIs ==
    ASSUME stream \in Seq(Kinds), SegmentCount \in Nat, Bounded(sg, SegmentCount),
           \A k \in 1 .. SegmentCount : sg[k].buf.Count = Stop(sg, k) - Start(sg, k),
           NEW h \in 0 .. Len(stream), Covered(stream, sg, SegmentCount, h)
    PROVE  TextCounted
<1> DEFINE n == SegmentCount
           g == [k \in 0 .. n |-> CountTo(stream, End(sg, k))]
           Rec(f) == f = [k \in 0 .. n |-> IF k = 0 THEN 0 ELSE f[k - 1] + sg[k].buf.Count]
<1>1. ASSUME NEW k \in 0 .. n
      PROVE  g[k] = IF k = 0 THEN 0 ELSE g[k - 1] + sg[k].buf.Count
  <2>1. CASE k = 0
    <3>1. GlyphsTo(stream, 0) = {}
      BY DEF GlyphsTo
    <3>2. End(sg, 0) = 0
      BY DEF End
    <3> QED BY <2>1, <3>1, <3>2, FS_EmptySet DEF CountTo
  <2>2. CASE k # 0
    <3>1. k \in 1 .. n /\ k - 1 \in 0 .. n
      BY <2>2
    <3>2. /\ Start(sg, k) \in Nat /\ Stop(sg, k) \in Nat /\ Start(sg, k) <= Stop(sg, k)
          /\ sg[k].buf.Count = Stop(sg, k) - Start(sg, k)
      BY <3>1 DEF Bounded
    <3>3. sg[k].buf.Count \in 0 .. Stop(sg, k) - Start(sg, k)
      BY <3>2
    <3>4. CountTo(stream, Start(sg, k) + sg[k].buf.Count)
            = CountTo(stream, End(sg, k - 1)) + sg[k].buf.Count
      BY <3>1, <3>3, SegmentText
    <3>5. Start(sg, k) + sg[k].buf.Count = End(sg, k)
      BY <2>2, <3>2 DEF End
    <3> QED BY <2>2, <3>1, <3>4, <3>5
  <2> QED BY <2>1, <2>2
<1>2. Rec(g)
  <2>1. g = [k \in 0 .. n |-> g[k]]
    OBVIOUS
  <2> HIDE DEF g
  <2> QED BY <1>1, <2>1
<1>3. Rec(TextUpTo)
  <2>1. TextUpTo = CHOOSE f : Rec(f)
    BY Zenon DEF TextUpTo
  <2> HIDE DEF Rec
  <2> QED BY <1>2, <2>1
<1>4. /\ TextUpTo[0] = 0
      /\ \A k \in 1 .. n : TextUpTo[k] = TextUpTo[k - 1] + sg[k].buf.Count
  <2> HIDE DEF n
  <2>1. \A k \in 0 .. n : TextUpTo[k] = IF k = 0 THEN 0 ELSE TextUpTo[k - 1] + sg[k].buf.Count
    BY <1>3
  <2>2. 0 \in 0 .. n /\ \A k \in 1 .. n : k \in 0 .. n /\ k # 0
    BY DEF n
  <2> QED BY <2>1, <2>2
<1> DEFINE S == {k \in 0 .. n : TextUpTo[k] = g[k]}
<1>5. 0 \in S
  <2>1. 0 \in 0 .. n
    OBVIOUS
  <2> HIDE DEF n, g
  <2>2. g[0] = 0
    BY <1>1, <2>1
  <2> QED BY <1>4, <2>1, <2>2
<1>6. ASSUME NEW k \in 0 .. n - 1, k \in S PROVE k + 1 \in S
  <2>1. k + 1 \in 1 .. n /\ (k + 1) - 1 = k /\ k + 1 \in 0 .. n /\ k + 1 # 0
    OBVIOUS
  <2>2. TextUpTo[k] = g[k]
    BY <1>6
  <2> HIDE DEF n, g
  <2>3. TextUpTo[k + 1] = TextUpTo[k] + sg[k + 1].buf.Count
    BY <1>4, <2>1
  <2>4. g[k + 1] = g[k] + sg[k + 1].buf.Count
    BY <1>1, <2>1
  <2> QED BY <2>1, <2>2, <2>3, <2>4
<1>7. 0 .. n \subseteq S
  <2> HIDE DEF S
  <2> QED BY <1>5, <1>6, UpToAll
<1> QED BY <1>7, CountTyped DEF TextCounted

\* The start of a group is a segment before it.
LEMMA StartSegmentIn ==
    ASSUME SegmentCount \in Nat, NEW k \in 0 .. SegmentCount
    PROVE  /\ StartSegment(k) \in 0 .. SegmentCount
           /\ k = 0 => StartSegment(k) = 0
           /\ k > 0 => StartSegment(k) \in 0 .. k - 1
<1> DEFINE S == {0} \cup {m \in 1 .. k - 1 :
                            sg[m].line_end \/ TextLength(m + 1, k) >= th * tw}
<1>1. StartSegment(k) = Max(S)
  BY DEF StartSegment
<1>2. CASE k = 0
  <2>1. S = {0}
    BY <1>2
  <2>2. Max(S) \in S
    <3>1. S \subseteq 0 .. 0 /\ S # {} /\ 0 \in Nat
      BY <2>1
    <3> HIDE DEF S
    <3> QED BY <3>1, MaxIs
  <2> QED BY <1>1, <1>2, <2>1, <2>2
<1>3. CASE k > 0
  <2>1. S \subseteq 0 .. k - 1 /\ S # {} /\ k - 1 \in Nat
    BY <1>3
  <2> HIDE DEF S
  <2>2. Max(S) \in S
    BY <2>1, MaxIs
  <2>3. Max(S) \in 0 .. k - 1
    BY <2>1, <2>2
  <2> QED BY <1>1, <1>3, <2>3
<1> QED BY <1>2, <1>3

\* Turn by turn, Render goes to the segment before the group.
LEMMA GroupEndIs ==
    ASSUME SegmentCount \in Nat
    PROVE  /\ GroupEnd \in [0 .. SegmentCount -> 0 .. SegmentCount]
           /\ GroupEnd[0] = SegmentCount
           /\ \A n \in 1 .. SegmentCount : GroupEnd[n] = StartSegment(GroupEnd[n - 1])
<1> DEFINE N == SegmentCount
           F == [a \in (1 .. N) \X (0 .. N) |-> StartSegment(a[2])]
           Rec(f) == f = [n \in 0 .. N |-> IF n = 0 THEN N ELSE StartSegment(f[n - 1])]
<1> HIDE DEF N
<1>0. N \in Nat /\ N \in 0 .. N
  BY DEF N
<1>1. ASSUME NEW n \in 1 .. N, NEW a \in 0 .. N
      PROVE  F[<<n, a>>] = StartSegment(a) /\ StartSegment(a) \in 0 .. N
  <2>1. StartSegment(a) \in 0 .. N
    BY <1>0, StartSegmentIn DEF N
  <2> QED BY <2>1
<1>2. Closed(0 .. N, N, F)
  <2> HIDE DEF F
  <2> QED BY <1>1 DEF Closed
<1>3. PICK g \in [0 .. N -> 0 .. N] : Solves(g, N, N, F)
  <2> HIDE DEF F
  <2> QED BY <1>0, <1>2, RecursionSolved
<1>4. Rec(g)
  <2>1. \A n \in 0 .. N : n # 0 => n \in 1 .. N /\ n - 1 \in 0 .. N
    BY <1>0
  <2>2. \A n \in 0 .. N : n # 0 => F[<<n, g[n - 1]>>] = StartSegment(g[n - 1])
    <3> HIDE DEF F
    <3> QED BY <1>1, <1>3, <2>1
  <2> HIDE DEF F
  <2> QED BY <1>3, <2>2 DEF Solves
<1>5. Rec(GroupEnd)
  <2>1. GroupEnd = CHOOSE f : Rec(f)
    BY Zenon DEF GroupEnd, N
  <2> HIDE DEF Rec
  <2> QED BY <1>4, <2>1
<1>6. /\ GroupEnd[0] = N
      /\ \A n \in 1 .. N : GroupEnd[n] = StartSegment(GroupEnd[n - 1])
      /\ DOMAIN GroupEnd = 0 .. N /\ GroupEnd = [n \in 0 .. N |-> GroupEnd[n]]
  <2>1. \A n \in 0 .. N : GroupEnd[n] = IF n = 0 THEN N ELSE StartSegment(GroupEnd[n - 1])
    BY <1>5
  <2>2. 0 \in 0 .. N /\ \A n \in 1 .. N : n \in 0 .. N /\ n # 0
    BY <1>0
  <2>3. DOMAIN GroupEnd = 0 .. N /\ GroupEnd = [n \in 0 .. N |-> GroupEnd[n]]
    BY <1>5
  <2> QED BY <2>1, <2>2, <2>3
<1> DEFINE S == {n \in 0 .. N : GroupEnd[n] \in 0 .. N}
<1>7. 0 \in S
  BY <1>0, <1>6
<1>8. ASSUME NEW n \in 0 .. N - 1, n \in S PROVE n + 1 \in S
  <2>1. n + 1 \in 1 .. N /\ (n + 1) - 1 = n /\ n + 1 \in 0 .. N
    BY <1>0
  <2>2. GroupEnd[n] \in 0 .. N
    BY <1>8
  <2>3. GroupEnd[n + 1] = StartSegment(GroupEnd[n])
    BY <1>6, <2>1
  <2> QED BY <1>1, <2>1, <2>2, <2>3
<1>9. 0 .. N \subseteq S
  <2> HIDE DEF S
  <2> QED BY <1>0, <1>7, <1>8, UpToAll
<1>10. GroupEnd \in [0 .. N -> 0 .. N]
  BY <1>6, <1>9
<1> QED BY <1>6, <1>10 DEF N

\* Counting down, step by step.
Descends(g, b, n, d) == g[0] = b /\ \A k \in 1 .. n : g[k] = g[k - 1] - d[k]

LEMMA CountDown ==
    ASSUME NEW b \in Int, NEW n \in Nat, NEW d, \A k \in 1 .. n : d[k] \in Int
    PROVE  \E g \in [0 .. n -> Int] : Descends(g, b, n, d)
<1> DEFINE F == [a \in (1 .. n) \X Int |-> a[2] - d[a[1]]]
<1>1. ASSUME NEW k \in 1 .. n, NEW a \in Int PROVE F[<<k, a>>] = a - d[k] /\ F[<<k, a>>] \in Int
  OBVIOUS
<1> HIDE DEF F
<1>2. Closed(Int, n, F)
  BY <1>1 DEF Closed
<1>3. PICK g \in [0 .. n -> Int] : Solves(g, b, n, F)
  BY <1>2, RecursionSolved
<1>4. \A k \in 0 .. n : g[k] = IF k = 0 THEN b ELSE F[<<k, g[k - 1]>>]
  BY <1>3 DEF Solves
<1>5. g[0] = b
  <2>1. 0 \in 0 .. n
    OBVIOUS
  <2> QED BY <1>4, <2>1
<1>6. ASSUME NEW k \in 1 .. n PROVE g[k] = g[k - 1] - d[k]
  <2>1. k \in 0 .. n /\ k # 0 /\ k - 1 \in 0 .. n
    OBVIOUS
  <2>2. g[k - 1] \in Int
    BY <2>1
  <2> QED BY <1>1, <1>4, <2>1, <2>2
<1> QED BY <1>3, <1>5, <1>6 DEF Descends

\* Rows of a line of c characters.
LEMMA RowsOfIs ==
    ASSUME tw \in Nat \ {0}, NEW c \in Nat
    PROVE  /\ RowsOf(c) \in Nat \ {0}
           /\ c > 0 => /\ (c - 1) % tw \in 0 .. tw - 1
                       /\ c - 1 = tw * (RowsOf(c) - 1) + ((c - 1) % tw)
           /\ c <= tw * RowsOf(c)
<1>1. CASE c = 0
  <2>1. RowsOf(c) = 1
    BY <1>1 DEF RowsOf
  <2> QED BY <1>1, <2>1
<1>2. CASE c > 0
  <2> DEFINE q == (c - 1) \div tw
             r == (c - 1) % tw
  <2>1. q \in Int /\ r \in 0 .. tw - 1 /\ c - 1 = tw * q + r
    BY <1>2
  <2>2. RowsOf(c) = q + 1
    BY <1>2 DEF RowsOf
  <2> HIDE DEF q, r
  <2>3. q >= 0
    <3> SUFFICES ASSUME q <= -1 PROVE FALSE
      BY <2>1
    <3>1. tw * q <= -tw
      BY <2>1
    <3> QED BY <1>2, <2>1, <3>1
  <2>4. tw * (q + 1) = tw * q + tw
    BY <2>1
  <2>5. c <= tw * RowsOf(c)
    BY <2>1, <2>2, <2>4
  <2>6. RowsOf(c) - 1 = q
    BY <2>1, <2>2
  <2>7. c > 0 => /\ (c - 1) % tw \in 0 .. tw - 1
                 /\ c - 1 = tw * (RowsOf(c) - 1) + ((c - 1) % tw)
    BY <2>1, <2>6 DEF r
  <2>8. RowsOf(c) \in Nat \ {0}
    BY <2>1, <2>2, <2>3
  <2> QED BY <2>5, <2>7, <2>8
<1> QED BY <1>1, <1>2

\* The turns go up by the rows of their groups.
TurnRows ==
    /\ \A n \in 1 .. SegmentCount : GroupRow[n] \in Int
    /\ SegmentCount > 0 => GroupRow[1] = FirstRow
    /\ \A n \in 2 .. SegmentCount : GroupRow[n] = GroupRow[n - 1] - RowsOf(GroupLength(n - 1))

LEMMA GroupRowIs ==
    ASSUME SegmentCount \in Nat, tw \in Nat \ {0}, FirstRow \in Int,
           \A n \in 1 .. SegmentCount : GroupLength(n) \in Nat
    PROVE  TurnRows
<1> DEFINE N == SegmentCount
           d == [n \in 1 .. N |-> RowsOf(GroupLength(n))]
           Rec(f) == f = [n \in 1 .. N |-> IF n = 1 THEN FirstRow
                                           ELSE f[n - 1] - RowsOf(GroupLength(n - 1))]
<1> HIDE DEF N
<1>1. CASE N = 0
  <2>1. ~ \E n \in 1 .. N : TRUE
    BY <1>1
  <2>2. ~ \E n \in 2 .. N : TRUE
    BY <1>1
  <2>3. ~(N > 0)
    BY <1>1
  <2> QED BY <2>1, <2>2, <2>3 DEF TurnRows, N
<1>2. CASE N > 0
  <2>0. N \in Nat /\ N - 1 \in Nat
    BY <1>2 DEF N
  <2>1. ASSUME NEW n \in 1 .. N PROVE d[n] = RowsOf(GroupLength(n)) /\ d[n] \in Int
    <3>1. GroupLength(n) \in Nat
      BY DEF N
    <3> QED BY <3>1, RowsOfIs
  <2> HIDE DEF d
  <2>2. \A k \in 1 .. N - 1 : d[k] \in Int
    BY <2>0, <2>1
  <2>3a. PICK g \in [0 .. N - 1 -> Int] : Descends(g, FirstRow, N - 1, d)
    BY <2>0, <2>2, CountDown
  <2>3. g[0] = FirstRow /\ \A k \in 1 .. N - 1 : g[k] = g[k - 1] - d[k]
    BY <2>3a DEF Descends
  <2> DEFINE f == [n \in 1 .. N |-> g[n - 1]]
  <2>4. ASSUME NEW n \in 1 .. N
        PROVE  /\ f[n] = IF n = 1 THEN FirstRow
                         ELSE f[n - 1] - RowsOf(GroupLength(n - 1))
               /\ f[n] \in Int
    <3>0. n - 1 \in 0 .. N - 1
      BY <2>0
    <3>1. CASE n = 1
      BY <2>3, <3>0, <3>1
    <3>2. CASE n # 1
      <4>1. n - 1 \in 1 .. N - 1 /\ n - 1 \in 1 .. N /\ (n - 1) - 1 \in 0 .. N - 1
        BY <2>0, <3>2
      <4>2. f[n] = g[n - 1] /\ f[n - 1] = g[(n - 1) - 1]
        BY <4>1
      <4>3. g[n - 1] = g[(n - 1) - 1] - d[n - 1]
        BY <2>3, <4>1
      <4>4. d[n - 1] = RowsOf(GroupLength(n - 1))
        BY <2>1, <4>1
      <4>5. g[n - 1] \in Int
        BY <2>3, <3>0
      <4> HIDE DEF f
      <4> QED BY <3>2, <4>2, <4>3, <4>4, <4>5
    <3> QED BY <3>1, <3>2
  <2>5. Rec(f)
    <3>1. f = [n \in 1 .. N |-> f[n]]
      OBVIOUS
    <3> HIDE DEF f
    <3> QED BY <2>4, <3>1
  <2>6. Rec(GroupRow)
    <3>1. GroupRow = CHOOSE q : Rec(q)
      BY Zenon DEF GroupRow, N
    <3> HIDE DEF Rec, f
    <3> QED BY <2>5, <3>1
  <2>7. \A n \in 1 .. N : GroupRow[n] = IF n = 1 THEN FirstRow
                                        ELSE GroupRow[n - 1] - RowsOf(GroupLength(n - 1))
    <3> HIDE DEF f
    <3> QED BY <2>6
  <2>8. GroupRow[1] = FirstRow /\ 1 \in 1 .. N
    BY <1>2, <2>0, <2>7
  <2>9. \A n \in 2 .. N : GroupRow[n] = GroupRow[n - 1] - RowsOf(GroupLength(n - 1))
    <3>1. \A n \in 2 .. N : n \in 1 .. N /\ n # 1
      BY <2>0
    <3> QED BY <2>7, <3>1
  <2> DEFINE S == {k \in 0 .. N - 1 : GroupRow[k + 1] \in Int}
  <2>10. 0 \in S
    BY <2>0, <2>8
  <2>11. ASSUME NEW k \in 0 .. (N - 1) - 1, k \in S PROVE k + 1 \in S
    <3>1. (k + 1) + 1 \in 2 .. N /\ ((k + 1) + 1) - 1 = k + 1 /\ k + 1 \in 0 .. N - 1
          /\ k + 1 \in 1 .. N
      BY <2>0
    <3>2. GroupRow[k + 1] \in Int
      BY <2>11
    <3>3. GroupRow[(k + 1) + 1] = GroupRow[k + 1] - RowsOf(GroupLength(k + 1))
      BY <2>9, <3>1
    <3>4. RowsOf(GroupLength(k + 1)) \in Int
      BY <2>1, <3>1
    <3> QED BY <3>1, <3>2, <3>3, <3>4
  <2>12. 0 .. N - 1 \subseteq S
    <3> HIDE DEF S
    <3> QED BY <2>0, <2>10, <2>11, UpToAll
  <2>13. ASSUME NEW n \in 1 .. N PROVE GroupRow[n] \in Int
    <3>1. n - 1 \in 0 .. N - 1 /\ (n - 1) + 1 = n
      BY <2>0
    <3>2. GroupRow[(n - 1) + 1] \in Int
      BY <2>12, <3>1
    <3> QED BY <3>1, <3>2
  <2> QED BY <2>8, <2>9, <2>13 DEF TurnRows, N
<1>3. N \in Nat
  BY DEF N
<1> QED BY <1>1, <1>2, <1>3

\* The lines are stacked up from the row of the last one.
LineRows ==
    /\ \A l \in 0 .. LastLine : BottomRow[l] \in Int
    /\ BottomRow[LastLine] = FirstRow
    /\ LastLine > 0 /\ Length(LastLine) = 0 => BottomRow[LastLine - 1] = FirstRow
    /\ \A l \in 0 .. LastLine - 1 :
         l + 1 # LastLine \/ Length(LastLine) # 0 =>
           BottomRow[l] = BottomRow[l + 1] - RowsOf(Length(l + 1))

LEMMA BottomRowIs ==
    ASSUME LastLine \in Nat, tw \in Nat \ {0}, FirstRow \in Int,
           \A l \in 0 .. LastLine : Length(l) \in Nat
    PROVE  LineRows
<1> DEFINE N == LastLine
           d == [k \in 1 .. N |-> IF k = 1 /\ Length(N) = 0 THEN 0 ELSE RowsOf(Length(N - k + 1))]
           Rec(f) == f = [l \in 0 .. N |->
                            IF l = N THEN FirstRow
                            ELSE IF l + 1 = N /\ Length(N) = 0 THEN FirstRow
                            ELSE f[l + 1] - RowsOf(Length(l + 1))]
<1> HIDE DEF N
<1>0. N \in Nat
  BY DEF N
<1>1. ASSUME NEW k \in 1 .. N
      PROVE  /\ d[k] = IF k = 1 /\ Length(N) = 0 THEN 0 ELSE RowsOf(Length(N - k + 1))
             /\ d[k] \in Int
  <2>1. N - k + 1 \in 0 .. N
    BY <1>0
  <2>2. Length(N - k + 1) \in Nat
    BY <2>1 DEF N
  <2> QED BY <2>2, RowsOfIs
<1> HIDE DEF d
<1>2a. PICK g \in [0 .. N -> Int] : Descends(g, FirstRow, N, d)
  <2>1. \A k \in 1 .. N : d[k] \in Int
    BY <1>1
  <2> QED BY <1>0, <2>1, CountDown
<1>2. g[0] = FirstRow /\ \A k \in 1 .. N : g[k] = g[k - 1] - d[k]
  BY <1>2a DEF Descends
<1> DEFINE f == [l \in 0 .. N |-> g[N - l]]
<1>3. ASSUME NEW l \in 0 .. N
      PROVE  /\ f[l] \in Int
             /\ f[l] = IF l = N THEN FirstRow
                       ELSE IF l + 1 = N /\ Length(N) = 0 THEN FirstRow
                       ELSE f[l + 1] - RowsOf(Length(l + 1))
  <2>0. N - l \in 0 .. N /\ f[l] = g[N - l]
    BY <1>0
  <2>1. CASE l = N
    <3>1. N - l = 0
      BY <1>0, <2>1
    <3> HIDE DEF f
    <3> QED BY <1>2, <2>0, <2>1, <3>1
  <2>2. CASE l # N
    <3> DEFINE k == N - l
    <3>1. k \in 1 .. N /\ l + 1 \in 0 .. N /\ N - (l + 1) = k - 1 /\ N - k + 1 = l + 1
          /\ (k = 1 <=> l + 1 = N)
      BY <1>0, <2>2
    <3>2. f[l + 1] = g[k - 1]
      BY <3>1
    <3>3. g[k] = g[k - 1] - d[k]
      <4> HIDE DEF k, f
      <4> QED BY <1>2, <3>1
    <3>4. d[k] = IF l + 1 = N /\ Length(N) = 0 THEN 0 ELSE RowsOf(Length(l + 1))
      <4> HIDE DEF k, f
      <4> QED BY <1>1, <3>1
    <3>5. k = 1 => g[k - 1] = FirstRow
      <4>1. k = 1 => k - 1 = 0
        OBVIOUS
      <4> HIDE DEF f, k
      <4> QED BY <1>2, <4>1
    <3>6. g[k] \in Int /\ g[k - 1] \in Int
      <4>1. k \in 0 .. N /\ k - 1 \in 0 .. N
        BY <1>0, <3>1
      <4> HIDE DEF k, f
      <4> QED BY <1>2, <4>1
    <3>7. f[l] = g[k]
      BY <2>0
    <3> HIDE DEF f, k
    <3> QED BY <2>2, <3>1, <3>2, <3>3, <3>4, <3>5, <3>6, <3>7
  <2> QED BY <2>1, <2>2
<1>4. Rec(f)
  <2>1. f = [l \in 0 .. N |-> f[l]]
    OBVIOUS
  <2> HIDE DEF f
  <2> QED BY <1>3, <2>1
<1>5. Rec(BottomRow)
  <2>1. BottomRow = CHOOSE q : Rec(q)
    BY Zenon DEF BottomRow, N
  <2> HIDE DEF Rec, f
  <2> QED BY <1>4, <2>1
<1>6. \A l \in 0 .. N : BottomRow[l] = IF l = N THEN FirstRow
                                       ELSE IF l + 1 = N /\ Length(N) = 0 THEN FirstRow
                                       ELSE BottomRow[l + 1] - RowsOf(Length(l + 1))
  <2> HIDE DEF f
  <2> QED BY <1>5
<1> HIDE DEF f, Rec
<1>7. BottomRow[N] = FirstRow
  BY <1>0, <1>6
<1>8. N > 0 /\ Length(N) = 0 => BottomRow[N - 1] = FirstRow
  <2>1. N > 0 => N - 1 \in 0 .. N /\ (N - 1) + 1 = N
    BY <1>0
  <2> QED BY <1>6, <2>1
<1>9. ASSUME NEW l \in 0 .. N - 1, l + 1 # N \/ Length(N) # 0
      PROVE  BottomRow[l] = BottomRow[l + 1] - RowsOf(Length(l + 1))
  <2>1. l \in 0 .. N /\ l # N
    BY <1>0
  <2> QED BY <1>6, <1>9, <2>1
<1> DEFINE S == {k \in 0 .. N : BottomRow[N - k] \in Int}
<1>10. 0 \in S
  BY <1>0, <1>7
<1>11. ASSUME NEW k \in 0 .. N - 1, k \in S PROVE k + 1 \in S
  <2> DEFINE l == N - (k + 1)
  <2>1. l \in 0 .. N - 1 /\ l \in 0 .. N /\ l + 1 = N - k /\ l + 1 \in 0 .. N /\ k + 1 \in 0 .. N
        /\ l # N
    BY <1>0
  <2>2. BottomRow[l + 1] \in Int
    BY <1>11, <2>1
  <2> HIDE DEF l
  <2>3. RowsOf(Length(l + 1)) \in Int
    <3>1. Length(l + 1) \in Nat
      BY <2>1 DEF N
    <3> QED BY <3>1, RowsOfIs
  <2>4. BottomRow[l] \in Int
    BY <1>6, <2>1, <2>2, <2>3
  <2> QED BY <2>1, <2>4 DEF l
<1>12. 0 .. N \subseteq S
  <2> HIDE DEF S
  <2> QED BY <1>0, <1>10, <1>11, UpToAll
<1>13. ASSUME NEW l \in 0 .. N PROVE BottomRow[l] \in Int
  <2>1. N - l \in 0 .. N /\ N - (N - l) = l
    BY <1>0
  <2>2. BottomRow[N - (N - l)] \in Int
    BY <1>12, <2>1
  <2> QED BY <2>1, <2>2
<1> QED BY <1>7, <1>8, <1>9, <1>13 DEF LineRows, N

(***************************************************************************)
(* The turns of Render and the lines of the stream                         *)
(***************************************************************************)

\* What ScreenShowsStream assumes, between two turns of the loop.
Settled ==
    /\ CInv /\ TailUsed
    /\ Idle /\ OnlyLineEnds
    /\ \A l \in 0 .. LastLine : Length(l) < tw * th
    /\ ~(Len(stream) > 0 /\ Kind(Len(stream) - 1) = "CR" /\ Length(LastLine) = 0)

\* All of the stream is in segments.
AllCut ==
    /\ stream \in Seq(Kinds) /\ Len(stream) \in Nat
    /\ AbsoluteFilledSize + rd = Len(stream)
    /\ SegmentCount \in Nat /\ Bounded(sg, SegmentCount)
    /\ \A k \in 1 .. SegmentCount : sg[k].buf.Count = Stop(sg, k) - Start(sg, k)
    /\ Covered(stream, sg, SegmentCount, Len(stream))
    /\ LastLine = Cardinality(EndsTo(sg, SegmentCount))
    /\ tw \in Nat \ {0} /\ th \in Nat \ {0}
    /\ CursorX \in Nat /\ CursorY \in Nat /\ FirstRow \in Int /\ FirstRow <= CursorY
    /\ TextCounted
    /\ SegmentCount > 0 =>
         sg[SegmentCount].line_end \/ Length(LastLine) > 0 \/ sg[SegmentCount].buf.Count > 0

LEMMA SettledMeans == Settled => AllCut
<1> SUFFICES ASSUME Settled PROVE AllCut
  OBVIOUS
<1> DEFINE n == SegmentCount
           h == Len(stream)
<1>1. TInv /\ TypeOK /\ CInv /\ Idle /\ OnlyLineEnds
  BY DEF Settled, CInv, TInv
<1>2. writing = FALSE
  BY <1>1 DEF TInv, ReadingInTty, Idle, RP!IInv, RP!TypeOK
<1>3. /\ rd = 0 /\ AbsoluteFilledSize \in Nat /\ h = AbsoluteFilledSize + rd
      /\ stream \in Seq(Kinds) /\ h \in Nat
  BY <1>1, <1>2 DEF TInv, RP!IInv, RP!RangeCurrent, RP!TypeOK, TypeOK
<1>4. Handled = h
  BY <1>1, <1>3 DEF Handled, Idle
<1>5. Covered(stream, sg, n, h) /\ n \in Nat /\ Bounded(sg, n)
  BY <1>1, <1>4, SegmentsBounded DEF CInv
<1>6. ASSUME NEW k \in 1 .. n PROVE sg[k].buf.Count = Stop(sg, k) - Start(sg, k)
  <2>1. sg[k] \in Segments
    <3>1. sg \in Seq(Segments)
      BY <1>1 DEF TypeOK, Segments
    <3> QED BY <3>1, ElementOfSeq DEF SegmentCount
  <2>2. sg[k].buf.Count \in Nat /\ sg[k].buf.AbsoluteP \in Nat
    BY <2>1 DEF Segments, Ring!Range
  <2> QED BY <2>2 DEF Start, Stop
<1>7. tw \in Nat \ {0} /\ th \in Nat \ {0} /\ CursorX \in Nat /\ CursorY \in Nat
  BY <1>1, ScreenTyped DEF TypeOK
<1>8. FirstRow \in Int /\ FirstRow <= CursorY
  BY <1>7 DEF FirstRow
<1>9. LastLine = Cardinality(EndsTo(sg, n))
  BY <1>3, <1>5, StreamLines DEF Covered, LinesTo
<1>10. TextCounted
  <2>1. h \in 0 .. Len(stream)
    BY <1>3
  <2> QED BY <1>3, <1>5, <1>6, <2>1, TextUpToIs
<1>11. ASSUME n > 0
       PROVE  sg[n].line_end \/ Length(LastLine) > 0 \/ sg[n].buf.Count > 0
  <2>1. sg[n].line_end \/ sg[n].buf.Count > 0 \/ (Handled > 0 /\ stream[Handled] = "CR")
    BY <1>1, <1>11 DEF Settled, TailUsed, Idle
  <2>2. CASE Handled > 0 /\ stream[Handled] = "CR"
    <3>1. Len(stream) > 0 /\ Kind(Len(stream) - 1) = "CR"
      BY <1>3, <1>4, <2>2 DEF Kind
    <3>2. Length(LastLine) # 0 /\ Length(LastLine) \in Nat
      BY <1>3, <3>1, StreamLines DEF Settled
    <3> QED BY <3>2
  <2> QED BY <2>1, <2>2
<1> QED BY <1>3, <1>5, <1>6, <1>7, <1>8, <1>9, <1>10, <1>11 DEF AllCut

\* The group that begins at the last segment of a line is that line, which is
\* shorter than the screen.
LEMMA GroupIsLine ==
    ASSUME Settled, NEW k \in 1 .. SegmentCount, k = SegmentCount \/ sg[k].line_end
    PROVE  LineSegments(sg, SegmentCount, StartSegment(k), k)
<1> DEFINE n == SegmentCount
           E == {0} \cup {m \in 1 .. k - 1 : sg[m].line_end}
           e == Max(E)
           S == {0} \cup {m \in 1 .. k - 1 :
                            sg[m].line_end \/ TextLength(m + 1, k) >= th * tw}
<1>0. AllCut
  BY SettledMeans
<1>1. e \in E /\ \A m \in E : m <= e
  <2>1. E \subseteq 0 .. k - 1 /\ E # {} /\ k - 1 \in Nat
    BY <1>0 DEF AllCut
  <2> HIDE DEF E
  <2> QED BY <2>1, MaxIs
<1>2. LineSegments(sg, n, e, k)
  <2>1. e \in 0 .. k - 1 /\ (e = 0 \/ sg[e].line_end)
    <3> HIDE DEF e
    <3> QED BY <1>0, <1>1 DEF AllCut
  <2>2. ASSUME NEW j \in e + 1 .. k - 1 PROVE ~sg[j].line_end
    <3> HIDE DEF e
    <3>1. j \in 1 .. k - 1 /\ ~(j <= e)
      BY <1>0, <2>1 DEF AllCut
    <3> QED BY <1>1, <3>1
  <2> QED BY <2>1, <2>2 DEF LineSegments
<1> HIDE DEF e
<1>3. e \in 0 .. k - 1 /\ e \in 0 .. n /\ k \in 0 .. n /\ n \in Nat
  BY <1>0, <1>2 DEF LineSegments, AllCut
<1>4. LineOf(sg, k) \in 0 .. LastLine
  <2>1. k - 1 \in 0 .. n
    BY <1>3
  <2>2. /\ Cardinality(EndsTo(sg, k - 1)) \in Nat
        /\ Cardinality(EndsTo(sg, k - 1)) <= Cardinality(EndsTo(sg, n))
        /\ Cardinality(EndsTo(sg, n)) \in Nat
    <3>1. k - 1 \in Nat
      BY <2>1
    <3> QED BY <1>3, <2>1, <3>1, EndsCounted
  <2> QED BY <1>0, <2>2 DEF LineOf, AllCut
<1>5. Length(LineOf(sg, k)) = TextUpTo[k] - TextUpTo[e]
  <2>1. Len(stream) \in 0 .. Len(stream)
    BY <1>0 DEF AllCut
  <2>2. LengthTo(stream, Len(stream), LineOf(sg, k))
          = CountTo(stream, Stop(sg, k)) - CountTo(stream, End(sg, e))
    BY <1>0, <1>2, <2>1, LineCounted DEF AllCut
  <2>3. Stop(sg, k) = End(sg, k)
    BY DEF End
  <2> QED BY <1>0, <1>3, <2>2, <2>3, StreamLines DEF AllCut, TextCounted
<1>6. ASSUME NEW m \in S PROVE m <= e
  <2> SUFFICES ASSUME ~(m <= e) PROVE FALSE
    OBVIOUS
  <2>1. m \in 1 .. k - 1 /\ m \in 0 .. n /\ m > e
    BY <1>3
  <2>2. ~sg[m].line_end
    BY <1>1, <2>1
  <2>3. TextUpTo[k] - TextUpTo[m] >= th * tw
    <3>1. TextLength(m + 1, k) >= th * tw
      BY <1>3, <2>1, <2>2
    <3>2. (m + 1) - 1 = m
      BY <2>1
    <3> QED BY <3>1, <3>2 DEF TextLength
  <2>4. TextUpTo[e] <= TextUpTo[m]
    <3>1. e \in 0 .. m
      BY <1>3, <2>1
    <3>2. /\ End(sg, e) <= End(sg, m)
          /\ End(sg, e) \in 0 .. Len(stream)
          /\ End(sg, m) \in 0 .. Len(stream)
      BY <1>0, <1>3, <2>1, <3>1, EndsInOrder DEF AllCut
    <3>3. End(sg, e) \in Int /\ End(sg, m) \in Int
      BY <3>2
    <3>4. CountTo(stream, End(sg, e)) <= CountTo(stream, End(sg, m))
      BY <1>0, <3>2, <3>3, CountBetween DEF AllCut
    <3> QED BY <1>0, <1>3, <2>1, <3>4 DEF AllCut, TextCounted
  <2>5. Length(LineOf(sg, k)) < tw * th
    BY <1>4 DEF Settled
  <2>6. /\ TextUpTo[e] \in Nat /\ TextUpTo[m] \in Nat /\ TextUpTo[k] \in Nat
        /\ tw * th \in Nat /\ th * tw = tw * th
    BY <1>0, <1>3, <2>1 DEF AllCut, TextCounted
  <2> QED BY <1>5, <2>3, <2>4, <2>5, <2>6
<1>7. e \in S
  BY <1>1, <1>3
<1>8. StartSegment(k) = e
  <2>1. StartSegment(k) = Max(S)
    BY DEF StartSegment
  <2>2. Max(S) \in S /\ \A m \in S : m <= Max(S)
    <3>1. S \subseteq 0 .. k - 1 /\ S # {} /\ k - 1 \in Nat
      BY <1>3
    <3> HIDE DEF S
    <3> QED BY <3>1, MaxIs
  <2>3. Max(S) <= e /\ e <= Max(S)
    BY <1>6, <1>7, <2>2
  <2>4. Max(S) \in Int
    BY <1>3, <2>2
  <2> HIDE DEF S
  <2> QED BY <1>3, <2>1, <2>3, <2>4
<1> QED BY <1>2, <1>8

\* Every turn that finds a segment lays out one line, the last line of a
\* segment first.
LineAt(n) == LineOf(sg, SegmentCount) + 1 - n

TurnIsLine(n) ==
    /\ LineSegments(sg, SegmentCount, GroupEnd[n], GroupEnd[n - 1])
    /\ LineOf(sg, GroupEnd[n - 1]) = LineAt(n)
    /\ LineAt(n) \in 0 .. LastLine
    /\ GroupLength(n) = Length(LineAt(n))

TurnsAreLines ==
    /\ \A n \in 1 .. SegmentCount : GroupEnd[n - 1] > 0 => TurnIsLine(n)
    /\ \A n \in 1 .. SegmentCount : GroupLength(n) \in Nat
    /\ \A n \in 0 .. SegmentCount : GroupEnd[n] \in 0 .. SegmentCount - n
    /\ \A n \in 1 .. SegmentCount : GroupEnd[n - 1] = 0 => GroupEnd[n] = 0

\* The turns go back, to segments that end lines.
LEMMA TurnsGoBack ==
    ASSUME Settled, NEW n \in 0 .. SegmentCount
    PROVE  /\ GroupEnd[n] \in 0 .. SegmentCount - n
           /\ n = 0 \/ GroupEnd[n] = 0 \/ sg[GroupEnd[n]].line_end
<1> DEFINE N == SegmentCount
           Good(m) == /\ GroupEnd[m] \in 0 .. N - m
                      /\ m = 0 \/ GroupEnd[m] = 0 \/ sg[GroupEnd[m]].line_end
           S == {m \in 0 .. N : Good(m)}
<1>0. N \in Nat
  BY SettledMeans DEF AllCut
<1>1. /\ GroupEnd[0] = N
      /\ \A m \in 1 .. N : GroupEnd[m] = StartSegment(GroupEnd[m - 1])
  BY <1>0, GroupEndIs
<1>2. 0 \in S
  BY <1>0, <1>1
<1>3. ASSUME NEW m \in 0 .. N - 1, m \in S PROVE m + 1 \in S
  <2> DEFINE k == GroupEnd[m]
  <2>1. m + 1 \in 1 .. N /\ (m + 1) - 1 = m /\ k \in 0 .. N - m /\ k \in 0 .. N
        /\ m + 1 \in 0 .. N
    BY <1>0, <1>3
  <2>2. GroupEnd[m + 1] = StartSegment(k)
    BY <1>1, <2>1
  <2>3. CASE k = 0
    <3>1. StartSegment(k) = 0
      BY <1>0, <2>1, <2>3, StartSegmentIn
    <3> QED BY <1>0, <2>1, <2>2, <3>1
  <2>4. CASE k > 0
    <3>1. k = N \/ sg[k].line_end
      <4>1. m = 0 \/ sg[k].line_end
        BY <1>3, <2>4
      <4>2. m = 0 => k = N
        BY <1>1
      <4> QED BY <4>1, <4>2
    <3>2. k \in 1 .. N
      BY <2>1, <2>4
    <3> HIDE DEF k, N
    <3>3. LineSegments(sg, N, StartSegment(k), k)
      BY <3>1, <3>2, GroupIsLine DEF N
    <3>4. StartSegment(k) \in 0 .. k - 1 /\ (StartSegment(k) = 0 \/ sg[StartSegment(k)].line_end)
      BY <3>3 DEF LineSegments
    <3>5. k - 1 <= N - (m + 1)
      BY <1>0, <2>1, <3>2
    <3>6. StartSegment(k) \in 0 .. N - (m + 1)
      BY <1>0, <2>1, <3>2, <3>4, <3>5
    <3> QED BY <2>1, <2>2, <3>4, <3>6
  <2>5. k = 0 \/ k > 0
    BY <2>1
  <2> QED BY <2>3, <2>4, <2>5
<1>4. 0 .. N \subseteq S
  <2> HIDE DEF S
  <2> QED BY <1>0, <1>2, <1>3, UpToAll
<1> QED BY <1>4

LEMMA TurnsMeetLines == Settled => TurnsAreLines
<1> SUFFICES ASSUME Settled PROVE TurnsAreLines
  OBVIOUS
<1> DEFINE N == SegmentCount
<1>0. AllCut /\ N \in Nat
  BY SettledMeans DEF AllCut
<1>1. /\ GroupEnd[0] = N
      /\ \A m \in 1 .. N : GroupEnd[m] = StartSegment(GroupEnd[m - 1])
  BY <1>0, GroupEndIs
<1>2. \A m \in 0 .. N : GroupEnd[m] \in 0 .. N - m /\ GroupEnd[m] \in 0 .. N
  <2>1. ASSUME NEW m \in 0 .. N PROVE GroupEnd[m] \in 0 .. N - m
    BY <2>1, TurnsGoBack
  <2> QED BY <1>0, <2>1
<1>3. ASSUME NEW n \in 1 .. N, GroupEnd[n - 1] > 0
      PROVE  LineSegments(sg, N, GroupEnd[n], GroupEnd[n - 1])
  <2> DEFINE k == GroupEnd[n - 1]
  <2>1. n - 1 \in 0 .. N /\ (n - 1 = 0 => k = N)
    BY <1>0, <1>1
  <2>2. n - 1 = 0 \/ k = 0 \/ sg[k].line_end
    BY <2>1, TurnsGoBack
  <2>3. k \in 1 .. N
    BY <1>2, <1>3, <2>1
  <2> HIDE DEF k, N
  <2>4. k = N \/ sg[k].line_end
    BY <2>1, <2>2, <2>3
  <2>5. LineSegments(sg, N, StartSegment(k), k)
    BY <2>3, <2>4, GroupIsLine DEF N
  <2>6. GroupEnd[n] = StartSegment(k)
    BY <1>1 DEF k
  <2> QED BY <2>5, <2>6 DEF k
<1>4. ASSUME NEW n \in 1 .. N, GroupEnd[n - 1] = 0 PROVE GroupEnd[n] = 0
  <2>1. 0 \in 0 .. N
    BY <1>0
  <2>2. StartSegment(0) = 0
    BY <1>0, <2>1, StartSegmentIn
  <2> QED BY <1>1, <1>4, <2>2
<1>5. ASSUME NEW n \in 1 .. N, GroupEnd[n - 1] > 0
      PROVE  LineOf(sg, GroupEnd[n - 1]) = LineAt(n)
  <2> DEFINE Good(m) == GroupEnd[m] > 0 => LineOf(sg, GroupEnd[m]) = LineAt(m + 1)
             S == {m \in 0 .. N - 1 : Good(m)}
  <2>0. N - 1 \in Nat
    BY <1>0
  <2>1. 0 \in S
    <3>1. N > 0 => LineOf(sg, N) \in Int
      <4>1. N > 0 => N - 1 \in Nat
        BY <1>0
      <4> QED BY <4>1, EndsCounted DEF LineOf
    <3> QED BY <1>0, <1>1, <3>1 DEF LineAt
  <2>2. ASSUME NEW m \in 0 .. (N - 1) - 1, m \in S PROVE m + 1 \in S
    <3> DEFINE k == GroupEnd[m]
               e == GroupEnd[m + 1]
    <3>1. /\ m + 1 \in 1 .. N /\ (m + 1) - 1 = m /\ m + 1 \in 0 .. N - 1
          /\ m + 1 \in 0 .. N /\ m \in 0 .. N
      BY <1>0
    <3>2. e \in 0 .. N /\ k \in 0 .. N
      BY <1>2, <3>1
    <3> SUFFICES ASSUME e > 0 PROVE LineOf(sg, e) = LineAt((m + 1) + 1)
      BY <3>1
    <3>3. k # 0
      BY <1>4, <3>1
    <3>4. k > 0
      BY <3>2, <3>3
    <3>5. LineSegments(sg, N, e, k)
      BY <1>3, <3>1, <3>4
    <3>6. LineOf(sg, k) = LineAt(m + 1)
      BY <2>2, <3>4
    <3> HIDE DEF k, e
    <3>7. LineOf(sg, e) = LineOf(sg, k) - 1
      <4>1. OneLine(sg, N, e, k)
        BY <1>0, <3>5, LineNumbers
      <4> QED BY <4>1 DEF OneLine
    <3>8. LineOf(sg, N) \in Int
      BY <2>0, EndsCounted DEF LineOf
    <3> QED BY <3>6, <3>7, <3>8 DEF LineAt
  <2>3. 0 .. N - 1 \subseteq S
    <3> HIDE DEF S
    <3> QED BY <2>0, <2>1, <2>2, UpToAll
  <2>4. n - 1 \in 0 .. N - 1 /\ (n - 1) + 1 = n
    BY <1>0
  <2>5. Good(n - 1)
    BY <2>3, <2>4
  <2> QED BY <1>5, <2>4, <2>5
<1>6. ASSUME NEW n \in 1 .. N, GroupEnd[n - 1] > 0
      PROVE  LineAt(n) \in 0 .. LastLine /\ GroupLength(n) = Length(LineAt(n))
  <2> DEFINE k == GroupEnd[n - 1]
             e == GroupEnd[n]
  <2>1. n - 1 \in 0 .. N /\ n \in 0 .. N /\ k \in 0 .. N /\ e \in 0 .. N
    BY <1>0, <1>2
  <2>2. LineSegments(sg, N, e, k) /\ LineOf(sg, k) = LineAt(n)
    BY <1>3, <1>5, <1>6
  <2> HIDE DEF k, e
  <2>3. LineOf(sg, k) \in 0 .. LastLine
    <3>1. k - 1 \in 0 .. N /\ k - 1 \in Nat
      BY <1>0, <1>6, <2>1 DEF k
    <3>2. /\ Cardinality(EndsTo(sg, k - 1)) \in Nat /\ Cardinality(EndsTo(sg, N)) \in Nat
          /\ Cardinality(EndsTo(sg, k - 1)) <= Cardinality(EndsTo(sg, N))
      BY <1>0, <3>1, EndsCounted
    <3> QED BY <1>0, <3>2 DEF LineOf, AllCut
  <2>4. Len(stream) \in 0 .. Len(stream)
    BY <1>0 DEF AllCut
  <2>5. LengthTo(stream, Len(stream), LineOf(sg, k))
          = CountTo(stream, Stop(sg, k)) - CountTo(stream, End(sg, e))
    BY <1>0, <2>2, <2>4, LineCounted DEF AllCut
  <2>6. Stop(sg, k) = End(sg, k)
    BY <1>6 DEF End, k
  <2>7. Length(LineOf(sg, k)) = TextUpTo[k] - TextUpTo[e]
    BY <1>0, <2>1, <2>5, <2>6, StreamLines DEF AllCut, TextCounted
  <2>8. GroupLength(n) = TextUpTo[k] - TextUpTo[e]
    <3>1. (e + 1) - 1 = e
      BY <2>1
    <3> QED BY <3>1 DEF GroupLength, TextLength, k, e
  <2> QED BY <2>2, <2>3, <2>7, <2>8
<1>7. ASSUME NEW n \in 1 .. N PROVE GroupLength(n) \in Nat
  <2>0. n - 1 \in 0 .. N
    BY <1>0
  <2>1. GroupEnd[n - 1] \in Nat
    BY <1>0, <1>2, <2>0
  <2>2. CASE GroupEnd[n - 1] > 0
    BY <1>0, <1>6, <2>2, StreamLines DEF AllCut
  <2>3. CASE GroupEnd[n - 1] = 0
    <3>1. GroupEnd[n] = 0
      BY <1>4, <2>3
    <3>2. TextUpTo[0] \in Nat
      BY <1>0 DEF AllCut, TextCounted
    <3>3. GroupLength(n) = TextUpTo[0] - TextUpTo[0]
      BY <2>3, <3>1 DEF GroupLength, TextLength
    <3> QED BY <3>2, <3>3
  <2> QED BY <2>1, <2>2, <2>3
<1> QED BY <1>2, <1>3, <1>4, <1>5, <1>6, <1>7 DEF TurnsAreLines, TurnIsLine

\* Every segment is in some turn's group.
LEMMA SegmentInTurn ==
    ASSUME Settled, NEW j \in 1 .. SegmentCount
    PROVE  \E n \in 1 .. SegmentCount : GroupEnd[n] < j /\ j <= GroupEnd[n - 1]
<1> DEFINE N == SegmentCount
           S == {m \in 0 .. N : GroupEnd[m] >= j}
<1>0. N \in Nat
  BY SettledMeans DEF AllCut
<1>1. GroupEnd[0] = N /\ GroupEnd[N] = 0
  <2>1. GroupEnd[N] \in 0 .. N - N
    BY <1>0, TurnsGoBack
  <2> QED BY <1>0, <2>1, GroupEndIs
<1>2. \A m \in 0 .. N : GroupEnd[m] \in Int
  <2>1. ASSUME NEW m \in 0 .. N PROVE GroupEnd[m] \in 0 .. N - m
    BY TurnsGoBack
  <2> QED BY <2>1
<1>3. PICK m \in 0 .. N - 1 : m \in S /\ m + 1 \notin S
  <2> SUFFICES ASSUME \A m \in 0 .. N - 1 : m \in S => m + 1 \in S PROVE FALSE
    OBVIOUS
  <2>1. 0 \in S
    BY <1>0, <1>1
  <2>2. 0 .. N \subseteq S
    <3> HIDE DEF S
    <3> QED BY <1>0, <2>1, UpToAll
  <2>3. N \in S
    BY <1>0, <2>2
  <2> QED BY <1>1, <2>3
<1>4. m + 1 \in 1 .. N /\ (m + 1) - 1 = m /\ m + 1 \in 0 .. N
  BY <1>0
<1>5. GroupEnd[m + 1] < j /\ j <= GroupEnd[m]
  BY <1>2, <1>3, <1>4
<1> QED BY <1>4, <1>5

\* If the last segment ends a line, no text is after it; otherwise the last
\* line is the segment's, and has text.
LEMMA LastLineText ==
    ASSUME Settled, SegmentCount > 0
    PROVE  IF sg[SegmentCount].line_end
           THEN LastLine = LineAt(1) + 1 /\ Length(LastLine) = 0
           ELSE LastLine = LineAt(1) /\ Length(LastLine) > 0
<1> DEFINE N == SegmentCount
           s == stream
           h == Len(stream)
<1>0. AllCut /\ N \in Nat \ {0} /\ s \in Seq(Kinds) /\ h \in Nat /\ h \in 0 .. Len(s)
  BY SettledMeans DEF AllCut
<1>1. /\ LineOf(sg, N) \in Nat /\ LineAt(1) = LineOf(sg, N)
      /\ LastLine = IF sg[N].line_end THEN LineOf(sg, N) + 1 ELSE LineOf(sg, N)
  <2>1. N - 1 \in Nat /\ N \in Nat /\ N > 0
    BY <1>0
  <2>2. LineOf(sg, N) \in Nat
    BY <2>1, EndsCounted DEF LineOf
  <2>3. LastLine = IF sg[N].line_end THEN LineOf(sg, N) + 1 ELSE LineOf(sg, N)
    BY <1>0, <2>1, EndsCounted DEF AllCut
  <2> QED BY <2>2, <2>3 DEF LineAt
<1>2. CASE sg[N].line_end
  <2>1. LastLine = LineAt(1) + 1 /\ LastLine = LineOf(sg, N) + 1
    BY <1>1, <1>2
  <2>2. ASSUME NEW p \in LineText(LastLine) PROVE FALSE
    <3>1. p \in 0 .. h - 1 /\ s[p + 1] = "glyph" /\ Line(p) = LastLine
      BY DEF LineText, Glyphs, Kind, Positions
    <3>2. LinesTo(s, p) = LastLine
      BY <1>0, <3>1, StreamLines DEF Positions
    <3>3. Found(s, sg, N, p)
      BY <1>0, <3>1 DEF AllCut, Covered
    <3>4. PICK j \in 1 .. N : Cardinality(EndsTo(sg, j - 1)) = LinesTo(s, p)
      BY <3>3 DEF Found, LinesTo
    <3>5. j - 1 \in 0 .. N - 1 /\ N - 1 \in Nat
      BY <1>0
    <3>6. Cardinality(EndsTo(sg, j - 1)) <= Cardinality(EndsTo(sg, N - 1))
      BY <3>5, EndsCounted
    <3>7. LastLine <= LineOf(sg, N)
      BY <3>2, <3>4, <3>6 DEF LineOf
    <3> QED BY <1>1, <2>1, <3>7
  <2>3. LineText(LastLine) = {}
    BY <2>2
  <2>4. Length(LastLine) = 0
    BY <2>3, FS_EmptySet DEF Length
  <2> QED BY <1>2, <2>1, <2>4
<1>3. CASE ~sg[N].line_end
  <2>1. LastLine = LineAt(1) /\ LastLine = LineOf(sg, N)
    BY <1>1, <1>3
  <2>2. Length(LastLine) \in Nat
    BY <1>0, StreamLines
  <2>3. ASSUME sg[N].buf.Count > 0 PROVE Length(LastLine) > 0
    <3> DEFINE e == StartSegment(N)
               p == Start(sg, N)
    <3>1. N \in 1 .. N /\ N \in 0 .. N
      BY <1>0
    <3>2. LineSegments(sg, N, e, N)
      BY <3>1, GroupIsLine
    <3>3. e \in 0 .. N - 1
      BY <3>2 DEF LineSegments
    <3>4. /\ Start(sg, N) \in Nat /\ Stop(sg, N) \in Nat /\ Start(sg, N) < Stop(sg, N)
          /\ Stop(sg, N) <= h
      <4>1. sg[N].buf.Count = Stop(sg, N) - Start(sg, N)
        BY <1>0, <3>1 DEF AllCut
      <4>2. Start(sg, N) \in Nat /\ Stop(sg, N) \in Nat /\ Stop(sg, N) <= h
        BY <1>0, <3>1 DEF AllCut, Bounded, Covered
      <4> QED BY <2>3, <4>1, <4>2
    <3>5. End(sg, e) <= p
      BY <1>0, <3>1, <3>3, EndsInOrder DEF AllCut
    <3>6. p \in 0 .. h - 1 /\ Holds(sg, N, p)
      BY <1>0, <3>4 DEF Holds
    <3>7. s[p + 1] = "glyph"
      BY <1>0, <3>1, <3>6 DEF AllCut, Covered
    <3>8. TextTo(s, h, LineOf(sg, N)) = Between(s, End(sg, e), Stop(sg, N))
      <4> HIDE DEF e
      <4> QED BY <1>0, <3>2, TextOfLine DEF AllCut
    <3>9. p \in TextTo(s, h, LineOf(sg, N))
      <4> HIDE DEF e
      <4> QED BY <3>4, <3>5, <3>6, <3>7, <3>8 DEF Between
    <3>10. Length(LastLine) # 0
      <4>1. LineText(LastLine) # {}
        BY <1>0, <2>1, <3>9, StreamLines
      <4>2. IsFiniteSet(LineText(LastLine))
        BY <1>0, StreamLines, LinesFinite
      <4> QED BY <4>1, <4>2, FS_EmptySet DEF Length
    <3> QED BY <2>2, <3>10
  <2>4. Length(LastLine) > 0
    BY <1>0, <1>3, <2>3 DEF AllCut
  <2> QED BY <1>3, <2>1, <2>4
<1> QED BY <1>2, <1>3

\* Each turn starts at the bottom row of its line.
LEMMA TurnAtBottomRow ==
    ASSUME Settled, NEW n \in 1 .. SegmentCount, GroupEnd[n - 1] > 0
    PROVE  GroupRow[n] = BottomRow[LineAt(n)] /\ GroupRow[n] \in Int
<1> DEFINE N == SegmentCount
           Good(m) == GroupEnd[m] > 0 => GroupRow[m + 1] = BottomRow[LineAt(m + 1)]
           S == {m \in 0 .. N - 1 : Good(m)}
<1>0. AllCut /\ TurnsAreLines /\ N \in Nat /\ N - 1 \in Nat /\ N > 0 /\ LastLine \in Nat
  <2>1. AllCut
    BY SettledMeans
  <2> QED BY <2>1, TurnsMeetLines, StreamLines DEF AllCut
<1>1. TurnRows
  BY <1>0, GroupRowIs DEF AllCut, TurnsAreLines
<1>2. LineRows
  BY <1>0, BottomRowIs, StreamLines DEF AllCut
<1>3. LineAt(1) \in 0 .. LastLine /\ \A m \in 1 .. N : LineAt(m) = LineAt(1) + 1 - m
  <2>1. LineOf(sg, N) \in Int
    BY <1>0, EndsCounted DEF LineOf
  <2>2. GroupEnd[0] = N
    BY <1>0, GroupEndIs
  <2>3. GroupEnd[1 - 1] > 0 /\ 1 \in 1 .. N
    BY <1>0, <2>2
  <2>4. LineAt(1) \in 0 .. LastLine
    BY <1>0, <2>3 DEF TurnsAreLines, TurnIsLine
  <2>5. \A m \in 1 .. N : LineAt(m) = LineAt(1) + 1 - m
    BY <2>1 DEF LineAt
  <2> QED BY <2>4, <2>5
<1>4. 0 \in S
  <2>1. GroupRow[1] = FirstRow
    BY <1>0, <1>1 DEF TurnRows
  <2>2. BottomRow[LineAt(1)] = FirstRow
    <3>1. CASE sg[N].line_end
      <4>1. LastLine = LineAt(1) + 1 /\ Length(LastLine) = 0
        BY <1>0, <3>1, LastLineText
      <4>2. LastLine > 0 /\ LineAt(1) = LastLine - 1
        BY <1>0, <1>3, <4>1
      <4> QED BY <1>2, <4>1, <4>2 DEF LineRows
    <3>2. CASE ~sg[N].line_end
      BY <1>0, <1>2, <3>2, LastLineText DEF LineRows
    <3> QED BY <3>1, <3>2
  <2>3. 0 \in 0 .. N - 1 /\ 0 + 1 = 1
    BY <1>0
  <2> QED BY <2>1, <2>2, <2>3
<1>5. ASSUME NEW m \in 0 .. (N - 1) - 1, m \in S PROVE m + 1 \in S
  <2> DEFINE t == m + 1
             l == LineAt(t)
  <2>1. /\ t \in 1 .. N /\ t - 1 = m /\ t \in 0 .. N - 1 /\ t + 1 \in 2 .. N /\ (t + 1) - 1 = t
        /\ t + 1 \in 1 .. N
    BY <1>0
  <2>1a. m \in 0 .. N
    BY <1>0
  <2> SUFFICES ASSUME GroupEnd[t] > 0 PROVE GroupRow[t + 1] = BottomRow[LineAt(t + 1)]
    BY <2>1
  <2>2. GroupEnd[m] \in Nat
    BY <1>0, <2>1a DEF TurnsAreLines
  <2>3. GroupEnd[m] > 0
    <3>1. GroupEnd[m] # 0
      BY <1>0, <2>1 DEF TurnsAreLines
    <3> QED BY <2>2, <3>1
  <2>4. GroupRow[t] = BottomRow[l]
    BY <1>5, <2>3
  <2>5. GroupRow[t + 1] = GroupRow[t] - RowsOf(GroupLength(t))
    <3> HIDE DEF t
    <3> QED BY <1>1, <2>1 DEF TurnRows
  <2>6. GroupLength(t) = Length(l) /\ l \in 0 .. LastLine
    <3>1. GroupEnd[t - 1] > 0
      BY <2>1, <2>3
    <3> HIDE DEF t
    <3> QED BY <1>0, <2>1, <3>1 DEF TurnsAreLines, TurnIsLine
  <2>7. LineAt(t + 1) \in 0 .. LastLine
    <3>1. GroupEnd[(t + 1) - 1] > 0
      BY <2>1
    <3> HIDE DEF t
    <3> QED BY <1>0, <2>1, <3>1 DEF TurnsAreLines, TurnIsLine
  <2>8. l = LineAt(1) + 1 - t /\ LineAt(t + 1) = LineAt(1) + 1 - (t + 1)
    <3> HIDE DEF t
    <3> QED BY <1>3, <2>1
  <2> HIDE DEF l, t
  <2>9. LineAt(t + 1) = l - 1 /\ l - 1 \in 0 .. LastLine - 1 /\ (l - 1) + 1 = l
    BY <1>0, <1>3, <2>1, <2>6, <2>7, <2>8
  <2>10. l # LastLine \/ Length(LastLine) # 0
    <3> SUFFICES ASSUME l = LastLine, Length(LastLine) = 0 PROVE FALSE
      OBVIOUS
    <3>1. LineAt(1) = LastLine
      BY <1>0, <1>3, <2>1, <2>8
    <3>2. ~sg[N].line_end /\ Length(LastLine) > 0
      BY <1>0, <1>3, <3>1, LastLineText
    <3> QED BY <3>2
  <2>11. BottomRow[l - 1] = BottomRow[l] - RowsOf(Length(l))
    <3>1. (l - 1) + 1 # LastLine \/ Length(LastLine) # 0
      BY <2>9, <2>10
    <3>2. BottomRow[l - 1] = BottomRow[(l - 1) + 1] - RowsOf(Length((l - 1) + 1))
      BY <1>2, <2>9, <3>1 DEF LineRows
    <3> QED BY <2>9, <3>2
  <2> QED BY <2>4, <2>5, <2>6, <2>9, <2>11
<1>6. 0 .. N - 1 \subseteq S
  <2> HIDE DEF S
  <2> QED BY <1>0, <1>4, <1>5, UpToAll
<1>7. n - 1 \in 0 .. N - 1 /\ (n - 1) + 1 = n
  BY <1>0
<1>8. Good(n - 1)
  BY <1>6, <1>7
<1>9. GroupRow[n] \in Int
  BY <1>1 DEF TurnRows
<1> QED BY <1>7, <1>8, <1>9

\* Later turns are above the rows of earlier ones.
LEMMA TurnsGoUp ==
    ASSUME Settled, NEW n \in 1 .. SegmentCount, NEW m \in n + 1 .. SegmentCount
    PROVE  GroupRow[m] <= GroupRow[n] - RowsOf(GroupLength(n))
<1> DEFINE N == SegmentCount
           S == {d \in 0 .. m - (n + 1) :
                   GroupRow[n + 1 + d] <= GroupRow[n] - RowsOf(GroupLength(n))}
<1>0. AllCut /\ TurnsAreLines /\ N \in Nat /\ n \in Nat /\ m \in Nat /\ m - (n + 1) \in Nat
  BY SettledMeans, TurnsMeetLines DEF AllCut
<1>1. TurnRows
  BY <1>0, GroupRowIs DEF AllCut, TurnsAreLines
<1>2. \A k \in 1 .. N : GroupRow[k] \in Int /\ RowsOf(GroupLength(k)) \in Nat
  BY <1>0, <1>1, RowsOfIs DEF TurnRows, TurnsAreLines, AllCut
<1>3. ASSUME NEW k \in 1 .. N - 1 PROVE GroupRow[k + 1] = GroupRow[k] - RowsOf(GroupLength(k))
  <2>1. k + 1 \in 2 .. N /\ (k + 1) - 1 = k
    BY <1>0
  <2> QED BY <1>1, <2>1 DEF TurnRows
<1>4. 0 \in S
  <2>1. n \in 1 .. N - 1 /\ n + 1 + 0 = n + 1 /\ 0 \in 0 .. m - (n + 1) /\ n + 1 \in 1 .. N
    BY <1>0
  <2>2. GroupRow[n + 1] = GroupRow[n] - RowsOf(GroupLength(n))
    BY <1>3, <2>1
  <2> QED BY <1>2, <2>1, <2>2
<1>5. ASSUME NEW d \in 0 .. (m - (n + 1)) - 1, d \in S PROVE d + 1 \in S
  <2> DEFINE k == n + 1 + d
  <2>1. k \in 1 .. N - 1 /\ k \in 1 .. N /\ n + 1 + (d + 1) = k + 1 /\ d + 1 \in 0 .. m - (n + 1)
        /\ n \in 1 .. N /\ k + 1 \in 1 .. N
    BY <1>0
  <2>2. GroupRow[k] <= GroupRow[n] - RowsOf(GroupLength(n))
    BY <1>5
  <2> HIDE DEF k
  <2>3. GroupRow[k + 1] <= GroupRow[n] - RowsOf(GroupLength(n))
    BY <1>2, <1>3, <2>1, <2>2
  <2> QED BY <2>1, <2>3
<1>6. 0 .. m - (n + 1) \subseteq S
  <2> HIDE DEF S
  <2> QED BY <1>0, <1>4, <1>5, UpToAll
<1>7. m - (n + 1) \in S
  BY <1>0, <1>6
<1>8. n + 1 + (m - (n + 1)) = m
  BY <1>0
<1> QED BY <1>7, <1>8

(***************************************************************************)
(* The cells of the characters                                             *)
(***************************************************************************)

\* Turn n lays out a line.
Turn(n) == n \in 1 .. SegmentCount /\ GroupEnd[n - 1] > 0

\* Every character is in the line of some turn.
LEMMA GlyphInTurn ==
    ASSUME Settled, NEW p \in Glyphs
    PROVE  \E n : Turn(n) /\ p \in LineText(LineAt(n))
<1> DEFINE N == SegmentCount
<1>0. AllCut /\ TurnsAreLines /\ N \in Nat
  BY SettledMeans, TurnsMeetLines DEF AllCut
<1>1. p \in 0 .. Len(stream) - 1 /\ stream[p + 1] = "glyph" /\ p \in Positions
  BY DEF Glyphs, Kind, Positions
<1>2. Found(stream, sg, N, p)
  BY <1>0, <1>1 DEF AllCut, Covered
<1>3. PICK j \in 1 .. N : LineOf(sg, j) = LinesTo(stream, p)
  BY <1>2 DEF Found, LineOf, LinesTo
<1>4. PICK n \in 1 .. N : GroupEnd[n] < j /\ j <= GroupEnd[n - 1]
  BY SegmentInTurn
<1>5. GroupEnd[n - 1] \in Nat /\ GroupEnd[n] \in Nat
  <2>1. n - 1 \in 0 .. N /\ n \in 0 .. N
    BY <1>0
  <2> QED BY <1>0, <2>1 DEF TurnsAreLines
<1>6. Turn(n)
  BY <1>0, <1>4, <1>5 DEF Turn
<1>7. TurnIsLine(n)
  BY <1>0, <1>6 DEF Turn, TurnsAreLines
<1>8. LineOf(sg, j) = LineAt(n)
  <2>1. OneLine(sg, N, GroupEnd[n], GroupEnd[n - 1])
    BY <1>0, <1>7, LineNumbers DEF TurnIsLine
  <2>2. j \in GroupEnd[n] + 1 .. GroupEnd[n - 1]
    BY <1>0, <1>4, <1>5
  <2> QED BY <1>7, <2>1, <2>2 DEF OneLine, TurnIsLine
<1>9. Line(p) = LineAt(n)
  BY <1>0, <1>1, <1>3, <1>8, StreamLines DEF AllCut
<1> QED BY <1>6, <1>9 DEF LineText

\* A character's column is how many characters its line's turn drew before it.
LEMMA ColumnIs ==
    ASSUME Settled, NEW n, Turn(n), NEW p \in LineText(LineAt(n))
    PROVE  /\ Column(p) = CountTo(stream, p) - TextUpTo[GroupEnd[n]]
           /\ Column(p) \in 0 .. GroupLength(n) - 1
<1> DEFINE N == SegmentCount
           k == GroupEnd[n - 1]
           e == GroupEnd[n]
           h == Len(stream)
<1>0. AllCut /\ TurnIsLine(n) /\ N \in Nat /\ h \in 0 .. Len(stream) /\ stream \in Seq(Kinds)
      /\ n \in 1 .. N
  <2>1. AllCut /\ TurnsAreLines
    BY SettledMeans, TurnsMeetLines
  <2>2. n \in 1 .. N /\ TurnIsLine(n)
    BY <2>1 DEF Turn, TurnsAreLines
  <2>3. N \in Nat /\ h \in Nat /\ stream \in Seq(Kinds)
    BY <2>1 DEF AllCut
  <2> QED BY <2>1, <2>2, <2>3
<1>1. LineSegments(sg, N, e, k) /\ LineOf(sg, k) = LineAt(n) /\ GroupLength(n) = Length(LineAt(n))
  BY <1>0 DEF TurnIsLine
<1>2. k \in 1 .. N /\ e \in 0 .. N
  BY <1>0, <1>1 DEF LineSegments
<1> HIDE DEF k, e
<1>3. p \in TextTo(stream, h, LineOf(sg, k)) /\ p \in Positions /\ Line(p) = LineAt(n)
  <2>1. p \in TextTo(stream, h, LineAt(n))
    BY <1>0, StreamLines
  <2> QED BY <1>1, <2>1 DEF LineText, Glyphs
<1>4. Column(p) = Cardinality({q \in TextTo(stream, h, LineOf(sg, k)) : q < p})
  <2>1. LineText(Line(p)) = TextTo(stream, h, LineOf(sg, k))
    BY <1>0, <1>1, <1>3, StreamLines
  <2> QED BY <2>1 DEF Column
<1>5. /\ Column(p) = CountTo(stream, p) - CountTo(stream, End(sg, e))
      /\ CountTo(stream, End(sg, e)) <= CountTo(stream, p)
      /\ CountTo(stream, p) < CountTo(stream, Stop(sg, k))
      /\ LengthTo(stream, h, LineOf(sg, k))
           = CountTo(stream, Stop(sg, k)) - CountTo(stream, End(sg, e))
  BY <1>0, <1>1, <1>3, <1>4, LineCounted DEF AllCut
<1>6. GroupLength(n) = CountTo(stream, Stop(sg, k)) - CountTo(stream, End(sg, e))
  BY <1>0, <1>1, <1>5, StreamLines
<1>7. CountTo(stream, End(sg, e)) = TextUpTo[e]
  BY <1>0, <1>2 DEF AllCut, TextCounted
<1>8. CountTo(stream, p) \in Nat /\ CountTo(stream, End(sg, e)) \in Nat
      /\ CountTo(stream, Stop(sg, k)) \in Nat
  BY <1>0, CountTyped
<1>9. Column(p) \in 0 .. GroupLength(n) - 1
  BY <1>5, <1>6, <1>8
<1> QED BY <1>5, <1>7, <1>9 DEF e

\* A row, the columns in it and the rows above make one count of cells.
LEMMA CellSplit ==
    ASSUME NEW w \in Nat \ {0}, NEW b \in Int, NEW r \in Int, NEW c \in Nat
    PROVE  (b - r + 1 + (c \div w)) * w + (c % w) = b * w - w * (r - 1) + c
<1> DEFINE q == c \div w
           d == c % w
<1>1. q \in Int /\ d \in Int /\ c = w * q + d
  OBVIOUS
<1> HIDE DEF q, d
<1>2. (b - r + 1 + q) * w = b * w - w * (r - 1) + w * q
  <2> DEFINE u == r - 1
  <2>1. b - r + 1 + q = b - u + q /\ u \in Int
    OBVIOUS
  <2> HIDE DEF u
  <2>2. (b - u + q) * w = b * w - w * u + w * q
    BY <1>1, <2>1
  <2> QED BY <2>1, <2>2 DEF u
<1>3. b * w \in Int /\ w * (r - 1) \in Int /\ w * q \in Int
  BY <1>1
<1> QED BY <1>1, <1>2, <1>3 DEF q, d

\* The cell of a character.
LEMMA CellIs ==
    ASSUME Settled, NEW n, Turn(n), NEW p \in LineText(LineAt(n))
    PROVE  /\ Cell(p) = LastCell(n) - (GroupLength(n) - 1) + Column(p)
           /\ LastCell(n) - Cell(p) \in 0 .. GroupLength(n) - 1
<1> DEFINE w == tw
           c == Column(p)
           g == GroupLength(n)
           b == GroupRow[n]
           r == RowsOf(g)
<1>1. /\ w \in Nat \ {0} /\ g \in Nat /\ g = Length(LineAt(n)) /\ n \in 1 .. SegmentCount
      /\ GroupEnd[n - 1] > 0
  BY SettledMeans, TurnsMeetLines DEF AllCut, TurnsAreLines, Turn, TurnIsLine
<1>2. c \in 0 .. g - 1
  BY ColumnIs
<1>3. b \in Int /\ b = BottomRow[LineAt(n)]
  BY <1>1, TurnAtBottomRow
<1>4. r \in Nat \ {0} /\ g - 1 = w * (r - 1) + ((g - 1) % w) /\ (g - 1) % w \in 0 .. w - 1
  <2>1. g > 0
    BY <1>1, <1>2
  <2> HIDE DEF g
  <2> QED BY <1>1, <2>1, RowsOfIs
<1>5. Line(p) = LineAt(n)
  BY DEF LineText
<1>6. Cell(p) = (b - r + 1 + (c \div w)) * w + (c % w)
  BY <1>1, <1>3, <1>5 DEF Cell
<1>7. LastCell(n) = b * w + ((g - 1) % w)
  BY DEF LastCell
<1> HIDE DEF c, g, b, r, w
<1>8. Cell(p) = b * w - w * (r - 1) + c
  BY <1>1, <1>2, <1>3, <1>4, <1>6, CellSplit
<1>9. b * w \in Int /\ w * (r - 1) \in Int
  BY <1>1, <1>3, <1>4
<1>10. Cell(p) = LastCell(n) - (g - 1) + c
  BY <1>1, <1>2, <1>4, <1>7, <1>8, <1>9
<1>11. LastCell(n) - Cell(p) \in 0 .. g - 1
  <2>1. LastCell(n) \in Int
    BY <1>1, <1>4, <1>7, <1>9
  <2> QED BY <1>1, <1>2, <1>10, <2>1
<1> QED BY <1>10, <1>11 DEF c, g

\* The groups' cells are apart, those of a later turn before those of an
\* earlier one.
LEMMA CellsApart ==
    ASSUME Settled, NEW n, NEW m, Turn(n), Turn(m), NEW c \in Int,
           LastCell(n) - c \in 0 .. GroupLength(n) - 1,
           LastCell(m) - c \in 0 .. GroupLength(m) - 1
    PROVE  n = m
<1>1. ASSUME NEW t, Turn(t), NEW u, Turn(u), t < u, GroupLength(t) > 0
      PROVE  LastCell(u) < LastCell(t) - (GroupLength(t) - 1)
  <2> DEFINE w == tw
             g == GroupLength(t)
             a == GroupRow[t]
             b == GroupRow[u]
             r == RowsOf(g)
             f == GroupLength(u)
  <2>1. /\ w \in Nat \ {0} /\ g \in Nat /\ f \in Nat
        /\ t \in 1 .. SegmentCount /\ u \in 1 .. SegmentCount /\ SegmentCount \in Nat
        /\ GroupEnd[t - 1] > 0 /\ GroupEnd[u - 1] > 0
    BY <1>1, SettledMeans, TurnsMeetLines DEF AllCut, TurnsAreLines, Turn
  <2>2. u \in t + 1 .. SegmentCount
    BY <1>1, <2>1
  <2>3. b <= a - r
    BY <2>1, <2>2, TurnsGoUp
  <2>4. a \in Int /\ b \in Int
    BY <2>1, TurnAtBottomRow
  <2>5. r \in Nat \ {0} /\ g - 1 = w * (r - 1) + ((g - 1) % w) /\ (g - 1) % w \in 0 .. w - 1
    BY <1>1, <2>1, RowsOfIs
  <2>6. LastCell(t) = a * w + ((g - 1) % w)
    BY DEF LastCell
  <2>7. LastCell(u) = b * w + ((f - 1) % w) /\ (f - 1) % w \in 0 .. w - 1
    BY <2>1 DEF LastCell
  <2> HIDE DEF w, g, a, b, r, f
  <2>8. (b + 1) * w <= (a - r + 1) * w
    <3> DEFINE y == b + 1
               z == a - r + 1
    <3>1. y \in Int /\ z \in Int /\ y <= z
      BY <2>3, <2>4, <2>5
    <3> HIDE DEF y, z
    <3>2. y * w <= z * w
      BY <2>1, <3>1
    <3> QED BY <3>2 DEF y, z
  <2>9. (b + 1) * w = b * w + w /\ b * w \in Int
    BY <2>1, <2>4
  <2>10. (a - r + 1) * w = a * w - w * (r - 1) /\ a * w \in Int /\ w * (r - 1) \in Int
    <3> DEFINE z == r - 1
    <3>1. z \in Int /\ a - r + 1 = a - z
      BY <2>4, <2>5
    <3> HIDE DEF z
    <3>2. (a - z) * w = a * w - w * z /\ a * w \in Int /\ w * z \in Int
      BY <2>1, <2>4, <3>1
    <3> QED BY <3>1, <3>2 DEF z
  <2>11. LastCell(u) < b * w + w
    BY <2>1, <2>7, <2>9
  <2>12. LastCell(t) - (g - 1) = a * w - w * (r - 1)
    BY <2>1, <2>5, <2>6, <2>10
  <2>13. LastCell(u) \in Int
    BY <2>1, <2>7, <2>9
  <2>14. b * w + w <= a * w - w * (r - 1)
    BY <2>8, <2>9, <2>10
  <2>15. LastCell(u) < LastCell(t) - (g - 1)
    BY <2>1, <2>9, <2>10, <2>11, <2>12, <2>13, <2>14
  <2> QED BY <2>15 DEF g
<1>2. /\ GroupLength(n) \in Nat /\ GroupLength(m) \in Nat /\ n \in Int /\ m \in Int
      /\ LastCell(n) \in Int /\ LastCell(m) \in Int
  <2>1. ASSUME NEW t, Turn(t) PROVE GroupLength(t) \in Nat /\ t \in Int /\ LastCell(t) \in Int
    <3>1. t \in 1 .. SegmentCount /\ GroupEnd[t - 1] > 0 /\ GroupLength(t) \in Nat
          /\ tw \in Nat \ {0}
      BY <2>1, SettledMeans, TurnsMeetLines DEF AllCut, TurnsAreLines, Turn
    <3>2. GroupRow[t] \in Int
      BY <3>1, TurnAtBottomRow
    <3> QED BY <3>1, <3>2 DEF LastCell
  <2> QED BY <2>1
<1>3. GroupLength(n) > 0 /\ GroupLength(m) > 0
  BY <1>2
<1>4. ~(n < m)
  BY <1>1, <1>2, <1>3
<1>5. ~(m < n)
  BY <1>1, <1>2, <1>3
<1> QED BY <1>2, <1>4, <1>5

\* No two characters have one cell.
LEMMA CellsDiffer ==
    ASSUME Settled, NEW p \in Glyphs, NEW q \in Glyphs, Cell(p) = Cell(q)
    PROVE  p = q
<1>1. PICK n : Turn(n) /\ p \in LineText(LineAt(n))
  BY GlyphInTurn
<1>2. PICK m : Turn(m) /\ q \in LineText(LineAt(m))
  BY GlyphInTurn
<1>3. /\ Cell(p) = LastCell(n) - (GroupLength(n) - 1) + Column(p)
      /\ LastCell(n) - Cell(p) \in 0 .. GroupLength(n) - 1
  BY <1>1, CellIs
<1>4. /\ Cell(q) = LastCell(m) - (GroupLength(m) - 1) + Column(q)
      /\ LastCell(m) - Cell(q) \in 0 .. GroupLength(m) - 1
  BY <1>2, CellIs
<1>5. /\ LastCell(n) \in Int /\ GroupLength(n) \in Nat
      /\ TextUpTo[GroupEnd[n]] \in Int
  <2>1. n \in 1 .. SegmentCount /\ GroupEnd[n - 1] > 0 /\ GroupLength(n) \in Nat
        /\ tw \in Nat \ {0} /\ TextCounted /\ GroupEnd[n] \in 0 .. SegmentCount
    <3>1. AllCut /\ TurnsAreLines
      BY SettledMeans, TurnsMeetLines
    <3>2. n \in 1 .. SegmentCount /\ n \in 0 .. SegmentCount /\ GroupEnd[n - 1] > 0
      BY <1>1, <3>1 DEF AllCut, Turn
    <3>3. GroupEnd[n] \in 0 .. SegmentCount - n
      BY <3>1, <3>2 DEF TurnsAreLines
    <3>4. GroupEnd[n] \in 0 .. SegmentCount
      BY <3>1, <3>2, <3>3 DEF AllCut
    <3> QED BY <3>1, <3>2, <3>4 DEF AllCut, TurnsAreLines
  <2>2. GroupRow[n] \in Int
    BY <2>1, TurnAtBottomRow
  <2>3. TextUpTo[GroupEnd[n]] \in Int
    BY <2>1 DEF TextCounted
  <2> QED BY <2>1, <2>2, <2>3 DEF LastCell
<1>6. Column(p) \in Int /\ Column(q) \in Int
  BY <1>1, <1>2, ColumnIs
<1>7. Cell(p) \in Int
  BY <1>3, <1>5, <1>6
<1>8. n = m
  BY <1>1, <1>2, <1>3, <1>4, <1>7, CellsApart
<1>9. Column(p) = Column(q)
  <2> DEFINE a == LastCell(n) - (GroupLength(n) - 1)
             c == Column(p)
             d == Column(q)
  <2>1. a \in Int /\ c \in Int /\ d \in Int
    BY <1>5, <1>6
  <2>2. a + c = a + d
    <3>1. Cell(p) = a + c
      BY <1>3
    <3>2. Cell(q) = a + d
      BY <1>4, <1>8
    <3> HIDE DEF a, c, d
    <3> QED BY <3>1, <3>2
  <2> HIDE DEF a, c, d
  <2>3. c = d
    BY <2>1, <2>2
  <2> QED BY <2>3 DEF c, d
<1>10. /\ Column(p) = CountTo(stream, p) - TextUpTo[GroupEnd[n]]
       /\ Column(q) = CountTo(stream, q) - TextUpTo[GroupEnd[n]]
  BY <1>1, <1>2, <1>8, ColumnIs
<1>11. /\ stream \in Seq(Kinds) /\ p \in 0 .. Len(stream) - 1 /\ q \in 0 .. Len(stream) - 1
       /\ stream[p + 1] = "glyph" /\ stream[q + 1] = "glyph"
  BY SettledMeans DEF AllCut, Glyphs, Kind, Positions
<1>12. CountTo(stream, p) \in Nat /\ CountTo(stream, q) \in Nat
  BY <1>11, CountTyped
<1>13. CountTo(stream, p) = CountTo(stream, q)
  <2> DEFINE a == TextUpTo[GroupEnd[n]]
  <2>1. a \in Int /\ CountTo(stream, p) - a = CountTo(stream, q) - a
    BY <1>5, <1>9, <1>10
  <2> HIDE DEF a
  <2> QED BY <1>12, <2>1
<1>14. p \in Int /\ q \in Int
  BY <1>11
<1>15. ~(p < q) /\ ~(q < p)
  <2>1. p < q => CountTo(stream, p) < CountTo(stream, q)
    BY <1>11, <1>14, CountOrder
  <2>2. q < p => CountTo(stream, q) < CountTo(stream, p)
    BY <1>11, <1>14, CountOrder
  <2> QED BY <1>12, <1>13, <2>1, <2>2
<1> QED BY <1>14, <1>15

(***************************************************************************)
(* What is on the screen is still in the buffer                            *)
(***************************************************************************)

\* The buffer holds a screen of the window's sizes, and the line ends of its
\* rows.  main allocates getps() * 256 * 2 bytes (main.c:296), with pages of 4 KB
\* two megabytes, so that this holds of windows of hundreds of thousands of
\* cells; the program does not compare the two.
BufferHoldsScreen == \A a, b \in Sizes : Lines(a) * (Cols(b) + 2) <= DataSize

\* A carriage return that waits for its line feed.
Waiting(s) == IF Len(s) > 0 /\ s[Len(s)] = "CR" THEN 1 ELSE 0

\* Where carriage returns come before line feeds, the bytes from a on are the
\* characters and at most two for each line end.
LEMMA BytesCounted ==
    ASSUME NEW s \in Seq(Kinds), \A p \in 1 .. Len(s) - 1 : s[p] = "CR" => s[p + 1] = "LF",
           NEW a \in 0 .. Len(s)
    PROVE  Len(s) - a <= (CountTo(s, Len(s)) - CountTo(s, a))
                           + 2 * (LinesTo(s, Len(s)) - LinesTo(s, a)) + Waiting(s)
<1> DEFINE T(q) == IF q > a /\ s[q] = "CR" THEN 1 ELSE 0
           Good(q) == q - a <= (CountTo(s, q) - CountTo(s, a))
                                 + 2 * (LinesTo(s, q) - LinesTo(s, a)) + T(q)
           S == {d \in 0 .. Len(s) - a : Good(a + d)}
<1>0. Len(s) \in Nat /\ a \in Nat /\ Len(s) - a \in Nat
  OBVIOUS
<1>1. \A q \in Nat : CountTo(s, q) \in Nat /\ LinesTo(s, q) \in Nat
  BY CountTyped, LinesFinite
<1>2. 0 \in S
  <2>1. a + 0 = a /\ 0 \in 0 .. Len(s) - a
    BY <1>0
  <2>2. CountTo(s, a) \in Int /\ LinesTo(s, a) \in Int
    BY <1>0, <1>1
  <2>3. Good(a)
    BY <1>0, <2>2
  <2> HIDE DEF Good
  <2> QED BY <2>1, <2>3
<1>3. ASSUME NEW d \in 0 .. (Len(s) - a) - 1, d \in S PROVE d + 1 \in S
  <2> DEFINE q == a + d
  <2>1. /\ q \in 0 .. Len(s) - 1 /\ q + 1 \in 0 .. Len(s) /\ q >= a /\ q \in Nat
        /\ q + 1 \in q .. Len(s) /\ q \in 0 .. Len(s) /\ a + (d + 1) = q + 1
        /\ d + 1 \in 0 .. Len(s) - a
    BY <1>0
  <2>2. Good(q)
    BY <1>3
  <2> HIDE DEF q, Good
  <2>3. s[q + 1] \in Kinds
    <3>1. q + 1 \in 1 .. Len(s)
      BY <2>1
    <3> QED BY <3>1, ElementOfSeq
  <2>4. s[q + 1] = "glyph" => CountTo(s, q + 1) = CountTo(s, q) + 1
    <3>1. \A p \in q .. (q + 1) - 1 : p = q
      BY <2>1
    <3>2. (q + 1) - q = 1
      BY <2>1
    <3> QED BY <2>1, <3>1, <3>2, CountRun
  <2>5. s[q + 1] # "glyph" => CountTo(s, q + 1) = CountTo(s, q)
    <3>1. \A p \in q .. (q + 1) - 1 : p = q
      BY <2>1
    <3> QED BY <2>1, <3>1, CountRun
  <2>6. LinesTo(s, q + 1) = IF s[q + 1] = "LF" THEN LinesTo(s, q) + 1 ELSE LinesTo(s, q)
    BY <2>1, <2>3, LinesNext DEF Kinds
  <2>7. s[q + 1] # "LF" => T(q) = 0
    <3> SUFFICES ASSUME s[q + 1] # "LF", q > a, s[q] = "CR" PROVE FALSE
      OBVIOUS
    <3>1. q \in 1 .. Len(s) - 1
      BY <1>0, <2>1
    <3> QED BY <3>1
  <2>8. T(q) \in 0 .. 1 /\ T(q + 1) = IF s[q + 1] = "CR" THEN 1 ELSE 0
    BY <1>0, <2>1
  <2>9. q - a <= (CountTo(s, q) - CountTo(s, a)) + 2 * (LinesTo(s, q) - LinesTo(s, a)) + T(q)
    BY <2>2 DEF Good
  <2>10. /\ CountTo(s, q) \in Int /\ CountTo(s, a) \in Int
         /\ LinesTo(s, q) \in Int /\ LinesTo(s, a) \in Int
    BY <1>0, <1>1, <2>1
  <2> HIDE DEF T
  <2>11. (q + 1) - a <= (CountTo(s, q + 1) - CountTo(s, a))
                          + 2 * (LinesTo(s, q + 1) - LinesTo(s, a)) + T(q + 1)
    <3> DEFINE c0 == CountTo(s, a)
               c1 == CountTo(s, q)
               c2 == CountTo(s, q + 1)
               l0 == LinesTo(s, a)
               l1 == LinesTo(s, q)
               l2 == LinesTo(s, q + 1)
               t1 == T(q)
               t2 == T(q + 1)
    <3>0. /\ c0 \in Int /\ c1 \in Int /\ l0 \in Int /\ l1 \in Int /\ t1 \in 0 .. 1
          /\ a \in Int /\ q \in Int
          /\ q - a <= (c1 - c0) + 2 * (l1 - l0) + t1
      BY <1>0, <2>1, <2>8, <2>9, <2>10
    <3>1. CASE s[q + 1] = "glyph"
      <4>1. c2 = c1 + 1 /\ l2 = l1 /\ t1 = 0 /\ t2 = 0
        BY <2>4, <2>6, <2>7, <2>8, <3>1
      <4> HIDE DEF c0, c1, c2, l0, l1, l2, t1, t2
      <4>2. (q + 1) - a <= (c2 - c0) + 2 * (l2 - l0) + t2
        BY <3>0, <4>1
      <4> QED BY <4>2 DEF c0, c2, l0, l2, t2
    <3>2. CASE s[q + 1] = "LF"
      <4>1. c2 = c1 /\ l2 = l1 + 1 /\ t2 = 0
        BY <2>5, <2>6, <2>8, <3>2
      <4> HIDE DEF c0, c1, c2, l0, l1, l2, t1, t2
      <4>2. (q + 1) - a <= (c2 - c0) + 2 * (l2 - l0) + t2
        BY <3>0, <4>1
      <4> QED BY <4>2 DEF c0, c2, l0, l2, t2
    <3>3. CASE s[q + 1] = "CR"
      <4>1. c2 = c1 /\ l2 = l1 /\ t1 = 0 /\ t2 = 1
        BY <2>5, <2>6, <2>7, <2>8, <3>3
      <4> HIDE DEF c0, c1, c2, l0, l1, l2, t1, t2
      <4>2. (q + 1) - a <= (c2 - c0) + 2 * (l2 - l0) + t2
        BY <3>0, <4>1
      <4> QED BY <4>2 DEF c0, c2, l0, l2, t2
    <3> QED BY <2>3, <3>1, <3>2, <3>3 DEF Kinds
  <2>12. Good(q + 1)
    BY <2>11 DEF Good
  <2> QED BY <2>1, <2>12
<1>4. 0 .. Len(s) - a \subseteq S
  <2> HIDE DEF S
  <2> QED BY <1>0, <1>2, <1>3, UpToAll
<1>5. Good(Len(s))
  <2>1. Len(s) - a \in S
    <3>1. Len(s) - a \in 0 .. Len(s) - a
      BY <1>0
    <3> HIDE DEF S
    <3> QED BY <1>4, <3>1
  <2>2. a + (Len(s) - a) = Len(s)
    BY <1>0
  <2> HIDE DEF Good
  <2> QED BY <2>1, <2>2
<1>6. T(Len(s)) <= Waiting(s) /\ T(Len(s)) \in Int /\ Waiting(s) \in Int
  BY <1>0 DEF Waiting
<1>7. /\ CountTo(s, Len(s)) \in Int /\ CountTo(s, a) \in Int
      /\ LinesTo(s, Len(s)) \in Int /\ LinesTo(s, a) \in Int
  BY <1>0, <1>1
<1> HIDE DEF T
<1> QED BY <1>0, <1>5, <1>6, <1>7

\* After the last segment there are no characters.
LEMMA AllTextCounted ==
    ASSUME NEW s \in Seq(Kinds), NEW g, NEW n \in Nat, NEW h \in 0 .. Len(s),
           Bounded(g, n), Covered(s, g, n, h)
    PROVE  CountTo(s, h) = CountTo(s, End(g, n))
<1> DEFINE a == End(g, n)
<1>0. h \in Nat /\ Len(s) \in Nat /\ h <= Len(s) /\ n \in 0 .. n
  OBVIOUS
<1>1. a \in 0 .. h
  BY <1>0, EndsInOrder
<1>2. ASSUME NEW p \in a .. h - 1 PROVE s[p + 1] # "glyph"
  <2>1. p \in 0 .. h - 1
    <3> HIDE DEF a
    <3> QED BY <1>0, <1>1
  <2> SUFFICES ASSUME Found(s, g, n, p) PROVE FALSE
    BY <2>1 DEF Covered
  <2>2. PICK j \in 1 .. n : Holds(g, j, p)
    BY DEF Found
  <2>3. Stop(g, j) \in Nat /\ p < Stop(g, j)
    BY <2>2 DEF Holds, Bounded
  <2>4. End(g, j) <= a /\ End(g, j) = Stop(g, j)
    <3>1. j \in 0 .. n /\ j # 0
      OBVIOUS
    <3> QED BY <1>0, <3>1, EndsInOrder DEF End
  <2> HIDE DEF a
  <2> QED BY <1>1, <2>1, <2>3, <2>4
<1> HIDE DEF a
<1>3. a \in 0 .. Len(s) /\ h \in a .. Len(s)
  BY <1>0, <1>1
<1>4. CountTo(s, h) = CountTo(s, a)
  BY <1>2, <1>3, CountRun
<1> QED BY <1>4 DEF a

\* Below turn n there are no more characters than the rows have cells, and no
\* more line ends than there are rows.
BelowTurn(n) ==
    /\ CountTo(stream, Len(stream)) - TextUpTo[GroupEnd[n - 1]] <= tw * (FirstRow - GroupRow[n])
    /\ 2 * (LastLine - LineAt(n)) + Waiting(stream) <= 2 * (FirstRow - GroupRow[n] + 1)

LEMMA TurnsFill ==
    ASSUME Settled, NEW n, Turn(n)
    PROVE  BelowTurn(n)
<1> DEFINE N == SegmentCount
           S == {m \in 0 .. N - 1 : GroupEnd[m] > 0 => BelowTurn(m + 1)}
<1>0. /\ AllCut /\ TurnsAreLines /\ N \in Nat \ {0} /\ N - 1 \in Nat /\ LastLine \in Nat
      /\ tw \in Nat \ {0} /\ n \in 1 .. N /\ GroupEnd[n - 1] > 0 /\ FirstRow \in Int
  <2>1. AllCut /\ TurnsAreLines
    BY SettledMeans, TurnsMeetLines
  <2>2. n \in 1 .. N /\ GroupEnd[n - 1] > 0 /\ N \in Nat
    BY <2>1 DEF Turn, AllCut
  <2> QED BY <2>1, <2>2, StreamLines DEF AllCut
<1>1. TurnRows
  BY <1>0, GroupRowIs DEF AllCut, TurnsAreLines
<1>2. LineOf(sg, N) \in Int /\ \A m : LineAt(m) = LineOf(sg, N) + 1 - m
  BY <1>0, EndsCounted DEF LineOf, LineAt
<1>3. 0 \in S
  <2>1. GroupRow[1] = FirstRow /\ GroupEnd[0] = N
    BY <1>0, <1>1, GroupEndIs DEF TurnRows
  <2>2. CountTo(stream, Len(stream)) = TextUpTo[N] /\ TextUpTo[N] \in Nat
    <3>1. Len(stream) \in 0 .. Len(stream) /\ N \in 0 .. N
      BY <1>0 DEF AllCut
    <3>2. CountTo(stream, Len(stream)) = CountTo(stream, End(sg, N))
      BY <1>0, <3>1, AllTextCounted DEF AllCut
    <3> QED BY <1>0, <3>1, <3>2 DEF AllCut, TextCounted
  <2>3. CountTo(stream, Len(stream)) - TextUpTo[GroupEnd[1 - 1]] <= tw * (FirstRow - GroupRow[1])
    BY <1>0, <2>1, <2>2
  <2>4. 2 * (LastLine - LineAt(1)) + Waiting(stream) <= 2
    <3>1. LineAt(1) \in Int /\ Waiting(stream) \in 0 .. 1
      BY <1>2 DEF Waiting
    <3>2. CASE sg[N].line_end
      <4>1. LastLine = LineAt(1) + 1 /\ Length(LastLine) = 0
        BY <1>0, <3>2, LastLineText
      <4>2. Waiting(stream) = 0
        <5>1. ~(Len(stream) > 0 /\ stream[Len(stream)] = "CR")
          <6>1. (Len(stream) - 1) + 1 = Len(stream)
            BY <1>0 DEF AllCut
          <6> QED BY <4>1, <6>1 DEF Settled, Kind
        <5> QED BY <5>1 DEF Waiting
      <4> QED BY <3>1, <4>1, <4>2
    <3>3. CASE ~sg[N].line_end
      <4>1. LastLine = LineAt(1)
        BY <1>0, <3>3, LastLineText
      <4> QED BY <3>1, <4>1
    <3> QED BY <3>2, <3>3
  <2>5. 2 * (FirstRow - GroupRow[1] + 1) = 2
    BY <1>0, <2>1
  <2>6. BelowTurn(1)
    BY <2>3, <2>4, <2>5 DEF BelowTurn
  <2>7. 0 \in 0 .. N - 1 /\ 0 + 1 = 1
    BY <1>0
  <2> QED BY <2>6, <2>7
<1>4. ASSUME NEW m \in 0 .. (N - 1) - 1, m \in S PROVE m + 1 \in S
  <2> DEFINE t == m + 1
             k == GroupEnd[m]
             e == GroupEnd[t]
             g == GroupLength(t)
             r == RowsOf(g)
             a == GroupRow[t]
             c == CountTo(stream, Len(stream))
  <2>1. /\ t \in 1 .. N /\ t - 1 = m /\ t \in 0 .. N - 1 /\ t + 1 \in 2 .. N /\ (t + 1) - 1 = t
        /\ t + 1 \in 1 .. N /\ m \in 0 .. N /\ t \in 0 .. N
    BY <1>0
  <2> SUFFICES ASSUME e > 0 PROVE BelowTurn(t + 1)
    BY <2>1
  <2>2. k \in 0 .. N /\ e \in 0 .. N
    <3>1. k \in 0 .. N - m /\ e \in 0 .. N - t
      BY <1>0, <2>1 DEF TurnsAreLines
    <3> QED BY <1>0, <2>1, <3>1
  <2>3. k > 0
    <3>1. k # 0
      BY <1>0, <2>1 DEF TurnsAreLines
    <3> QED BY <2>2, <3>1
  <2>4. BelowTurn(t)
    BY <1>4, <2>3
  <2>5. GroupRow[t + 1] = a - r /\ a \in Int
    <3> HIDE DEF t
    <3> QED BY <1>1, <2>1 DEF TurnRows
  <2>6. g \in Nat /\ g = TextUpTo[k] - TextUpTo[e] /\ TextUpTo[k] \in Nat /\ TextUpTo[e] \in Nat
    <3>1. g \in Nat
      BY <1>0, <2>1 DEF TurnsAreLines
    <3>2. (e + 1) - 1 = e
      BY <2>2
    <3>3. g = TextUpTo[k] - TextUpTo[e]
      BY <2>1, <3>2 DEF GroupLength, TextLength
    <3>4. TextUpTo[k] \in Nat /\ TextUpTo[e] \in Nat
      <4> HIDE DEF k, e
      <4> QED BY <1>0, <2>2 DEF AllCut, TextCounted
    <3> QED BY <3>1, <3>3, <3>4
  <2>7. r \in Nat \ {0} /\ g <= tw * r
    <3> HIDE DEF g
    <3> QED BY <1>0, <2>6, RowsOfIs
  <2>8. c \in Nat
    BY <1>0, CountTyped DEF AllCut
  <2>9. /\ c - TextUpTo[k] <= tw * (FirstRow - a)
        /\ 2 * (LastLine - LineAt(t)) + Waiting(stream) <= 2 * (FirstRow - a + 1)
    BY <2>1, <2>4 DEF BelowTurn
  <2>10. LineAt(t + 1) = LineAt(t) - 1 /\ LineAt(t) \in Int /\ Waiting(stream) \in Int
    <3> HIDE DEF t
    <3> QED BY <1>2, <2>1 DEF Waiting
  <2> HIDE DEF k, e, g, r, a, c, t
  <2>11. tw * (FirstRow - (a - r)) = tw * (FirstRow - a) + tw * r
    <3> DEFINE u == FirstRow - a
    <3>1. FirstRow - (a - r) = u + r /\ u \in Int
      BY <1>0, <2>5, <2>7
    <3> HIDE DEF u
    <3>2. tw * (u + r) = tw * u + tw * r
      BY <1>0, <2>7, <3>1
    <3> QED BY <3>1, <3>2 DEF u
  <2>12. c - TextUpTo[e] <= tw * (FirstRow - (a - r))
    <3>1. tw * (FirstRow - a) \in Int /\ tw * r \in Int
      BY <1>0, <2>5, <2>7
    <3> QED BY <2>6, <2>7, <2>8, <2>9, <2>11, <3>1
  <2>13. 2 * (LastLine - LineAt(t + 1)) + Waiting(stream) <= 2 * (FirstRow - (a - r) + 1)
    BY <1>0, <2>5, <2>7, <2>9, <2>10
  <2>14. GroupEnd[(t + 1) - 1] = e
    BY <2>1 DEF e
  <2> QED BY <2>5, <2>12, <2>13, <2>14 DEF BelowTurn, c
<1>5. 0 .. N - 1 \subseteq S
  <2> HIDE DEF S
  <2> QED BY <1>0, <1>3, <1>4, UpToAll
<1>6. n - 1 \in 0 .. N - 1 /\ (n - 1) + 1 = n
  BY <1>0
<1>7. n - 1 \in S
  BY <1>5, <1>6
<1> QED BY <1>0, <1>6, <1>7

\* A character that has a cell on the screen is among the last bytes read.
LEMMA ShownInBuffer ==
    ASSUME Settled, CursorInSizes, BufferHoldsScreen,
           NEW n, Turn(n), NEW p \in LineText(LineAt(n)), Cell(p) \in Nat
    PROVE  Len(stream) - p <= DataSize
<1> DEFINE w == tw
           f == FirstRow
           r == GroupRow[n]
           g == GroupLength(n)
           col == Column(p)
           c == CountTo(stream, Len(stream))
           a == CountTo(stream, p)
           b == TextUpTo[GroupEnd[n]]
           k == TextUpTo[GroupEnd[n - 1]]
           d == LastLine - LineAt(n)
           x0 == (g - 1) % w
<1>0. /\ AllCut /\ TurnsAreLines
      /\ n \in 1 .. SegmentCount /\ GroupEnd[n - 1] > 0 /\ SegmentCount \in Nat
  <2>1. AllCut /\ TurnsAreLines
    BY SettledMeans, TurnsMeetLines
  <2> QED BY <2>1 DEF AllCut, Turn
<1>1. /\ w \in Nat \ {0} /\ f \in Int /\ CursorY \in Nat /\ f <= CursorY
      /\ stream \in Seq(Kinds) /\ Len(stream) \in Nat /\ LastLine \in Nat
  BY <1>0, StreamLines DEF AllCut
<1>2. /\ p \in 0 .. Len(stream) - 1 /\ Line(p) = LineAt(n) /\ p \in 0 .. Len(stream)
      /\ LinesTo(stream, p) = LineAt(n) /\ LineAt(n) \in Nat
  <2>1. p \in Positions /\ Line(p) = LineAt(n)
    BY DEF LineText, Glyphs
  <2>2. p \in 0 .. Len(stream) - 1 /\ p \in 0 .. Len(stream)
    BY <1>1, <2>1 DEF Positions
  <2>3. LineAt(n) \in 0 .. LastLine
    BY <1>0 DEF TurnsAreLines, TurnIsLine
  <2> QED BY <1>1, <2>1, <2>2, <2>3, StreamLines
<1>3. c \in Nat /\ a \in Nat
  BY <1>1, CountTyped
<1>4. g \in Nat /\ r \in Int
  BY <1>0, TurnAtBottomRow DEF TurnsAreLines
<1>5. b \in Nat /\ k \in Nat /\ g = k - b
  <2>1. n - 1 \in 0 .. SegmentCount /\ n \in 0 .. SegmentCount
    BY <1>0
  <2>2. GroupEnd[n] \in 0 .. SegmentCount - n /\ GroupEnd[n - 1] \in 0 .. SegmentCount - (n - 1)
    BY <1>0, <2>1 DEF TurnsAreLines
  <2>3. GroupEnd[n] \in 0 .. SegmentCount /\ GroupEnd[n - 1] \in 0 .. SegmentCount
    BY <1>0, <2>2
  <2>4. (GroupEnd[n] + 1) - 1 = GroupEnd[n]
    BY <1>0, <2>3
  <2>5. b \in Nat /\ k \in Nat
    BY <1>0, <2>3 DEF AllCut, TextCounted
  <2> QED BY <2>4, <2>5 DEF GroupLength, TextLength
<1>6. col = a - b /\ col \in 0 .. g - 1
  BY ColumnIs
<1>7. Cell(p) = LastCell(n) - (g - 1) + col /\ Cell(p) >= 0
  BY CellIs
<1>8. LastCell(n) = r * w + x0
  BY DEF LastCell
<1>9. x0 \in 0 .. w - 1
  <2> HIDE DEF g, w
  <2> QED BY <1>1, <1>4
<1>10. c - k <= w * (f - r) /\ 2 * d + Waiting(stream) <= 2 * (f - r + 1)
  BY <1>0, TurnsFill DEF BelowTurn
<1>11. Len(stream) - p <= (c - a) + 2 * d + Waiting(stream) /\ d \in Int /\ Waiting(stream) \in Int
  <2>1. \A q \in 1 .. Len(stream) - 1 : stream[q] = "CR" => stream[q + 1] = "LF"
    <3> SUFFICES ASSUME NEW q \in 1 .. Len(stream) - 1, stream[q] = "CR"
                 PROVE  stream[q + 1] = "LF"
      OBVIOUS
    <3>1. q - 1 \in Positions /\ (q - 1) + 1 \in Positions /\ (q - 1) + 1 = q
      BY <1>1 DEF Positions
    <3> QED BY <3>1 DEF Settled, OnlyLineEnds, Kind
  <2>2. Len(stream) - p <= (c - a) + 2 * (LinesTo(stream, Len(stream)) - LinesTo(stream, p))
                            + Waiting(stream)
    BY <1>1, <1>2, <2>1, BytesCounted
  <2>3. LinesTo(stream, Len(stream)) - LinesTo(stream, p) = d
    BY <1>1, <1>2, StreamLines
  <2>4. d \in Int /\ Waiting(stream) \in Int
    BY <1>1, <1>2 DEF Waiting
  <2> QED BY <2>2, <2>3, <2>4
<1>12. PICK size \in Sizes : CursorY \in 0 .. Lines(size) - 1
  BY DEF CursorInSizes
<1> DEFINE m == Lines(size)
<1>13. m * (w + 2) <= DataSize /\ m \in Nat /\ f + 1 <= m
  <2>1. xw \in Sizes /\ w = Cols(xw)
    BY DEF Settled, CInv, TInv, TypeOK
  <2>2. m \in Nat
    BY SizesShowACell
  <2>3. m * (w + 2) <= DataSize
    BY <2>1 DEF BufferHoldsScreen
  <2>4. CursorY \in 0 .. m - 1
    BY <1>12
  <2> HIDE DEF m, f
  <2> QED BY <1>1, <2>2, <2>3, <2>4
<1>14. DataSize \in Nat
  BY RingAssumption
<1> HIDE DEF w, f, r, g, col, c, a, b, k, d, x0, m
<1>15. r * w \in Int /\ r * w + x0 >= 0
  BY <1>1, <1>4, <1>6, <1>7, <1>8, <1>9
<1>16. r >= 0
  <2> SUFFICES ASSUME r <= -1 PROVE FALSE
    BY <1>4
  <2>1. r * w <= -w
    BY <1>1, <1>4
  <2> QED BY <1>1, <1>9, <1>15, <2>1
<1>17. g - col <= r * w + w
  BY <1>1, <1>4, <1>6, <1>7, <1>8, <1>9, <1>15
<1>18. c - a <= w * (f + 1)
  <2>1. w * (f - r) = w * f - r * w /\ w * (f + 1) = w * f + w /\ w * f \in Int
    BY <1>1, <1>4
  <2>2. c - a = (c - k) + (g - col)
    BY <1>3, <1>5, <1>6
  <2>3. c - a <= (w * f - r * w) + (r * w + w)
    <3>1. c - k \in Int /\ g - col \in Int
      BY <1>3, <1>5, <1>6
    <3> QED BY <1>1, <1>10, <1>15, <1>17, <2>1, <2>2, <3>1
  <2> QED BY <1>1, <1>3, <1>15, <2>1, <2>3
<1>19. 2 * d + Waiting(stream) <= 2 * (f + 1)
  BY <1>1, <1>4, <1>10, <1>11, <1>16
<1>20. w * (f + 1) + 2 * (f + 1) <= m * (w + 2)
  <2> DEFINE y == f + 1
             v == w + 2
  <2>1. y \in Int /\ v \in Nat /\ y <= m
    BY <1>1, <1>13
  <2>2. w * y + 2 * y = y * v
    BY <1>1, <2>1
  <2> HIDE DEF y, v
  <2>3. y * v <= m * v
    BY <1>13, <2>1
  <2> QED BY <2>2, <2>3 DEF y, v
<1>21. w * (f + 1) \in Int /\ m * (w + 2) \in Int
  BY <1>1, <1>13
<1> QED BY <1>1, <1>2, <1>3, <1>11, <1>13, <1>14, <1>18, <1>19, <1>20, <1>21

(***************************************************************************)
(* The screen                                                              *)
(***************************************************************************)

\* What a turn draws in a cell is a character of its line that has that cell.
LEMMA GroupByteIs ==
    ASSUME Settled, CursorInSizes, BufferHoldsScreen, SegmentsReadBack,
           NEW n, Turn(n), NEW c \in Nat, LastCell(n) - c \in 0 .. GroupLength(n) - 1
    PROVE  /\ GroupByte(n, c) \in LineText(LineAt(n))
           /\ Cell(GroupByte(n, c)) = c
<1> DEFINE N == SegmentCount
           e == GroupEnd[n]
           k == GroupEnd[n - 1]
           g == GroupLength(n)
           m == g - 1 - (LastCell(n) - c)
           before(s) == TextLength(e + 1, s - 1)
           At(s) == before(s) <= m /\ m < before(s) + sg[s].buf.Count
           s0 == CHOOSE s \in e + 1 .. k : At(s)
           h == Len(stream)
<1>0. AllCut /\ TurnsAreLines /\ TurnIsLine(n) /\ n \in 1 .. N /\ k > 0 /\ N \in Nat
  <2>1. AllCut /\ TurnsAreLines
    BY SettledMeans, TurnsMeetLines
  <2> QED BY <2>1 DEF AllCut, Turn, TurnsAreLines
<1>1. stream \in Seq(Kinds) /\ h \in Nat /\ h \in 0 .. Len(stream)
  BY <1>0 DEF AllCut
<1>2. LineSegments(sg, N, e, k) /\ k \in 1 .. N /\ e \in 0 .. k - 1 /\ LineOf(sg, k) = LineAt(n)
  BY <1>0 DEF TurnIsLine, LineSegments
<1>3. \A j \in 0 .. N : TextUpTo[j] \in Nat /\ TextUpTo[j] = CountTo(stream, End(sg, j))
  BY <1>0 DEF AllCut, TextCounted
<1>4. m \in 0 .. g - 1 /\ g \in Nat
  <2>1. g \in Nat
    BY <1>0 DEF TurnsAreLines
  <2>2. LastCell(n) \in Int
    <3>1. GroupRow[n] \in Int
      BY <1>0, TurnAtBottomRow
    <3>2. tw \in Nat \ {0}
      BY <1>0 DEF AllCut
    <3> HIDE DEF g
    <3>3. (g - 1) % tw \in Int
      BY <2>1, <3>2
    <3>4. LastCell(n) = GroupRow[n] * tw + ((g - 1) % tw)
      BY DEF LastCell, g
    <3> QED BY <3>1, <3>2, <3>3, <3>4
  <2> HIDE DEF g
  <2> QED BY <2>1, <2>2 DEF g
<1>5. \A s : before(s) = TextUpTo[s - 1] - TextUpTo[e]
  <2>1. (e + 1) - 1 = e
    BY <1>2
  <2> QED BY <2>1 DEF TextLength
<1>6. g = TextUpTo[k] - TextUpTo[e]
  <2>1. (e + 1) - 1 = e
    BY <1>2
  <2> QED BY <2>1 DEF GroupLength, TextLength
<1>7. \A s \in 1 .. N : TextUpTo[s] = TextUpTo[s - 1] + sg[s].buf.Count
                        /\ sg[s].buf.Count = Stop(sg, s) - Start(sg, s) /\ sg[s].buf.Count \in Nat
  <2> SUFFICES ASSUME NEW s \in 1 .. N
               PROVE  TextUpTo[s] = TextUpTo[s - 1] + sg[s].buf.Count
                        /\ sg[s].buf.Count = Stop(sg, s) - Start(sg, s) /\ sg[s].buf.Count \in Nat
    OBVIOUS
  <2>1. sg[s].buf.Count = Stop(sg, s) - Start(sg, s)
    BY <1>0 DEF AllCut
  <2>2. Start(sg, s) \in Nat /\ Stop(sg, s) \in Nat /\ Start(sg, s) <= Stop(sg, s)
    BY <1>0 DEF AllCut, Bounded
  <2>3. sg[s].buf.Count \in 0 .. Stop(sg, s) - Start(sg, s) /\ sg[s].buf.Count \in Nat
    BY <2>1, <2>2
  <2>4. CountTo(stream, Start(sg, s) + sg[s].buf.Count)
          = CountTo(stream, End(sg, s - 1)) + sg[s].buf.Count
    BY <1>0, <1>1, <2>3, SegmentText DEF AllCut
  <2>5. Start(sg, s) + sg[s].buf.Count = End(sg, s) /\ s \in 0 .. N /\ s - 1 \in 0 .. N
    BY <1>0, <2>1, <2>2 DEF End
  <2> QED BY <1>3, <2>1, <2>3, <2>4, <2>5
<1> HIDE DEF before, m, g, e, k, h, N
<1>8. \E s \in e + 1 .. k : At(s)
  <2> DEFINE S == {d \in 0 .. k - e : TextUpTo[e + d] - TextUpTo[e] <= m}
  <2>1. k - e \in Nat /\ e \in 0 .. N /\ k \in 0 .. N
    BY <1>0, <1>2
  <2>2. 0 \in S
    BY <1>2, <1>3, <1>4, <2>1
  <2>3. k - e \notin S
    <3>1. e + (k - e) = k
      BY <1>2
    <3>2. ~(TextUpTo[k] - TextUpTo[e] <= m)
      BY <1>4, <1>6
    <3> QED BY <3>1, <3>2
  <2>4. PICK d \in 0 .. (k - e) - 1 : d \in S /\ d + 1 \notin S
    <3> SUFFICES ASSUME \A d \in 0 .. (k - e) - 1 : d \in S => d + 1 \in S PROVE FALSE
      OBVIOUS
    <3>1. 0 .. k - e \subseteq S
      <4> HIDE DEF S
      <4> QED BY <2>1, <2>2, UpToAll
    <3>2. k - e \in 0 .. k - e
      BY <2>1
    <3> HIDE DEF S
    <3> QED BY <2>3, <3>1, <3>2
  <2> DEFINE s == e + d + 1
  <2>5. s \in e + 1 .. k /\ s - 1 = e + d /\ s \in 1 .. N /\ e + (d + 1) = s /\ d + 1 \in 0 .. k - e
        /\ s - 1 \in 0 .. N /\ s \in 0 .. N
    BY <1>0, <1>2, <2>1
  <2>6. TextUpTo[e + d] - TextUpTo[e] <= m /\ ~(TextUpTo[e + (d + 1)] - TextUpTo[e] <= m)
    BY <2>4, <2>5
  <2> HIDE DEF s, S
  <2>7. before(s) = TextUpTo[s - 1] - TextUpTo[e]
    BY <1>5
  <2>8. TextUpTo[s] = TextUpTo[s - 1] + sg[s].buf.Count /\ sg[s].buf.Count \in Nat
    BY <1>7, <2>5
  <2>9. /\ TextUpTo[s] \in Int /\ TextUpTo[s - 1] \in Int /\ TextUpTo[e] \in Int /\ m \in Int
        /\ sg[s].buf.Count \in Int
    BY <1>3, <1>4, <2>1, <2>5, <2>8
  <2>10. TextUpTo[s - 1] - TextUpTo[e] <= m /\ ~(TextUpTo[s] - TextUpTo[e] <= m)
    BY <2>5, <2>6
  <2>11. At(s)
    BY <2>7, <2>8, <2>9, <2>10
  <2> QED BY <2>5, <2>11
<1>9. s0 \in e + 1 .. k /\ At(s0)
  BY <1>8
<1> DEFINE o == m - before(s0)
           p == sg[s0].buf.AbsoluteP + o
<1>10. GroupByte(n, c) = Data[Ring!Mirror(sg[s0].buf.Data + o)]
  <2>1. GroupByte(n, c) = Data[Ring!Mirror(sg[s0].buf.Data + m - before(s0))]
    BY DEF GroupByte, Ring!Mirror, m, g, e, k, before
  <2>2. sg[s0].buf.Data \in Int /\ m \in Int /\ before(s0) \in Int
    <3>0. s0 \in 1 .. N /\ s0 - 1 \in 0 .. N /\ e \in 0 .. N
      <4> HIDE DEF s0
      <4> QED BY <1>0, <1>2, <1>9
    <3>1. sg \in Seq(Segments)
      BY DEF Settled, CInv, TInv, TypeOK, Segments
    <3>2. sg[s0] \in Segments
      <4> HIDE DEF s0
      <4> QED BY <3>0, <3>1, ElementOfSeq DEF SegmentCount, N
    <3>3. sg[s0].buf.Data \in Int
      <4> HIDE DEF s0
      <4> QED BY <3>2 DEF Segments, Ring!Range
    <3>4. before(s0) \in Int
      <4>1. TextUpTo[s0 - 1] \in Int /\ TextUpTo[e] \in Int
        <5> HIDE DEF s0
        <5> QED BY <1>3, <3>0
      <4> HIDE DEF s0
      <4> QED BY <1>5, <4>1
    <3> QED BY <1>4, <3>3, <3>4
  <2> HIDE DEF s0
  <2>3. sg[s0].buf.Data + m - before(s0) = sg[s0].buf.Data + o
    BY <2>2
  <2> QED BY <2>1, <2>3
<1> HIDE DEF s0
<1>11. s0 \in 1 .. N /\ s0 - 1 \in 0 .. N /\ e \in 0 .. N /\ s0 \in e + 1 .. k
  BY <1>0, <1>2, <1>9
<1>12. o \in 0 .. sg[s0].buf.Count - 1 /\ sg[s0].buf.Count \in Nat /\ sg[s0].buf.AbsoluteP \in Nat
       /\ p = Start(sg, s0) + o /\ sg[s0].buf.Count = Stop(sg, s0) - Start(sg, s0)
  <2>1. before(s0) \in Int
    BY <1>3, <1>5, <1>11
  <2>2. sg[s0].buf.Count \in Nat /\ sg[s0].buf.Count = Stop(sg, s0) - Start(sg, s0)
    BY <1>7, <1>11
  <2>3. sg[s0].buf.AbsoluteP \in Nat
    BY <1>0, <1>11 DEF AllCut, Bounded, Start, N
  <2> QED BY <1>4, <1>9, <2>1, <2>2, <2>3 DEF Start
<1> HIDE DEF p, o
<1>13. /\ Start(sg, s0) \in Nat /\ Stop(sg, s0) \in Nat /\ Stop(sg, s0) <= h
       /\ p \in 0 .. h - 1 /\ Holds(sg, s0, p)
  <2>1. Start(sg, s0) \in Nat /\ Stop(sg, s0) \in Nat /\ Stop(sg, s0) <= h
    BY <1>0, <1>11 DEF AllCut, Bounded, Covered, N, h
  <2> QED BY <1>1, <1>12, <2>1 DEF Holds
<1>14. stream[p + 1] = "glyph"
  BY <1>0, <1>11, <1>13 DEF AllCut, Covered, N, h
<1>15. CountTo(stream, p) = TextUpTo[e] + m
  <2>1. o \in 0 .. Stop(sg, s0) - Start(sg, s0)
    BY <1>12, <1>13
  <2>2. CountTo(stream, p) = CountTo(stream, End(sg, s0 - 1)) + o
    BY <1>0, <1>1, <1>11, <1>12, <2>1, SegmentText DEF AllCut, N, h
  <2>3. CountTo(stream, End(sg, s0 - 1)) = TextUpTo[s0 - 1] /\ TextUpTo[s0 - 1] \in Nat
        /\ TextUpTo[e] \in Nat
    BY <1>3, <1>11
  <2>4. before(s0) = TextUpTo[s0 - 1] - TextUpTo[e]
    BY <1>5
  <2> QED BY <1>4, <2>2, <2>3, <2>4 DEF o
<1>16. p \in LineText(LineAt(n))
  <2>1. TextTo(stream, h, LineOf(sg, k)) = Between(stream, End(sg, e), Stop(sg, k))
    BY <1>0, <1>1, <1>2, TextOfLine DEF AllCut, N, h
  <2>2. End(sg, e) <= Start(sg, s0) /\ Stop(sg, s0) <= Stop(sg, k)
    <3>1. e \in 0 .. s0 - 1
      BY <1>2, <1>11
    <3>2. End(sg, e) <= Start(sg, s0)
      BY <1>0, <1>1, <1>11, <3>1, EndsInOrder DEF AllCut, N, h
    <3>3. s0 \in 0 .. k /\ k \in 0 .. N /\ s0 # 0 /\ k # 0
      BY <1>0, <1>2, <1>11
    <3>4. End(sg, s0) <= End(sg, k)
      BY <1>0, <1>1, <3>3, EndsInOrder DEF AllCut, N, h
    <3> QED BY <3>2, <3>3, <3>4 DEF End
  <2>3. End(sg, e) \in Int /\ Stop(sg, k) \in Int
    <3>1. End(sg, e) \in 0 .. h
      BY <1>0, <1>1, <1>11, EndsInOrder DEF AllCut, N, h
    <3>2. Stop(sg, k) \in Nat
      BY <1>0, <1>2 DEF AllCut, Bounded, N
    <3> QED BY <3>1, <3>2
  <2>4. p \in Between(stream, End(sg, e), Stop(sg, k))
    BY <1>13, <1>14, <2>2, <2>3 DEF Between, Holds, h
  <2> QED BY <1>1, <1>2, <2>1, <2>4, StreamLines DEF h
<1>17. Column(p) = m
  <2>1. Column(p) = CountTo(stream, p) - TextUpTo[e]
    BY <1>16, ColumnIs DEF e
  <2>2. TextUpTo[e] \in Nat
    BY <1>3, <1>11
  <2> QED BY <1>4, <1>15, <2>1, <2>2
<1>18. Cell(p) = c
  <2>1. Cell(p) = LastCell(n) - (g - 1) + Column(p)
    BY <1>16, CellIs DEF g
  <2>2. LastCell(n) \in Int
    <3>1. GroupRow[n] \in Int
      BY <1>0, TurnAtBottomRow DEF k, N
    <3>2. tw \in Nat \ {0}
      BY <1>0 DEF AllCut
    <3>3. (g - 1) % tw \in Int
      BY <1>4, <3>2
    <3>4. LastCell(n) = GroupRow[n] * tw + ((g - 1) % tw)
      BY DEF LastCell, g
    <3> QED BY <3>1, <3>2, <3>3, <3>4
  <2> QED BY <1>4, <1>17, <2>1, <2>2 DEF m
<1>19. Data[Ring!Mirror(sg[s0].buf.Data + o)] = p
  <2>1. Len(stream) - p <= DataSize
    BY <1>16, <1>18, ShownInBuffer
  <2>2. AbsoluteFilledSize + rd - p <= DataSize
    <3>1. AbsoluteFilledSize + rd = Len(stream)
      BY <1>0 DEF AllCut
    <3>2. AbsoluteFilledSize \in Nat /\ rd \in Nat /\ p \in Nat /\ DataSize \in Nat
      <4>1. AbsoluteFilledSize \in Nat /\ rd \in Nat
        BY DEF Settled, CInv, TInv, RP!IInv, RP!TypeOK
      <4> QED BY <1>1, <1>13, <4>1, RingAssumption
    <3> QED BY <2>1, <3>1, <3>2
  <2> QED BY <1>11, <1>12, <2>2 DEF SegmentsReadBack, p, N
<1> QED BY <1>10, <1>16, <1>18, <1>19

\* With the segments and the cursor of a settled stream, drawing gives the
\* screen that the stream asks for.
LEMMA DrawnIsStream ==
    ASSUME Settled, CursorInSizes, BufferHoldsScreen, SegmentsReadBack
    PROVE  Rendered = StreamScreen
<1> DEFINE at(c) == {n \in Turns : LastCell(n) - c \in 0 .. GroupLength(n) - 1}
           drawn(c) == IF at(c) # {} THEN GroupByte(CHOOSE n \in at(c) : TRUE, c)
                       ELSE IF c = CursorY * tw + CursorX THEN CursorMark
                       ELSE Blank
           cell == [p \in Glyphs |-> Cell(p)]
           asked(c) == IF \E p \in Glyphs : cell[p] = c
                       THEN CHOOSE p \in Glyphs : cell[p] = c
                       ELSE IF c = CursorY * tw + CursorX THEN CursorMark ELSE Blank
<1>1. DOMAIN Cleared \subseteq Nat
  BY SettledMeans DEF Cleared, AllCut
<1>2. ASSUME NEW c \in Nat PROVE drawn(c) = asked(c)
  <2>1. ASSUME NEW n \in at(c)
        PROVE  /\ GroupByte(n, c) \in Glyphs
               /\ \A p \in Glyphs : cell[p] = c <=> p = GroupByte(n, c)
    <3>1. Turn(n)
      BY DEF Turns, Turn
    <3>2. GroupByte(n, c) \in LineText(LineAt(n)) /\ Cell(GroupByte(n, c)) = c
      <4>1. LastCell(n) - c \in 0 .. GroupLength(n) - 1
        OBVIOUS
      <4> QED BY <3>1, <4>1, GroupByteIs
    <3>3. GroupByte(n, c) \in Glyphs
      BY <3>2 DEF LineText
    <3>4. ASSUME NEW p \in Glyphs PROVE cell[p] = c <=> p = GroupByte(n, c)
      <4>1. cell[p] = Cell(p)
        OBVIOUS
      <4> HIDE DEF cell
      <4> QED BY <3>2, <3>3, <4>1, CellsDiffer
    <3> QED BY <3>3, <3>4
  <2>2. ASSUME NEW p \in Glyphs, cell[p] = c PROVE at(c) # {}
    <3>1. Cell(p) = c
      BY <2>2
    <3>2. PICK n : Turn(n) /\ p \in LineText(LineAt(n))
      BY GlyphInTurn
    <3>3. LastCell(n) - c \in 0 .. GroupLength(n) - 1
      BY <3>1, <3>2, CellIs
    <3>4. n \in 1 .. SegmentCount /\ GroupEnd[n - 1] > 0 /\ GroupLength(n) \in Nat
          /\ tw \in Nat \ {0}
      BY <3>2, SettledMeans, TurnsMeetLines DEF AllCut, Turn, TurnsAreLines
    <3> DEFINE b == GroupRow[n]
               d == (GroupLength(n) - 1) % tw
    <3>5. b \in Int
      BY <3>4, TurnAtBottomRow
    <3>6. LastCell(n) = b * tw + d /\ d \in 0 .. tw - 1
      BY <3>4 DEF LastCell
    <3> HIDE DEF b, d
    <3>7. b * tw \in Int /\ b * tw + d >= 0
      BY <3>3, <3>4, <3>5, <3>6
    <3>8. b >= 0
      <4> SUFFICES ASSUME b <= -1 PROVE FALSE
        BY <3>5
      <4>1. b * tw <= -tw
        BY <3>4, <3>5
      <4> QED BY <3>4, <3>6, <3>7, <4>1
    <3>9. n \in Turns
      BY <3>4, <3>8 DEF Turns, b
    <3> QED BY <3>3, <3>9
  <2>3. CASE at(c) # {}
    <3> DEFINE n == CHOOSE n \in at(c) : TRUE
    <3>1. n \in at(c)
      BY <2>3
    <3> HIDE DEF at, cell, n
    <3>2. GroupByte(n, c) \in Glyphs /\ \A p \in Glyphs : cell[p] = c <=> p = GroupByte(n, c)
      BY <2>1, <3>1
    <3>3. asked(c) = GroupByte(n, c)
      BY <3>2
    <3>4. drawn(c) = GroupByte(n, c)
      BY <2>3 DEF n
    <3> QED BY <3>3, <3>4
  <2>4. CASE at(c) = {}
    <3>1. ~ \E p \in Glyphs : cell[p] = c
      BY <2>2, <2>4
    <3> HIDE DEF at, cell
    <3> QED BY <2>4, <3>1
  <2> QED BY <2>3, <2>4
<1>3. Rendered = [c \in DOMAIN Cleared |-> drawn(c)]
  BY DEF Rendered
<1>4. StreamScreen = [c \in DOMAIN Cleared |-> asked(c)]
  BY DEF StreamScreen
<1> HIDE DEF drawn, asked
<1>5. \A c \in DOMAIN Cleared : drawn(c) = asked(c)
  BY <1>1, <1>2
<1> QED BY <1>3, <1>4, <1>5

\* The screen shows the bottom of the stream, character by character, for
\* every buffer that can hold a screen: whatever the reads, however the lines
\* wrap and wherever the circular buffer does, and after any resizes.
THEOREM ScreenFollowsStream ==
    ASSUME BufferHoldsScreen
    PROVE  Spec => []ScreenShowsStream
<1> DEFINE SInv == TailUsed /\ CursorInSizes
<1>1. Init => SInv
  <2> SUFFICES ASSUME Init PROVE SInv
    OBVIOUS
  <2>1. pc # "scan" /\ SegmentCount = 0 /\ CursorY = 0 /\ xw \in Sizes
    BY EmptySeq DEF Init, SegmentCount
  <2>2. Lines(xw) \in Nat \ {0}
    BY <2>1, SizesShowACell
  <2>3. CursorY \in 0 .. Lines(xw) - 1
    BY <2>1, <2>2
  <2> QED BY <2>1, <2>3 DEF TailUsed, CursorInSizes
<1>2. CInv /\ SInv /\ [Next]_vars => SInv'
  BY TailKept, RowKept DEF CInv
<1>3. CInv /\ SInv /\ NothingUndrawn /\ SegmentsReadBack => ScreenShowsStream
  <2> SUFFICES ASSUME CInv, SInv, NothingUndrawn, SegmentsReadBack,
                      Idle, ~render, OnlyLineEnds,
                      \A l \in 0 .. LastLine : Length(l) < tw * th,
                      ~(Len(stream) > 0 /\ Kind(Len(stream) - 1) = "CR" /\ Length(LastLine) = 0)
               PROVE  screen = StreamScreen
    BY DEF ScreenShowsStream
  <2>1. Settled
    BY DEF Settled
  <2>2. Rendered = StreamScreen
    BY <2>1, DrawnIsStream
  <2> QED BY <2>2 DEF NothingUndrawn
<1> HIDE DEF SInv
<1>4. Spec => []CInv /\ []NothingUndrawn /\ []SegmentsReadBack
  BY CoverKept, NothingStaysUndrawn, SegmentsStayReadable
<1> QED BY <1>1, <1>2, <1>3, <1>4, PTL DEF Spec
=============================================================================
