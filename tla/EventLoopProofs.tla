--------------------------- MODULE EventLoopProofs ---------------------------
(***************************************************************************)
(* Theorems about EventLoop, for every capacity of the pty and every bound *)
(* on what the child and the X server do.                                  *)
(***************************************************************************)
EXTENDS EventLoop, FiniteSetTheorems, TLAPS

LEMMA Init_TypeOK == Init => TypeOK
  <1>1. Init => PlacesOK
    BY DEF Init, PlacesOK, Places
  <1>2. Init => CountsOK
    BY EventLoopAssumption DEF Init, CountsOK
  <1> QED
    BY <1>1, <1>2 DEF TypeOK

\* Every action leaves the program, the handler and the child at a known place.
LEMMA Next_PlacesOK == TypeOK /\ [Next]_vars => PlacesOK'
  <1> SUFFICES ASSUME TypeOK, [Next]_vars PROVE PlacesOK'
    OBVIOUS
  <1> USE EventLoopAssumption DEF TypeOK, PlacesOK
  <1>1. CASE Fork
    BY <1>1 DEF Places, Fork, loopVars, signalVars, ptyVars, envVars
  <1>2. CASE InstallHandler
    BY <1>2 DEF Places, InstallHandler, loopVars, childVars, ptyVars, envVars
  <1>3. CASE Top
    BY <1>3 DEF Places, Top, signalVars, childVars, ptyVars, envVars
  <1>4. CASE SelectReturns
    BY <1>4 DEF Places, SelectReturns, CanRead, Ended, signalVars, childVars, ptyVars, envVars
  <1>5. CASE SelectFails
    BY <1>5 DEF Places, SelectFails, signalVars, childVars, ptyVars, envVars
  <1>6. CASE CheckErrno
    <2>1. pc' \in {"top", "x11"} /\ errno' = "none"
      BY <1>6 DEF CheckErrno
    <2>2. y' \in BOOLEAN
      BY <1>6, Zenon DEF CheckErrno, signalVars, childVars
    <2>3. UNCHANGED <<timeout, render, signalVars, childVars>>
      BY <1>6 DEF CheckErrno, signalVars, childVars
    <2> QED
      BY <2>1, <2>2, <2>3 DEF Places, signalVars, childVars
  <1>7. CASE HandleEvent
    BY <1>7 DEF Places, HandleEvent, signalVars, childVars, ptyVars, envVars
  <1>8. CASE WriteKey
    BY <1>8 DEF Places, WriteKey, loopVars, signalVars, childVars, envVars
  <1>9. CASE EventsDone
    <2>1. pc' \in Places
      BY <1>9 DEF EventsDone, Places
    <2>2. y' \in BOOLEAN
      BY <1>9 DEF EventsDone
    <2>3. UNCHANGED <<errno, timeout, render, signalVars, childVars>>
      BY <1>9 DEF EventsDone
    <2> QED
      BY <2>1, <2>2, <2>3 DEF signalVars, childVars
  <1>10. CASE Poll
    BY <1>10 DEF Places, Poll, loopVars, signalVars, childVars, ptyVars, envVars
  <1>11. CASE ReadTty
    <2>1. pc' \in {"poll", "commit"} /\ errno' \in {"none", "EIO"}
      BY <1>11 DEF ReadTty
    <2>2. render' \in BOOLEAN
      BY <1>11, Zenon DEF ReadTty
    <2>3. UNCHANGED <<timeout, y, signalVars, childVars>>
      BY <1>11 DEF ReadTty
    <2> QED
      BY <2>1, <2>2, <2>3 DEF Places, signalVars, childVars
  <1>12. CASE Commit
    BY <1>12 DEF Places, Commit, signalVars, childVars, ptyVars, envVars
  <1>13. CASE Draw
    <2>1. pc' \in Places
      BY <1>13 DEF Draw, Places
    <2>2. render' \in BOOLEAN
      BY <1>13 DEF Draw
    <2>3. UNCHANGED <<errno, timeout, y, signalVars, childVars>>
      BY <1>13 DEF Draw
    <2> QED
      BY <2>1, <2>2, <2>3 DEF signalVars, childVars
  <1>14. CASE HandlerStep
    <2>1. pc' \in Places /\ errno' \in {"none", "EINTR", "EINVAL", "EBADF", "EIO", "ECHILD"}
      BY <1>14 DEF Places, HandlerStep, Deliver, sigchld, HandlerReturns, loopVars, childVars
    <2>2. /\ handling' \in {"no", "entered", "waited"}
          /\ child' \in {"none", "starting", "running", "writing", "zombie", "reaped"}
      BY <1>14 DEF HandlerStep, Deliver, sigchld, HandlerReturns, loopVars, childVars
    <2>3. died' \in BOOLEAN
      BY <1>14, Zenon DEF HandlerStep, Deliver, sigchld, HandlerReturns, loopVars, childVars
    <2>4. pending' \in BOOLEAN
      BY <1>14 DEF HandlerStep, Deliver, sigchld, HandlerReturns, loopVars, childVars
    <2>5. UNCHANGED <<timeout, y, render, opened, installed, status, early>>
      BY <1>14 DEF HandlerStep, Deliver, sigchld, HandlerReturns, loopVars, childVars
    <2> HIDE DEF PlacesOK
    <2>6. /\ y' \in BOOLEAN /\ render' \in BOOLEAN /\ opened' \in BOOLEAN /\ installed' \in BOOLEAN
          /\ early' \in BOOLEAN /\ timeout' \in {0, 16} /\ status' \in {"none", "ok", "failed"}
      BY <2>5 DEF PlacesOK
    <2> QED
      BY <2>1, <2>2, <2>3, <2>4, <2>6 DEF PlacesOK
  <1>15. CASE ChildStarts
    BY <1>15 DEF ChildStarts, unlessChild, loopVars, ptyVars
  <1>16. CASE ChildBeginsWrite
    BY <1>16 DEF ChildBeginsWrite, unlessChild, loopVars, ptyVars
  <1>17. CASE ChildWrites
    BY <1>17 DEF ChildWrites, unlessChild, loopVars
  <1>18. CASE ChildReads
    BY <1>18 DEF ChildReads, unlessChild, loopVars, childVars
  <1>19. CASE ChildEnds
    BY <1>19 DEF ChildEnds, unlessChild, loopVars, ptyVars
  <1>20. CASE ChildStops
    BY <1>20 DEF ChildStops, unlessChild, loopVars, childVars, ptyVars
  <1>21. CASE XSends
    BY <1>21 DEF XSends, loopVars, signalVars, childVars
  <1>22. CASE UNCHANGED vars
    BY <1>22 DEF vars, loopVars, signalVars, childVars, ptyVars, envVars
  <1> QED
    BY <1>1, <1>2, <1>3, <1>4, <1>5, <1>6, <1>7, <1>8, <1>9, <1>10, <1>11,
       <1>12, <1>13, <1>14, <1>15, <1>16, <1>17, <1>18, <1>19, <1>20, <1>21, <1>22
       DEF Next, MainStep, ChildStep

\* Every action keeps the numbers in range.
LEMMA Next_CountsOK == TypeOK /\ [Next]_vars => CountsOK'
  <1> SUFFICES ASSUME TypeOK, [Next]_vars PROVE CountsOK'
    OBVIOUS
  <1> USE EventLoopAssumption DEF TypeOK, CountsOK
  <1>1. CASE Fork
    BY <1>1 DEF Fork, loopVars, signalVars, ptyVars, envVars
  <1>2. CASE InstallHandler
    BY <1>2 DEF InstallHandler, loopVars, childVars, ptyVars, envVars
  <1>3. CASE Top
    BY <1>3 DEF Top, signalVars, childVars, ptyVars, envVars
  <1>4. CASE SelectReturns
    BY <1>4 DEF SelectReturns, CanRead, Ended, signalVars, childVars, ptyVars, envVars
  <1>5. CASE SelectFails
    BY <1>5 DEF SelectFails, signalVars, childVars, ptyVars, envVars
  <1>6. CASE CheckErrno
    BY <1>6 DEF CheckErrno, signalVars, childVars, ptyVars, envVars
  <1>7. CASE HandleEvent
    <2>1. /\ events' = Tail(events) /\ events # <<>> /\ fetched' = Len(events')
          /\ left' \in {0, KeyBytes}
          /\ UNCHANGED <<rd, processed, drawn, childVars, output, input, written, typed,
                         received, envVars>>
      BY <1>7 DEF HandleEvent
    <2>2. events' \in Seq({"key", "close", "resize"}) /\ fetched' \in 0 .. Len(events')
      BY <2>1
    <2>3. left' \in 0 .. KeyBytes
      BY <2>1
    <2> QED
      BY <2>1, <2>2, <2>3 DEF childVars, envVars
  <1>8. CASE WriteKey
    BY <1>8 DEF WriteKey, loopVars, signalVars, childVars, envVars
  <1>9. CASE EventsDone
    BY <1>9 DEF EventsDone, signalVars, childVars, ptyVars, envVars
  <1>10. CASE Poll
    BY <1>10 DEF Poll, loopVars, signalVars, childVars, ptyVars, envVars
  <1>11. CASE ReadTty
    BY <1>11 DEF ReadTty, signalVars, childVars, envVars
  <1>12. CASE Commit
    BY <1>12 DEF Commit, signalVars, childVars, ptyVars, envVars
  <1>13. CASE Draw
    BY <1>13 DEF Draw, signalVars, childVars, ptyVars, envVars
  <1>14. CASE HandlerStep
    <2>1. /\ left' \in {0, left} /\ child' \in {child, "reaped"}
          /\ UNCHANGED <<rd, processed, drawn, events, fetched, output, input, written,
                         typed, received, stops, sent>>
      BY <1>14 DEF HandlerStep, Deliver, sigchld, HandlerReturns, loopVars, childVars,
                   ptyVars, envVars
    <2>2. left' \in 0 .. KeyBytes
      BY <2>1
    <2> QED
      BY <2>1, <2>2
  <1>15. CASE ChildStarts
    BY <1>15 DEF ChildStarts, unlessChild, loopVars, ptyVars
  <1>16. CASE ChildBeginsWrite
    BY <1>16 DEF ChildBeginsWrite, unlessChild, loopVars, ptyVars
  <1>17. CASE ChildWrites
    BY <1>17 DEF ChildWrites, unlessChild, loopVars
  <1>18. CASE ChildReads
    BY <1>18 DEF ChildReads, unlessChild, loopVars, childVars
  <1>19. CASE ChildEnds
    BY <1>19 DEF ChildEnds, unlessChild, loopVars, ptyVars
  <1>20. CASE ChildStops
    BY <1>20 DEF ChildStops, unlessChild, loopVars, childVars, ptyVars
  <1>21. CASE XSends
    BY <1>21 DEF XSends, loopVars, signalVars, childVars
  <1>22. CASE UNCHANGED vars
    BY <1>22 DEF vars, loopVars, signalVars, childVars, ptyVars, envVars
  <1> QED
    BY <1>1, <1>2, <1>3, <1>4, <1>5, <1>6, <1>7, <1>8, <1>9, <1>10, <1>11,
       <1>12, <1>13, <1>14, <1>15, <1>16, <1>17, <1>18, <1>19, <1>20, <1>21, <1>22
       DEF Next, MainStep, ChildStep

\* Type correctness: the reads of a visit stay within its range, and the pty's
\* queues within their capacity.
THEOREM TypeCorrect == Spec => []TypeOK
  <1>1. TypeOK /\ [Next]_vars => TypeOK'
    BY Next_PlacesOK, Next_CountsOK DEF TypeOK
  <1> QED
    BY <1>1, Init_TypeOK, PTL DEF Spec

\* Events that Xlib holds are only found by XPending, and nothing fetches more
\* of them between the choice of the timeout and the call of pselect.
THEOREM NoSleepOverEvents == Spec => []SleepsOnlyIdle
  <1>1. Init => SleepsOnlyIdle
    BY DEF Init, SleepsOnlyIdle
  <1>2. TypeOK /\ SleepsOnlyIdle /\ [Next]_vars => SleepsOnlyIdle'
    <2> SUFFICES ASSUME TypeOK, SleepsOnlyIdle, [Next]_vars PROVE SleepsOnlyIdle'
      OBVIOUS
    <2>1. CASE Top
      BY <2>1 DEF Top, SleepsOnlyIdle
    <2>2. CASE MainStep /\ ~Top
      BY <2>2 DEF MainStep, Fork, InstallHandler, SelectReturns, SelectFails, CheckErrno,
                  HandleEvent, WriteKey, EventsDone, Poll, ReadTty, Commit, Draw, SleepsOnlyIdle
    <2>3. CASE HandlerStep
      BY <2>3 DEF HandlerStep, Deliver, sigchld, HandlerReturns, SleepsOnlyIdle, loopVars
    <2>4. CASE ChildStep
      BY <2>4 DEF ChildStep, ChildStarts, ChildBeginsWrite, ChildWrites, ChildReads, ChildEnds,
                  ChildStops, SleepsOnlyIdle, unlessChild, loopVars
    <2>5. CASE XSends
      BY <2>5 DEF XSends, SleepsOnlyIdle, loopVars
    <2>6. CASE UNCHANGED vars
      BY <2>6 DEF vars, SleepsOnlyIdle, loopVars
    <2> QED
      BY <2>1, <2>2, <2>3, <2>4, <2>5, <2>6 DEF Next
  <1> QED
    BY <1>1, <1>2, TypeCorrect, PTL DEF Spec

\* The pty, the range and ProcessInput hold what the child wrote: ReadTty and
\* Commit pass bytes on, the child adds them, nothing else touches them.
THEOREM NoOutputLost == Spec => []OutputAccounted
  <1>1. Init => OutputAccounted
    BY DEF Init, OutputAccounted
  <1>2. TypeOK /\ OutputAccounted /\ [Next]_vars => OutputAccounted'
    <2> SUFFICES ASSUME TypeOK, OutputAccounted, [Next]_vars PROVE OutputAccounted'
      OBVIOUS
    <2>0. output \in Int /\ rd \in Int /\ processed \in Int /\ written \in Int
      BY EventLoopAssumption DEF TypeOK, CountsOK
    <2>1. CASE ReadTty
      BY <2>0, <2>1 DEF ReadTty, OutputAccounted
    <2>2. CASE Commit
      BY <2>0, <2>2 DEF Commit, OutputAccounted, ptyVars
    <2>3. CASE MainStep /\ ~ReadTty /\ ~Commit
      BY <2>3 DEF MainStep, Fork, InstallHandler, Top, SelectReturns, SelectFails, CheckErrno,
                  HandleEvent, WriteKey, EventsDone, Poll, Draw, OutputAccounted, loopVars, ptyVars
    <2>4. CASE ChildWrites
      BY <2>0, <2>4 DEF ChildWrites, OutputAccounted, unlessChild, loopVars
    <2>5. CASE ChildStep /\ ~ChildWrites
      BY <2>5 DEF ChildStep, ChildStarts, ChildBeginsWrite, ChildReads, ChildEnds,
                  ChildStops, OutputAccounted, unlessChild, loopVars, ptyVars
    <2>6. CASE HandlerStep
      BY <2>6 DEF HandlerStep, Deliver, sigchld, HandlerReturns, OutputAccounted, loopVars, ptyVars
    <2>7. CASE XSends
      BY <2>7 DEF XSends, OutputAccounted, loopVars
    <2>8. CASE UNCHANGED vars
      BY <2>8 DEF vars, OutputAccounted, loopVars, ptyVars
    <2> QED
      BY <2>1, <2>2, <2>3, <2>4, <2>5, <2>6, <2>7, <2>8 DEF Next
  <1> QED
    BY <1>1, <1>2, TypeCorrect, PTL DEF Spec

(***************************************************************************)
(* Keys                                                                    *)
(***************************************************************************)

KeysIn(q) == {k \in DOMAIN q : q[k] = "key"}
EventKinds == {"key", "close", "resize"}

LEMMA KeysFinite ==
    ASSUME NEW q \in Seq(EventKinds)
    PROVE  IsFiniteSet(KeysIn(q)) /\ Cardinality(KeysIn(q)) \in Nat
  <1>1. Len(q) \in Nat /\ DOMAIN q = 1 .. Len(q)
    OBVIOUS
  <1>2. 1 \in Int /\ Len(q) \in Int
    BY <1>1
  <1>3. IsFiniteSet(1 .. Len(q))
    BY <1>2, FS_Interval
  <1>4. KeysIn(q) \subseteq 1 .. Len(q)
    BY <1>1 DEF KeysIn
  <1>5. IsFiniteSet(KeysIn(q))
    BY <1>3, <1>4, FS_Subset
  <1> QED
    BY <1>5, FS_CardinalityType

\* An event that arrives adds itself to the keys that wait, if it is one.
LEMMA KeyArrives ==
    ASSUME NEW q \in Seq(EventKinds), NEW e \in EventKinds
    PROVE  Cardinality(KeysIn(Append(q, e)))
             = Cardinality(KeysIn(q)) + (IF e = "key" THEN 1 ELSE 0)
  <1> DEFINE n == Len(q)
             r == Append(q, e)
  <1>1. n \in Nat /\ DOMAIN q = 1 .. n /\ DOMAIN r = 1 .. n + 1
        /\ r[n + 1] = e /\ \A k \in 1 .. n : r[k] = q[k]
    OBVIOUS
  <1> HIDE DEF r, n
  <1>2. IsFiniteSet(KeysIn(q)) /\ Cardinality(KeysIn(q)) \in Nat
    BY KeysFinite
  <1>3. CASE e = "key"
    <2>1. KeysIn(r) = KeysIn(q) \cup {n + 1}
      BY <1>1, <1>3 DEF KeysIn
    <2>2. n + 1 \notin KeysIn(q)
      BY <1>1 DEF KeysIn
    <2> QED BY <1>2, <1>3, <2>1, <2>2, FS_AddElement DEF r
  <1>4. CASE e # "key"
    <2>1. KeysIn(r) = KeysIn(q)
      BY <1>1, <1>4 DEF KeysIn
    <2> QED BY <1>2, <1>4, <2>1 DEF r
  <1> QED BY <1>3, <1>4

\* The event that is handled leaves the keys that wait behind it.
LEMMA KeyLeaves ==
    ASSUME NEW q \in Seq(EventKinds), q # <<>>
    PROVE  Cardinality(KeysIn(q))
             = Cardinality(KeysIn(Tail(q))) + (IF Head(q) = "key" THEN 1 ELSE 0)
  <1> DEFINE n == Len(q)
             r == Tail(q)
             rest == KeysIn(q) \ {1}
  <1>1. n \in Nat \ {0} /\ DOMAIN q = 1 .. n /\ DOMAIN r = 1 .. n - 1
        /\ Head(q) = q[1] /\ \A k \in 1 .. n - 1 : r[k] = q[k + 1]
    OBVIOUS
  <1>2. r \in Seq(EventKinds)
    OBVIOUS
  <1> HIDE DEF r, n
  <1>3. IsFiniteSet(KeysIn(q)) /\ Cardinality(KeysIn(q)) \in Nat
    BY KeysFinite
  <1>4. IsFiniteSet(KeysIn(r)) /\ Cardinality(KeysIn(r)) \in Nat
    BY <1>2, KeysFinite
  <1>5. Cardinality(rest) = Cardinality(KeysIn(r))
    <2> DEFINE f == [k \in KeysIn(r) |-> k + 1]
    <2>1. ASSUME NEW k \in KeysIn(r) PROVE k \in 1 .. n - 1 /\ k + 1 \in rest
      BY <1>1 DEF KeysIn
    <2>2. ASSUME NEW m \in rest PROVE m - 1 \in KeysIn(r) /\ m \in Int
      BY <1>1 DEF KeysIn
    <2>3. f \in [KeysIn(r) -> rest]
      BY <2>1
    <2>4. \A a, b \in KeysIn(r) : f[a] = f[b] => a = b
      BY <2>1
    <2>5. \A m \in rest : \E k \in KeysIn(r) : f[k] = m
      <3> SUFFICES ASSUME NEW m \in rest PROVE \E k \in KeysIn(r) : f[k] = m
        OBVIOUS
      <3>1. m - 1 \in KeysIn(r) /\ (m - 1) + 1 = m
        BY <2>2
      <3> QED BY <3>1
    <2> HIDE DEF f, rest
    <2>6. f \in Bijection(KeysIn(r), rest)
      BY <2>3, <2>4, <2>5 DEF Bijection, Injection, Surjection, IsInjective
    <2>7. ExistsBijection(KeysIn(r), rest)
      BY <2>6 DEF ExistsBijection
    <2> QED BY <1>4, <2>7, FS_Bijection
  <1>6. Cardinality(rest) = IF 1 \in KeysIn(q) THEN Cardinality(KeysIn(q)) - 1
                            ELSE Cardinality(KeysIn(q))
    BY <1>3, FS_RemoveElement
  <1>7. 1 \in KeysIn(q) <=> Head(q) = "key"
    BY <1>1 DEF KeysIn
  <1> HIDE DEF rest
  <1> QED BY <1>3, <1>4, <1>5, <1>6, <1>7 DEF r

\* A signal that is raised and not yet delivered may still cost the rest of a
\* key; only a key that is being written has a rest.
KeysInv ==
    /\ pc = "fork" => child = "none"
    /\ pc # "write" => left = 0
    /\ pc = "fork" \/ ~Refused =>
         /\ 0 <= Missing
         /\ Missing + (IF pending THEN KeyBytes - 1 ELSE 0) <= (KeyBytes - 1) * stops

\* What the counters say of the keys, typed.
LEMMA MissingTyped ==
    ASSUME TypeOK
    PROVE  /\ KeysHandled = typed - Cardinality(KeysIn(events))
           /\ KeysHandled \in Int /\ Missing \in Int /\ KeyBytes * KeysHandled \in Int
           /\ left \in Nat /\ input \in Nat /\ received \in Nat /\ stops \in Nat
           /\ typed \in Nat /\ events \in Seq(EventKinds)
  <1>1. /\ left \in Nat /\ input \in Nat /\ received \in Nat /\ stops \in Nat
        /\ typed \in Nat /\ events \in Seq(EventKinds)
    BY EventLoopAssumption DEF TypeOK, CountsOK, EventKinds
  <1>2. Cardinality(KeysIn(events)) \in Nat
    BY <1>1, KeysFinite
  <1>3. KeysHandled = typed - Cardinality(KeysIn(events))
    BY DEF KeysHandled, KeysIn
  <1>4. KeysHandled \in Int
    BY <1>1, <1>2, <1>3
  <1>5. KeyBytes * KeysHandled \in Int
    BY <1>4, EventLoopAssumption
  <1>6. Missing \in Int
    BY <1>1, <1>5 DEF Missing
  <1> QED BY <1>1, <1>3, <1>4, <1>5, <1>6

\* Steps that move nothing between the keys' places.
LEMMA MissingSame ==
    ASSUME UNCHANGED <<typed, events, left, input, received>>
    PROVE  Missing' = Missing
  BY DEF Missing, KeysHandled

LEMMA KeysInvKept ==
    ASSUME TypeOK, TypeOK', KeysInv, [Next]_vars
    PROVE  KeysInv'
  <1> DEFINE due == IF pending THEN KeyBytes - 1 ELSE 0
             lost == (KeyBytes - 1) * stops
  <1>0. /\ KeyBytes \in Nat \ {0} /\ pending \in BOOLEAN /\ left \in 0 .. KeyBytes
        /\ lost \in Int
    <2>1. KeyBytes \in Nat \ {0} /\ pending \in BOOLEAN /\ left \in 0 .. KeyBytes
      BY EventLoopAssumption DEF TypeOK, PlacesOK, CountsOK
    <2> QED BY <2>1, MissingTyped
  <1>1. /\ Missing \in Int /\ left \in Nat /\ input \in Nat /\ received \in Nat
        /\ stops \in Nat /\ typed \in Nat /\ events \in Seq(EventKinds)
        /\ KeyBytes * KeysHandled \in Int /\ KeysHandled \in Int
        /\ Missing = KeyBytes * KeysHandled - left - input - received
    BY MissingTyped DEF Missing
  <1>2. Missing' = KeyBytes * KeysHandled' - left' - input' - received'
    BY DEF Missing
  <1>3. /\ pc = "fork" => child = "none"
        /\ pc # "write" => left = 0
        /\ pc = "fork" \/ ~Refused => 0 <= Missing /\ Missing + due <= lost
    BY DEF KeysInv
  <1>4. CASE HandleEvent
    <2>1. /\ pc = "x11" /\ pc' # "fork" /\ events # <<>> /\ events' = Tail(events) /\ left = 0
          /\ left' = (IF Head(events) = "key" THEN KeyBytes ELSE 0)
          /\ pc' # "write" => left' = 0
          /\ UNCHANGED <<typed, input, received, stops, pending, child, opened>>
      BY <1>3, <1>4 DEF HandleEvent, signalVars, childVars, envVars
    <2>2. Cardinality(KeysIn(events)) = Cardinality(KeysIn(events'))
                                          + (IF Head(events) = "key" THEN 1 ELSE 0)
      BY <1>1, <2>1, KeyLeaves
    <2>3. KeysHandled = typed - Cardinality(KeysIn(events))
          /\ KeysHandled' = typed' - Cardinality(KeysIn(events'))
      BY DEF KeysHandled, KeysIn
    <2>4. Cardinality(KeysIn(events)) \in Nat /\ Cardinality(KeysIn(events')) \in Nat
      <3>1. events' \in Seq(EventKinds)
        BY <1>1, <2>1
      <3> QED BY <1>1, <3>1, KeysFinite
    <2>5. KeysHandled' = KeysHandled + (IF Head(events) = "key" THEN 1 ELSE 0)
      BY SMTT(30), <1>1, <2>1, <2>2, <2>3, <2>4
    <2>6. Missing' = Missing
      <3>1. CASE Head(events) = "key"
        <4>1. KeyBytes * KeysHandled' = KeyBytes * KeysHandled + KeyBytes
          BY <1>0, <1>1, <2>5, <3>1
        <4> QED BY <1>0, <1>1, <1>2, <2>1, <3>1, <4>1
      <3>2. CASE Head(events) # "key"
        <4>1. KeysHandled' = KeysHandled /\ left' = left
          BY <1>1, <2>1, <2>5, <3>2
        <4> QED BY <1>1, <1>2, <2>1, <4>1
      <3> QED BY <3>1, <3>2
    <2> QED BY <1>3, <2>1, <2>6 DEF KeysInv, Refused, Ended
  <1>5. CASE WriteKey
    <2>1. /\ pc = "write" /\ pc' # "fork" /\ (pc' # "write" => left' = 0)
          /\ UNCHANGED <<typed, events, received, stops, pending, child, opened>>
          /\ ~Refused => \E n \in 1 .. left : input' = input + n /\ left' = left - n
      BY <1>5 DEF WriteKey, signalVars, childVars, envVars
    <2>2. ~Refused => Missing' = Missing
      <3> SUFFICES ASSUME ~Refused PROVE Missing' = Missing
        OBVIOUS
      <3>1. PICK n \in 1 .. left : input' = input + n /\ left' = left - n
        BY <2>1
      <3>2. KeysHandled' = KeysHandled
        BY <2>1 DEF KeysHandled
      <3> QED BY <1>1, <1>2, <2>1, <3>1, <3>2
    <2> QED BY <1>3, <2>1, <2>2 DEF KeysInv, Refused, Ended
  <1>6. CASE Deliver
    <2>1. /\ pending /\ pending' = FALSE
          /\ UNCHANGED <<typed, events, input, received, stops, child, opened>>
          /\ left' = (IF left < KeyBytes THEN 0 ELSE left)
          /\ pc' \in {pc, "interrupted", "x11"} /\ (pc' = "fork" => pc = "fork")
          /\ pc # "write" => pc' # "write"
          /\ pc = "write" /\ pc' # "write" => left < KeyBytes
      BY <1>6 DEF Deliver, childVars, envVars
    <2>2. Missing' = Missing + (left - left')
      <3>1. KeysHandled' = KeysHandled
        BY <2>1 DEF KeysHandled
      <3> QED BY <1>0, <1>1, <1>2, <2>1, <3>1
    <2>3. left - left' \in 0 .. KeyBytes - 1
      BY <1>0, <2>1
    <2>4. pc' # "write" => left' = 0
      BY <1>0, <1>3, <2>1
    <2>5. pc' = "fork" \/ ~Refused' => 0 <= Missing' /\ Missing' + 0 <= (KeyBytes - 1) * stops'
      BY <1>0, <1>1, <1>3, <2>1, <2>2, <2>3 DEF Refused, Ended
    <2> QED BY <2>1, <2>4, <2>5 DEF KeysInv
  <1>7. CASE ChildReads
    <2>1. /\ child = "running" /\ input' = input - 1 /\ received' = received + 1
          /\ UNCHANGED <<pc, typed, events, left, stops, pending, child, opened>>
      BY <1>7 DEF ChildReads, unlessChild, childVars
    <2>2. Missing' = Missing
      <3>1. KeysHandled' = KeysHandled
        BY <2>1 DEF KeysHandled
      <3> QED BY <1>1, <1>2, <2>1, <3>1
    <2> QED BY <1>3, <2>1, <2>2 DEF KeysInv, Refused, Ended
  <1>8. CASE ChildStops
    <2>1. /\ stops' = stops + 1 /\ pending' \in BOOLEAN
          /\ UNCHANGED <<pc, typed, events, left, input, received, child, opened>>
      BY <1>0, <1>8 DEF ChildStops, unlessChild, childVars, ptyVars, TypeOK, PlacesOK
    <2>2. Missing' = Missing
      BY <2>1, MissingSame
    <2>3. (KeyBytes - 1) * stops' = lost + (KeyBytes - 1)
      BY <1>0, <1>1, <2>1
    <2> QED BY <1>0, <1>1, <1>3, <2>1, <2>2, <2>3 DEF KeysInv, Refused, Ended
  <1>9. CASE XSends
    <2>1. PICK kind \in EventKinds : /\ events' = Append(events, kind)
                                     /\ typed' = IF kind = "key" THEN typed + 1 ELSE typed
      BY <1>9 DEF XSends, EventKinds
    <2>2. UNCHANGED <<pc, left, input, received, stops, pending, child, opened>>
      BY <1>9 DEF XSends, signalVars, childVars
    <2>3. Cardinality(KeysIn(events')) = Cardinality(KeysIn(events))
                                           + (IF kind = "key" THEN 1 ELSE 0)
      BY <1>1, <2>1, KeyArrives
    <2>4. KeysHandled = typed - Cardinality(KeysIn(events))
          /\ KeysHandled' = typed' - Cardinality(KeysIn(events'))
      BY DEF KeysHandled, KeysIn
    <2>5. Cardinality(KeysIn(events)) \in Nat
      BY <1>1, KeysFinite
    <2>6. KeysHandled' = KeysHandled
      BY <1>1, <2>1, <2>3, <2>4, <2>5
    <2>7. Missing' = Missing
      BY <1>1, <1>2, <2>2, <2>6
    <2> QED BY <1>3, <2>2, <2>7 DEF KeysInv, Refused, Ended
  <1>10. CASE ChildEnds
    <2>1. Ended' /\ pc # "fork" /\ UNCHANGED <<pc, left>>
      BY <1>3, <1>10 DEF ChildEnds, unlessChild, ptyVars, Ended
    <2> QED BY <1>3, <2>1 DEF KeysInv, Refused
  <1>11. CASE /\ UNCHANGED <<typed, events, left, input, received, stops, pending>>
              /\ (Refused /\ pc # "fork" => Refused') /\ (pc # "write" => pc' # "write")
              /\ (pc = "write" => pc' = "write") /\ (pc' = "fork" => pc = "fork" /\ child' = "none")
    <2>1. Missing' = Missing
      BY <1>11, MissingSame
    <2> QED BY <1>3, <1>11, <2>1 DEF KeysInv
  <1>12. CASE Fork
    <2>1. child = "none" /\ pc' # "fork" /\ pc = "fork" /\ pc' # "write"
      BY <1>12 DEF Fork, KeysInv
    <2> QED BY <1>11, <1>12, <2>1 DEF Fork, loopVars, ptyVars, envVars, Refused, Ended
  <1>15. CASE MainStep /\ ~Fork /\ ~HandleEvent /\ ~WriteKey
    BY <1>11, <1>15
    DEF MainStep, InstallHandler, Top, SelectReturns, SelectFails, CheckErrno,
        EventsDone, Poll, ReadTty, Commit, Draw, loopVars, signalVars, childVars, ptyVars,
        envVars, Refused, Ended, TypeOK, PlacesOK
  <1>13. CASE sigchld \/ HandlerReturns \/ UNCHANGED vars
    BY <1>3, <1>11, <1>13 DEF sigchld, HandlerReturns, vars, loopVars, signalVars, childVars, ptyVars,
                        envVars, Refused, Ended
  <1>14. CASE ChildStarts \/ ChildBeginsWrite \/ ChildWrites
    BY <1>3, <1>11, <1>14 DEF ChildStarts, ChildBeginsWrite, ChildWrites, unlessChild, loopVars,
                        ptyVars, Refused, Ended
  <1> QED
    BY <1>4, <1>5, <1>6, <1>7, <1>8, <1>9, <1>10, <1>12, <1>13, <1>14, <1>15
    DEF Next, HandlerStep, ChildStep

\* A signal costs the rest of one key at most, and never a key's first byte.
THEOREM KeysStayWhole == Spec => []KeysWhole
  <1>1. Init => KeysInv
    <2> SUFFICES ASSUME Init PROVE KeysInv
      OBVIOUS
    <2>1. /\ child = "none" /\ typed = 0 /\ events = <<>> /\ left = 0 /\ input = 0 /\ received = 0 /\ stops = 0
          /\ pending = FALSE
      BY DEF Init
    <2>2. {k \in DOMAIN events : events[k] = "key"} = {}
      BY <2>1
    <2>3. KeysHandled = 0
      BY <2>1, <2>2, FS_EmptySet DEF KeysHandled
    <2>4. Missing = 0
      BY <2>1, <2>3, EventLoopAssumption DEF Missing
    <2> QED BY <2>1, <2>4, EventLoopAssumption DEF KeysInv
  <1>2. TypeOK /\ TypeOK' /\ KeysInv /\ [Next]_vars => KeysInv'
    BY KeysInvKept
  <1>3. TypeOK /\ KeysInv => KeysWhole
    <2> SUFFICES ASSUME TypeOK, KeysInv, ~Refused PROVE Missing \in 0 .. (KeyBytes - 1) * stops
      BY DEF KeysWhole
    <2>1. Missing \in Int /\ stops \in Nat /\ KeyBytes \in Nat \ {0} /\ pending \in BOOLEAN
      BY MissingTyped, EventLoopAssumption DEF TypeOK, PlacesOK
    <2>2. (KeyBytes - 1) * stops \in Int
      BY <2>1
    <2> QED BY <2>1, <2>2 DEF KeysInv
  <1> QED
    BY <1>1, <1>2, <1>3, TypeCorrect, PTL DEF Spec
=============================================================================
