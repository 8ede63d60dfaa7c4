------------------------------ MODULE EventLoop ------------------------------
(***************************************************************************)
(* The terminal among its neighbours: main.c's loop, the child process on  *)
(* the other side of the pty (tty.c), the X server, and the SIGCHLD handler *)
(* that may run between any two steps of the loop.  What the loop does with *)
(* the bytes is the subject of Terminal; here they are counted.            *)
(*                                                                         *)
(* External, modelled as the code uses them: a write() to a full pty blocks *)
(* (the master is never made non-blocking), after as many bytes as there   *)
(* was room for.  A handler that runs meanwhile ends it with what it has    *)
(* written; if that is nothing, signal() has it restarted.  pselect() is   *)
(* not restarted.  Once the child is gone the slave is hung up: what was   *)
(* written can be read, then read() fails with EIO, and write() fails.     *)
(*                                                                         *)
(* ttynew goes on without a pty: its descriptors were never set.  Here they *)
(* are small numbers that nothing has open, with which every call fails; by *)
(* luck they could also be another file's, or be outside an fd_set.         *)
(***************************************************************************)
EXTENDS Integers, Sequences, FiniteSets

CONSTANTS Room,             \* x.Count: what a visit to the reading loop may read
          OutCap, InCap,    \* capacity of the pty, towards the terminal and back
          KeyBytes,         \* bytes that XLookupString makes of a key
          MaxOutput, MaxEvents, MaxStops  \* bounds: bytes written, X events, stops

ASSUME EventLoopAssumption ==
    /\ Room \in Nat \ {0} /\ OutCap \in Nat \ {0} /\ InCap \in Nat \ {0}
    /\ KeyBytes \in Nat \ {0}
    /\ MaxOutput \in Nat /\ MaxEvents \in Nat /\ MaxStops \in Nat

VARIABLES
    pc,                   \* where the main program is
    timeout, y, errno,    \* of the outer pselect; y: cmdfd is set
    rd, render,           \* bytes read in this visit; t.render
    processed, drawn,     \* bytes given to ProcessInput, and drawn
    events, fetched,      \* X events to come, and how many of them Xlib has read
    opened,               \* there is a pty behind cmdfd
    installed, pending, handling,   \* SIGCHLD: handler set, raised, how far it is
    died,                 \* history: sigchld has called die
    child, status,        \* the child and how it ended
    early,                \* history: it ended before the handler was installed
    output, input,        \* bytes in the pty
    left,                 \* bytes of a key that its write has still to write
    written, typed, received, stops, sent   \* counters, see the actions

loopVars   == <<timeout, y, rd, render, processed, drawn>>
signalVars == <<opened, installed, pending, handling, died>>
childVars  == <<child, status, early>>
ptyVars    == <<output, input, left, written, typed, received>>
envVars    == <<stops, sent>>
vars == <<pc, errno, loopVars, events, fetched, signalVars, childVars, ptyVars, envVars>>

Ended == child \in {"zombie", "reaped"}
CanRead == opened /\ (output > 0 \/ Ended)   \* pselect finds cmdfd readable
Refused == Ended \/ ~opened                 \* write on cmdfd fails at once
CanWrite == input < InCap \/ Refused

Init ==
    /\ pc = "fork"
    /\ timeout = 0 /\ y = FALSE /\ errno = "none"
    /\ rd = 0 /\ render = TRUE /\ processed = 0 /\ drawn = 0
    /\ events = <<>> /\ fetched = 0
    /\ opened = FALSE /\ installed = FALSE /\ pending = FALSE /\ handling = "no" /\ died = FALSE
    /\ child = "none" /\ status = "none" /\ early = FALSE
    /\ output = 0 /\ input = 0 /\ left = 0 /\ written = 0 /\ typed = 0 /\ received = 0
    /\ stops = 0 /\ sent = 0

(***************************************************************************)
(* ttynew: openpty and fork, then the handler                              *)
(***************************************************************************)

\* die() does not end the program: without a pty, without a child and without
\* both the loop is entered too.
Fork ==
    /\ pc = "fork"
    /\ opened' \in BOOLEAN
    /\ \/ child' = "starting" /\ pc' = "signal"
       \/ child' = "none" /\ pc' = "top"
    /\ UNCHANGED <<errno, loopVars, events, fetched, installed, pending, handling, died, status,
                   early, ptyVars, envVars>>

InstallHandler ==
    /\ pc = "signal"
    /\ installed' = TRUE
    /\ pc' = "top"
    /\ UNCHANGED <<errno, loopVars, events, fetched, opened, pending, handling, died, childVars,
                   ptyVars, envVars>>

(***************************************************************************)
(* A turn of the loop.  timeout and y are locals of the turn; they, and an   *)
(* errno that is not looked at again, are reset where they go out of use.   *)
(***************************************************************************)

\* Mutant: the timeout is chosen before XPending reads what the server sent.
TopFromQueue ==
    /\ pc = "top"
    /\ timeout' = IF fetched < Len(events) THEN 0 ELSE 16
    /\ fetched' = Len(events)
    /\ pc' = "select"
    /\ UNCHANGED <<errno, y, rd, render, processed, drawn, events, signalVars, childVars,
                   ptyVars, envVars>>

\* XPending reads what the server sent.
Top ==
    /\ pc = "top"
    /\ timeout' = IF events # <<>> THEN 0 ELSE 16
    /\ fetched' = Len(events)
    /\ pc' = "select"
    /\ UNCHANGED <<errno, y, rd, render, processed, drawn, events, signalVars, childVars,
                   ptyVars, envVars>>

\* pselect returns when there is something to read or the time is over.
SelectReturns ==
    /\ pc = "select" /\ opened
    /\ y' = CanRead
    /\ timeout' = 0
    /\ pc' = "x11"
    /\ UNCHANGED <<errno, rd, render, processed, drawn, events, fetched, signalVars,
                   childVars, ptyVars, envVars>>

\* It fails and leaves y as it was set: interrupted, because the time it is
\* given is made from ts.tv_sec in ts's own initializer, or without a pty.
SelectFails ==
    /\ \/ pc = "interrupted" /\ errno' = "EINTR"
       \/ pc = "select" /\ errno' = "EINVAL"
       \/ pc = "select" /\ ~opened /\ errno' = "EBADF"
    /\ y' = TRUE
    /\ timeout' = 0
    /\ pc' = "failed"
    /\ UNCHANGED <<rd, render, processed, drawn, events, fetched, signalVars, childVars,
                   ptyVars, envVars>>

\* errno may be the handler's by now.  After die() the turn goes on.
CheckErrno ==
    /\ pc = "failed"
    /\ IF errno = "EINTR" THEN pc' = "top" /\ y' = FALSE ELSE pc' = "x11" /\ UNCHANGED y
    /\ errno' = "none"
    /\ UNCHANGED <<timeout, rd, render, processed, drawn, events, fetched, signalVars, childVars, ptyVars, envVars>>

\* Mutant: a window that is closed is left to the event loop.
HandleEventStays ==
    /\ pc = "x11" /\ events # <<>>
    /\ pc' = IF Head(events) = "key" THEN "write" ELSE "x11"
    /\ left' = IF Head(events) = "key" THEN KeyBytes ELSE 0
    /\ render' = (render \/ Head(events) = "resize")
    /\ events' = Tail(events)
    /\ fetched' = Len(events')
    /\ UNCHANGED <<errno, timeout, y, rd, processed, drawn, signalVars, childVars, output,
                   input, written, typed, received, envVars>>

\* The next event: keypress (up to its write), cmessage or resize.  One without
\* a handler does less than a resize.
HandleEvent ==
    /\ pc = "x11" /\ events # <<>>
    /\ pc' = CASE Head(events) = "key"   -> "write"
               [] Head(events) = "close" -> "exited"
               [] OTHER                  -> "x11"
    /\ left' = IF Head(events) = "key" THEN KeyBytes ELSE 0
    /\ render' = (render \/ Head(events) = "resize")
    /\ events' = Tail(events)
    /\ fetched' = Len(events')
    /\ UNCHANGED <<errno, timeout, y, rd, processed, drawn, signalVars, childVars, output,
                   input, written, typed, received, envVars>>

\* Mutants: a write that does not wait, and loses the key or overfills the pty.
WriteKeyOrDrop ==
    /\ pc = "write"
    /\ input' = IF Refused \/ left > InCap - input THEN input ELSE input + left
    /\ left' = 0
    /\ pc' = "x11"
    /\ UNCHANGED <<errno, loopVars, events, fetched, signalVars, childVars, output, written,
                   typed, received, envVars>>
WriteKeyUnbounded ==
    /\ pc = "write"
    /\ input' = input + left
    /\ left' = 0
    /\ pc' = "x11"
    /\ UNCHANGED <<errno, loopVars, events, fetched, signalVars, childVars, output, written,
                   typed, received, envVars>>

\* keypress's write, whose result is not looked at: as much of the key as there
\* is room for, then it waits.
WriteKey ==
    /\ pc = "write" /\ CanWrite
    /\ \/ Refused /\ left' = 0 /\ UNCHANGED input
       \/ ~Refused /\ \E n \in 1 .. left :
            /\ n = left \/ n = InCap - input
            /\ input + n <= InCap
            /\ input' = input + n
            /\ left' = left - n
    /\ pc' = IF left' = 0 THEN "x11" ELSE "write"
    /\ UNCHANGED <<errno, loopVars, events, fetched, signalVars, childVars, output, written,
                   typed, received, envVars>>

EventsDone ==
    /\ pc = "x11" /\ events = <<>>
    /\ pc' = IF y THEN "poll" ELSE "draw"
    /\ y' = FALSE
    /\ UNCHANGED <<errno, timeout, rd, render, processed, drawn, events, fetched, signalVars, childVars, ptyVars, envVars>>

\* The condition of the reading loop: te moves on with each read only.
Poll ==
    /\ pc = "poll"
    /\ IF CanRead /\ events = <<>> /\ rd < Room
         THEN pc' \in {"read"} \cup (IF rd > 0 THEN {"commit"} ELSE {})
         ELSE pc' = "commit"
    /\ fetched' = IF CanRead THEN Len(events) ELSE fetched
    /\ UNCHANGED <<errno, loopVars, events, signalVars, childVars, ptyVars, envVars>>

ReadTty ==
    /\ pc = "read"
    /\ \/ \E r \in 1 .. output :
            /\ rd + r <= Room
            /\ rd' = rd + r
            /\ output' = output - r
            /\ render' = TRUE
            /\ pc' = "poll"
            /\ errno' = "none"
       \/ /\ output = 0
          /\ errno' = "EIO"
          /\ pc' = "commit"
          /\ UNCHANGED <<rd, output, render>>
    /\ UNCHANGED <<timeout, y, processed, drawn, events, fetched, signalVars, childVars,
                   input, left, written, typed, received, envVars>>

\* Mutant: what was read before an error is dropped.
CommitUnlessError ==
    /\ pc = "commit"
    /\ processed' = IF errno = "EIO" THEN processed ELSE processed + rd
    /\ rd' = 0
    /\ pc' = "draw"
    /\ UNCHANGED <<errno, timeout, y, render, drawn, events, fetched, signalVars, childVars,
                   ptyVars, envVars>>

\* CommitWrite and ProcessInput, if anything was read.
Commit ==
    /\ pc = "commit"
    /\ processed' = processed + rd
    /\ rd' = 0
    /\ pc' = "draw"
    /\ UNCHANGED <<errno, timeout, y, render, drawn, events, fetched, signalVars, childVars,
                   ptyVars, envVars>>

\* glXSwapBuffers may read events from the connection.
Draw ==
    /\ pc = "draw"
    /\ drawn' = IF render THEN processed ELSE drawn
    /\ fetched' \in IF render THEN fetched .. Len(events) ELSE {fetched}
    /\ render' = FALSE
    /\ pc' = "top"
    /\ UNCHANGED <<errno, timeout, y, rd, processed, events, signalVars, childVars, ptyVars,
                   envVars>>

\* The program stands still while the handler runs.
MainStep ==
    /\ handling = "no"
    /\ \/ Fork \/ InstallHandler \/ Top \/ SelectReturns \/ SelectFails \/ CheckErrno
       \/ HandleEvent \/ WriteKey \/ EventsDone \/ Poll \/ ReadTty \/ Commit \/ Draw

(***************************************************************************)
(* SIGCHLD                                                                 *)
(***************************************************************************)

\* Mutant: the handler is installed without SA_RESTART.
DeliverUnrestarted ==
    /\ pending /\ handling = "no" /\ pc # "exited"
    /\ pending' = FALSE
    /\ handling' = "entered"
    /\ pc' \in CASE pc = "select" /\ opened -> {pc, "interrupted"}
                 [] pc = "write"  -> {"x11"}
                 [] OTHER         -> {pc}
    /\ left' = 0
    /\ UNCHANGED <<errno, loopVars, events, fetched, opened, installed, died, childVars, output, input,
                   written, typed, received, envVars>>

\* The kernel enters the handler; a sleeping pselect will return, and so does a
\* write that waits in the middle of a key, whose rest is lost.
Deliver ==
    /\ pending /\ handling = "no" /\ pc # "exited"
    /\ pending' = FALSE
    /\ handling' = "entered"
    /\ pc' \in CASE pc = "select" /\ opened         -> {pc, "interrupted"}
                 [] pc = "write" /\ left < KeyBytes -> {"x11"}
                 [] OTHER                         -> {pc}
    /\ left' = IF left < KeyBytes THEN 0 ELSE left
    /\ UNCHANGED <<errno, loopVars, events, fetched, opened, installed, died, childVars, output, input,
                   written, typed, received, envVars>>

\* waitpid: reaps the child, finds it alive, or fails and sets errno.  In the
\* last case, and if the child failed, die() is called, and returns.
sigchld ==
    /\ handling = "entered"
    /\ handling' = "waited"
    /\ child' = IF child = "zombie" THEN "reaped" ELSE child
    /\ errno' = IF child = "reaped" THEN "ECHILD" ELSE errno
    /\ died' = (died \/ child = "reaped" \/ (child = "zombie" /\ status = "failed"))
    /\ UNCHANGED <<pc, loopVars, events, fetched, opened, installed, pending, status, early, ptyVars,
                   envVars>>

\* Mutant: a signal raised meanwhile is forgotten.
HandlerForgets ==
    /\ handling = "waited"
    /\ handling' = "no" /\ pending' = FALSE
    /\ UNCHANGED <<pc, errno, loopVars, events, fetched, opened, installed, died, childVars, ptyVars,
                   envVars>>

HandlerReturns ==
    /\ handling = "waited"
    /\ handling' = "no"
    /\ UNCHANGED <<pc, errno, loopVars, events, fetched, opened, installed, pending, died, childVars,
                   ptyVars, envVars>>

HandlerStep == Deliver \/ sigchld \/ HandlerReturns

(***************************************************************************)
(* The child, the kernel and the X server                                  *)
(***************************************************************************)

unlessChild == <<pc, errno, loopVars, events, fetched, opened, installed, handling, died, sent>>

\* execsh has got as far as execvp.
ChildStarts ==
    /\ child = "starting"
    /\ child' = "running"
    /\ UNCHANGED <<unlessChild, pending, status, early, ptyVars, stops>>

\* The child is one thread: while it writes it does not read.  Without a pty it
\* writes elsewhere.
ChildBeginsWrite ==
    /\ opened /\ child = "running" /\ written < MaxOutput
    /\ child' = "writing"
    /\ UNCHANGED <<unlessChild, pending, status, early, ptyVars, stops>>

ChildWrites ==
    /\ child = "writing" /\ output < OutCap
    /\ child' = "running"
    /\ output' = output + 1 /\ written' = written + 1
    /\ UNCHANGED <<unlessChild, pending, status, early, input, left, typed, received, stops>>

ChildReads ==
    /\ child = "running" /\ input > 0
    /\ input' = input - 1 /\ received' = received + 1
    /\ UNCHANGED <<unlessChild, pending, childVars, output, left, written, typed, stops>>

\* Without a handler SIGCHLD is discarded.
ChildEnds ==
    /\ child \in {"starting", "running", "writing"}
    /\ child' = "zombie"
    /\ status' \in {"ok", "failed"}   \* failed: exit status or signal
    /\ early' = ~installed
    /\ pending' = (pending \/ installed)
    /\ UNCHANGED <<unlessChild, ptyVars, stops>>

\* Stopped and continued: SIGCHLD without an end.
ChildStops ==
    /\ child \in {"starting", "running", "writing"} /\ stops < MaxStops
    /\ stops' = stops + 1
    /\ pending' = (pending \/ installed)
    /\ UNCHANGED <<unlessChild, childVars, ptyVars>>

XSends ==
    /\ sent < MaxEvents /\ pc # "exited"
    /\ \E kind \in {"key", "close", "resize"} :
         /\ events' = Append(events, kind)
         /\ typed' = IF kind = "key" THEN typed + 1 ELSE typed
    /\ sent' = sent + 1
    /\ UNCHANGED <<pc, errno, loopVars, fetched, signalVars, childVars, output, input, left,
                   written, received, stops>>

ChildStep == ChildStarts \/ ChildBeginsWrite \/ ChildWrites \/ ChildReads \/ ChildEnds \/ ChildStops

Next == MainStep \/ HandlerStep \/ ChildStep \/ XSends

Spec == Init /\ [][Next]_vars

\* The scheduler runs the program and the child, and signals are delivered.  The
\* child need not read, write or end.
LiveSpec ==
    /\ Spec
    /\ WF_vars(MainStep)
    /\ WF_vars(HandlerStep)
    /\ WF_vars(ChildStarts) /\ WF_vars(ChildWrites)

(***************************************************************************)
(* Properties                                                              *)
(***************************************************************************)

Places == {"fork", "signal", "top", "select", "interrupted", "failed", "x11", "write",
           "poll", "read", "commit", "draw", "exited"}

PlacesOK ==
    /\ pc \in Places
    /\ timeout \in {0, 16} /\ errno \in {"none", "EINTR", "EINVAL", "EBADF", "EIO", "ECHILD"}
    /\ y \in BOOLEAN /\ render \in BOOLEAN
    /\ opened \in BOOLEAN /\ installed \in BOOLEAN /\ pending \in BOOLEAN /\ died \in BOOLEAN
    /\ handling \in {"no", "entered", "waited"}
    /\ child \in {"none", "starting", "running", "writing", "zombie", "reaped"}
    /\ status \in {"none", "ok", "failed"} /\ early \in BOOLEAN

CountsOK ==
    /\ rd \in 0 .. Room /\ processed \in Nat /\ drawn \in 0 .. processed
    /\ events \in Seq({"key", "close", "resize"}) /\ fetched \in 0 .. Len(events)
    /\ output \in 0 .. OutCap /\ input \in 0 .. InCap /\ left \in 0 .. KeyBytes
    /\ written \in 0 .. MaxOutput /\ (child = "writing" => written < MaxOutput)
    /\ typed \in Nat /\ received \in Nat
    /\ stops \in 0 .. MaxStops /\ sent \in 0 .. MaxEvents

\* Where the program, the handler and the child are; the numbers are in range.
TypeOK == PlacesOK /\ CountsOK

\* "Existing events might not set xfd": pselect does not sleep for 16 ms over an
\* event that Xlib has already read, as glXSwapBuffers may do.
SleepsOnlyIdle == pc = "select" /\ timeout = 16 => fetched = 0

\* No byte of the child's output is lost or taken twice on its way through the
\* pty and the range being filled to ProcessInput, wherever the reading loop is
\* left, an error after successful reads included.
OutputAccounted == written = output + rd + processed

\* keypress waits for a full pty, and the whole terminal with it.  Nothing in
\* the code ends that if the child, itself waiting for the terminal to read its
\* output or busy with something else, does not read, or if there is no child.
Stuck == pc = "write" /\ ~CanWrite

\* No such wait lasts for ever: what the liveness properties have to assume.
Unstuck == []<>~Stuck

\* The child reads again and again while it has something to read.
ChildListens == WF_vars(ChildReads)

\* Whatever the child writes, its last words before it ends included, is drawn,
\* however pselect fails, signals arrive and events interrupt the reading:
\* unless the window is closed, or keypress waits for ever.
OutputDrawn ==
    Unstuck => \A n \in 1 .. MaxOutput : written >= n ~> (drawn >= n \/ pc = "exited")

\* What the keys handled so far have put into the pty, short of what they are
\* made of.
KeysHandled == typed - Cardinality({k \in DOMAIN events : events[k] = "key"})
Missing == KeyBytes * KeysHandled - left - input - received

\* A key is lost in part only, and only to SIGCHLD: the signals of a child that
\* was stopped or continued take the rest of one key each, never its first byte,
\* which is more than keypress, who ignores what write returns, knows of.
KeysWhole == ~Refused => Missing \in 0 .. (KeyBytes - 1) * stops

\* Every key typed reaches a child that goes on reading, but for what the signals
\* took, unless the two wait for each other for ever.
KeysArrive ==
    Unstuck /\ ChildListens => \A n \in 1 .. MaxEvents :
        typed >= n ~> \/ received + (KeyBytes - 1) * stops >= KeyBytes * n
                      \/ Refused \/ child = "none" \/ pc = "exited"

\* A window that is asked to close does, with or without a pty and a child and
\* whatever is left to read, unless keypress waits for ever over an earlier key.
CloseExits ==
    Unstuck => ((\E k \in DOMAIN events : events[k] = "close") ~> pc = "exited")

\* A child that ends is reaped, also when its signal meets the handler running
\* for an earlier one; unless it ended before there was a handler.
ChildReaped == (child = "zombie" /\ ~early) ~> (child = "reaped" \/ pc = "exited")

\* What tty.c:17 says of die: "_exit not exit is used in die", so that the
\* terminal ends when its child has failed.
DieEndsProgram == died => pc = "exited"
=============================================================================
