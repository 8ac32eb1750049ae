----------------------------- MODULE Descriptors ----------------------------
(***************************************************************************)
(* Streams on descriptors: Bu::TcpSocket, and Bu::Process with the pipes   *)
(* to its child. They share no state: which says what a behaviour is       *)
(* about.                                                                  *)
(***************************************************************************)
EXTENDS Integers, SequencesExt

VARIABLES which, core, abs
vars == <<which, core, abs>>
-----------------------------------------------------------------------------
(***************************************************************************)
(* Bu::TcpSocket (src/stable/tcpsocket.cpp) and the accept of              *)
(* Bu::TcpServerSocket (tcpserversocket.cpp): connecting with a timeout,   *)
(* reads and writes, and the calls that repeat them until a time has       *)
(* passed, against a peer that refuses, answers, closes or resets.  core   *)
(* is the TcpSocket with the timed call it is in; its descriptor is        *)
(* "none", "open", "closed" or "taken", and nonblock is its own mode.  abs *)
(* is the network: rx and tx are the bytes in the kernel, numbered in the  *)
(* order they were sent, and last is what the last timed call returned.    *)
(***************************************************************************)
CONSTANTS Space,            \* of the kernel's buffers
          MaxBytes          \* bound: bytes sent in each direction

NoCall == [op |-> "none", want |-> 0, buf |-> <<>>]
Count(n) == [k \in 1..n |-> k]
Least(x, y) == IF x < y THEN x ELSE y
-----------------------------------------------------------------------------
\* Mutant: the descriptor is forgotten, not closed.
CloseForgets(c) == [c EXCEPT !.bActive = FALSE]

\* close does nothing on a socket that is not active.
TcpSocketClose(c) == IF c.bActive THEN [c EXCEPT !.fd = "closed", !.bActive = FALSE] ELSE c

TcpSocketSetBlocking(c, b) == [c EXCEPT !.bBlocking = b, !.nonblock = ~b]

\* A call ends with an exception: what it had read goes with it.
Throws(c) == /\ core' = [TcpSocketClose(c) EXCEPT !.call = NoCall]
             /\ abs' = [abs EXCEPT !.lost = @ \o c.call.buf]

\* recv of n bytes: the bytes, Wait (a blocking socket) or an error.
MayRecv(c) == abs.rx # <<>> \/ abs.peer # "open" \/ abs.link = "refused" \/ c.nonblock
Received(n) == SubSeq(abs.rx, 1, Least(n, Len(abs.rx)))
RecvThrows(n) == abs.rx = <<>> /\ n > 0 /\ (abs.peer # "open" \/ abs.link = "refused")

\* send of n bytes: what fits; EAGAIN is 0 bytes, a reset peer an exception that leaves the socket open.
MaySend(c) == (abs.link = "up" /\ Len(abs.tx) < Space) \/ abs.peer = "reset" \/ abs.link = "refused" \/ c.nonblock
Sent(n) == IF abs.link = "up" THEN Least(n, Space - Len(abs.tx)) ELSE 0
Sending(n) == [abs EXCEPT !.wrote = @ + n, !.tx = @ \o [k \in 1..n |-> abs.wrote + k]]
-----------------------------------------------------------------------------
TcpSocketInit == /\ core = [bActive |-> FALSE, bBlocking |-> TRUE, nonblock |-> FALSE, fd |-> "none", state |-> "new", call |-> NoCall]
                 /\ abs = [link |-> "pending", peer |-> "open", rx |-> <<>>, sent |-> 0, got |-> <<>>, lost |-> <<>>,
                           tx |-> <<>>, wrote |-> 0, peerGot |-> <<>>, last |-> [n |-> 0, want |-> 0, late |-> FALSE]]

\* The constructor up to connect.  When the name cannot be resolved, close finds the socket not active yet.
Resolve == /\ core.state = "new"
           /\ LET c == [TcpSocketSetBlocking(core, FALSE) EXCEPT !.fd = "open"]
              IN  \/ core' = [c EXCEPT !.state = "connecting", !.bActive = TRUE]
                  \/ core' = [TcpSocketClose(c) EXCEPT !.state = "unresolved"]
           /\ UNCHANGED abs

\* The constructor from connect on: with a timeout it waits, and looks for the error of a refused connect.
Connect == /\ core.state = "connecting"
           /\ \E timeout, blocking \in BOOLEAN :
                  \/ timeout /\ core' = [TcpSocketClose(core) EXCEPT !.state = "failed"]
                  \/ timeout /\ abs.link = "refused" /\ core' = [TcpSocketClose(core) EXCEPT !.state = "failed"]
                  \/ (~timeout \/ abs.link = "up") /\ core' = [TcpSocketSetBlocking(core, blocking) EXCEPT !.state = "ready"]
           /\ UNCHANGED abs

\* TcpSocket(handle) with what TcpServerSocket::accept returned: the descriptor does not block, the flag says it does.
accept == /\ core.state = "new"
          /\ core' = [core EXCEPT !.fd = "open", !.nonblock = TRUE, !.bActive = TRUE, !.state = "ready"]
          /\ abs' = [abs EXCEPT !.link = "up"]

Idle == core.state = "ready" /\ core.bActive /\ core.call = NoCall

TcpSocketRead == \E n \in 1..2 :
             /\ Idle /\ MayRecv(core)
             /\ IF RecvThrows(n) THEN Throws(core)
                ELSE /\ abs' = [abs EXCEPT !.got = @ \o Received(n), !.rx = SubSeq(@, Len(Received(n)) + 1, Len(@))]
                     /\ UNCHANGED core

TcpSocketWrite == \E n \in 1..2 :
    /\ Idle /\ MaySend(core) /\ abs.wrote + n <= MaxBytes
    /\ abs' = IF abs.peer = "reset" THEN abs ELSE Sending(Sent(n))
    /\ UNCHANGED core

\* The timed calls: a turn of the loop waits for select, reads or writes, and looks at the clock.
Timed == \E op \in {"read", "write"} : /\ Idle /\ (op = "write" => abs.wrote + 2 <= MaxBytes)
                                       /\ core' = [core EXCEPT !.call = [op |-> op, want |-> 2, buf |-> <<>>]]
                                       /\ UNCHANGED abs

\* Mutant: the second read goes to the start of the buffer again.
TurnOverwrites(c, bytes) == [c EXCEPT !.call.buf = bytes]

turn(c, bytes) == [c EXCEPT !.call.buf = @ \o bytes]

Returned(c, late) == [n |-> Len(c.call.buf), want |-> c.call.want, late |-> late]

\* Mutant: one read, as long as it may take.
ReadOnce ==
    /\ core.call.op = "read" /\ MayRecv(core)
    /\ LET c == turn(core, Received(core.call.want))
       IN  IF RecvThrows(1) THEN Throws(core)
           ELSE /\ core' = [c EXCEPT !.call = NoCall]
                /\ abs' = [abs EXCEPT !.rx = SubSeq(@, Len(c.call.buf) + 1, Len(@)), !.got = @ \o c.call.buf, !.last = Returned(c, FALSE)]

TimedRead ==
    /\ core.call.op = "read" /\ MayRecv(core)
    /\ LET n == core.call.want - Len(core.call.buf)
           c == turn(core, Received(n))
           rest == SubSeq(abs.rx, Len(Received(n)) + 1, Len(abs.rx))
       IN  \E late \in BOOLEAN :
               IF RecvThrows(n) THEN Throws(core)
               ELSE IF Len(c.call.buf) >= core.call.want \/ late
               THEN /\ core' = [c EXCEPT !.call = NoCall]
                    /\ abs' = [abs EXCEPT !.rx = rest, !.got = @ \o c.call.buf, !.last = Returned(c, late)]
               ELSE core' = c /\ abs' = [abs EXCEPT !.rx = rest]

TimedWrite ==
    /\ core.call.op = "write" /\ MaySend(core)
    /\ LET n == Sent(core.call.want - Len(core.call.buf))
           c == turn(core, [k \in 1..n |-> abs.wrote + k])
       IN  \E late \in BOOLEAN :
               IF abs.peer = "reset" THEN core' = [core EXCEPT !.call = NoCall] /\ UNCHANGED abs
               ELSE IF Len(c.call.buf) >= core.call.want \/ late
               THEN core' = [c EXCEPT !.call = NoCall] /\ abs' = [Sending(n) EXCEPT !.last = Returned(c, late)]
               ELSE core' = c /\ abs' = Sending(n)

SetBlocking == \E b \in BOOLEAN : Idle /\ core' = TcpSocketSetBlocking(core, b) /\ UNCHANGED abs
TcpSocketCloses == Idle /\ core' = TcpSocketClose(core) /\ UNCHANGED abs
takeHandle == Idle /\ core' = [core EXCEPT !.bActive = FALSE, !.fd = "taken"] /\ UNCHANGED abs
-----------------------------------------------------------------------------
\* The peer and the network.
PeerAnswers == \E l \in {"up", "refused"} : core.fd = "open" /\ abs.link = "pending" /\ abs' = [abs EXCEPT !.link = l] /\ UNCHANGED core
PeerSends == /\ abs.link = "up" /\ abs.peer = "open" /\ abs.sent < MaxBytes /\ Len(abs.rx) < Space
             /\ abs' = [abs EXCEPT !.sent = @ + 1, !.rx = Append(@, abs.sent + 1)] /\ UNCHANGED core
PeerReceives == abs.peer # "reset" /\ abs.tx # <<>> /\ abs' = [abs EXCEPT !.tx = Tail(@), !.peerGot = Append(@, Head(abs.tx))] /\ UNCHANGED core
PeerEnds == \E how \in {"closed", "reset"} : abs.link = "up" /\ abs.peer = "open" /\ abs' = [abs EXCEPT !.peer = how] /\ UNCHANGED core

TcpSocketNext == \/ Resolve \/ Connect \/ accept \/ TcpSocketRead \/ TcpSocketWrite \/ Timed \/ TimedRead \/ TimedWrite
                 \/ SetBlocking \/ TcpSocketCloses \/ takeHandle
                 \/ PeerAnswers \/ PeerSends \/ PeerReceives \/ PeerEnds

-----------------------------------------------------------------------------
\* Bytes pass in order, once, in both directions, across the turns of timed calls: what the program has,
\* what an exception took with it, what a call has in its buffer and what the kernel holds is all that
\* was sent; the peer gets a beginning of what the program was told it had written.
BytesPassOnce ==
    /\ core.call.op = "read" => Len(abs.got \o abs.lost \o core.call.buf \o abs.rx) = abs.sent
    /\ core.call.op # "read" => Len(abs.got \o abs.lost \o abs.rx) = abs.sent
    /\ \A j, k \in DOMAIN abs.got : j < k => abs.got[j] < abs.got[k]
    /\ abs.peerGot \o abs.tx = Count(abs.wrote)

\* A timed call returns less than was asked for only when its time has passed.
ShortMeansLate == abs.last.n < abs.last.want => abs.last.late

\* A socket that is not active any more has no open descriptor, whichever way connecting, reading or
\* closing ended, except when the name was not resolved.
NoDescriptorLeaks == ~core.bActive /\ core.state # "unresolved" => core.fd # "open"
-----------------------------------------------------------------------------
(***************************************************************************)
(* Bu::Process (src/stable/process.cpp, the POSIX branch): a child process *)
(* whose standard streams are pipes.  core is the Process object: a        *)
(* descriptor is "none" (-1), "open", or "stale" (its number after it was  *)
(* closed).  abs is the kernel and the child: what is in the pipes, what   *)
(* the child wrote and the program got of it, and the state of the child,  *)
(* which runs beside the program.  The program does not use a descriptor   *)
(* it has closed itself.                                                   *)
(***************************************************************************)
CONSTANTS Capacity,         \* of a pipe
          MaxOut,           \* bound: bytes the child writes into a pipe
          Statuses          \* wait statuses other than 0

Outputs == {"out", "err"}
-----------------------------------------------------------------------------
Running == abs.child = "run"

\* gexec: the child's input is always a pipe, its outputs are when the flags say so.
gexec(flags) ==
    /\ core = [iPid |-> 1, fd |-> [s \in Outputs \cup {"in"} |-> IF s \in flags \cup {"in"} THEN "open" ELSE "none"],
               eos |-> [s \in Outputs |-> s \notin flags], bBlocking |-> TRUE, iProcStatus |-> 0]
    /\ abs = [child |-> "run", status |-> 0, flags |-> flags, pipe |-> [s \in Outputs \cup {"in"} |-> <<>>],
              wrote |-> [s \in Outputs |-> 0], got |-> [s \in Outputs |-> <<>>], polled |-> FALSE]

ProcessInit == \E flags \in SUBSET Outputs : gexec(flags)

\* Mutant: the descriptor of the error stream is left open.
CloseLeavesErr(c, st) == [c EXCEPT !.fd = [s \in DOMAIN @ |-> IF @[s] = "open" /\ s # "err" THEN "stale" ELSE @[s]], !.iProcStatus = st, !.iPid = 0]

\* close once waitpid has returned with the status; the numbers of the descriptors stay.
ProcessClose(c, st) == [c EXCEPT !.fd = [s \in DOMAIN @ |-> IF @[s] = "open" THEN "stale" ELSE @[s]], !.iProcStatus = st, !.iPid = 0]

\* waitpid waits for the child, unless it has been reaped: then it fails and leaves the status alone.
MayReap == abs.child # "run"
Reaped == IF abs.child = "zombie" THEN abs.status ELSE core.iProcStatus

\* checkClose at the end of an output: closes when the other one is at its end too.
checkClose(c) == IF \E s \in Outputs : ~c.eos[s] THEN /\ core' = c /\ UNCHANGED abs
                 ELSE /\ MayReap
                      /\ core' = ProcessClose(c, Reaped)
                      /\ abs' = [abs EXCEPT !.child = "reaped"]

\* What read(2) would do with a descriptor of an output.
Empty(s) == abs.pipe[s] = <<>>
AtEnd(s) == Empty(s) /\ ~Running

\* Mutant: a read that finds nothing yet takes it for the end.
ReadNothingIsEnd(s, n) ==
    /\ core.iPid = 1 /\ ~core.eos[s] /\ core.fd[s] = "open"
    /\ ~core.bBlocking \/ ~Empty(s) \/ AtEnd(s)
    /\ IF Empty(s) THEN checkClose([core EXCEPT !.eos[s] = TRUE])
       ELSE LET m == IF n < Len(abs.pipe[s]) THEN n ELSE Len(abs.pipe[s])
            IN  /\ abs' = [abs EXCEPT !.got[s] = @ \o SubSeq(abs.pipe[s], 1, m), !.pipe[s] = SubSeq(@, m + 1, Len(@))]
                /\ UNCHANGED core

\* A blocking read waits; one that does not block looks with select first and returns 0.
readFrom(s, n) ==
    /\ core.iPid = 1 /\ ~core.eos[s] /\ core.fd[s] = "open"
    /\ ~core.bBlocking \/ ~Empty(s) \/ AtEnd(s)
    /\ IF AtEnd(s) THEN checkClose([core EXCEPT !.eos[s] = TRUE])
       ELSE LET m == IF n < Len(abs.pipe[s]) THEN n ELSE Len(abs.pipe[s])
            IN  /\ abs' = [abs EXCEPT !.got[s] = @ \o SubSeq(abs.pipe[s], 1, m), !.pipe[s] = SubSeq(@, m + 1, Len(@))]
                /\ UNCHANGED core

ProcessRead == \E n \in 1..2 : readFrom("out", n)
readErr == \E n \in 1..2 : readFrom("err", n)

\* write: -1 when the child is gone (SIGPIPE being ignored).
ProcessWrite == /\ core.fd["in"] = "open"
                /\ ~Running \/ Len(abs.pipe["in"]) < Capacity
                /\ abs' = IF Running THEN [abs EXCEPT !.pipe["in"] = Append(@, 1)] ELSE abs
                /\ UNCHANGED core

closeStdIn == core.fd["in"] = "open" /\ core' = [core EXCEPT !.fd["in"] = "none"] /\ UNCHANGED abs
closeStdOut == core.fd["out"] = "open" /\ core' = [core EXCEPT !.fd["out"] = "none"] /\ UNCHANGED abs
ignoreStdErr == core.fd["err"] = "open" /\ core' = [core EXCEPT !.fd["err"] = "none", !.eos["err"] = TRUE] /\ UNCHANGED abs
ProcessSetBlocking == \E b \in BOOLEAN : core' = [core EXCEPT !.bBlocking = b] /\ UNCHANGED abs

\* select waits for one of the outputs; its answer is what the reads that follow would find.
ready(s) == ~core.eos[s] /\ (~Empty(s) \/ AtEnd(s))
select == \E s \in Outputs : ready(s) /\ core.fd[s] = "open" /\ UNCHANGED vars

\* isRunning asks for the child without its status.
isRunning == /\ core.iPid = 1 /\ MayReap
             /\ IF abs.child = "reaped" \/ \E s \in Outputs : ~core.eos[s]
                THEN UNCHANGED core ELSE core' = ProcessClose(core, core.iProcStatus)
             /\ abs' = [abs EXCEPT !.child = "reaped", !.polled = TRUE]

\* close() by the program, wait() or the destructor.
ProcessCloses == core.iPid = 1 /\ MayReap /\ core' = ProcessClose(core, Reaped) /\ abs' = [abs EXCEPT !.child = "reaped"]
-----------------------------------------------------------------------------
\* The child.
ChildWrites(s) == /\ Running /\ s \in abs.flags /\ abs.wrote[s] < MaxOut /\ Len(abs.pipe[s]) < Capacity
                  /\ core.fd[s] = "open"
                  /\ abs' = [abs EXCEPT !.wrote[s] = @ + 1, !.pipe[s] = Append(@, abs.wrote[s] + 1)]
                  /\ UNCHANGED core
ChildReads == Running /\ ~Empty("in") /\ abs' = [abs EXCEPT !.pipe["in"] = Tail(@)] /\ UNCHANGED core
ChildEnds == Running /\ \E st \in Statuses : abs' = [abs EXCEPT !.child = "zombie", !.status = st] /\ UNCHANGED core

ProcessNext == \/ ProcessRead \/ readErr \/ ProcessWrite \/ closeStdIn \/ closeStdOut \/ ignoreStdErr \/ ProcessSetBlocking \/ select \/ isRunning \/ ProcessCloses
               \/ \E s \in Outputs : ChildWrites(s)
               \/ ChildReads \/ ChildEnds

-----------------------------------------------------------------------------
\* The program has a beginning of what the child wrote, and all of it once a read has told it that the
\* output has ended, however reads, writes and the child's end interleave.
OutputIsComplete ==
    \A s \in abs.flags : /\ abs.got[s] \o abs.pipe[s] = [k \in 1..abs.wrote[s] |-> k]
                         /\ core.eos[s] /\ core.fd[s] # "none" => Len(abs.got[s]) = abs.wrote[s]

\* A Process that is closed has reaped its child and given back every descriptor, and knows the status
\* of the child unless isRunning has thrown it away.
ClosedLeavesNothing ==
    core.iPid = 0 => /\ abs.child = "reaped"
                     /\ \A s \in DOMAIN core.fd : core.fd[s] # "open"
                     /\ ~abs.polled => core.iProcStatus = abs.status
-----------------------------------------------------------------------------
Init == \/ which = "TcpSocket" /\ TcpSocketInit
        \/ which = "Process" /\ ProcessInit

Next == /\ UNCHANGED which
        /\ \/ which = "TcpSocket" /\ TcpSocketNext
           \/ which = "Process" /\ ProcessNext

Spec == Init /\ [][Next]_vars
=============================================================================
