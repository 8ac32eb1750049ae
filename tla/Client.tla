------------------------------- MODULE Client -------------------------------
(***************************************************************************)
(* The bytes of one Bu::Client of a Bu::MultiServer (src/stable/client.h,  *)
(* client.cpp, multiserver.cpp, server.cpp): from the peer through the     *)
(* socket and the filters pushed on it into qbRead, and from qbWrite back. *)
(* Server models which client is visited when; here it is any order.       *)
(* A filter here turns each two bytes it is given into two bytes, keeps an *)
(* odd one in between, and writes that one when it is stopped.             *)
(* core is the Client; abs the peer and the application.  A byte is its    *)
(* number among those the peer, or the application, sent.                  *)
(***************************************************************************)
EXTENDS Integers, SequencesExt

CONSTANTS MaxIn, MaxOut,   \* bounds on the bytes sent and written
          MaxFilters,      \* bound on calls of pushFilter
          RBS              \* size of the buffer of processInput

VARIABLES core, abs
vars == <<core, abs>>

AFilter == [in |-> <<>>, out |-> <<>>]
Even(s) == SubSeq(s, 1, 2 * (Len(s) \div 2))
Odd(s)  == SubSeq(s, 2 * (Len(s) \div 2) + 1, Len(s))
First(s, n) == SubSeq(s, 1, IF Len(s) < n THEN Len(s) ELSE n)
Numbers(from, n) == [k \in 1..n |-> from + k]
-----------------------------------------------------------------------------
\* read of the stream at place k of the stack, the socket behind the filters.
\* The socket throws when there is nothing and the peer has ended.
RECURSIVE readAt(_, _, _)
readAt(stack, k, net) ==
  IF k > Len(stack)
  THEN [stack |-> stack, net |-> SubSeq(net, RBS + 1, Len(net)), data |-> First(net, RBS), threw |-> net = <<>> /\ ~abs.peerUp]
  ELSE LET r == readAt(stack, k + 1, net)
           all == r.stack[k].in \o r.data
       IN  IF r.threw THEN r ELSE [r EXCEPT !.data = Even(all), !.stack[k].in = Odd(all)]

\* write to place k: the filters below it, and what reaches the socket.
RECURSIVE writeAt(_, _, _)
writeAt(stack, k, data) ==
  IF k > Len(stack) THEN [stack |-> stack, wire |-> data]
  ELSE writeAt([stack EXCEPT ![k].out = Odd(@ \o data)], k + 1, Even(stack[k].out \o data))

\* close of place k: each filter stops and then closes the next.
RECURSIVE closeAt(_, _)
closeAt(stack, k) ==
  IF k > Len(stack) THEN <<>>
  ELSE LET w == writeAt(stack, k + 1, stack[k].out) IN w.wire \o closeAt(w.stack, k + 1)

Tails(c) == closeAt(c.stack, 1)

\* Client::close on an open socket.
close(c) == [c EXCEPT !.open = FALSE, !.stack = [k \in DOMAIN @ |-> [@[k] EXCEPT !.out = <<>>]]]

\* The loop of processInput, over what there is.
RECURSIVE inputLoop(_, _, _)
inputLoop(stack, net, total) ==
  LET r == readAt(stack, 1, net)
  IN  IF r.threw \/ r.data = <<>> THEN [r EXCEPT !.data = total]
      ELSE IF r.net # <<>> \/ ~abs.peerUp THEN inputLoop(r.stack, r.net, total \o r.data)
      ELSE [r EXCEPT !.data = total \o r.data]

\* Mutant: the exception at the end loses what was read before it.
ReadForgets(c, net) ==
  LET r == inputLoop(c.stack, net, <<>>) IN IF r.threw THEN [r EXCEPT !.data = <<>>] ELSE r

processInput(c, net) == inputLoop(c.stack, net, <<>>)

\* Mutant: a short read is taken for the end.
EndedWhenShort(r) == r.threw \/ Len(r.data) < RBS

Ended(r) == r.threw \/ r.data = <<>>

\* Mutant: what the stream did not take is dropped.
OutputAll(c, n, taken) == [c EXCEPT !.stack = writeAt(@, 1, SubSeq(c.qbWrite, 1, n)).stack, !.qbWrite = SubSeq(@, RBS + 1, Len(@))]

\* processOutput, of n bytes: the stream takes some of them.
processOutput(c, n, taken) ==
  [c EXCEPT !.stack = writeAt(@, 1, SubSeq(c.qbWrite, 1, taken)).stack, !.qbWrite = SubSeq(@, taken + 1, Len(@))]
-----------------------------------------------------------------------------
Init ==
  /\ core = [state |-> "none", stack |-> <<>>, open |-> FALSE, qbRead |-> <<>>, qbWrite |-> <<>>, bWantsDisconnect |-> FALSE]
  /\ abs = [net |-> <<>>, sent |-> 0, peerUp |-> TRUE, got |-> <<>>, written |-> 0, wire |-> <<>>, asked |-> FALSE]

\* What a callback of the protocol may do to the client c: read, write and
\* disconnect; a new connection may push filters as well.
Callback(c, a, pushed) ==
  \E r \in 0..Len(c.qbRead), w \in 0..MaxOut - a.written, ask \in BOOLEAN :
    /\ core' = [c EXCEPT !.qbRead = SubSeq(@, r + 1, Len(@)), !.qbWrite = @ \o Numbers(a.written, w),
                         !.bWantsDisconnect = @ \/ ask, !.stack = [k \in 1..pushed |-> AFilter] \o @]
    /\ abs' = [a EXCEPT !.got = @ \o SubSeq(c.qbRead, 1, r), !.written = @ + w, !.asked = @ \/ ask]

\* addClient and onNewConnection: the protocol of the port is set.
addClient ==
  /\ core.state = "none"
  /\ \E f \in 0..MaxFilters : Callback([core EXCEPT !.state = "served", !.open = TRUE], abs, f)

PeerSends ==
  /\ abs.peerUp /\ abs.sent < MaxIn /\ core.state # "deleted"
  /\ \E n \in 1..MaxIn - abs.sent : abs' = [abs EXCEPT !.net = @ \o Numbers(abs.sent, n), !.sent = @ + n]
  /\ UNCHANGED core

PeerEnds == abs.peerUp /\ core.state # "deleted" /\ abs' = [abs EXCEPT !.peerUp = FALSE] /\ UNCHANGED core

\* onClosedConnection deletes the protocol; the client is closed and deleted.
Deleted(c, a) ==
  /\ core' = [close(c) EXCEPT !.state = "deleted"]
  /\ abs' = [a EXCEPT !.wire = @ \o Tails(c)]

Served == core.state = "served" /\ core.open

\* scan for a client with a read bit.  At the end the streams are closed: the
\* socket has closed itself when it threw, and a filter that then still has
\* something to write throws out of processInput and out of scan.
ServeRead ==
  /\ Served /\ (abs.net # <<>> \/ ~abs.peerUp)
  /\ LET r == processInput(core, abs.net)
         c == [core EXCEPT !.stack = r.stack, !.qbRead = @ \o r.data]
         a == [abs EXCEPT !.net = r.net]
         closed == [close(c) EXCEPT !.bWantsDisconnect = TRUE]
     IN  IF r.threw /\ Tails(c) # <<>> THEN core' = [c EXCEPT !.state = "out of scan", !.open = FALSE] /\ abs' = a
         ELSE IF ~Ended(r) THEN Callback(c, a, 0)
         ELSE \E n \in 0..Len(c.qbRead) :
                /\ n > 0 => r.data # <<>>
                /\ core' = [closed EXCEPT !.state = "deleted", !.qbRead = SubSeq(@, n + 1, Len(@))]
                /\ abs' = [a EXCEPT !.wire = @ \o Tails(c), !.got = @ \o SubSeq(c.qbRead, 1, n)]

\* scan for a client with a write bit.  Filters take what they are given.
ServeWrite ==
  /\ Served /\ core.qbWrite # <<>>
  /\ LET n == IF Len(core.qbWrite) < RBS THEN Len(core.qbWrite) ELSE RBS
     IN  \E taken \in IF core.stack = <<>> THEN 0..n ELSE {n} :
           /\ core' = processOutput(core, n, taken)
           /\ abs' = [abs EXCEPT !.wire = @ \o writeAt(core.stack, 1, SubSeq(core.qbWrite, 1, taken)).wire]

\* The write of processOutput throws; a filter with something to write makes
\* closeClient throw as well, with the protocol deleted and the Client not.
WriteFails ==
  /\ Served /\ core.qbWrite # <<>> /\ ~abs.peerUp
  /\ core' = [core EXCEPT !.open = FALSE, !.state = IF Tails(core) = <<>> THEN "deleted" ELSE "out of scan"]
  /\ UNCHANGED abs

\* The end of scan.
Sweep == Served /\ core.bWantsDisconnect /\ core.qbWrite = <<>> /\ Deleted(core, abs)

\* sendMessage of a link, or tick: the protocol is called.
Message == Served /\ Callback(core, abs, 0)

Next == addClient \/ PeerSends \/ PeerEnds \/ ServeRead \/ ServeWrite \/ WriteFails \/ Sweep \/ Message

Spec == Init /\ [][Next]_vars
-----------------------------------------------------------------------------
\* The bytes in the filters, from those that are farther on.
HeldIn(c)  == FlattenSeq([k \in DOMAIN c.stack |-> c.stack[k].in])
HeldOut(c) == FlattenSeq([k \in DOMAIN c.stack |-> c.stack[Len(c.stack) + 1 - k].out])

\* What the peer sent reaches the protocol in order and once.
InputIsKept == abs.got \o core.qbRead \o HeldIn(core) \o abs.net = Numbers(0, abs.sent)

\* What the protocol writes reaches the peer in order and once, and all of it
\* before a client is closed whose peer is there and whose filters gave input.
OutputIsKept ==
  /\ core.state = "served" => abs.wire \o HeldOut(core) \o core.qbWrite = Numbers(0, abs.written)
  /\ core.state = "deleted" /\ abs.peerUp /\ HeldIn(core) = <<>> => abs.wire = Numbers(0, abs.written)

\* A client is closed because its peer ended or its protocol asked for it, or
\* because a filter was given input that it could make nothing of yet.
ClosedForAReason == core.state = "deleted" => ~abs.peerUp \/ abs.asked \/ HeldIn(core) # <<>>
=============================================================================
