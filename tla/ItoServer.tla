----------------------------- MODULE ItoServer ------------------------------
(***************************************************************************)
(* Bu::ItoServer (src/unstable/itoserver.cpp): a thread that accepts       *)
(* connections and a thread per connection, with other threads that send   *)
(* messages to a connection through a link.  core is the server, hClients  *)
(* by socket, the queue of clients to clean up, whether the process was    *)
(* aborted, and the clients: the state of the thread, the owner of imProto *)
(* and the queue qMsg.  abs is what happened: the messages sent and        *)
(* handled, the threads that are in the protocol of a client, the sockets  *)
(* that were reused before their last client was cleaned up, and the       *)
(* clients that were deleted twice.                                        *)
(***************************************************************************)
EXTENDS Integers, SequencesExt, FiniteSets

CONSTANTS Sockets, Clients,  \* bound: client objects made
          Senders            \* threads that send a message each, known by it

VARIABLES core, abs
vars == <<core, abs>>

Nobody == "nobody"
None == "none"
-----------------------------------------------------------------------------
Fresh == [pc |-> "none", lock |-> Nobody, qMsg |-> <<>>, open |-> FALSE, socket |-> None]

Init == /\ core = [clients |-> [c \in Clients |-> Fresh], hClients |-> [s \in Sockets |-> None], qClientCleanup |-> <<>>,
                   taken |-> None, aborted |-> FALSE, sender |-> [m \in Senders |-> None]]
        /\ abs = [sent |-> {}, handled |-> <<>>, inside |-> [c \in Clients |-> {}], deletedEarly |-> FALSE,
                  reused |-> {}, twice |-> {}]

Free(c) == core.clients[c].lock = Nobody
At(c, pc) == core.clients[c].pc = pc
\* The thread of a client takes imProto for a step, and is inside the protocol until it gives it back.
Enter(c, from, to) == /\ At(c, from) /\ Free(c)
                      /\ core' = [core EXCEPT !.clients[c].pc = to, !.clients[c].lock = "client"]
                      /\ abs' = [abs EXCEPT !.inside[c] = @ \cup {"client"}]
Leave(c, from, cs) == /\ At(c, from)
                      /\ core' = [core EXCEPT !.clients[c] = [cs EXCEPT !.lock = Nobody]]

\* The socket of the client was closed, and it is not in the queue for the clean-up yet.
Leaving(c) == core.clients[c].pc \in {"closing", "closed", "cleanup"}

\* run of the server: a descriptor that was closed may be given to the next connection.
addClient == \E c \in Clients, s \in Sockets :
    /\ At(c, "none") /\ core.taken = None
    /\ \A d \in Clients : core.clients[d].socket = s => ~core.clients[d].open
    /\ core' = [core EXCEPT !.clients[c] = [Fresh EXCEPT !.pc = "start", !.open = TRUE, !.socket = s], !.hClients[s] = c]
    /\ abs' = [abs EXCEPT !.reused = IF \E d \in Clients : core.clients[d].socket = s /\ Leaving(d) THEN @ \cup {s} ELSE @]

\* dequeue, and then join and delete.
CleanupTake == /\ core.qClientCleanup # <<>> /\ core.taken = None
               /\ core' = [core EXCEPT !.taken = Head(core.qClientCleanup), !.qClientCleanup = Tail(@)]
               /\ UNCHANGED abs
\* Mutant: the client is deleted without waiting for its thread.
DeleteNow == /\ core.taken # None
             /\ core' = [core EXCEPT !.clients[core.taken].pc = "deleted", !.taken = None]
             /\ abs' = [abs EXCEPT !.deletedEarly = @ \/ ~At(core.taken, "ended")]

\* A client that was queued twice is joined and deleted after it was deleted.  What that does is
\* undefined: the process is aborted, or goes on as if nothing had happened.
CleanupJoin ==
    /\ core.taken # None
    /\ \/ /\ At(core.taken, "ended")
          /\ core' = [core EXCEPT !.clients[core.taken].pc = "deleted", !.taken = None]
          /\ abs' = [abs EXCEPT !.deletedEarly = @ \/ ~At(core.taken, "ended")]
       \/ /\ At(core.taken, "deleted")
          /\ \E aborted \in BOOLEAN : core' = [core EXCEPT !.taken = None, !.aborted = aborted]
          /\ abs' = [abs EXCEPT !.twice = @ \cup {core.taken}]

\* run of a client: onNewConnection, then a turn of the loop.
NewConnection(c) == Enter(c, "start", "new")
NewConnectionDone(c) == Leave(c, "new", [core.clients[c] EXCEPT !.pc = "loop"]) /\ abs' = [abs EXCEPT !.inside[c] = @ \ {"client"}]

\* The messages that wait, one at a time under the lock.
MessageEnter(c) == core.clients[c].qMsg # <<>> /\ Enter(c, "loop", "message")
MessageDone(c) == /\ Leave(c, "message", [core.clients[c] EXCEPT !.pc = "loop", !.qMsg = Tail(@)])
                  /\ abs' = [abs EXCEPT !.inside[c] = @ \ {"client"}, !.handled = Append(@, Head(core.clients[c].qMsg))]

\* No message waits.  One that comes now waits for the next turn.
MessagesDone(c) == /\ At(c, "loop") /\ core.clients[c].qMsg = <<>>
                   /\ core' = [core EXCEPT !.clients[c].pc = "ready"]
                   /\ UNCHANGED abs

\* Input, which may find that the peer has closed, or none before the time has passed.
InputEnter(c) == Enter(c, "ready", "input")
NoInput(c) == /\ At(c, "ready")
              /\ core' = [core EXCEPT !.clients[c].pc = "loop"]
              /\ UNCHANGED abs
InputDone(c) == \E open \in BOOLEAN :
    /\ Leave(c, "input", [core.clients[c] EXCEPT !.pc = IF open THEN "loop" ELSE "closing", !.open = open])
    /\ abs' = [abs EXCEPT !.inside[c] = @ \ {"client"}]

ClosedConnection(c) == Enter(c, "closing", "closed")
ClosedConnectionDone(c) == Leave(c, "closed", [core.clients[c] EXCEPT !.pc = "cleanup"]) /\ abs' = [abs EXCEPT !.inside[c] = @ \ {"client"}]

\* Mutant: the client is queued again when its connection closes and when its thread returns.
QueuesTwice(c) == /\ At(c, "cleanup")
                  /\ core' = [core EXCEPT !.clients[c].pc = "ended",
                                          !.qClientCleanup = @ \o <<core.hClients[core.clients[c].socket], core.hClients[core.clients[c].socket]>>]
                  /\ UNCHANGED abs

\* clientCleanup puts the client hClients has for the socket into the queue; the entry stays.
clientCleanup(c) == /\ At(c, "cleanup")
                    /\ core' = [core EXCEPT !.clients[c].pc = "ended",
                                            !.qClientCleanup = Append(@, core.hClients[core.clients[c].socket])]
                    /\ UNCHANGED abs
-----------------------------------------------------------------------------
\* Mutant: a busy lock is taken for a free one.
LockAnyway(m, c) == /\ core' = [core EXCEPT !.sender[m] = c, !.clients[c].lock = m]
                    /\ abs' = [abs EXCEPT !.sent = @ \cup {m}, !.inside[c] = @ \cup {m}]

\* Mutant: a message for a busy connection is dropped.
DropsWhenBusy(m, c) ==
    IF Free(c) THEN /\ core' = [core EXCEPT !.sender[m] = c, !.clients[c].lock = m]
                    /\ abs' = [abs EXCEPT !.sent = @ \cup {m}, !.inside[c] = @ \cup {m}]
    ELSE UNCHANGED core /\ abs' = [abs EXCEPT !.sent = @ \cup {m}]

\* SrvClientLink::sendMessage: at once if the lock is free, or into the queue of the client.
sendMessage(m, c) ==
    IF Free(c) THEN /\ core' = [core EXCEPT !.sender[m] = c, !.clients[c].lock = m]
                    /\ abs' = [abs EXCEPT !.sent = @ \cup {m}, !.inside[c] = @ \cup {m}]
    ELSE /\ core' = [core EXCEPT !.clients[c].qMsg = Append(@, m)]
         /\ abs' = [abs EXCEPT !.sent = @ \cup {m}]

\* A link is made while the connection is set up and used as long as the program knows it is open.
Send == \E m \in Senders, c \in Clients :
    /\ m \notin abs.sent /\ core.clients[c].pc \in {"new", "loop", "message", "ready", "input"}
    /\ sendMessage(m, c)

\* Mutant: imProto is not given back.
KeepsLock(m) ==
    /\ core.sender[m] # None
    /\ core' = [core EXCEPT !.sender[m] = None]
    /\ abs' = [abs EXCEPT !.inside[core.sender[m]] = @ \ {m}, !.handled = Append(@, m)]

SendDone(m) ==
    /\ core.sender[m] # None
    /\ core' = [core EXCEPT !.sender[m] = None, !.clients[core.sender[m]].lock = Nobody]
    /\ abs' = [abs EXCEPT !.inside[core.sender[m]] = @ \ {m}, !.handled = Append(@, m)]

ClientStep(c) ==
    /\ ~core.aborted
    /\ \/ NewConnection(c) \/ NewConnectionDone(c) \/ MessageEnter(c) \/ MessageDone(c) \/ MessagesDone(c)
       \/ InputEnter(c) \/ NoInput(c) \/ InputDone(c)
       \/ ClosedConnection(c) \/ ClosedConnectionDone(c) \/ clientCleanup(c)
ServerStep == ~core.aborted /\ (addClient \/ CleanupTake \/ CleanupJoin)
SenderStep(m) == ~core.aborted /\ SendDone(m)

Next == \/ ServerStep
        \/ ~core.aborted /\ Send
        \/ \E m \in Senders : SenderStep(m)
        \/ \E c \in Clients : ClientStep(c)

\* A thread goes on, as its waits for input end after a time and imProto is held for a call.
Spec == Init /\ [][Next]_vars /\ (\A m \in Senders : WF_vars(SenderStep(m))) /\ (\A c \in Clients : WF_vars(ClientStep(c)))
-----------------------------------------------------------------------------
\* One thread at a time is in the protocol of a connection, the connection's own or a sender's.
ProtocolIsExclusive == \A c \in Clients : Cardinality(abs.inside[c]) <= 1

\* A message that was sent is handled once, or waits, or its connection has closed.
MessagesAreKept ==
    /\ \A j, k \in DOMAIN abs.handled : abs.handled[j] = abs.handled[k] => j = k
    /\ \A m \in abs.sent : \/ m \in Range(abs.handled)
                           \/ core.sender[m] # None
                           \/ \E c \in Clients : m \in Range(core.clients[c].qMsg)

\* A message that waits is handled, unless its connection closes or the process is aborted.
Waits(m) == \E c \in Clients : core.clients[c].open /\ m \in Range(core.clients[c].qMsg)
Answered(m) == \/ m \in Range(abs.handled) \/ core.aborted
               \/ \E c \in Clients : ~core.clients[c].open /\ m \in Range(core.clients[c].qMsg)
WaitingIsAnswered == \A m \in Senders : Waits(m) ~> Answered(m)

\* A client whose thread has ended is once in the queue or in the hands of the server until it is
\* deleted, and no other client is, when its socket was not reused too early.
Waiting(c) == c \in Range(core.qClientCleanup)
CleanedOnce(c) == /\ At(c, "ended") <=> Waiting(c) \/ core.taken = c
                  /\ ~(Waiting(c) /\ core.taken = c)
                  /\ \A j, k \in DOMAIN core.qClientCleanup :
                        core.qClientCleanup[j] = c /\ core.qClientCleanup[k] = c => j = k

\* A client is deleted when its thread has ended, and one is deleted twice only if its socket was
\* given to the next connection before the last one on it was queued for the clean-up.
DeletedAfterItsThread ==
    /\ ~abs.deletedEarly
    /\ \A c \in Clients : core.clients[c].open => core.hClients[core.clients[c].socket] = c
    /\ \A c \in Clients : core.clients[c].socket \notin abs.reused => CleanedOnce(c) /\ c \notin abs.twice

\* What the threads of the server, of its clients and of the senders keep between them.
ItoServerKeepsMessages == ProtocolIsExclusive /\ MessagesAreKept /\ DeletedAfterItsThread
=============================================================================
