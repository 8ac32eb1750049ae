-------------------------------- MODULE Server ------------------------------
(***************************************************************************)
(* Bu::Server with its Bu::Client objects (stable/server.cpp, client.cpp)  *)
(* over TCP sockets (stable/tcpsocket.cpp, tcpserversocket.cpp).           *)
(*                                                                         *)
(* One thread calls scan.  A scan asks select once which descriptors are   *)
(* ready, and then visits all descriptors in ascending order by the bits   *)
(* it got; meanwhile descriptors are closed and, being the lowest free     *)
(* ones, given out again by accept, and the peers go on.  A visit is two   *)
(* steps, one for the read bit and one for the write bit; descriptors      *)
(* without a bit are passed over.                                          *)
(*                                                                         *)
(* The kernel (descriptors, backlogs, what peers do) is modelled from how  *)
(* the code uses it.  Callbacks of the application write output and call   *)
(* disconnect.                                                             *)
(***************************************************************************)
EXTENDS Integers, FiniteSetsExt

CONSTANTS
  Conns,       \* the connections peers make, each again and again
  MaxFd,       \* bound: descriptors the process may have
  MaxPorts,    \* bound: calls of addPort
  MaxOut,      \* bound: output a client has buffered
  NONE,
  LISTEN       \* a descriptor that listens

ASSUME BoundsAssumption == MaxFd \in Nat /\ MaxPorts \in Nat /\ MaxOut \in Nat
ASSUME NamesAssumption == NONE # LISTEN /\ Conns \cap {NONE, LISTEN} = {}

Fds == 0..(MaxFd - 1)

VARIABLES
  fds,         \* what each descriptor is open on: NONE, LISTEN or a connection
  backlog,     \* the connections that wait to be accepted, by listening socket
  peer,        \* what the peer of each connection does: "none", "up", "closed"
  inbox,       \* the connections with input that was not read
  fdActive,
  hServers,    \* the keys of hServers
  hClients,    \* the connection of the Client at each descriptor, or NONE
  bWantsDisconnect,   \* the connections whose Client has it set
  qbWrite,     \* the output buffered in each Client
  pc, j,       \* where scan is: "out", "read", "write", "sweep"; the descriptor
  fdRead, fdWrite,    \* the bits select returned
  seen,        \* history variable: hClients when select returned
  left         \* history variable: the listening sockets that shutdown closed,
               \* while their descriptors have not been opened again

kernel == <<fds, backlog, peer, inbox>>
server == <<fdActive, hServers, hClients, left>>
clients == <<bWantsDisconnect, qbWrite>>
bits == <<fdRead, fdWrite, seen>>
vars == <<kernel, server, clients, pc, j, bits>>

Init ==
  /\ fds = [f \in Fds |-> NONE]
  /\ backlog = [f \in Fds |-> {}]
  /\ peer = [c \in Conns |-> "none"]
  /\ inbox = {}
  /\ fdActive = {} /\ hServers = {}
  /\ hClients = [f \in Fds |-> NONE]
  /\ bWantsDisconnect = {}
  /\ qbWrite = [c \in Conns |-> 0]
  /\ pc = "out" /\ j = 0
  /\ fdRead = {} /\ fdWrite = {}
  /\ seen = [f \in Fds |-> NONE]
  /\ left = {}

Registered(c) == \E f \in Fds : hClients[f] = c

FreeFds == {f \in Fds : fds[f] = NONE}

-----------------------------------------------------------------------------
(* The peers. *)

Connect(c, f) ==
  /\ fds[f] = LISTEN
  /\ peer[c] # "up" /\ ~Registered(c) /\ \A g \in Fds : c \notin backlog[g]
  /\ peer' = [peer EXCEPT ![c] = "up"]
  /\ backlog' = [backlog EXCEPT ![f] = @ \cup {c}]
  /\ inbox' = inbox \ {c}
  /\ UNCHANGED <<fds, server, clients, pc, j, bits>>

Send(c) ==
  /\ peer[c] = "up"
  /\ inbox' = inbox \cup {c}
  /\ UNCHANGED <<fds, backlog, peer, server, clients, pc, j, bits>>

Close(c) ==
  /\ peer[c] = "up"
  /\ peer' = [peer EXCEPT ![c] = "closed"]
  /\ UNCHANGED <<fds, backlog, inbox, server, clients, pc, j, bits>>

-----------------------------------------------------------------------------
addPort ==
  /\ pc = "out"
  /\ Cardinality(hServers) < MaxPorts /\ FreeFds # {}
  /\ LET f == Min(FreeFds)
     IN  /\ fds' = [fds EXCEPT ![f] = LISTEN]
         /\ fdActive' = fdActive \cup {f}
         /\ hServers' = hServers \cup {f}
         /\ left' = left \ {f}
  /\ UNCHANGED <<backlog, peer, inbox, hClients, clients, pc, j, bits>>

(* What a callback may do with a client: write to it and disconnect it. *)
Callback(c) ==
  /\ \E q \in qbWrite[c]..MaxOut : qbWrite' = [qbWrite EXCEPT ![c] = q]
  /\ bWantsDisconnect' \in {bWantsDisconnect, bWantsDisconnect \cup {c}}

(* sendMessage of a link, from outside or from another client's callback, *)
(* or tick: onMessage and onTick of the protocol.                          *)
Message(c) ==
  /\ Registered(c)
  /\ Callback(c)
  /\ UNCHANGED <<kernel, server, pc, j, bits>>

(* Mutant of closeClient: the descriptor stays in fdActive. *)
closeClient_active(closed) ==
  /\ fds' = [f \in Fds |-> IF f \in closed THEN NONE ELSE fds[f]]
  /\ hClients' = [f \in Fds |-> IF f \in closed THEN NONE ELSE hClients[f]]
  /\ peer' = [c \in Conns |-> IF \E f \in closed : hClients[f] = c
                              THEN "closed" ELSE peer[c]]
  /\ bWantsDisconnect' = bWantsDisconnect \ {hClients[f] : f \in closed}
  /\ qbWrite' = [c \in Conns |-> IF \E f \in closed : hClients[f] = c
                                 THEN 0 ELSE qbWrite[c]]
  /\ UNCHANGED <<fdActive, left>>

(* closeClient, for the clients at some descriptors: the socket is closed  *)
(* and the Client deleted.                                                 *)
closeClient(closed) ==
  /\ fds' = [f \in Fds |-> IF f \in closed THEN NONE ELSE fds[f]]
  /\ hClients' = [f \in Fds |-> IF f \in closed THEN NONE ELSE hClients[f]]
  /\ peer' = [c \in Conns |-> IF \E f \in closed : hClients[f] = c
                              THEN "closed" ELSE peer[c]]
  /\ bWantsDisconnect' = bWantsDisconnect \ {hClients[f] : f \in closed}
  /\ qbWrite' = [c \in Conns |-> IF \E f \in closed : hClients[f] = c
                                 THEN 0 ELSE qbWrite[c]]
  /\ fdActive' = fdActive \ closed
  /\ UNCHANGED left

-----------------------------------------------------------------------------
(* scan. *)

Readable(f) ==
  \/ fds[f] = LISTEN /\ backlog[f] # {}
  \/ fds[f] \in Conns /\ (fds[f] \in inbox \/ peer[fds[f]] = "closed")

HasOutput(f) == hClients[f] # NONE /\ qbWrite[hClients[f]] > 0

(* The loop goes on behind descriptor f, to the next one with a bit. *)
LoopFrom(f, read, write) ==
  LET n == Min({k \in read \cup write : k > f} \cup {MaxFd})
  IN  /\ j' = n
      /\ pc' = IF n = MaxFd THEN "sweep" ELSE IF n \in read THEN "read" ELSE "write"

(* Mutant of Select: the sweep comes between select and the loop. *)
Select_swept ==
  /\ pc = "out" /\ fdActive \cap FreeFds = {}
  /\ fdRead' = {f \in fdActive : Readable(f)}
  /\ fdWrite' \in SUBSET {f \in Fds : HasOutput(f)}
  /\ seen' = hClients
  /\ LoopFrom(-1, fdRead', fdWrite')
  /\ closeClient({f \in Fds : /\ hClients[f] # NONE
                              /\ hClients[f] \in bWantsDisconnect
                              /\ qbWrite[hClients[f]] = 0})
  /\ UNCHANGED <<backlog, inbox, hServers>>

(* select: all descriptors that are readable, and those with output that   *)
(* the kernel takes, which is up to the peer.                              *)
Select ==
  /\ pc = "out" /\ fdActive \cap FreeFds = {}
  /\ fdRead' = {f \in fdActive : Readable(f)}
  /\ fdWrite' \in SUBSET {f \in Fds : HasOutput(f)}
  /\ seen' = hClients
  /\ LoopFrom(-1, fdRead', fdWrite')
  /\ UNCHANGED <<kernel, server, clients>>

(* select fails for a descriptor that is closed: the exception leaves scan *)
(* before anything was done.                                               *)
SelectFails ==
  /\ pc = "out" /\ fdActive \cap FreeFds # {}
  /\ UNCHANGED vars

(* Behind the read branch, and behind the write branch. *)
ReadDone ==
  IF j \in fdWrite THEN pc' = "write" /\ UNCHANGED j
                   ELSE LoopFrom(j, fdRead, fdWrite)

WriteDone == LoopFrom(j, fdRead, fdWrite)

(* addClient( accept() ) and onNewConnection. *)
Accept ==
  /\ pc = "read" /\ j \in fdRead \cap hServers
  /\ FreeFds # {}
  /\ \E c \in backlog[j] :
       LET f == Min(FreeFds)
       IN  /\ fds' = [fds EXCEPT ![f] = c]
           /\ backlog' = [backlog EXCEPT ![j] = @ \ {c}]
           /\ fdActive' = fdActive \cup {f}
           /\ hClients' = [hClients EXCEPT ![f] = c]
           /\ left' = left \ {f}
           /\ Callback(c)
  /\ ReadDone
  /\ UNCHANGED <<peer, inbox, hServers, bits>>

(* The locals of scan are gone. *)
EndScan ==
  /\ pc' = "out" /\ j' = 0
  /\ fdRead' = {} /\ fdWrite' = {}
  /\ seen' = [f \in Fds |-> NONE]

(* accept fails for want of a descriptor: the exception leaves scan. *)
AcceptFails ==
  /\ pc = "read" /\ j \in fdRead \cap hServers
  /\ FreeFds = {}
  /\ EndScan
  /\ UNCHANGED <<kernel, server, clients>>

(* Mutant of ReadClosed: the end of the stream is not taken for one. *)
ReadClosed_ignored ==
  /\ pc = "read" /\ j \in fdRead \ hServers
  /\ hClients[j] # NONE /\ peer[hClients[j]] = "closed"
  /\ inbox' = inbox \ {hClients[j]}
  /\ ReadDone
  /\ UNCHANGED <<fds, backlog, peer, server, clients, bits>>

(* processInput to the end of the stream: the socket is closed, the        *)
(* protocol gets what was read, and the client is closed.                  *)
ReadClosed ==
  /\ pc = "read" /\ j \in fdRead \ hServers
  /\ hClients[j] # NONE /\ peer[hClients[j]] = "closed"
  /\ closeClient({j})
  /\ inbox' = inbox \ {hClients[j]}
  /\ ReadDone
  /\ UNCHANGED <<backlog, hServers, bits>>

(* processInput of what is there, and onNewData. *)
ReadData ==
  /\ pc = "read" /\ j \in fdRead \ hServers
  /\ hClients[j] # NONE /\ peer[hClients[j]] = "up"
  /\ inbox' = inbox \ {hClients[j]}
  /\ Callback(hClients[j])
  /\ ReadDone
  /\ UNCHANGED <<fds, backlog, peer, server, bits>>

(* Mutant of Write: more is taken off the buffer than was in it. *)
Write_beyond ==
  /\ pc = "write"
  /\ HasOutput(j)
  /\ \E n \in 0..(qbWrite[hClients[j]] + 1) :
       qbWrite' = [qbWrite EXCEPT ![hClients[j]] = @ - n]
  /\ WriteDone
  /\ UNCHANGED <<kernel, server, bWantsDisconnect, bits>>

(* processOutput, of anything from nothing to all that is buffered. *)
Write ==
  /\ pc = "write"
  /\ HasOutput(j)
  /\ \E n \in 0..qbWrite[hClients[j]] :
       qbWrite' = [qbWrite EXCEPT ![hClients[j]] = @ - n]
  /\ WriteDone
  /\ UNCHANGED <<kernel, server, bWantsDisconnect, bits>>

(* send fails, which is the peer's doing. *)
WriteFails ==
  /\ pc = "write"
  /\ HasOutput(j) /\ peer[hClients[j]] = "closed"
  /\ closeClient({j})
  /\ WriteDone
  /\ UNCHANGED <<backlog, inbox, hServers, bits>>

(* The client is gone: the HashException is ignored. *)
WriteGone ==
  /\ pc = "write"
  /\ hClients[j] = NONE
  /\ WriteDone
  /\ UNCHANGED <<kernel, server, clients, bits>>

(* Mutant of Doomed: clients with output are closed as well. *)
Doomed_withOutput ==
  {f \in Fds : hClients[f] # NONE /\ hClients[f] \in bWantsDisconnect}

(* Mutant of Doomed: only clients that had output in this scan. *)
Doomed_written ==
  {f \in fdWrite : /\ hClients[f] # NONE
                   /\ hClients[f] \in bWantsDisconnect
                   /\ qbWrite[hClients[f]] = 0}

(* lDelete: the clients that want to go and have no output left. *)
Doomed ==
  {f \in Fds : /\ hClients[f] # NONE
               /\ hClients[f] \in bWantsDisconnect
               /\ qbWrite[hClients[f]] = 0}

Sweep ==
  /\ pc = "sweep"
  /\ closeClient(Doomed)
  /\ EndScan
  /\ UNCHANGED <<backlog, inbox, hServers>>

(* The listening sockets are deleted, and the clients closed. *)
CloseAll ==
  /\ pc = "out"
  /\ fds' = [f \in Fds |-> NONE]
  /\ backlog' = [f \in Fds |-> {}]
  /\ peer' = [c \in Conns |-> IF peer[c] = "up" THEN "closed" ELSE peer[c]]
  /\ hServers' = {}
  /\ hClients' = [f \in Fds |-> NONE]
  /\ bWantsDisconnect' = {}
  /\ qbWrite' = [c \in Conns |-> 0]
  /\ inbox' = {}
  /\ UNCHANGED <<pc, j, bits>>

(* shutdown, which the application may call, and go on with the Server:    *)
(* closeClient takes the clients off fdActive, nothing the listening ones. *)
shutdown ==
  /\ CloseAll
  /\ fdActive' = {f \in fdActive : hClients[f] = NONE}
  /\ left' = left \cup hServers

(* ~Server, which calls shutdown, and a new Server. *)
Renew == CloseAll /\ fdActive' = {} /\ left' = {}

Scan ==
  \/ Select \/ SelectFails \/ Accept \/ AcceptFails \/ ReadClosed \/ ReadData
  \/ Write \/ WriteFails \/ WriteGone \/ Sweep

Next ==
  \/ \E c \in Conns, f \in Fds : Connect(c, f)
  \/ \E c \in Conns : Send(c) \/ Close(c) \/ Message(c)
  \/ addPort
  \/ Scan
  \/ shutdown \/ Renew

(* scan is called "in some sort of tight loop". *)
Fairness == WF_vars(Scan)

Spec == Init /\ [][Next]_vars /\ Fairness

-----------------------------------------------------------------------------
(* Properties. *)

(* The variables stay in their types. *)
TypeOK ==
  /\ fds \in [Fds -> Conns \cup {NONE, LISTEN}]
  /\ backlog \in [Fds -> SUBSET Conns]
  /\ peer \in [Conns -> {"none", "up", "closed"}]
  /\ inbox \subseteq Conns
  /\ fdActive \subseteq Fds /\ hServers \subseteq Fds /\ left \subseteq Fds
  /\ hClients \in [Fds -> Conns \cup {NONE}]
  /\ bWantsDisconnect \subseteq Conns
  /\ qbWrite \in [Conns -> 0..MaxOut]
  /\ pc \in {"out", "read", "write", "sweep"} /\ j \in 0..MaxFd
  /\ fdRead \subseteq Fds /\ fdWrite \subseteq Fds
  /\ seen \in [Fds -> Conns \cup {NONE}]

(* hServers and hClients agree with the descriptors that are open: none    *)
(* leaks, and no Client has one that was given to someone else since.      *)
(* fdActive has the open ones, and those of the listening sockets that     *)
(* shutdown closed.  While it has one of these select fails in every scan, *)
(* but nobody waits for it: there is no client.                            *)
TablesAgree ==
  /\ fdActive = {f \in Fds : fds[f] # NONE} \cup left
  /\ \A f \in left : fds[f] = NONE
  /\ left # {} => pc = "out" /\ \A f \in Fds : hClients[f] = NONE
  /\ hServers = {f \in Fds : fds[f] = LISTEN}
  /\ \A f \in Fds : hClients[f] = IF fds[f] \in Conns THEN fds[f] ELSE NONE

(* The bits of select are stale when they are used, but never name a       *)
(* client that was accepted in the same scan: a read bit not yet visited   *)
(* is for a listening socket or for the client it was set for (the code    *)
(* does not catch the exception of hClients.get there), a write bit for    *)
(* the same client or for none.                                            *)
Unvisited(f) == f > j \/ (f = j /\ pc = "read")

BitsNameTheirClients ==
  pc \in {"read", "write"} =>
    /\ \A f \in fdRead : Unvisited(f) /\ f \notin hServers =>
         hClients[f] # NONE /\ hClients[f] = seen[f]
    /\ \A f \in fdWrite : f >= j => hClients[f] \in {seen[f], NONE}

(* disconnect lets the output out first: a client whose peer is there is   *)
(* closed by a scan only when its application asked for it and everything  *)
(* it wrote is sent.                                                       *)
OutputBeforeDisconnect ==
  [][\A c \in Conns :
       /\ Registered(c) /\ ~Registered(c)' /\ peer[c] = "up" /\ pc # "out"
       => c \in bWantsDisconnect /\ qbWrite[c] = 0]_vars

(* A client whose peer has closed the connection is closed in the end,     *)
(* unless the process runs out of descriptors: then accept fails in every  *)
(* scan before the descriptors behind the listening socket are visited.    *)
CloseNoticed ==
  \A c \in Conns :
    Registered(c) /\ peer[c] = "closed" ~> ~Registered(c) \/ FreeFds = {}

(* A client that disconnects and has no output left is closed in the end,  *)
(* with the same exception.                                                *)
DisconnectDone ==
  \A c \in Conns :
    Registered(c) /\ c \in bWantsDisconnect /\ qbWrite[c] = 0
      ~> ~Registered(c) \/ qbWrite[c] > 0 \/ FreeFds = {}
=============================================================================
