-------------------------- MODULE ItoServerProofs ---------------------------
(***************************************************************************)
(* Proofs about ItoServer, for every set of sockets, clients and senders.  *)
(* The inductive invariant says where imProto and every message are: who   *)
(* holds the lock of a connection is known from the threads alone, and a   *)
(* message that was sent is in exactly one of a sender's hands, a queue    *)
(* and the list of those handled.  A second part follows the clients whose *)
(* socket was not reused too early through the queue for the clean-up.     *)
(***************************************************************************)
EXTENDS ItoServer, FiniteSetTheorems, TLAPS

(* Nothing is named like the marks for no thread, no client and the thread *)
(* of a client.                                                            *)
NamesApart == /\ Nobody \notin Senders /\ "client" \notin Senders
              /\ None \notin Clients /\ None \notin Sockets

(* The objects of the clients and the tables of the server. *)
ItoClient ==
  [pc : {"none", "start", "new", "loop", "message", "ready", "input", "closing", "closed",
         "cleanup", "ended", "deleted"},
   lock : {Nobody, "client"} \cup Senders, qMsg : Seq(Senders), open : BOOLEAN,
   socket : Sockets \cup {None}]

ServerType ==
  [clients : [Clients -> ItoClient], hClients : [Sockets -> Clients \cup {None}],
   qClientCleanup : Seq(Clients), taken : Clients \cup {None}, aborted : BOOLEAN,
   sender : [Senders -> Clients \cup {None}]]

HappenedType ==
  [sent : SUBSET Senders, handled : Seq(Senders),
   inside : [Clients -> SUBSET (Senders \cup {"client"})], deletedEarly : BOOLEAN,
   reused : SUBSET Sockets, twice : SUBSET Clients]

TypeOK == core \in ServerType /\ abs \in HappenedType

(* Where the thread of a client holds imProto, and where its connection is *)
(* known to be open.                                                       *)
InProtocol == {"new", "message", "input", "closed"}
Serving == {"start", "new", "loop", "message", "ready", "input"}

(* imProto is held by the thread of the client in its calls of the         *)
(* protocol, or by the sender that took it, and the holder is the only one *)
(* in the protocol.                                                        *)
LockHeld ==
  \A c \in Clients :
    /\ core.clients[c].lock = "client" <=> core.clients[c].pc \in InProtocol
    /\ \A m \in Senders : core.clients[c].lock = m <=> core.sender[m] = c
    /\ core.clients[c].lock = Nobody => abs.inside[c] = {}
    /\ core.clients[c].lock # Nobody => abs.inside[c] = {core.clients[c].lock}

(* hClients has an entry for the socket of every client there was, which   *)
(* is the client itself as long as the connection is open.                 *)
SocketsKnown ==
  \A c \in Clients :
    /\ core.clients[c].pc # "none" =>
         core.clients[c].socket \in Sockets /\ core.hClients[core.clients[c].socket] # None
    /\ core.clients[c].open =>
         core.clients[c].socket \in Sockets /\ core.hClients[core.clients[c].socket] = c
    /\ core.clients[c].pc = "none" => core.clients[c].qMsg = << >> /\ core.clients[c].lock = Nobody
    /\ core.clients[c].pc = "message" => core.clients[c].qMsg # << >>
    /\ core.clients[c].pc \in Serving => core.clients[c].open

(* A message is sent by one sender, waits in one place of one queue, or    *)
(* was handled, once.                                                      *)
Handled(m) == \E j \in DOMAIN abs.handled : abs.handled[j] = m
Queued(m) == \E c \in Clients : \E i \in DOMAIN core.clients[c].qMsg : core.clients[c].qMsg[i] = m

OnePlace ==
  /\ \A j, k \in DOMAIN abs.handled : abs.handled[j] = abs.handled[k] => j = k
  /\ \A c, d \in Clients :
       \A i \in DOMAIN core.clients[c].qMsg, j \in DOMAIN core.clients[d].qMsg :
         core.clients[c].qMsg[i] = core.clients[d].qMsg[j] => c = d /\ i = j
  /\ \A m \in Senders : Handled(m) => core.sender[m] = None /\ ~ Queued(m)
  /\ \A m \in Senders : core.sender[m] # None => ~ Queued(m)
  /\ \A m \in Senders : m \in abs.sent <=> Handled(m) \/ Queued(m) \/ core.sender[m] # None

(* The inductive invariant. *)
Inv == TypeOK /\ LockHeld /\ SocketsKnown /\ OnePlace /\ ~ abs.deletedEarly

(* A new server has no clients and no messages. *)
LEMMA InitInv == ASSUME NamesApart, Init PROVE Inv
<1> USE DEF NamesApart, Nobody, None
<1>1. TypeOK
  BY DEF Init, TypeOK, ServerType, HappenedType, ItoClient, Fresh
<1>2. LockHeld
  BY DEF Init, LockHeld, InProtocol, Fresh
<1>3. SocketsKnown
  BY DEF Init, SocketsKnown, Serving, Fresh
<1>4. OnePlace
  <2>1. \A m \in Senders : ~ Handled(m) /\ ~ Queued(m) /\ core.sender[m] = None
    BY DEF Init, Handled, Queued, Fresh
  <2>2. abs.handled = << >> /\ abs.sent = {} /\ \A c \in Clients : core.clients[c].qMsg = << >>
    BY DEF Init, Fresh
  <2> QED BY <2>1, <2>2 DEF OnePlace
<1>5. ~ abs.deletedEarly
  BY DEF Init
<1> QED BY <1>1, <1>2, <1>3, <1>4, <1>5 DEF Inv

(* What a step about one client leaves alone. *)
Apart(c) ==
  /\ \A d \in Clients \ {c} : /\ core'.clients[d] = core.clients[d]
                              /\ abs'.inside[d] = abs.inside[d]
  /\ core'.sender = core.sender /\ core'.hClients = core.hClients
  /\ abs'.sent = abs.sent /\ abs'.deletedEarly = abs.deletedEarly

(* imProto changes hands between nobody and the thread of the client. *)
LEMMA LockLocal ==
  ASSUME NamesApart, LockHeld, NEW c \in Clients, Apart(c),
         core.clients[c].lock \notin Senders, core'.clients[c].lock \notin Senders,
         core'.clients[c].lock = "client" <=> core'.clients[c].pc \in InProtocol,
         core'.clients[c].lock = Nobody => abs'.inside[c] = {},
         core'.clients[c].lock # Nobody => abs'.inside[c] = {core'.clients[c].lock}
  PROVE  LockHeld'
<1> SUFFICES ASSUME NEW d \in Clients
             PROVE  /\ core'.clients[d].lock = "client" <=> core'.clients[d].pc \in InProtocol
                    /\ \A m \in Senders : core'.clients[d].lock = m <=> core'.sender[m] = d
                    /\ core'.clients[d].lock = Nobody => abs'.inside[d] = {}
                    /\ core'.clients[d].lock # Nobody => abs'.inside[d] = {core'.clients[d].lock}
  BY DEF LockHeld
<1>1. CASE d = c
  <2>1. \A m \in Senders : core.sender[m] # c
    BY DEF LockHeld
  <2>2. \A m \in Senders : core'.sender[m] # c
    BY <2>1 DEF Apart
  <2> QED BY <1>1, <2>2
<1>2. CASE d # c
  <2>1. core'.clients[d] = core.clients[d] /\ abs'.inside[d] = abs.inside[d] /\ core'.sender = core.sender
    BY <1>2 DEF Apart
  <2> QED BY <2>1 DEF LockHeld
<1> QED BY <1>1, <1>2

(* imProto stays with whoever has it. *)
LEMMA LockKept ==
  ASSUME LockHeld, NEW c \in Clients, Apart(c),
         core'.clients[c].lock = core.clients[c].lock,
         abs'.inside[c] = abs.inside[c],
         core.clients[c].pc \in InProtocol <=> core'.clients[c].pc \in InProtocol
  PROVE  LockHeld'
<1> SUFFICES ASSUME NEW d \in Clients
             PROVE  /\ core'.clients[d].lock = "client" <=> core'.clients[d].pc \in InProtocol
                    /\ \A m \in Senders : core'.clients[d].lock = m <=> core'.sender[m] = d
                    /\ core'.clients[d].lock = Nobody => abs'.inside[d] = {}
                    /\ core'.clients[d].lock # Nobody => abs'.inside[d] = {core'.clients[d].lock}
  BY DEF LockHeld
<1>1. /\ core'.clients[d].lock = core.clients[d].lock /\ abs'.inside[d] = abs.inside[d]
      /\ core'.clients[d].pc \in InProtocol <=> core.clients[d].pc \in InProtocol
      /\ core'.sender = core.sender
  BY DEF Apart
<1> QED BY <1>1 DEF LockHeld

(* A client keeps its socket. *)
LEMMA SocketsLocal ==
  ASSUME SocketsKnown, NEW c \in Clients, Apart(c),
         core.clients[c].pc # "none", core'.clients[c].pc # "none",
         core'.clients[c].socket = core.clients[c].socket,
         core'.clients[c].open => core.clients[c].open,
         core'.clients[c].pc = "message" => core'.clients[c].qMsg # << >>,
         core'.clients[c].pc \in Serving => core'.clients[c].open
  PROVE  SocketsKnown'
  BY DEF SocketsKnown, Apart

(* No message changes its place. *)
LEMMA PlacesKept ==
  ASSUME OnePlace, core'.sender = core.sender, abs'.sent = abs.sent, abs'.handled = abs.handled,
         \A d \in Clients : core'.clients[d].qMsg = core.clients[d].qMsg
  PROVE  OnePlace'
  BY DEF OnePlace, Handled, Queued

(* The types after a step that changes one client. *)
LEMMA LocalType ==
  ASSUME TypeOK, NEW c \in Clients, NEW r \in ItoClient,
         core' = [core EXCEPT !.clients[c] = r]
  PROVE  core' \in ServerType /\ core'.clients[c] = r
  BY DEF TypeOK, ServerType

(* The thread takes imProto for one of its calls. *)
LEMMA EnterInv ==
  ASSUME NamesApart, Inv, NEW c \in Clients, NEW from, NEW to \in InProtocol,
         from # "none", to \in Serving => from \in Serving, to = "message" => core.clients[c].qMsg # << >>,
         Enter(c, from, to)
  PROVE  Inv'
<1> USE DEF NamesApart, Nobody, None, Inv
<1> DEFINE r == [core.clients[c] EXCEPT !.pc = to, !.lock = "client"]
<1>1. r \in ItoClient /\ core.clients[c] \in ItoClient
  <2>1. core.clients[c] \in ItoClient
    BY DEF TypeOK, ServerType
  <2> QED BY <2>1 DEF ItoClient, InProtocol
<1>2. core' = [core EXCEPT !.clients[c] = r]
  BY DEF Enter, TypeOK, ServerType
<1>3. core' \in ServerType /\ core'.clients[c] = r
  BY <1>1, <1>2, LocalType
<1>4. /\ core'.clients[c].pc = to /\ core'.clients[c].lock = "client"
      /\ core'.clients[c].qMsg = core.clients[c].qMsg
      /\ core'.clients[c].open = core.clients[c].open
      /\ core'.clients[c].socket = core.clients[c].socket
      /\ core.clients[c].pc = from /\ core.clients[c].lock = Nobody
  BY <1>1, <1>3 DEF ItoClient, Enter, At, Free
<1>5. abs' \in HappenedType
  BY DEF Enter, TypeOK, HappenedType
<1>6. abs'.inside[c] = {"client"} /\ abs'.handled = abs.handled
  <2>1. abs.inside[c] = {}
    BY <1>4 DEF LockHeld
  <2>2. abs'.inside[c] = abs.inside[c] \cup {"client"} /\ abs'.handled = abs.handled
    BY DEF Enter, TypeOK, HappenedType
  <2> QED BY <2>1, <2>2
<1>7. Apart(c)
  BY DEF Apart, Enter, TypeOK, ServerType, HappenedType
<1>8. LockHeld'
  BY <1>4, <1>6, <1>7, LockLocal
<1>9. SocketsKnown'
  <2>1. to \in Serving => core.clients[c].open
    BY <1>4 DEF SocketsKnown
  <2> QED BY <1>4, <1>7, <2>1, SocketsLocal DEF InProtocol
<1>10. OnePlace'
  <2>1. \A d \in Clients : core'.clients[d].qMsg = core.clients[d].qMsg
    BY <1>4, <1>7 DEF Apart
  <2> QED BY <2>1, <1>6, <1>7, PlacesKept DEF Apart
<1>11. ~ abs'.deletedEarly
  BY <1>7 DEF Apart
<1> QED BY <1>3, <1>5, <1>8, <1>9, <1>10, <1>11 DEF TypeOK

(* The thread gives imProto back, and its client goes on or closes. *)
LEMMA LeaveInv ==
  ASSUME NamesApart, Inv, NEW c \in Clients, NEW from \in InProtocol,
         NEW to \in {"loop", "closing", "cleanup"}, NEW open \in BOOLEAN,
         open => core.clients[c].open, to = "loop" => open,
         Leave(c, from, [core.clients[c] EXCEPT !.pc = to, !.open = open]),
         abs' = [abs EXCEPT !.inside[c] = @ \ {"client"}]
  PROVE  Inv'
<1> USE DEF NamesApart, Nobody, None, Inv
<1> DEFINE r == [[core.clients[c] EXCEPT !.pc = to, !.open = open] EXCEPT !.lock = Nobody]
<1>1. r \in ItoClient /\ core.clients[c] \in ItoClient
  <2>1. core.clients[c] \in ItoClient
    BY DEF TypeOK, ServerType
  <2> QED BY <2>1 DEF ItoClient, InProtocol
<1>2. core' = [core EXCEPT !.clients[c] = r]
  BY DEF Leave
<1>3. core' \in ServerType /\ core'.clients[c] = r
  BY <1>1, <1>2, LocalType
<1>4. /\ core'.clients[c].pc = to /\ core'.clients[c].lock = Nobody
      /\ core'.clients[c].qMsg = core.clients[c].qMsg
      /\ core'.clients[c].open = open
      /\ core'.clients[c].socket = core.clients[c].socket
      /\ core.clients[c].pc = from /\ core.clients[c].lock = "client"
  <2>1. core.clients[c].pc = from /\ core.clients[c].lock = "client"
    BY DEF Leave, At, LockHeld
  <2>2. /\ r.pc = to /\ r.lock = Nobody /\ r.open = open
        /\ r.qMsg = core.clients[c].qMsg /\ r.socket = core.clients[c].socket
    BY <1>1 DEF ItoClient
  <2> QED BY <2>1, <2>2, <1>3
<1>5. abs' \in HappenedType
  BY DEF TypeOK, HappenedType
<1>6. abs'.inside[c] = {} /\ abs'.handled = abs.handled
  <2>1. abs.inside[c] = {"client"}
    BY <1>4 DEF LockHeld
  <2>2. abs'.inside[c] = abs.inside[c] \ {"client"} /\ abs'.handled = abs.handled
    BY DEF TypeOK, HappenedType
  <2> QED BY <2>1, <2>2
<1>7. Apart(c)
  BY <1>2 DEF Apart, TypeOK, ServerType, HappenedType
<1>8. LockHeld'
  BY <1>4, <1>6, <1>7, LockLocal DEF InProtocol
<1>9. SocketsKnown'
  BY <1>4, <1>7, SocketsLocal DEF InProtocol, Serving
<1>10. OnePlace'
  <2>1. \A d \in Clients : core'.clients[d].qMsg = core.clients[d].qMsg
    BY <1>4, <1>7 DEF Apart
  <2> QED BY <2>1, <1>6, <1>7, PlacesKept DEF Apart
<1>11. ~ abs'.deletedEarly
  BY <1>7 DEF Apart
<1> QED BY <1>3, <1>5, <1>8, <1>9, <1>10, <1>11 DEF TypeOK

(* The thread goes on outside the protocol, and nothing else changes. *)
LEMMA MoveInv ==
  ASSUME NamesApart, Inv, NEW c \in Clients, core.clients[c].pc \notin InProtocol \cup {"none"},
         NEW to \in {"loop", "ready", "ended", "deleted"},
         to \in Serving => core.clients[c].pc \in Serving,
         NEW cleanup \in Seq(Clients), NEW taken \in Clients \cup {None},
         core' = [core EXCEPT !.clients[c].pc = to, !.qClientCleanup = cleanup, !.taken = taken],
         abs' \in HappenedType, abs'.sent = abs.sent, abs'.handled = abs.handled,
         abs'.inside = abs.inside, abs'.deletedEarly = abs.deletedEarly
  PROVE  Inv'
<1> USE DEF NamesApart, Nobody, None, Inv
<1> DEFINE r == [core.clients[c] EXCEPT !.pc = to]
<1>1. r \in ItoClient /\ core.clients[c] \in ItoClient
  <2>1. core.clients[c] \in ItoClient
    BY DEF TypeOK, ServerType
  <2> QED BY <2>1 DEF ItoClient
<1>2. core' = [core EXCEPT !.clients[c] = r, !.qClientCleanup = cleanup, !.taken = taken]
  BY DEF TypeOK, ServerType
<1>3. core' \in ServerType /\ core'.clients[c] = r
  <2> DEFINE cs == [core.clients EXCEPT ![c] = r]
  <2>1. r \in ItoClient
    BY <1>1
  <2> HIDE DEF r
  <2>2. cs \in [Clients -> ItoClient] /\ cs[c] = r
    BY <2>1 DEF TypeOK, ServerType
  <2>3. core' = [core EXCEPT !.clients = cs, !.qClientCleanup = cleanup, !.taken = taken]
    BY <1>2
  <2> HIDE DEF cs
  <2>4. /\ core'.clients = cs /\ core'.qClientCleanup = cleanup /\ core'.taken = taken
        /\ core'.hClients = core.hClients /\ core'.sender = core.sender
    BY <2>3 DEF TypeOK, ServerType
  <2>5. core' \in ServerType
    BY <2>2, <2>3 DEF TypeOK, ServerType
  <2> QED BY <2>2, <2>4, <2>5
<1>4. /\ core'.clients[c].pc = to /\ core'.clients[c].lock = core.clients[c].lock
      /\ core'.clients[c].qMsg = core.clients[c].qMsg
      /\ core'.clients[c].open = core.clients[c].open
      /\ core'.clients[c].socket = core.clients[c].socket
  BY <1>1, <1>3 DEF ItoClient
<1>5. Apart(c)
  BY <1>2 DEF Apart, TypeOK, ServerType, HappenedType
<1>6. LockHeld'
  BY <1>4, <1>5, LockKept DEF InProtocol
<1>7. SocketsKnown'
  <2>1. to \in Serving => core.clients[c].open
    BY DEF SocketsKnown
  <2> QED BY <1>4, <1>5, <2>1, SocketsLocal
<1>8. OnePlace'
  <2>1. \A d \in Clients : core'.clients[d].qMsg = core.clients[d].qMsg
    BY <1>4, <1>5 DEF Apart
  <2> QED BY <2>1, <1>5, PlacesKept DEF Apart
<1>9. ~ abs'.deletedEarly
  BY <1>5 DEF Apart
<1> QED BY <1>3, <1>6, <1>7, <1>8, <1>9 DEF TypeOK

(* Where the messages are, field by field, after a step that handles one.  *)
LEMMA HandledAppend ==
  ASSUME NEW h \in Seq(Senders), NEW m \in Senders
  PROVE  /\ Append(h, m) \in Seq(Senders)
         /\ DOMAIN Append(h, m) = DOMAIN h \cup {Len(h) + 1}
         /\ Len(h) + 1 \notin DOMAIN h
         /\ \A j \in DOMAIN h : Append(h, m)[j] = h[j]
         /\ Append(h, m)[Len(h) + 1] = m
  OBVIOUS

(* The first message of a queue, and those that are left behind it.        *)
LEMMA QueueTail ==
  ASSUME NEW q \in Seq(Senders), q # << >>
  PROVE  /\ Head(q) \in Senders /\ Tail(q) \in Seq(Senders)
         /\ 1 \in DOMAIN q /\ q[1] = Head(q)
         /\ \A i \in DOMAIN Tail(q) : i + 1 \in DOMAIN q /\ Tail(q)[i] = q[i + 1] /\ i + 1 # 1
         /\ \A i \in DOMAIN q : i = 1 \/ (i - 1 \in DOMAIN Tail(q) /\ q[i] = Tail(q)[i - 1])
  OBVIOUS

(* The message that is handled was in no other place before.               *)
LEMMA HandleOne ==
  ASSUME TypeOK, OnePlace, NEW m \in Senders, ~ Handled(m),
         abs'.handled = Append(abs.handled, m)
  PROVE  /\ \A n \in Senders : Handled(n)' <=> Handled(n) \/ n = m
         /\ \A j, k \in DOMAIN abs'.handled : abs'.handled[j] = abs'.handled[k] => j = k
<1> DEFINE h == abs.handled
           g == abs'.handled
<1>1. h \in Seq(Senders) /\ g = Append(h, m)
  BY DEF TypeOK, HappenedType
<1>2. /\ DOMAIN g = DOMAIN h \cup {Len(h) + 1} /\ Len(h) + 1 \notin DOMAIN h
      /\ \A j \in DOMAIN h : g[j] = h[j]
      /\ g[Len(h) + 1] = m
  BY <1>1, HandledAppend
<1>3. \A j \in DOMAIN h : h[j] # m
  BY DEF Handled
<1>4. \A j, k \in DOMAIN h : h[j] = h[k] => j = k
  BY DEF OnePlace
<1>5. \A n \in Senders : Handled(n) <=> \E j \in DOMAIN h : h[j] = n
  BY DEF Handled
<1>6. \A n \in Senders : Handled(n)' <=> \E j \in DOMAIN g : g[j] = n
  BY DEF Handled
<1> DEFINE last == Len(h) + 1
<1> HIDE DEF h, g, last
<1>7. /\ DOMAIN g = DOMAIN h \cup {last} /\ last \notin DOMAIN h /\ g[last] = m
  BY <1>2 DEF last
<1>8. \A n \in Senders : Handled(n)' <=> Handled(n) \/ n = m
  BY <1>2, <1>5, <1>6, <1>7
<1>9. \A j, k \in DOMAIN g : g[j] = g[k] => j = k
  BY <1>2, <1>3, <1>4, <1>7
<1> QED BY <1>8, <1>9 DEF g

(* A message leaves the queue, is handled under the lock, and the next one *)
(* is looked for.                                                          *)
LEMMA MessageDoneInv ==
  ASSUME NamesApart, Inv, NEW c \in Clients, MessageDone(c)
  PROVE  Inv'
<1> USE DEF NamesApart, Nobody, None, Inv
<1> DEFINE q == core.clients[c].qMsg
           m == Head(q)
           r == [[core.clients[c] EXCEPT !.pc = "loop", !.qMsg = Tail(q)] EXCEPT !.lock = Nobody]
<1>1. core.clients[c] \in ItoClient
  BY DEF TypeOK, ServerType
<1>2. core.clients[c].pc = "message" /\ core.clients[c].lock = "client"
  BY DEF MessageDone, Leave, At, LockHeld, InProtocol
<1>3. q \in Seq(Senders) /\ q # << >>
  BY <1>1, <1>2 DEF ItoClient, SocketsKnown
<1>4. /\ m \in Senders /\ Tail(q) \in Seq(Senders)
      /\ 1 \in DOMAIN q /\ q[1] = m
      /\ \A i \in DOMAIN Tail(q) : i + 1 \in DOMAIN q /\ Tail(q)[i] = q[i + 1] /\ i + 1 # 1
      /\ \A i \in DOMAIN q : i = 1 \/ (i - 1 \in DOMAIN Tail(q) /\ q[i] = Tail(q)[i - 1])
  BY <1>3, QueueTail
<1>5. r \in ItoClient
  BY <1>1, <1>4 DEF ItoClient
<1>6. /\ r.pc = "loop" /\ r.lock = Nobody /\ r.qMsg = Tail(q)
      /\ r.open = core.clients[c].open /\ r.socket = core.clients[c].socket
  BY <1>1 DEF ItoClient
<1>7. core' = [core EXCEPT !.clients[c] = r]
  BY DEF MessageDone, Leave
<1>8. core' \in ServerType /\ core'.clients[c] = r
  BY <1>5, <1>7, LocalType
<1>9. abs' = [abs EXCEPT !.inside[c] = @ \ {"client"}, !.handled = Append(@, m)]
  BY DEF MessageDone
<1>10. Apart(c)
  BY <1>7, <1>9 DEF Apart, TypeOK, ServerType, HappenedType
<1>11. abs'.handled = Append(abs.handled, m) /\ abs'.inside[c] = abs.inside[c] \ {"client"}
  BY <1>9 DEF TypeOK, HappenedType
<1>12. abs' \in HappenedType
  <2>1. Append(abs.handled, m) \in Seq(Senders)
    BY <1>4, HandledAppend DEF TypeOK, HappenedType
  <2> HIDE DEF m
  <2> QED BY <2>1, <1>9 DEF TypeOK, HappenedType
<1>13. LockHeld'
  <2>1. abs'.inside[c] = {}
    BY <1>2, <1>11 DEF LockHeld
  <2> QED BY <2>1, <1>2, <1>6, <1>8, <1>10, LockLocal DEF InProtocol
<1>14. SocketsKnown'
  <2>1. core.clients[c].open
    BY <1>2 DEF SocketsKnown, Serving
  <2> QED BY <1>2, <1>6, <1>8, <1>10, <2>1, SocketsLocal
<1>15. OnePlace'
  <2>1. Queued(m) /\ ~ Handled(m)
    BY <1>4 DEF Queued, OnePlace
  <2>2. /\ \A n \in Senders : Handled(n)' <=> Handled(n) \/ n = m
        /\ \A j, k \in DOMAIN abs'.handled : abs'.handled[j] = abs'.handled[k] => j = k
    BY <1>4, <1>11, <2>1, HandleOne
  <2>3. core'.clients[c].qMsg = Tail(q)
    BY <1>6, <1>8
  <2>4. \A d \in Clients \ {c} : core'.clients[d].qMsg = core.clients[d].qMsg
    BY <1>10 DEF Apart
  <2>5. ASSUME NEW d1 \in Clients, NEW d2 \in Clients,
               NEW i \in DOMAIN core'.clients[d1].qMsg, NEW j \in DOMAIN core'.clients[d2].qMsg,
               core'.clients[d1].qMsg[i] = core'.clients[d2].qMsg[j]
        PROVE  d1 = d2 /\ i = j
    <3>1. PICK k \in DOMAIN core.clients[d1].qMsg :
            /\ core'.clients[d1].qMsg[i] = core.clients[d1].qMsg[k]
            /\ k = IF d1 = c THEN i + 1 ELSE i
      BY <1>4, <2>3, <2>4
    <3>2. PICK l \in DOMAIN core.clients[d2].qMsg :
            /\ core'.clients[d2].qMsg[j] = core.clients[d2].qMsg[l]
            /\ l = IF d2 = c THEN j + 1 ELSE j
      BY <1>4, <2>3, <2>4
    <3>3. core.clients[d1].qMsg[k] = core.clients[d2].qMsg[l]
      BY <2>5, <3>1, <3>2
    <3>4. d1 = d2 /\ k = l
      BY <3>3 DEF OnePlace
    <3>5. CASE d1 = c
      <4>1. i \in DOMAIN Tail(q) /\ j \in DOMAIN Tail(q) /\ i + 1 = j + 1
        BY <2>3, <3>1, <3>2, <3>4, <3>5
      <4>2. i \in Int /\ j \in Int
        BY <1>4, <4>1
      <4> QED BY <3>4, <4>1, <4>2
    <3>6. CASE d1 # c
      BY <3>1, <3>2, <3>4, <3>6
    <3> QED BY <3>5, <3>6
  <2>6. \A n \in Senders : Queued(n)' <=> Queued(n) /\ n # m
    <3> SUFFICES ASSUME NEW n \in Senders PROVE Queued(n)' <=> Queued(n) /\ n # m
      OBVIOUS
    <3>1. ASSUME Queued(n)' PROVE Queued(n) /\ n # m
      <4>1. PICK d \in Clients : \E i \in DOMAIN core'.clients[d].qMsg : core'.clients[d].qMsg[i] = n
        BY <3>1 DEF Queued
      <4>2. PICK i \in DOMAIN core'.clients[d].qMsg : core'.clients[d].qMsg[i] = n
        BY <4>1
      <4>3. CASE d = c
        <5>1. i + 1 \in DOMAIN q /\ q[i + 1] = n /\ i + 1 # 1
          BY <1>4, <2>3, <4>2, <4>3
        <5>2. n # m
          BY <1>4, <5>1 DEF OnePlace
        <5> QED BY <5>1, <5>2 DEF Queued
      <4>4. CASE d # c
        <5>1. i \in DOMAIN core.clients[d].qMsg /\ core.clients[d].qMsg[i] = n
          BY <2>4, <4>2, <4>4
        <5>2. n # m
          BY <1>4, <4>4, <5>1 DEF OnePlace
        <5> QED BY <5>1, <5>2 DEF Queued
      <4> QED BY <4>3, <4>4
    <3>2. ASSUME Queued(n), n # m PROVE Queued(n)'
      <4>1. PICK d \in Clients : \E i \in DOMAIN core.clients[d].qMsg : core.clients[d].qMsg[i] = n
        BY <3>2 DEF Queued
      <4>2. PICK i \in DOMAIN core.clients[d].qMsg : core.clients[d].qMsg[i] = n
        BY <4>1
      <4>3. CASE d = c
        <5>1. i \in DOMAIN q /\ q[i] = n /\ i # 1
          BY <1>4, <3>2, <4>2, <4>3
        <5>2. i - 1 \in DOMAIN Tail(q) /\ q[i] = Tail(q)[i - 1]
          BY <1>4, <5>1
        <5> QED BY <2>3, <5>1, <5>2 DEF Queued
      <4>4. CASE d # c
        BY <2>4, <4>2, <4>4 DEF Queued
      <4> QED BY <4>3, <4>4
    <3> QED BY <3>1, <3>2
  <2>7. core'.sender = core.sender /\ abs'.sent = abs.sent
    BY <1>10 DEF Apart
  <2>8. core.sender[m] = None
    BY <1>4, <2>1 DEF OnePlace
  <2>9. /\ \A n \in Senders : Handled(n)' => core'.sender[n] = None /\ ~ Queued(n)'
        /\ \A n \in Senders : core'.sender[n] # None => ~ Queued(n)'
        /\ \A n \in Senders : n \in abs'.sent <=> Handled(n)' \/ Queued(n)' \/ core'.sender[n] # None
    <3> HIDE DEF m
    <3> QED BY <2>1, <2>2, <2>6, <2>7, <2>8 DEF OnePlace
  <2> QED BY <2>2, <2>5, <2>9 DEF OnePlace
<1>16. ~ abs'.deletedEarly
  BY <1>10 DEF Apart
<1> QED BY <1>8, <1>12, <1>13, <1>14, <1>15, <1>16 DEF TypeOK

(* A thread outside the protocol goes on: no message waits, no input came, *)
(* its client is queued for the clean-up, or its client is deleted.        *)
LEMMA QuietInv ==
  ASSUME NamesApart, Inv, NEW c \in Clients,
         MessagesDone(c) \/ NoInput(c) \/ clientCleanup(c)
  PROVE  Inv'
<1> USE DEF NamesApart, Nobody, None
<1>1. /\ TypeOK /\ abs' \in HappenedType
      /\ abs'.sent = abs.sent /\ abs'.handled = abs.handled
      /\ abs'.inside = abs.inside /\ abs'.deletedEarly = abs.deletedEarly
      /\ core.qClientCleanup \in Seq(Clients) /\ core.taken \in Clients \cup {None}
  BY DEF Inv, TypeOK, ServerType, MessagesDone, NoInput, clientCleanup
<1>2. CASE MessagesDone(c)
  <2>1. core.clients[c].pc = "loop" /\ core' = [core EXCEPT !.clients[c].pc = "ready"]
    BY <1>2 DEF MessagesDone, At
  <2>2. core' = [core EXCEPT !.clients[c].pc = "ready", !.qClientCleanup = core.qClientCleanup,
                             !.taken = core.taken]
    BY <1>1, <2>1 DEF TypeOK, ServerType
  <2> QED BY <1>1, <2>1, <2>2, MoveInv DEF InProtocol, Serving
<1>3. CASE NoInput(c)
  <2>1. core.clients[c].pc = "ready" /\ core' = [core EXCEPT !.clients[c].pc = "loop"]
    BY <1>3 DEF NoInput, At
  <2>2. core' = [core EXCEPT !.clients[c].pc = "loop", !.qClientCleanup = core.qClientCleanup,
                             !.taken = core.taken]
    BY <1>1, <2>1 DEF TypeOK, ServerType
  <2> QED BY <1>1, <2>1, <2>2, MoveInv DEF InProtocol, Serving
<1>4. CASE clientCleanup(c)
  <2> DEFINE cleanup == Append(core.qClientCleanup, core.hClients[core.clients[c].socket])
  <2>1. /\ core.clients[c].pc = "cleanup"
        /\ core' = [core EXCEPT !.clients[c].pc = "ended", !.qClientCleanup = cleanup]
    BY <1>4 DEF clientCleanup, At
  <2>2. core.hClients[core.clients[c].socket] \in Clients
    BY <2>1 DEF Inv, SocketsKnown, TypeOK, ServerType
  <2>3. cleanup \in Seq(Clients)
    BY <1>1, <2>2
  <2> HIDE DEF cleanup
  <2>4. core' = [core EXCEPT !.clients[c].pc = "ended", !.qClientCleanup = cleanup,
                             !.taken = core.taken]
    BY <1>1, <2>1 DEF TypeOK, ServerType
  <2>5. core.clients[c].pc \notin InProtocol \cup {"none"} /\ "ended" \notin Serving
    BY <2>1 DEF InProtocol, Serving
  <2> HIDE DEF NamesApart, Nobody, None
  <2> QED BY <1>1, <2>3, <2>4, <2>5, MoveInv
<1> QED BY <1>2, <1>3, <1>4

(* The clean-up deletes the client it took once its thread has ended.      *)
LEMMA CleanupInv ==
  ASSUME NamesApart, Inv, CleanupTake \/ CleanupJoin
  PROVE  Inv'
<1> USE DEF NamesApart, Nobody, None
<1>1. /\ TypeOK /\ core.qClientCleanup \in Seq(Clients) /\ core.taken \in Clients \cup {None}
  BY DEF Inv, TypeOK, ServerType
<1>2. CASE CleanupTake
  <2>1. Head(core.qClientCleanup) \in Clients /\ Tail(core.qClientCleanup) \in Seq(Clients)
    BY <1>1, <1>2 DEF CleanupTake
  <2>2. /\ core' \in ServerType /\ core'.clients = core.clients
        /\ core'.hClients = core.hClients /\ core'.sender = core.sender
    BY <1>1, <1>2, <2>1 DEF CleanupTake, TypeOK, ServerType
  <2>3. abs' = abs
    BY <1>2 DEF CleanupTake
  <2> QED BY <2>2, <2>3 DEF Inv, TypeOK, LockHeld, SocketsKnown, OnePlace, Handled, Queued
<1>3. CASE CleanupJoin
  <2> DEFINE c == core.taken
  <2>1. c \in Clients
    BY <1>1, <1>3 DEF CleanupJoin
  <2>2. CASE At(c, "ended")
    <3>1. core' = [core EXCEPT !.clients[c].pc = "deleted", !.taken = None]
      BY <1>3, <2>2 DEF CleanupJoin, At
    <3>2. core' = [core EXCEPT !.clients[c].pc = "deleted", !.qClientCleanup = core.qClientCleanup,
                               !.taken = None]
      BY <1>1, <3>1 DEF TypeOK, ServerType
    <3>3. /\ abs' \in HappenedType /\ abs'.sent = abs.sent /\ abs'.handled = abs.handled
          /\ abs'.inside = abs.inside /\ abs'.deletedEarly = abs.deletedEarly
      BY <1>1, <1>3, <2>1, <2>2 DEF CleanupJoin, At, TypeOK, HappenedType
    <3>4. core.clients[c].pc = "ended"
      BY <2>2 DEF At
    <3> HIDE DEF c
    <3> QED BY <1>1, <2>1, <3>2, <3>3, <3>4, MoveInv DEF InProtocol, Serving
  <2>3. CASE ~ At(c, "ended")
    <3>1. PICK aborted \in BOOLEAN : core' = [core EXCEPT !.taken = None, !.aborted = aborted]
      BY <1>3, <2>3 DEF CleanupJoin
    <3>2. abs' = [abs EXCEPT !.twice = @ \cup {c}]
      BY <1>3, <2>3 DEF CleanupJoin
    <3>3. /\ core' \in ServerType /\ core'.clients = core.clients
          /\ core'.hClients = core.hClients /\ core'.sender = core.sender
      BY <1>1, <3>1 DEF TypeOK, ServerType
    <3>4. /\ abs' \in HappenedType /\ abs'.sent = abs.sent /\ abs'.handled = abs.handled
          /\ abs'.inside = abs.inside /\ abs'.deletedEarly = abs.deletedEarly
      BY <1>1, <2>1, <3>2 DEF TypeOK, HappenedType
    <3> QED BY <3>3, <3>4 DEF Inv, TypeOK, LockHeld, SocketsKnown, OnePlace, Handled, Queued
  <2> QED BY <2>2, <2>3
<1> QED BY <1>2, <1>3

(* A new connection: its socket is nobody's that is open.                  *)
LEMMA AddClientInv ==
  ASSUME NamesApart, Inv, addClient
  PROVE  Inv'
<1> USE DEF NamesApart, Nobody, None, Inv
<1>1. PICK c \in Clients, s \in Sockets :
        /\ At(c, "none") /\ core.taken = None
        /\ \A d \in Clients : core.clients[d].socket = s => ~core.clients[d].open
        /\ core' = [core EXCEPT !.clients[c] = [Fresh EXCEPT !.pc = "start", !.open = TRUE, !.socket = s],
                               !.hClients[s] = c]
        /\ \E reused \in {abs.reused, abs.reused \cup {s}} : abs' = [abs EXCEPT !.reused = reused]
  BY DEF addClient
<1> DEFINE r == [Fresh EXCEPT !.pc = "start", !.open = TRUE, !.socket = s]
<1>2. /\ r \in ItoClient /\ r.pc = "start" /\ r.lock = Nobody /\ r.qMsg = << >>
      /\ r.open /\ r.socket = s
  <2> DEFINE f == Fresh
  <2>1. f \in ItoClient /\ f.lock = Nobody /\ f.qMsg = << >>
    BY DEF Fresh, ItoClient
  <2>2. r = [f EXCEPT !.pc = "start", !.open = TRUE, !.socket = s]
    OBVIOUS
  <2> HIDE DEF f, r
  <2> QED BY <2>1, <2>2 DEF ItoClient
<1>3. core' = [core EXCEPT !.clients[c] = r, !.hClients[s] = c]
  BY <1>1
<1> HIDE DEF r
<1>4. core' \in ServerType
  BY <1>2, <1>3 DEF TypeOK, ServerType
<1>5. /\ core'.clients[c] = r /\ core'.hClients[s] = c /\ core'.sender = core.sender
      /\ \A d \in Clients \ {c} : core'.clients[d] = core.clients[d]
      /\ \A t \in Sockets \ {s} : core'.hClients[t] = core.hClients[t]
  BY <1>3 DEF TypeOK, ServerType
<1>6. /\ core.clients[c].pc = "none"
      /\ abs' \in HappenedType /\ abs'.sent = abs.sent /\ abs'.handled = abs.handled
      /\ abs'.inside = abs.inside /\ abs'.deletedEarly = abs.deletedEarly
  BY <1>1 DEF At, TypeOK, HappenedType
<1>7. core.clients[c].qMsg = << >> /\ core.clients[c].lock = Nobody
  BY <1>6 DEF SocketsKnown
<1>8. LockHeld'
  <2>1. \A d \in Clients : /\ core'.clients[d].lock = core.clients[d].lock
                           /\ core'.clients[d].pc \in InProtocol <=> core.clients[d].pc \in InProtocol
    BY <1>2, <1>5, <1>6, <1>7 DEF InProtocol
  <2> QED BY <1>5, <1>6, <2>1 DEF LockHeld
<1>9. SocketsKnown'
  <2> SUFFICES ASSUME NEW d \in Clients
               PROVE  /\ core'.clients[d].pc # "none" =>
                           core'.clients[d].socket \in Sockets /\ core'.hClients[core'.clients[d].socket] # None
                      /\ core'.clients[d].open =>
                           core'.clients[d].socket \in Sockets /\ core'.hClients[core'.clients[d].socket] = d
                      /\ core'.clients[d].pc = "none" => core'.clients[d].qMsg = << >> /\ core'.clients[d].lock = Nobody
                      /\ core'.clients[d].pc = "message" => core'.clients[d].qMsg # << >>
                      /\ core'.clients[d].pc \in Serving => core'.clients[d].open
    BY DEF SocketsKnown
  <2>1. CASE d = c
    BY <1>2, <1>5, <2>1
  <2>2. CASE d # c
    <3>1. core'.clients[d] = core.clients[d]
      BY <1>5, <2>2
    <3>2. core.clients[d].socket = s => ~ core.clients[d].open
      BY <1>1
    <3> QED BY <1>5, <3>1, <3>2 DEF SocketsKnown
  <2> QED BY <2>1, <2>2
<1>10. OnePlace'
  <2>1. \A d \in Clients : core'.clients[d].qMsg = core.clients[d].qMsg
    BY <1>2, <1>5, <1>7
  <2> QED BY <2>1, <1>5, <1>6, PlacesKept
<1> QED BY <1>4, <1>6, <1>8, <1>9, <1>10 DEF TypeOK

(* A sender finds imProto free and takes it.                               *)
LEMMA SendAtOnceInv ==
  ASSUME NamesApart, Inv, NEW m \in Senders, NEW c \in Clients, m \notin abs.sent,
         core.clients[c].pc # "none", Free(c), sendMessage(m, c)
  PROVE  Inv'
<1> USE DEF NamesApart, Nobody, None, Inv
<1> DEFINE r == [core.clients[c] EXCEPT !.lock = m]
<1>1. core.clients[c] \in ItoClient /\ core.clients[c].lock = Nobody
  BY DEF TypeOK, ServerType, Free
<1>2. /\ r \in ItoClient /\ r.lock = m /\ r.pc = core.clients[c].pc
      /\ r.qMsg = core.clients[c].qMsg /\ r.open = core.clients[c].open
      /\ r.socket = core.clients[c].socket
  BY <1>1 DEF ItoClient
<1>3. /\ core' = [core EXCEPT !.sender[m] = c, !.clients[c].lock = m]
      /\ abs' = [abs EXCEPT !.sent = @ \cup {m}, !.inside[c] = @ \cup {m}]
  BY DEF sendMessage, Free
<1>4. core' = [core EXCEPT !.sender[m] = c, !.clients[c] = r]
  BY <1>3 DEF TypeOK, ServerType
<1> HIDE DEF r
<1>5. core' \in ServerType
  BY <1>2, <1>4 DEF TypeOK, ServerType
<1>6. /\ core'.clients[c] = r /\ core'.sender[m] = c /\ core'.hClients = core.hClients
      /\ \A d \in Clients \ {c} : core'.clients[d] = core.clients[d]
      /\ \A n \in Senders \ {m} : core'.sender[n] = core.sender[n]
  BY <1>2, <1>4 DEF TypeOK, ServerType
<1>7. abs' \in HappenedType
  BY <1>3 DEF TypeOK, HappenedType
<1>8. /\ abs'.sent = abs.sent \cup {m} /\ abs'.handled = abs.handled
      /\ abs'.deletedEarly = abs.deletedEarly
      /\ abs'.inside[c] = abs.inside[c] \cup {m}
      /\ \A d \in Clients \ {c} : abs'.inside[d] = abs.inside[d]
  BY <1>3 DEF TypeOK, HappenedType
<1>9. /\ core.sender[m] = None /\ ~ Handled(m) /\ ~ Queued(m)
  BY DEF OnePlace
<1>10. LockHeld'
  <2> SUFFICES ASSUME NEW d \in Clients
               PROVE  /\ core'.clients[d].lock = "client" <=> core'.clients[d].pc \in InProtocol
                      /\ \A n \in Senders : core'.clients[d].lock = n <=> core'.sender[n] = d
                      /\ core'.clients[d].lock = Nobody => abs'.inside[d] = {}
                      /\ core'.clients[d].lock # Nobody => abs'.inside[d] = {core'.clients[d].lock}
    BY DEF LockHeld
  <2>1. CASE d = c
    <3>1. \A n \in Senders : core.sender[n] # c
      BY <1>1 DEF LockHeld
    <3>2. abs'.inside[c] = {m}
      BY <1>1, <1>8 DEF LockHeld
    <3>3. core.clients[c].pc \notin InProtocol
      BY <1>1 DEF LockHeld
    <3>4. m # "client" /\ m # Nobody
      OBVIOUS
    <3>5. core'.clients[c].lock = m /\ core'.clients[c].pc = core.clients[c].pc
      BY <1>2, <1>6
    <3>6. \A n \in Senders : m = n <=> core'.sender[n] = c
      BY <1>6, <3>1
    <3> QED BY <2>1, <3>2, <3>3, <3>4, <3>5, <3>6
  <2>2. CASE d # c
    <3>1. core'.clients[d] = core.clients[d] /\ abs'.inside[d] = abs.inside[d]
      BY <2>2, <1>6, <1>8
    <3>2. \A n \in Senders : core'.sender[n] = d <=> core.sender[n] = d
      BY <2>2, <1>6, <1>9
    <3> QED BY <3>1, <3>2 DEF LockHeld
  <2> QED BY <2>1, <2>2
<1>11. SocketsKnown'
  BY <1>2, <1>6 DEF SocketsKnown
<1>12. OnePlace'
  <2>1. \A d \in Clients : core'.clients[d].qMsg = core.clients[d].qMsg
    BY <1>2, <1>6
  <2>2. \A n \in Senders : (Handled(n)' <=> Handled(n)) /\ (Queued(n)' <=> Queued(n))
    BY <1>8, <2>1 DEF Handled, Queued
  <2>3. /\ \A n \in Senders : Handled(n)' => core'.sender[n] = None /\ ~ Queued(n)'
        /\ \A n \in Senders : core'.sender[n] # None => ~ Queued(n)'
        /\ \A n \in Senders : n \in abs'.sent <=> Handled(n)' \/ Queued(n)' \/ core'.sender[n] # None
    BY <1>6, <1>8, <1>9, <2>2 DEF OnePlace
  <2>4. \A j, k \in DOMAIN abs'.handled : abs'.handled[j] = abs'.handled[k] => j = k
    BY <1>8 DEF OnePlace
  <2>5. \A d1, d2 \in Clients :
          \A i \in DOMAIN core'.clients[d1].qMsg, j \in DOMAIN core'.clients[d2].qMsg :
            core'.clients[d1].qMsg[i] = core'.clients[d2].qMsg[j] => d1 = d2 /\ i = j
    BY <2>1 DEF OnePlace
  <2> QED BY <2>3, <2>4, <2>5 DEF OnePlace
<1> QED BY <1>5, <1>7, <1>8, <1>10, <1>11, <1>12 DEF TypeOK

(* A sender finds imProto taken and leaves the message in the queue.       *)
LEMMA SendQueuedInv ==
  ASSUME NamesApart, Inv, NEW m \in Senders, NEW c \in Clients, m \notin abs.sent,
         core.clients[c].pc # "none", ~ Free(c), sendMessage(m, c)
  PROVE  Inv'
<1> USE DEF NamesApart, Nobody, None, Inv
<1> DEFINE q == core.clients[c].qMsg
           r == [core.clients[c] EXCEPT !.qMsg = Append(q, m)]
<1>1. core.clients[c] \in ItoClient /\ q \in Seq(Senders)
  BY DEF TypeOK, ServerType, ItoClient
<1>2. /\ Append(q, m) \in Seq(Senders)
      /\ DOMAIN Append(q, m) = DOMAIN q \cup {Len(q) + 1} /\ Len(q) + 1 \notin DOMAIN q
      /\ \A i \in DOMAIN q : Append(q, m)[i] = q[i]
      /\ Append(q, m)[Len(q) + 1] = m
  BY <1>1, HandledAppend
<1>3. /\ r \in ItoClient /\ r.lock = core.clients[c].lock /\ r.pc = core.clients[c].pc
      /\ r.qMsg = Append(q, m) /\ r.open = core.clients[c].open
      /\ r.socket = core.clients[c].socket
  BY <1>1, <1>2 DEF ItoClient
<1>4. core' = [core EXCEPT !.clients[c] = r] /\ abs' = [abs EXCEPT !.sent = @ \cup {m}]
  BY DEF sendMessage, TypeOK, ServerType
<1> HIDE DEF r
<1>5. core' \in ServerType /\ core'.clients[c] = r
  BY <1>3, <1>4, LocalType
<1>6. /\ core'.sender = core.sender /\ core'.hClients = core.hClients
      /\ \A d \in Clients \ {c} : core'.clients[d] = core.clients[d]
  BY <1>4 DEF TypeOK, ServerType
<1>7. /\ abs' \in HappenedType /\ abs'.sent = abs.sent \cup {m} /\ abs'.handled = abs.handled
      /\ abs'.deletedEarly = abs.deletedEarly /\ abs'.inside = abs.inside
  BY <1>4 DEF TypeOK, HappenedType
<1>8. /\ core.sender[m] = None /\ ~ Handled(m) /\ ~ Queued(m)
  BY DEF OnePlace
<1>9. LockHeld'
  <2>1. \A d \in Clients : /\ core'.clients[d].lock = core.clients[d].lock
                           /\ core'.clients[d].pc = core.clients[d].pc
    BY <1>3, <1>5, <1>6
  <2> QED BY <1>6, <1>7, <2>1 DEF LockHeld
<1>10. SocketsKnown'
  <2>1. Append(q, m) # << >>
    BY <1>2
  <2> HIDE DEF q
  <2> QED BY <1>3, <1>5, <1>6, <2>1 DEF SocketsKnown
<1>11. OnePlace'
  <2> DEFINE g == core'.clients[c].qMsg
             last == Len(q) + 1
  <2>1. g = Append(q, m)
    BY <1>3, <1>5
  <2>2. /\ DOMAIN g = DOMAIN q \cup {last} /\ last \notin DOMAIN q /\ g[last] = m
        /\ \A i \in DOMAIN q : g[i] = q[i]
    BY <1>2, <2>1
  <2>3. \A d \in Clients \ {c} : core'.clients[d].qMsg = core.clients[d].qMsg
    BY <1>6
  <2> HIDE DEF last, g
  <2>4. \A d \in Clients : \A i \in DOMAIN core.clients[d].qMsg : core.clients[d].qMsg[i] # m
    BY <1>8 DEF Queued
  <2>5. ASSUME NEW d1 \in Clients, NEW d2 \in Clients,
               NEW i \in DOMAIN core'.clients[d1].qMsg, NEW j \in DOMAIN core'.clients[d2].qMsg,
               core'.clients[d1].qMsg[i] = core'.clients[d2].qMsg[j]
        PROVE  d1 = d2 /\ i = j
    <3>1. \/ d1 = c /\ i = last /\ core'.clients[d1].qMsg[i] = m
          \/ i \in DOMAIN core.clients[d1].qMsg /\ core'.clients[d1].qMsg[i] = core.clients[d1].qMsg[i]
      BY <2>2, <2>3 DEF g
    <3>2. \/ d2 = c /\ j = last /\ core'.clients[d2].qMsg[j] = m
          \/ j \in DOMAIN core.clients[d2].qMsg /\ core'.clients[d2].qMsg[j] = core.clients[d2].qMsg[j]
      BY <2>2, <2>3 DEF g
    <3> HIDE DEF q
    <3> QED BY <2>4, <2>5, <3>1, <3>2 DEF OnePlace
  <2>6. \A n \in Senders : Queued(n)' <=> Queued(n) \/ n = m
    <3> SUFFICES ASSUME NEW n \in Senders PROVE Queued(n)' <=> Queued(n) \/ n = m
      OBVIOUS
    <3>1. ASSUME Queued(n)' PROVE Queued(n) \/ n = m
      <4>1. PICK d \in Clients : \E i \in DOMAIN core'.clients[d].qMsg : core'.clients[d].qMsg[i] = n
        BY <3>1 DEF Queued
      <4>2. PICK i \in DOMAIN core'.clients[d].qMsg : core'.clients[d].qMsg[i] = n
        BY <4>1
      <4>3. \/ core'.clients[d].qMsg[i] = m
            \/ i \in DOMAIN core.clients[d].qMsg /\ core'.clients[d].qMsg[i] = core.clients[d].qMsg[i]
        BY <2>2, <2>3 DEF g
      <4> QED BY <4>2, <4>3 DEF Queued
    <3>2. Queued(m)'
      BY <2>2 DEF Queued, g
    <3>3. ASSUME Queued(n) PROVE Queued(n)'
      <4>1. PICK d \in Clients : \E i \in DOMAIN core.clients[d].qMsg : core.clients[d].qMsg[i] = n
        BY <3>3 DEF Queued
      <4>2. PICK i \in DOMAIN core.clients[d].qMsg : core.clients[d].qMsg[i] = n
        BY <4>1
      <4>3. i \in DOMAIN core'.clients[d].qMsg /\ core'.clients[d].qMsg[i] = n
        BY <2>2, <2>3, <4>2 DEF g
      <4> QED BY <4>3 DEF Queued
    <3> QED BY <3>1, <3>2, <3>3
  <2>7. \A n \in Senders : Handled(n)' <=> Handled(n)
    BY <1>7 DEF Handled
  <2>8. /\ \A n \in Senders : Handled(n)' => core'.sender[n] = None /\ ~ Queued(n)'
        /\ \A n \in Senders : core'.sender[n] # None => ~ Queued(n)'
        /\ \A n \in Senders : n \in abs'.sent <=> Handled(n)' \/ Queued(n)' \/ core'.sender[n] # None
    BY <1>6, <1>7, <1>8, <2>6, <2>7 DEF OnePlace
  <2>9. \A j, k \in DOMAIN abs'.handled : abs'.handled[j] = abs'.handled[k] => j = k
    BY <1>7 DEF OnePlace
  <2> QED BY <2>5, <2>8, <2>9 DEF OnePlace
<1> QED BY <1>5, <1>7, <1>9, <1>10, <1>11 DEF TypeOK

(* A sender has handled its message and gives imProto back.                *)
LEMMA SendDoneInv ==
  ASSUME NamesApart, Inv, NEW m \in Senders, SendDone(m)
  PROVE  Inv'
<1> USE DEF NamesApart, Nobody, None, Inv
<1> DEFINE c == core.sender[m]
           r == [core.clients[c] EXCEPT !.lock = Nobody]
<1>1. c \in Clients
  BY DEF SendDone, TypeOK, ServerType
<1>2. core.clients[c] \in ItoClient /\ core.clients[c].lock = m
  BY <1>1 DEF TypeOK, ServerType, LockHeld
<1>3. /\ r \in ItoClient /\ r.lock = Nobody /\ r.pc = core.clients[c].pc
      /\ r.qMsg = core.clients[c].qMsg /\ r.open = core.clients[c].open
      /\ r.socket = core.clients[c].socket
  BY <1>2 DEF ItoClient
<1>4. /\ core' = [core EXCEPT !.sender[m] = None, !.clients[c].lock = Nobody]
      /\ abs' = [abs EXCEPT !.inside[c] = @ \ {m}, !.handled = Append(@, m)]
  BY DEF SendDone
<1>5. core' = [core EXCEPT !.sender[m] = None, !.clients[c] = r]
  BY <1>1, <1>4 DEF TypeOK, ServerType
<1>6. c = core.sender[m]
  OBVIOUS
<1> HIDE DEF r, c
<1>7. core' \in ServerType
  BY <1>3, <1>5 DEF TypeOK, ServerType
<1>8. /\ core'.clients[c] = r /\ core'.sender[m] = None /\ core'.hClients = core.hClients
      /\ \A d \in Clients \ {c} : core'.clients[d] = core.clients[d]
      /\ \A n \in Senders \ {m} : core'.sender[n] = core.sender[n]
  BY <1>1, <1>3, <1>5 DEF TypeOK, ServerType
<1>9. /\ abs'.sent = abs.sent /\ abs'.handled = Append(abs.handled, m)
      /\ abs'.deletedEarly = abs.deletedEarly
      /\ abs'.inside[c] = abs.inside[c] \ {m}
      /\ \A d \in Clients \ {c} : abs'.inside[d] = abs.inside[d]
  BY <1>1, <1>4 DEF TypeOK, HappenedType
<1>10. abs' \in HappenedType
  <2>1. Append(abs.handled, m) \in Seq(Senders)
    BY HandledAppend DEF TypeOK, HappenedType
  <2> QED BY <1>4, <2>1 DEF TypeOK, HappenedType
<1>11. core.sender[m] # None /\ ~ Handled(m) /\ ~ Queued(m) /\ m \in abs.sent
  BY <1>1, <1>6 DEF OnePlace
<1>12. LockHeld'
  <2> SUFFICES ASSUME NEW d \in Clients
               PROVE  /\ core'.clients[d].lock = "client" <=> core'.clients[d].pc \in InProtocol
                      /\ \A n \in Senders : core'.clients[d].lock = n <=> core'.sender[n] = d
                      /\ core'.clients[d].lock = Nobody => abs'.inside[d] = {}
                      /\ core'.clients[d].lock # Nobody => abs'.inside[d] = {core'.clients[d].lock}
    BY DEF LockHeld
  <2>1. CASE d = c
    <3>1. \A n \in Senders : core.sender[n] = c => n = m
      BY <1>1, <1>2 DEF LockHeld
    <3>2. abs'.inside[c] = {}
      BY <1>1, <1>2, <1>9 DEF LockHeld
    <3>3. core.clients[c].pc \notin InProtocol
      BY <1>1, <1>2 DEF LockHeld
    <3>4. core'.clients[c].lock = Nobody /\ core'.clients[c].pc = core.clients[c].pc
      BY <1>3, <1>8
    <3>5. \A n \in Senders : core'.sender[n] # c
      BY <1>1, <1>8, <3>1
    <3> QED BY <2>1, <3>2, <3>3, <3>4, <3>5
  <2>2. CASE d # c
    <3>1. core'.clients[d] = core.clients[d] /\ abs'.inside[d] = abs.inside[d]
      BY <2>2, <1>8, <1>9
    <3>2. \A n \in Senders : core'.sender[n] = d <=> core.sender[n] = d
      BY <2>2, <1>6, <1>8
    <3> QED BY <3>1, <3>2 DEF LockHeld
  <2> QED BY <2>1, <2>2
<1>13. SocketsKnown'
  BY <1>3, <1>8 DEF SocketsKnown
<1>14. OnePlace'
  <2>1. \A d \in Clients : core'.clients[d].qMsg = core.clients[d].qMsg
    BY <1>3, <1>8
  <2>2. \A n \in Senders : Queued(n)' <=> Queued(n)
    BY <2>1 DEF Queued
  <2>3. /\ \A n \in Senders : Handled(n)' <=> Handled(n) \/ n = m
        /\ \A j, k \in DOMAIN abs'.handled : abs'.handled[j] = abs'.handled[k] => j = k
    BY <1>9, <1>11, HandleOne
  <2>4. /\ \A n \in Senders : Handled(n)' => core'.sender[n] = None /\ ~ Queued(n)'
        /\ \A n \in Senders : core'.sender[n] # None => ~ Queued(n)'
        /\ \A n \in Senders : n \in abs'.sent <=> Handled(n)' \/ Queued(n)' \/ core'.sender[n] # None
    BY <1>8, <1>9, <1>11, <2>2, <2>3 DEF OnePlace
  <2>5. \A d1, d2 \in Clients :
          \A i \in DOMAIN core'.clients[d1].qMsg, j \in DOMAIN core'.clients[d2].qMsg :
            core'.clients[d1].qMsg[i] = core'.clients[d2].qMsg[j] => d1 = d2 /\ i = j
    BY <2>1 DEF OnePlace
  <2> QED BY <2>3, <2>4, <2>5 DEF OnePlace
<1> QED BY <1>7, <1>9, <1>10, <1>12, <1>13, <1>14 DEF TypeOK

(* Every step keeps the invariant. *)
LEMMA NextInv == ASSUME NamesApart, Inv, [Next]_vars PROVE Inv'
<1>1. CASE addClient
  BY <1>1, AddClientInv
<1>2. CASE CleanupTake \/ CleanupJoin
  BY <1>2, CleanupInv
<1>3. CASE Send
  <2>1. PICK m \in Senders, c \in Clients :
          /\ m \notin abs.sent /\ core.clients[c].pc \in {"new", "loop", "message", "ready", "input"}
          /\ sendMessage(m, c)
    BY <1>3 DEF Send
  <2>2. core.clients[c].pc # "none"
    BY <2>1
  <2> QED BY <2>1, <2>2, SendAtOnceInv, SendQueuedInv
<1>4. ASSUME NEW m \in Senders, SendDone(m) PROVE Inv'
  BY <1>4, SendDoneInv
<1>5. ASSUME NEW c \in Clients, ClientStep(c) PROVE Inv'
  <2>1. CASE NewConnection(c)
    BY <2>1, EnterInv DEF NewConnection, InProtocol, Serving
  <2>2. CASE MessageEnter(c)
    BY <2>2, EnterInv DEF MessageEnter, InProtocol, Serving
  <2>3. CASE InputEnter(c)
    BY <2>3, EnterInv DEF InputEnter, InProtocol, Serving
  <2>4. CASE ClosedConnection(c)
    BY <2>4, EnterInv DEF ClosedConnection, InProtocol, Serving
  <2>5. CASE NewConnectionDone(c)
    <3>1. /\ core.clients[c] \in ItoClient
          /\ [core.clients[c] EXCEPT !.pc = "loop"]
               = [core.clients[c] EXCEPT !.pc = "loop", !.open = core.clients[c].open]
      BY DEF Inv, TypeOK, ServerType, ItoClient
    <3>2. core.clients[c].open \in BOOLEAN /\ core.clients[c].open
      BY <2>5, <3>1 DEF ItoClient, NewConnectionDone, Leave, At, Inv, SocketsKnown, Serving
    <3> QED BY <2>5, <3>1, <3>2, LeaveInv DEF NewConnectionDone, InProtocol
  <2>6. CASE MessageDone(c)
    BY <2>6, MessageDoneInv
  <2>7. CASE MessagesDone(c) \/ NoInput(c) \/ clientCleanup(c)
    BY <2>7, QuietInv
  <2>8. CASE InputDone(c)
    <3>1. PICK open \in BOOLEAN :
            /\ Leave(c, "input", [core.clients[c] EXCEPT !.pc = IF open THEN "loop" ELSE "closing", !.open = open])
            /\ abs' = [abs EXCEPT !.inside[c] = @ \ {"client"}]
      BY <2>8 DEF InputDone
    <3> DEFINE to == IF open THEN "loop" ELSE "closing"
    <3>2. core.clients[c].open
      BY <3>1 DEF Leave, At, Inv, SocketsKnown, Serving
    <3>3. to \in {"loop", "closing", "cleanup"} /\ (to = "loop" => open) /\ "input" \in InProtocol
      BY DEF InProtocol
    <3>4. Leave(c, "input", [core.clients[c] EXCEPT !.pc = to, !.open = open])
      BY <3>1
    <3> HIDE DEF to
    <3> QED BY <3>1, <3>2, <3>3, <3>4, LeaveInv
  <2>9. CASE ClosedConnectionDone(c)
    <3>1. /\ core.clients[c] \in ItoClient
          /\ [core.clients[c] EXCEPT !.pc = "cleanup"]
               = [core.clients[c] EXCEPT !.pc = "cleanup", !.open = core.clients[c].open]
      BY DEF Inv, TypeOK, ServerType, ItoClient
    <3>2. core.clients[c].open \in BOOLEAN
      BY <3>1 DEF ItoClient
    <3> QED BY <2>9, <3>1, <3>2, LeaveInv DEF ClosedConnectionDone, InProtocol
  <2> QED BY <1>5, <2>1, <2>2, <2>3, <2>4, <2>5, <2>6, <2>7, <2>8, <2>9 DEF ClientStep
<1>6. CASE UNCHANGED vars
  BY <1>6 DEF vars, Inv, TypeOK, LockHeld, SocketsKnown, OnePlace, Handled, Queued
<1> QED BY <1>1, <1>2, <1>3, <1>4, <1>5, <1>6 DEF Next, ServerStep, SenderStep

(* From the connection on to its place in the queue for the clean-up. *)
Alive == Serving \cup {"closing", "closed", "cleanup"}

(* What hClients has is a client of that socket; it is the only one there  *)
(* that is not queued for the clean-up yet, when the socket was not reused *)
(* too early; and then every client is queued and deleted once.            *)
Clean ==
  /\ \A s \in Sockets : core.hClients[s] # None => core.clients[core.hClients[s]].socket = s
  /\ \A d \in Clients : core.clients[d].pc = "none" => core.clients[d].socket = None
  /\ \A d \in Clients :
       core.clients[d].socket \notin abs.reused /\ core.clients[d].pc \in Alive =>
         core.hClients[core.clients[d].socket] = d
  /\ \A d \in Clients :
       core.clients[d].socket \notin abs.reused => CleanedOnce(d) /\ d \notin abs.twice

(* The queue and the tables of the clean-up stay as they are. *)
QueueKept ==
  /\ core'.hClients = core.hClients /\ core'.qClientCleanup = core.qClientCleanup
  /\ core'.taken = core.taken /\ abs'.reused = abs.reused /\ abs'.twice = abs.twice

(* A new server has nothing to clean up. *)
LEMMA InitClean == ASSUME NamesApart, Init PROVE Clean
<1>1. /\ \A s \in Sockets : core.hClients[s] = None
      /\ core.qClientCleanup = << >> /\ core.taken = None /\ abs.twice = {}
      /\ \A d \in Clients : core.clients[d].pc = "none" /\ core.clients[d].socket = None
  BY DEF Init, Fresh
<1>2. \A d \in Clients : CleanedOnce(d)
  BY <1>1 DEF NamesApart, CleanedOnce, Waiting, At, Range
<1> QED BY <1>1, <1>2 DEF Clean, Alive, Serving

(* A step that queues nobody, takes nobody and reuses no socket. *)
LEMMA CleanKept ==
  ASSUME Clean, QueueKept,
         \A d \in Clients :
           /\ core'.clients[d].socket = core.clients[d].socket
           /\ core'.clients[d].pc = core.clients[d].pc
                \/ (core'.clients[d].pc \in Alive /\ core.clients[d].pc \in Alive),
         \A s \in Sockets : core.hClients[s] \in Clients \cup {None}
  PROVE  Clean'
<1>1. \A d \in Clients :
        /\ core'.clients[d].pc \in Alive <=> core.clients[d].pc \in Alive
        /\ core'.clients[d].pc = "ended" <=> core.clients[d].pc = "ended"
        /\ core'.clients[d].pc = "none" <=> core.clients[d].pc = "none"
  BY DEF Alive, Serving
<1>2. \A d \in Clients : CleanedOnce(d)' <=> CleanedOnce(d)
  BY <1>1 DEF QueueKept, CleanedOnce, Waiting, At
<1>3. \A s \in Sockets : core'.hClients[s] # None => core'.clients[core'.hClients[s]].socket = s
  BY DEF QueueKept, Clean
<1>4. /\ \A d \in Clients : core'.clients[d].pc = "none" => core'.clients[d].socket = None
      /\ \A d \in Clients :
           core'.clients[d].socket \notin abs'.reused /\ core'.clients[d].pc \in Alive =>
             core'.hClients[core'.clients[d].socket] = d
  BY <1>1 DEF QueueKept, Clean
<1>5. \A d \in Clients : core'.clients[d].socket \notin abs'.reused => CleanedOnce(d)' /\ d \notin abs'.twice
  BY <1>2 DEF QueueKept, Clean
<1> QED BY <1>3, <1>4, <1>5 DEF Clean

(* The thread of one client goes on, from a place before the clean-up to   *)
(* such a place.                                                           *)
LEMMA CleanLocal ==
  ASSUME Inv, Clean, NEW c \in Clients, NEW r, core' = [core EXCEPT !.clients[c] = r],
         r.socket = core.clients[c].socket, r.pc \in Alive, core.clients[c].pc \in Alive,
         abs'.reused = abs.reused, abs'.twice = abs.twice
  PROVE  Clean'
<1>1. /\ core'.clients[c] = r
      /\ \A d \in Clients \ {c} : core'.clients[d] = core.clients[d]
      /\ core'.hClients = core.hClients /\ core'.qClientCleanup = core.qClientCleanup
      /\ core'.taken = core.taken
  BY DEF Inv, TypeOK, ServerType
<1>2. QueueKept
  BY <1>1 DEF QueueKept
<1>3. \A d \in Clients :
        /\ core'.clients[d].socket = core.clients[d].socket
        /\ core'.clients[d].pc = core.clients[d].pc
             \/ (core'.clients[d].pc \in Alive /\ core.clients[d].pc \in Alive)
  BY <1>1
<1>4. \A s \in Sockets : core.hClients[s] \in Clients \cup {None}
  BY DEF Inv, TypeOK, ServerType
<1> QED BY <1>2, <1>3, <1>4, CleanKept

(* A client and the fields that its thread changes. *)
LEMMA ClientFields ==
  ASSUME Inv, NEW c \in Clients
  PROVE  /\ core.clients[c] \in ItoClient
         /\ \A pc, lock : /\ [core.clients[c] EXCEPT !.pc = pc].pc = pc
                          /\ [core.clients[c] EXCEPT !.pc = pc].socket = core.clients[c].socket
                          /\ [core.clients[c] EXCEPT !.pc = pc, !.lock = lock].pc = pc
                          /\ [core.clients[c] EXCEPT !.pc = pc, !.lock = lock].socket = core.clients[c].socket
  BY DEF Inv, TypeOK, ServerType, ItoClient

(* The thread takes imProto, and the queue stays as it is. *)
LEMMA EnterClean ==
  ASSUME Inv, Clean, NEW c \in Clients, NEW from \in Alive, NEW to \in Alive, Enter(c, from, to)
  PROVE  Clean'
<1> DEFINE r == [core.clients[c] EXCEPT !.pc = to, !.lock = "client"]
<1>1. core' = [core EXCEPT !.clients[c] = r] /\ core.clients[c].pc = from
  BY DEF Enter, At, Inv, TypeOK, ServerType
<1>2. r.pc = to /\ r.socket = core.clients[c].socket
  BY ClientFields
<1>3. abs'.reused = abs.reused /\ abs'.twice = abs.twice
  BY DEF Enter, Inv, TypeOK, HappenedType
<1> HIDE DEF r
<1> QED BY <1>1, <1>2, <1>3, CleanLocal

(* The thread gives imProto back, and the queue stays as it is. *)
LEMMA LeaveClean ==
  ASSUME Inv, Clean, NEW c \in Clients, NEW from \in Alive, NEW cs \in ItoClient, cs.pc \in Alive,
         cs.socket = core.clients[c].socket, Leave(c, from, cs),
         abs'.reused = abs.reused, abs'.twice = abs.twice
  PROVE  Clean'
<1> DEFINE r == [cs EXCEPT !.lock = Nobody]
<1>1. core' = [core EXCEPT !.clients[c] = r] /\ core.clients[c].pc = from
  BY DEF Leave, At
<1>2. r.pc = cs.pc /\ r.socket = cs.socket
  BY DEF ItoClient
<1> HIDE DEF r
<1> QED BY <1>1, <1>2, CleanLocal

(* The thread goes on outside the protocol. *)
LEMMA MoveClean ==
  ASSUME Inv, Clean, NEW c \in Clients, MessagesDone(c) \/ NoInput(c)
  PROVE  Clean'
<1>1. PICK to \in {"ready", "loop"} : core' = [core EXCEPT !.clients[c].pc = to]
  BY DEF MessagesDone, NoInput
<1> DEFINE r == [core.clients[c] EXCEPT !.pc = to]
<1>2. core' = [core EXCEPT !.clients[c] = r]
  BY <1>1 DEF Inv, TypeOK, ServerType
<1>3. r.pc = to /\ r.socket = core.clients[c].socket
  BY ClientFields
<1>4. core.clients[c].pc \in Alive /\ to \in Alive /\ abs' = abs
  BY DEF MessagesDone, NoInput, At, Alive, Serving
<1> HIDE DEF r
<1> QED BY <1>2, <1>3, <1>4, CleanLocal

(* A sender is not about the clean-up. *)
LEMMA SenderClean ==
  ASSUME NamesApart, Inv, Clean, Send \/ \E m \in Senders : SendDone(m)
  PROVE  Clean'
<1>1. core.clients \in [Clients -> ItoClient] /\ core.sender \in [Senders -> Clients \cup {None}]
  BY DEF Inv, TypeOK, ServerType
<1>2. /\ core'.hClients = core.hClients /\ core'.qClientCleanup = core.qClientCleanup
      /\ core'.taken = core.taken /\ abs'.reused = abs.reused /\ abs'.twice = abs.twice
  <2>1. CASE Send
    <3>1. PICK m \in Senders, c \in Clients : sendMessage(m, c)
      BY <2>1 DEF Send
    <3>2. CASE Free(c)
      BY <3>1, <3>2 DEF sendMessage, Inv, TypeOK, ServerType, HappenedType
    <3>3. CASE ~ Free(c)
      BY <3>1, <3>3 DEF sendMessage, Inv, TypeOK, ServerType, HappenedType
    <3> QED BY <3>2, <3>3
  <2>2. CASE \E m \in Senders : SendDone(m)
    BY <2>2 DEF SendDone, Inv, TypeOK, ServerType, HappenedType
  <2> QED BY <2>1, <2>2
<1>3. \A d \in Clients : core'.clients[d].socket = core.clients[d].socket
                         /\ core'.clients[d].pc = core.clients[d].pc
  <2>1. CASE Send
    <3>1. PICK m \in Senders, c \in Clients : sendMessage(m, c)
      BY <2>1 DEF Send
    <3>2. CASE Free(c)
      <4>1. core'.clients = [core.clients EXCEPT ![c].lock = m]
        BY <3>1, <3>2 DEF sendMessage, Inv, TypeOK, ServerType
      <4> QED BY <1>1, <4>1 DEF ItoClient
    <3>3. CASE ~ Free(c)
      <4>1. core'.clients = [core.clients EXCEPT ![c].qMsg = Append(core.clients[c].qMsg, m)]
        BY <3>1, <3>3 DEF sendMessage, Inv, TypeOK, ServerType
      <4> QED BY <1>1, <4>1 DEF ItoClient
    <3> QED BY <3>2, <3>3
  <2>2. ASSUME NEW m \in Senders, SendDone(m)
        PROVE  \A d \in Clients : core'.clients[d].socket = core.clients[d].socket
                                 /\ core'.clients[d].pc = core.clients[d].pc
    <3>1. core'.clients = [core.clients EXCEPT ![core.sender[m]].lock = Nobody]
      BY <2>2 DEF SendDone, Inv, TypeOK, ServerType
    <3> QED BY <1>1, <3>1 DEF ItoClient
  <2> QED BY <2>1, <2>2
<1>4. QueueKept
  BY <1>2 DEF QueueKept
<1>5. \A s \in Sockets : core.hClients[s] \in Clients \cup {None}
  BY DEF Inv, TypeOK, ServerType
<1> QED BY <1>3, <1>4, <1>5, CleanKept

(* The queue for the clean-up after a client has joined it. *)
LEMMA QueueAppend ==
  ASSUME NEW q \in Seq(Clients), NEW x \in Clients
  PROVE  /\ Append(q, x) \in Seq(Clients)
         /\ DOMAIN Append(q, x) = DOMAIN q \cup {Len(q) + 1} /\ Len(q) + 1 \notin DOMAIN q
         /\ \A j \in DOMAIN q : Append(q, x)[j] = q[j]
         /\ Append(q, x)[Len(q) + 1] = x
         /\ Range(Append(q, x)) = Range(q) \cup {x}
<1>1. /\ Append(q, x) \in Seq(Clients)
      /\ DOMAIN Append(q, x) = DOMAIN q \cup {Len(q) + 1} /\ Len(q) + 1 \notin DOMAIN q
      /\ \A j \in DOMAIN q : Append(q, x)[j] = q[j]
      /\ Append(q, x)[Len(q) + 1] = x
  OBVIOUS
<1> QED BY <1>1 DEF Range

(* The queue for the clean-up after its first client was taken. *)
LEMMA QueueTaken ==
  ASSUME NEW q \in Seq(Clients), q # << >>
  PROVE  /\ Head(q) \in Clients /\ Tail(q) \in Seq(Clients) /\ 1 \in DOMAIN q /\ q[1] = Head(q)
         /\ \A j \in DOMAIN Tail(q) : j \in Int /\ j + 1 \in DOMAIN q /\ Tail(q)[j] = q[j + 1] /\ j + 1 # 1
         /\ \A j \in DOMAIN q : j = 1 \/ (j - 1 \in DOMAIN Tail(q) /\ q[j] = Tail(q)[j - 1])
  OBVIOUS

(* The client at the end of its thread is queued: it is the one that       *)
(* hClients has when its socket was not reused too early.                  *)
LEMMA QueuedClean ==
  ASSUME NamesApart, Inv, Clean, NEW c \in Clients, clientCleanup(c)
  PROVE  Clean'
<1> DEFINE q == core.qClientCleanup
           s == core.clients[c].socket
           x == core.hClients[s]
<1>1. q \in Seq(Clients) /\ core.clients[c].pc = "cleanup" /\ s \in Sockets /\ x \in Clients
  BY DEF clientCleanup, At, Inv, TypeOK, ServerType, SocketsKnown
<1>2. core.clients[x].socket = s
  BY <1>1 DEF NamesApart, Clean
<1>3. s \notin abs.reused => x = c
  BY <1>1 DEF Clean, Alive
<1>4. /\ core'.qClientCleanup = Append(q, x) /\ core'.taken = core.taken
      /\ core'.hClients = core.hClients /\ abs' = abs
  BY DEF clientCleanup, Inv, TypeOK, ServerType
<1>5. \A d \in Clients : /\ core'.clients[d].socket = core.clients[d].socket
                         /\ core'.clients[d].pc = IF d = c THEN "ended" ELSE core.clients[d].pc
  <2>1. core'.clients = [core.clients EXCEPT ![c].pc = "ended"] /\ core.clients \in [Clients -> ItoClient]
    BY DEF clientCleanup, Inv, TypeOK, ServerType
  <2> QED BY <2>1 DEF ItoClient
<1>6. /\ DOMAIN Append(q, x) = DOMAIN q \cup {Len(q) + 1} /\ Len(q) + 1 \notin DOMAIN q
      /\ \A j \in DOMAIN q : Append(q, x)[j] = q[j]
      /\ Append(q, x)[Len(q) + 1] = x
      /\ Range(Append(q, x)) = Range(q) \cup {x}
  BY <1>1, QueueAppend
<1>7. ASSUME NEW d \in Clients, core.clients[d].socket \notin abs.reused
      PROVE  CleanedOnce(d)'
  <2>1. CleanedOnce(d)
    BY <1>7 DEF Clean
  <2>2. CASE d = c
    <3>1. x = c /\ ~ Waiting(c) /\ core.taken # c
      BY <1>1, <1>3, <1>7, <2>1, <2>2 DEF CleanedOnce, At
    <3>2. \A j \in DOMAIN q : q[j] # c
      BY <3>1 DEF Waiting, Range
    <3> HIDE DEF q, x, s
    <3>3. \A j, k \in DOMAIN Append(q, x) : Append(q, x)[j] = c /\ Append(q, x)[k] = c => j = k
      BY <1>6, <3>2
    <3>4. Waiting(c)' /\ core'.taken # c /\ core'.clients[c].pc = "ended"
      BY <1>4, <1>5, <1>6, <3>1 DEF Waiting
    <3> QED BY <1>4, <2>2, <3>3, <3>4 DEF CleanedOnce, At
  <2>3. CASE d # c
    <3>1. x # d
      BY <1>2, <1>3, <1>7, <2>3
    <3> HIDE DEF q, x, s
    <3>2. Waiting(d)' <=> Waiting(d)
      BY <1>4, <1>6, <3>1 DEF Waiting, q
    <3>3. \A j, k \in DOMAIN Append(q, x) : Append(q, x)[j] = d /\ Append(q, x)[k] = d => j = k
      BY <1>6, <2>1, <3>1 DEF CleanedOnce, q
    <3>4. core'.clients[d].pc = core.clients[d].pc
      BY <1>5, <2>3
    <3> QED BY <1>4, <2>1, <3>2, <3>3, <3>4 DEF CleanedOnce, At
  <2> QED BY <2>2, <2>3
<1>8. \A t \in Sockets : core'.hClients[t] # None => core'.clients[core'.hClients[t]].socket = t
  <2>1. \A t \in Sockets : core.hClients[t] \in Clients \cup {None}
    BY DEF Inv, TypeOK, ServerType
  <2> QED BY <1>4, <1>5, <2>1 DEF Clean
<1>9. \A d \in Clients : /\ core'.clients[d].pc = "none" => core.clients[d].pc = "none"
                         /\ core'.clients[d].pc \in Alive => core.clients[d].pc \in Alive
  BY <1>5 DEF Alive, Serving
<1>10. /\ \A d \in Clients : core'.clients[d].pc = "none" => core'.clients[d].socket = None
       /\ \A d \in Clients :
            core'.clients[d].socket \notin abs'.reused /\ core'.clients[d].pc \in Alive =>
              core'.hClients[core'.clients[d].socket] = d
  BY <1>4, <1>5, <1>9 DEF Clean
<1>11. \A d \in Clients : core'.clients[d].socket \notin abs'.reused => CleanedOnce(d)' /\ d \notin abs'.twice
  BY <1>4, <1>5, <1>7 DEF Clean
<1> QED BY <1>8, <1>10, <1>11 DEF Clean

(* The server takes the first client of the queue, which is there once. *)
LEMMA TakenClean ==
  ASSUME NamesApart, Inv, Clean, CleanupTake
  PROVE  Clean'
<1> DEFINE q == core.qClientCleanup
           h == Head(q)
<1>1. q \in Seq(Clients) /\ q # << >> /\ core.taken = None
  BY DEF CleanupTake, Inv, TypeOK, ServerType
<1>2. /\ core'.qClientCleanup = Tail(q) /\ core'.taken = h
      /\ core'.clients = core.clients /\ core'.hClients = core.hClients /\ abs' = abs
  BY DEF CleanupTake, Inv, TypeOK, ServerType
<1>3. /\ h \in Clients /\ 1 \in DOMAIN q /\ q[1] = h
      /\ \A j \in DOMAIN Tail(q) : j \in Int /\ j + 1 \in DOMAIN q /\ Tail(q)[j] = q[j + 1] /\ j + 1 # 1
      /\ \A j \in DOMAIN q : j = 1 \/ (j - 1 \in DOMAIN Tail(q) /\ q[j] = Tail(q)[j - 1])
  BY <1>1, QueueTaken
<1>4. ASSUME NEW d \in Clients, core.clients[d].socket \notin abs.reused
      PROVE  CleanedOnce(d)'
  <2>1. CleanedOnce(d)
    BY <1>4 DEF Clean
  <2>2. core.taken # d
    BY <1>1 DEF NamesApart
  <2>3. \A j, k \in DOMAIN q : q[j] = d /\ q[k] = d => j = k
    BY <2>1 DEF CleanedOnce
  <2>4. Waiting(d) <=> \E j \in DOMAIN q : q[j] = d
    BY DEF Waiting, Range
  <2>5. Waiting(d)' <=> \E j \in DOMAIN Tail(q) : Tail(q)[j] = d
    BY <1>2 DEF Waiting, Range
  <2>6. \A j, k \in DOMAIN Tail(q) : Tail(q)[j] = d /\ Tail(q)[k] = d => j = k
    <3>1. SUFFICES ASSUME NEW j \in DOMAIN Tail(q), NEW k \in DOMAIN Tail(q), Tail(q)[j] = d, Tail(q)[k] = d
                   PROVE  j = k
      OBVIOUS
    <3>2. j \in Int /\ k \in Int /\ j + 1 = k + 1
      BY <1>3, <2>3, <3>1
    <3> QED BY <3>2
  <2>7. Waiting(d)' <=> Waiting(d) /\ h # d
    <3> HIDE DEF h
    <3>1. ASSUME Waiting(d)' PROVE Waiting(d) /\ h # d
      <4>1. PICK j \in DOMAIN Tail(q) : Tail(q)[j] = d
        BY <2>5, <3>1
      <4>2. j + 1 \in DOMAIN q /\ q[j + 1] = d /\ j + 1 # 1
        BY <1>3, <4>1
      <4> QED BY <1>3, <2>3, <2>4, <4>2
    <3>2. ASSUME Waiting(d), h # d PROVE Waiting(d)'
      <4>1. PICK j \in DOMAIN q : q[j] = d
        BY <2>4, <3>2
      <4>2. j # 1
        BY <1>3, <3>2, <4>1
      <4> QED BY <1>3, <2>5, <4>1, <4>2
    <3> QED BY <3>1, <3>2
  <2>8. h = d => Waiting(d)
    BY <1>3, <2>4
  <2>9. At(d, "ended")' <=> At(d, "ended")
    BY <1>2 DEF At
  <2> HIDE DEF q, h
  <2> QED BY <1>2, <2>1, <2>2, <2>6, <2>7, <2>8, <2>9 DEF CleanedOnce
<1> HIDE DEF q, h
<1>5. \A d \in Clients : core'.clients[d].socket \notin abs'.reused => CleanedOnce(d)' /\ d \notin abs'.twice
  BY <1>2, <1>4 DEF Clean
<1> QED BY <1>2, <1>5 DEF Clean

(* The client that the server took is deleted. *)
LEMMA JoinedClean ==
  ASSUME NamesApart, Inv, Clean, CleanupJoin
  PROVE  Clean'
<1> DEFINE c == core.taken
<1>1. c \in Clients /\ c # None
  BY DEF CleanupJoin, Inv, TypeOK, ServerType
<1>2. /\ core'.qClientCleanup = core.qClientCleanup /\ core'.taken = None
      /\ core'.hClients = core.hClients /\ abs'.reused = abs.reused
  BY DEF CleanupJoin, Inv, TypeOK, ServerType, HappenedType
<1>3. /\ abs'.twice = IF core.clients[c].pc = "ended" THEN abs.twice ELSE abs.twice \cup {c}
      /\ core.clients[c].pc \in {"ended", "deleted"}
  BY DEF CleanupJoin, At, Inv, TypeOK, HappenedType
<1>4. \A d \in Clients : /\ core'.clients[d].socket = core.clients[d].socket
                         /\ core'.clients[d].pc = IF d = c THEN "deleted" ELSE core.clients[d].pc
  <2>1. core.clients \in [Clients -> ItoClient]
    BY DEF Inv, TypeOK, ServerType
  <2>2. CASE At(c, "ended")
    <3>1. core'.clients = [core.clients EXCEPT ![c].pc = "deleted"]
      BY <2>2 DEF CleanupJoin, At, Inv, TypeOK, ServerType
    <3> QED BY <1>1, <2>1, <3>1 DEF ItoClient
  <2>3. CASE ~ At(c, "ended")
    <3>1. core'.clients = core.clients /\ core.clients[c].pc = "deleted"
      BY <2>3 DEF CleanupJoin, At, Inv, TypeOK, ServerType
    <3> QED BY <3>1
  <2> QED BY <2>2, <2>3
<1>5. ASSUME NEW d \in Clients, core.clients[d].socket \notin abs.reused
      PROVE  CleanedOnce(d)' /\ d \notin abs'.twice
  <2>1. CleanedOnce(d) /\ d \notin abs.twice
    BY <1>5 DEF Clean
  <2>2. Waiting(d)' <=> Waiting(d)
    BY <1>2 DEF Waiting
  <2>3. core'.taken # d
    BY <1>2 DEF NamesApart
  <2>4. CASE d = c
    <3>1. core.clients[d].pc = "ended" /\ ~ Waiting(d)
      BY <2>1, <2>4 DEF CleanedOnce, At
    <3>2. ~ At(d, "ended")' /\ d \notin abs'.twice
      BY <1>3, <1>4, <2>1, <2>4, <3>1 DEF At
    <3> QED BY <1>2, <2>1, <2>2, <2>3, <3>1, <3>2 DEF CleanedOnce
  <2>5. CASE d # c
    <3>1. (At(d, "ended")' <=> At(d, "ended")) /\ d \notin abs'.twice
      BY <1>3, <1>4, <2>1, <2>5 DEF At
    <3> QED BY <1>2, <2>1, <2>2, <2>3, <2>5, <3>1 DEF CleanedOnce
  <2> QED BY <2>4, <2>5
<1>6. \A t \in Sockets : core'.hClients[t] # None => core'.clients[core'.hClients[t]].socket = t
  <2>1. \A t \in Sockets : core.hClients[t] \in Clients \cup {None}
    BY DEF Inv, TypeOK, ServerType
  <2> QED BY <1>2, <1>4, <2>1 DEF Clean
<1>7. \A d \in Clients : /\ core'.clients[d].pc = "none" => core.clients[d].pc = "none"
                         /\ core'.clients[d].pc \in Alive => core.clients[d].pc \in Alive
  BY <1>4 DEF Alive, Serving
<1>8. /\ \A d \in Clients : core'.clients[d].pc = "none" => core'.clients[d].socket = None
      /\ \A d \in Clients :
           core'.clients[d].socket \notin abs'.reused /\ core'.clients[d].pc \in Alive =>
             core'.hClients[core'.clients[d].socket] = d
  BY <1>2, <1>4, <1>7 DEF Clean
<1>9. \A d \in Clients : core'.clients[d].socket \notin abs'.reused => CleanedOnce(d)' /\ d \notin abs'.twice
  BY <1>2, <1>4, <1>5
<1> QED BY <1>6, <1>8, <1>9 DEF Clean

(* A new connection on a socket that nobody is leaving is the only client  *)
(* of that socket that is not queued yet.                                  *)
LEMMA AddedClean ==
  ASSUME NamesApart, Inv, Clean, addClient
  PROVE  Clean'
<1> USE DEF NamesApart
<1>1. PICK c \in Clients, s \in Sockets :
        /\ At(c, "none") /\ core.taken = None
        /\ \A d \in Clients : core.clients[d].socket = s => ~core.clients[d].open
        /\ core' = [core EXCEPT !.clients[c] = [Fresh EXCEPT !.pc = "start", !.open = TRUE, !.socket = s],
                               !.hClients[s] = c]
        /\ abs' = [abs EXCEPT !.reused = IF \E d \in Clients : core.clients[d].socket = s /\ Leaving(d)
                                         THEN @ \cup {s} ELSE @]
  BY DEF addClient
<1> DEFINE r == [Fresh EXCEPT !.pc = "start", !.open = TRUE, !.socket = s]
<1>2. r.pc = "start" /\ r.socket = s
  BY DEF Fresh
<1>3. core' = [core EXCEPT !.clients[c] = r, !.hClients[s] = c]
  BY <1>1
<1> HIDE DEF r
<1>4. /\ core'.clients[c] = r /\ core'.hClients[s] = c
      /\ core'.qClientCleanup = core.qClientCleanup /\ core'.taken = core.taken
      /\ \A d \in Clients \ {c} : core'.clients[d] = core.clients[d]
      /\ \A t \in Sockets \ {s} : core'.hClients[t] = core.hClients[t]
  BY <1>3 DEF Inv, TypeOK, ServerType
<1>5. /\ abs.reused \subseteq abs'.reused /\ abs'.twice = abs.twice
      /\ s \notin abs'.reused => \A d \in Clients : core.clients[d].socket = s => ~ Leaving(d)
  BY <1>1 DEF Inv, TypeOK, HappenedType
<1>6. core.clients[c].pc = "none" /\ core.clients[c].socket = None /\ None \notin abs.reused
  BY <1>1 DEF At, Clean, Inv, TypeOK, HappenedType
<1>7. \A t \in Sockets : core'.hClients[t] # None => core'.clients[core'.hClients[t]].socket = t
  <2> SUFFICES ASSUME NEW t \in Sockets, core'.hClients[t] # None
               PROVE  core'.clients[core'.hClients[t]].socket = t
    OBVIOUS
  <2>1. CASE t = s
    BY <1>2, <1>4, <2>1
  <2>2. CASE t # s
    <3>1. core.hClients[t] \in Clients /\ core.clients[core.hClients[t]].socket = t
      BY <1>4, <2>2 DEF Clean, Inv, TypeOK, ServerType
    <3>2. core.hClients[t] # c
      BY <1>6, <3>1
    <3> QED BY <1>4, <2>2, <3>1, <3>2
  <2> QED BY <2>1, <2>2
<1>8. \A d \in Clients : core'.clients[d].pc = "none" => core'.clients[d].socket = None
  BY <1>2, <1>4 DEF Clean
<1>9. ASSUME NEW d \in Clients, core'.clients[d].socket \notin abs'.reused, core'.clients[d].pc \in Alive
      PROVE  core'.hClients[core'.clients[d].socket] = d
  <2>1. CASE d = c
    BY <1>2, <1>4, <2>1
  <2>2. CASE d # c
    <3>1. core'.clients[d] = core.clients[d]
      BY <1>4, <2>2
    <3>2. core.clients[d].socket # s
      <4>1. SUFFICES ASSUME core.clients[d].socket = s PROVE FALSE
        OBVIOUS
      <4>2. ~ core.clients[d].open /\ ~ Leaving(d)
        BY <1>1, <1>5, <1>9, <3>1, <4>1
      <4>3. core.clients[d].pc \notin Serving
        BY <4>2 DEF Inv, SocketsKnown
      <4> QED BY <1>9, <3>1, <4>2, <4>3 DEF Alive, Leaving
    <3>3. core.hClients[core.clients[d].socket] = d /\ core.clients[d].socket \in Sockets
      BY <1>5, <1>9, <3>1 DEF Clean, Inv, SocketsKnown, Alive, Serving
    <3> QED BY <1>4, <3>1, <3>2, <3>3
  <2> QED BY <2>1, <2>2
<1>10. ASSUME NEW d \in Clients, core'.clients[d].socket \notin abs'.reused
       PROVE  CleanedOnce(d)' /\ d \notin abs'.twice
  <2>1. core.clients[d].socket \notin abs.reused
    BY <1>2, <1>4, <1>5, <1>6, <1>10
  <2>2. CleanedOnce(d) /\ d \notin abs.twice
    BY <2>1 DEF Clean
  <2>3. At(d, "ended")' <=> At(d, "ended")
    BY <1>2, <1>4, <1>6 DEF At
  <2> QED BY <1>4, <1>5, <2>2, <2>3 DEF CleanedOnce, Waiting
<1> QED BY <1>7, <1>8, <1>9, <1>10 DEF Clean

(* Every step keeps the second part of the invariant. *)
LEMMA NextClean == ASSUME NamesApart, Inv, Clean, [Next]_vars PROVE Clean'
<1>1. CASE ServerStep
  BY <1>1, AddedClean, TakenClean, JoinedClean DEF ServerStep
<1>2. CASE Send \/ \E m \in Senders : SenderStep(m)
  BY <1>2, SenderClean DEF SenderStep
<1>3. ASSUME NEW c \in Clients, ClientStep(c) PROVE Clean'
  <2> USE DEF Alive, Serving
  <2>1. CASE NewConnection(c) \/ MessageEnter(c) \/ InputEnter(c) \/ ClosedConnection(c)
    BY <2>1, EnterClean DEF NewConnection, MessageEnter, InputEnter, ClosedConnection
  <2>2. CASE NewConnectionDone(c) \/ MessageDone(c) \/ InputDone(c) \/ ClosedConnectionDone(c)
    <3>1. core.clients[c] \in ItoClient /\ abs'.reused = abs.reused /\ abs'.twice = abs.twice
      BY <2>2 DEF Inv, TypeOK, ServerType, HappenedType, NewConnectionDone, MessageDone, InputDone,
                  ClosedConnectionDone
    <3>2. PICK from, cs :
            /\ from \in {"new", "message", "input", "closed"} /\ Leave(c, from, cs)
            /\ \/ \E to \in {"loop", "cleanup"} : cs = [core.clients[c] EXCEPT !.pc = to]
               \/ cs = [core.clients[c] EXCEPT !.pc = "loop", !.qMsg = Tail(@)] /\ from = "message"
               \/ \E open \in BOOLEAN :
                    cs = [core.clients[c] EXCEPT !.pc = IF open THEN "loop" ELSE "closing", !.open = open]
      BY <2>2 DEF NewConnectionDone, MessageDone, InputDone, ClosedConnectionDone
    <3>3. CASE from = "message" /\ cs = [core.clients[c] EXCEPT !.pc = "loop", !.qMsg = Tail(@)]
      <4>1. core.clients[c].qMsg \in Seq(Senders) /\ core.clients[c].qMsg # << >>
        BY <3>1, <3>2, <3>3 DEF ItoClient, Leave, At, Inv, SocketsKnown
      <4>2. Tail(core.clients[c].qMsg) \in Seq(Senders)
        BY <4>1
      <4>3. cs \in ItoClient /\ cs.pc \in Alive /\ cs.socket = core.clients[c].socket
        BY <3>1, <3>3, <4>2 DEF ItoClient
      <4> QED BY <3>1, <3>2, <4>3, LeaveClean
    <3>4. CASE ~ (from = "message" /\ cs = [core.clients[c] EXCEPT !.pc = "loop", !.qMsg = Tail(@)])
      <4>1. cs \in ItoClient /\ cs.pc \in Alive /\ cs.socket = core.clients[c].socket
        BY <3>1, <3>2, <3>4 DEF ItoClient
      <4> QED BY <3>1, <3>2, <4>1, LeaveClean
    <3> QED BY <3>3, <3>4
  <2>3. CASE MessagesDone(c) \/ NoInput(c)
    BY <2>3, MoveClean
  <2>4. CASE clientCleanup(c)
    BY <2>4, QueuedClean
  <2> QED BY <1>3, <2>1, <2>2, <2>3, <2>4 DEF ClientStep
<1>4. CASE UNCHANGED vars
  BY <1>4 DEF vars, Clean, CleanedOnce, Waiting, At
<1> QED BY <1>1, <1>2, <1>3, <1>4 DEF Next

(* What the invariant says of locks, places and the queue is what the       *)
(* property asks.                                                          *)
LEMMA InvMeansKept == ASSUME NamesApart, Inv, Clean PROVE ItoServerKeepsMessages
<1> USE DEF Inv
<1>1. ProtocolIsExclusive
  <2> SUFFICES ASSUME NEW c \in Clients PROVE Cardinality(abs.inside[c]) <= 1
    BY DEF ProtocolIsExclusive
  <2>1. abs.inside[c] = {} \/ \E x : abs.inside[c] = {x}
    <3>1. \/ core.clients[c].lock = Nobody /\ abs.inside[c] = {}
          \/ abs.inside[c] = {core.clients[c].lock}
      BY DEF LockHeld
    <3> QED BY <3>1
  <2>2. Cardinality(abs.inside[c]) \in {0, 1}
    BY <2>1, FS_EmptySet, FS_Singleton
  <2> QED BY <2>2
<1>2. MessagesAreKept
  <2>1. \A m \in Senders : Handled(m) => m \in Range(abs.handled)
    BY DEF Handled, Range
  <2>2. \A m \in Senders : Queued(m) => \E c \in Clients : m \in Range(core.clients[c].qMsg)
    BY DEF Queued, Range
  <2>3. \A m \in abs.sent : m \in Senders
    BY DEF TypeOK, HappenedType
  <2> QED BY <2>1, <2>2, <2>3 DEF OnePlace, MessagesAreKept
<1>3. DeletedAfterItsThread
  BY DEF DeletedAfterItsThread, SocketsKnown, Clean
<1> QED BY <1>1, <1>2, <1>3 DEF ItoServerKeepsMessages

(* However the threads interleave, and however often a socket is given to  *)
(* the next connection, one thread at a time is in a protocol, a message   *)
(* that sendMessage was called with is handled once or waits, a client is  *)
(* deleted after its thread has ended, and one that is deleted twice had a *)
(* socket that was reused before the last client on it was queued for the  *)
(* clean-up (itoserver.cpp).                                               *)
THEOREM MessagesKept ==
  ASSUME NamesApart
  PROVE  Spec => []ItoServerKeepsMessages
<1>1. Init => Inv /\ Clean
  BY InitInv, InitClean
<1>2. Inv /\ Clean /\ [Next]_vars => (Inv /\ Clean)'
  BY NextInv, NextClean
<1>3. Inv /\ Clean => ItoServerKeepsMessages
  BY InvMeansKept
<1> QED BY <1>1, <1>2, <1>3, PTL DEF Spec
=============================================================================
