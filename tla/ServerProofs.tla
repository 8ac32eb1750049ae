---------------------------- MODULE ServerProofs ----------------------------
(***************************************************************************)
(* Proofs about Server, for every number of descriptors, ports and         *)
(* connections.                                                            *)
(***************************************************************************)
EXTENDS Server, WellFoundedInduction, TLAPS

-----------------------------------------------------------------------------
(* The least member of a set of numbers. *)

(* The library's least-element theorem, for sets of naturals. *)
LEMMA WellFoundedMin ==
  ASSUME NEW T, T \subseteq Nat, T # {}, NEW R, IsWellFoundedOn(R, Nat)
  PROVE  \E x \in T : \A y \in T : ~ (<<y, x>> \in R)
  BY WFMin

(* The same with the order of the numbers as the relation. *)
LEMMA RelationMin ==
  ASSUME NEW T, T \subseteq Nat, NEW R,
         \A x, y \in Nat : x < y => <<x, y>> \in R,
         \E x \in T : \A y \in T : ~ (<<y, x>> \in R)
  PROVE  \E x \in T : \A y \in T : x <= y
<1>1. PICK x \in T : \A y \in T : ~ (<<y, x>> \in R)
  OBVIOUS
<1>2. \A y \in T : x <= y
  <2> TAKE y \in T
  <2>1. x \in Nat /\ y \in Nat
    OBVIOUS
  <2>2. ~ (y < x)
    BY <1>1, <2>1
  <2> QED BY <2>1, <2>2
<1> QED BY <1>2

(* A set of numbers that is not empty has a least member. *)
LEMMA NatMin ==
  ASSUME NEW T, T \subseteq Nat, T # {}
  PROVE  \E x \in T : \A y \in T : x <= y
<1>1. \A x, y \in Nat : x < y => <<x, y>> \in OpToRel(<, Nat)
  BY DEF OpToRel
<1>2. \E x \in T : \A y \in T : ~ (<<y, x>> \in OpToRel(<, Nat))
  BY WellFoundedMin, NatLessThanWellFounded, Zenon
<1> QED BY <1>1, <1>2, RelationMin, Zenon

-----------------------------------------------------------------------------
(* The invariant. *)

(* What the loop of scan is at has the bit it is looked at for, and a      *)
(* write bit not yet visited is for the client it was set for: accept has  *)
(* no such descriptor to give out.                                         *)
LoopSound ==
  /\ pc = "read" => j \in fdRead
  /\ pc = "write" => j \in fdWrite
  /\ pc \in {"read", "write"} =>
       \A f \in fdWrite : Unvisited(f) => hClients[f] # NONE /\ hClients[f] = seen[f]

IndInv == TypeOK /\ TablesAgree /\ BitsNameTheirClients /\ LoopSound

(* Min of a set of descriptors is the least of them. *)
LEMMA MinOf ==
  ASSUME NEW S, S \subseteq Nat, S # {}
  PROVE  Min(S) \in S /\ \A y \in S : Min(S) <= y
<1>1. \E x \in S : \A y \in S : x <= y
  BY NatMin
<1> QED BY <1>1 DEF Min

(* A new descriptor is one that was not open. *)
LEMMA FreshFd ==
  ASSUME FreeFds # {}
  PROVE  Min(FreeFds) \in Fds /\ fds[Min(FreeFds)] = NONE
<1>1. FreeFds \subseteq Nat
  BY BoundsAssumption DEF FreeFds, Fds
<1>2. Min(FreeFds) \in FreeFds
  BY <1>1, MinOf
<1> QED BY <1>2 DEF FreeFds

(* Where the loop goes from descriptor f. *)
LEMMA LoopGoes ==
  ASSUME NEW f \in Int, NEW read \in SUBSET Fds, NEW write \in SUBSET Fds,
         LoopFrom(f, read, write)
  PROVE  /\ j' \in 0..MaxFd /\ pc' \in {"read", "write", "sweep"}
         /\ pc' = "read" => j' \in read /\ j' > f
         /\ pc' = "write" => j' \in write \ read /\ j' > f
<1> DEFINE S == {k \in read \cup write : k > f} \cup {MaxFd}
<1>1. Fds \subseteq Nat /\ MaxFd \in Nat /\ \A k \in Fds : k < MaxFd
  BY BoundsAssumption DEF Fds
<1>2. S \subseteq Nat /\ S # {}
  BY <1>1
<1>3. PICK n \in S : n = Min(S)
  BY <1>2, MinOf
<1>4. /\ j' = n
      /\ pc' = IF n = MaxFd THEN "sweep" ELSE IF n \in read THEN "read" ELSE "write"
  <2>1. /\ j' = Min(S)
        /\ pc' = IF Min(S) = MaxFd THEN "sweep"
                 ELSE IF Min(S) \in read THEN "read" ELSE "write"
    BY DEF LoopFrom
  <2> HIDE DEF S
  <2> QED BY <1>3, <2>1
<1>5. n = MaxFd \/ (n \in read \cup write /\ n > f)
  BY <1>3
<1>6. n \in 0..MaxFd
  BY <1>1, <1>5
<1> QED BY <1>4, <1>5, <1>6

(* The loop goes on behind the descriptor it is at: nothing that is still  *)
(* to be visited has changed.                                              *)
LEMMA LoopKeeps ==
  ASSUME IndInv, pc \in {"read", "write"}, LoopFrom(j, fdRead, fdWrite),
         UNCHANGED <<bits, hServers>>,
         \A f \in Fds : f > j /\ hClients[f] # NONE => hClients'[f] = hClients[f]
  PROVE  /\ j' \in 0..MaxFd /\ pc' \in {"out", "read", "write", "sweep"}
         /\ BitsNameTheirClients' /\ LoopSound'
<1>1. /\ fdRead \subseteq Fds /\ fdWrite \subseteq Fds /\ j \in Int
      /\ MaxFd \in Nat /\ Fds \subseteq Int
  BY BoundsAssumption DEF IndInv, TypeOK, Fds
<1>2. fdRead' = fdRead /\ fdWrite' = fdWrite /\ seen' = seen /\ hServers' = hServers
  BY DEF bits
<1>3. /\ j' \in 0..MaxFd /\ pc' \in {"read", "write", "sweep"}
      /\ pc' = "read" => j' \in fdRead /\ j' > j
      /\ pc' = "write" => j' \in fdWrite \ fdRead /\ j' > j
  BY <1>1, LoopGoes
<1>4. ASSUME pc' \in {"read", "write"}, NEW f \in Fds, f >= j'
      PROVE  f > j
  BY <1>1, <1>3, <1>4
<1>5. ASSUME pc' \in {"read", "write"}, NEW f \in fdRead, f >= j', f \notin hServers
      PROVE  hClients'[f] # NONE /\ hClients'[f] = seen[f]
  <2>1. f \in Fds /\ f > j
    BY <1>1, <1>4, <1>5
  <2>2. hClients[f] # NONE /\ hClients[f] = seen[f]
    BY <1>5, <2>1 DEF IndInv, BitsNameTheirClients, Unvisited
  <2> QED BY <2>1, <2>2
<1>6. ASSUME pc' \in {"read", "write"}, NEW f \in fdWrite, f >= j'
      PROVE  hClients'[f] # NONE /\ hClients'[f] = seen[f]
  <2>1. f \in Fds /\ f > j
    BY <1>1, <1>4, <1>6
  <2>2. hClients[f] # NONE /\ hClients[f] = seen[f]
    BY <1>6, <2>1 DEF IndInv, LoopSound, Unvisited
  <2> QED BY <2>1, <2>2
<1>7. \A f \in Fds : Unvisited(f)' => f >= j'
  BY <1>1, <1>3 DEF Unvisited
<1>8. BitsNameTheirClients'
  BY <1>1, <1>2, <1>5, <1>6, <1>7 DEF BitsNameTheirClients
<1>9. LoopSound'
  BY <1>1, <1>2, <1>3, <1>6, <1>7 DEF LoopSound
<1> QED BY <1>3, <1>8, <1>9

(* Behind the read branch, which may have closed the client it read from.  *)
LEMMA ReadDoneKeeps ==
  ASSUME IndInv, pc = "read", ReadDone, UNCHANGED <<bits, hServers>>,
         \A f \in Fds : f > j /\ hClients[f] # NONE => hClients'[f] = hClients[f],
         hClients[j] # NONE => hClients'[j] \in {hClients[j], NONE}
  PROVE  /\ j' \in 0..MaxFd /\ pc' \in {"out", "read", "write", "sweep"}
         /\ BitsNameTheirClients' /\ LoopSound'
<1>1. CASE j \notin fdWrite
  <2>1. LoopFrom(j, fdRead, fdWrite)
    BY <1>1 DEF ReadDone
  <2> QED BY <2>1, LoopKeeps
<1>2. CASE j \in fdWrite
  <2>1. /\ pc' = "write" /\ j' = j /\ j \in 0..MaxFd /\ j \in Int
        /\ fdRead \subseteq Fds /\ fdWrite \subseteq Fds /\ Fds \subseteq Int
        /\ fdRead' = fdRead /\ fdWrite' = fdWrite /\ seen' = seen
        /\ hServers' = hServers
    BY <1>2, BoundsAssumption DEF ReadDone, bits, IndInv, TypeOK, Fds
  <2>2. \A f \in Fds : Unvisited(f)' => f > j
    BY <2>1 DEF Unvisited
  <2>3. ASSUME NEW f \in fdRead, f > j, f \notin hServers
        PROVE  hClients'[f] # NONE /\ hClients'[f] = seen[f]
    <3>1. hClients[f] # NONE /\ hClients[f] = seen[f]
      BY <2>3 DEF IndInv, BitsNameTheirClients, Unvisited
    <3> QED BY <2>1, <2>3, <3>1
  <2>4. ASSUME NEW f \in fdWrite, f > j
        PROVE  hClients'[f] # NONE /\ hClients'[f] = seen[f]
    <3>1. hClients[f] # NONE /\ hClients[f] = seen[f]
      BY <2>4 DEF IndInv, LoopSound, Unvisited
    <3> QED BY <2>1, <2>4, <3>1
  <2>5. hClients'[j] \in {seen[j], NONE}
    <3>1. hClients[j] # NONE /\ hClients[j] = seen[j]
      BY <1>2 DEF IndInv, LoopSound, Unvisited
    <3> QED BY <3>1
  <2>6. BitsNameTheirClients'
    <3>1. \A f \in fdWrite : f >= j => hClients'[f] \in {seen[f], NONE}
      <4> TAKE f \in fdWrite
      <4>0. f \in Int /\ j \in Int
        BY <2>1, Zenon
      <4>1. f >= j => f > j \/ f = j
        BY <4>0
      <4>2. CASE f > j
        BY <2>4, <4>2
      <4>3. CASE f = j
        BY <2>5, <4>3
      <4> QED BY <4>1, <4>2, <4>3
    <3> QED BY <2>1, <2>2, <2>3, <3>1 DEF BitsNameTheirClients
  <2>7. LoopSound'
    BY <1>2, <2>1, <2>2, <2>4 DEF LoopSound
  <2> QED BY <2>1, <2>6, <2>7
<1> QED BY <1>1, <1>2

(* A scan that got past select has no descriptor in fdActive that is       *)
(* closed.                                                                 *)
LEMMA NoneLeft ==
  ASSUME IndInv, pc # "out"
  PROVE  left = {}
  BY DEF IndInv, TablesAgree

(* closeClient, which scan calls, keeps the tables in step. *)
LEMMA CloseKeeps ==
  ASSUME IndInv, pc # "out", NEW closed \in SUBSET {f \in Fds : hClients[f] # NONE},
         closeClient(closed), UNCHANGED hServers
  PROVE  /\ fds' \in [Fds -> Conns \cup {NONE, LISTEN}]
         /\ peer' \in [Conns -> {"none", "up", "closed"}]
         /\ fdActive' \subseteq Fds /\ left' \subseteq Fds
         /\ hClients' \in [Fds -> Conns \cup {NONE}]
         /\ bWantsDisconnect' \subseteq Conns
         /\ qbWrite' \in [Conns -> 0..MaxOut]
         /\ TablesAgree'
         /\ \A f \in Fds : hClients'[f] = IF f \in closed THEN NONE ELSE hClients[f]
<1>1. /\ fds' = [f \in Fds |-> IF f \in closed THEN NONE ELSE fds[f]]
      /\ hClients' = [f \in Fds |-> IF f \in closed THEN NONE ELSE hClients[f]]
      /\ peer' = [c \in Conns |-> IF \E f \in closed : hClients[f] = c
                                  THEN "closed" ELSE peer[c]]
      /\ bWantsDisconnect' = bWantsDisconnect \ {hClients[f] : f \in closed}
      /\ qbWrite' = [c \in Conns |-> IF \E f \in closed : hClients[f] = c
                                     THEN 0 ELSE qbWrite[c]]
      /\ fdActive' = fdActive \ closed /\ left' = {} /\ left = {}
  BY NoneLeft DEF closeClient
<1>2. TypeOK /\ TablesAgree
  BY DEF IndInv
<1>3. /\ fds' \in [Fds -> Conns \cup {NONE, LISTEN}]
      /\ hClients' \in [Fds -> Conns \cup {NONE}]
      /\ fdActive' \subseteq Fds /\ bWantsDisconnect' \subseteq Conns /\ left' \subseteq Fds
  BY <1>1, <1>2 DEF TypeOK
<1>4. peer' \in [Conns -> {"none", "up", "closed"}]
  BY <1>1, <1>2 DEF TypeOK
<1>5. qbWrite' \in [Conns -> 0..MaxOut]
  BY <1>1, <1>2, BoundsAssumption DEF TypeOK
<1>6. \A f \in Fds : /\ fds'[f] = IF f \in closed THEN NONE ELSE fds[f]
                     /\ hClients'[f] = IF f \in closed THEN NONE ELSE hClients[f]
  BY <1>1
<1>7. \A f \in closed : fds[f] \in Conns
  BY <1>2 DEF TablesAgree
<1>8. TablesAgree'
  <2>1. fdActive' = {f \in Fds : fds'[f] # NONE} \cup left' /\ left' = {}
    BY <1>1, <1>2, <1>6 DEF TablesAgree
  <2>2. hServers' = {f \in Fds : fds'[f] = LISTEN}
    BY <1>2, <1>6, <1>7, NamesAssumption DEF TablesAgree
  <2>3. \A f \in Fds : hClients'[f] = IF fds'[f] \in Conns THEN fds'[f] ELSE NONE
    BY <1>2, <1>6, NamesAssumption DEF TablesAgree
  <2> QED BY <2>1, <2>2, <2>3 DEF TablesAgree
<1> QED BY <1>3, <1>4, <1>5, <1>6, <1>8

(* What a callback does to a client keeps the types. *)
LEMMA CallbackKeeps ==
  ASSUME TypeOK, NEW c \in Conns, Callback(c)
  PROVE  qbWrite' \in [Conns -> 0..MaxOut] /\ bWantsDisconnect' \subseteq Conns
<1>1. PICK q \in qbWrite[c]..MaxOut : qbWrite' = [qbWrite EXCEPT ![c] = q]
  BY DEF Callback
<1>2. q \in 0..MaxOut
  BY BoundsAssumption DEF TypeOK
<1> QED BY <1>1, <1>2 DEF TypeOK, Callback

(* An action that leaves the tables and the loop alone. *)
LEMMA PeersKeep ==
  ASSUME IndInv, UNCHANGED <<fds, server, pc, j, bits>>
  PROVE  TablesAgree' /\ BitsNameTheirClients' /\ LoopSound'
<1>1. UNCHANGED <<fds, fdActive, hServers, hClients, left, pc, j, fdRead, fdWrite, seen>>
  BY DEF server, bits
<1> QED BY <1>1 DEF IndInv, TablesAgree, BitsNameTheirClients, LoopSound, Unvisited

-----------------------------------------------------------------------------
(* One lemma per kind of step. *)

(* The peers, and callbacks from outside of scan. *)
LEMMA PeerSteps ==
  ASSUME IndInv, NEW c \in Conns, NEW f \in Fds,
         Connect(c, f) \/ Send(c) \/ Close(c) \/ Message(c)
  PROVE  IndInv'
<1>0. TypeOK
  BY DEF IndInv
<1>1. CASE Connect(c, f)
  <2>1. TypeOK'
    BY <1>0, <1>1 DEF Connect, TypeOK, server, clients, bits
  <2> QED BY <1>1, <2>1, PeersKeep DEF Connect, IndInv
<1>2. CASE Send(c)
  <2>1. TypeOK'
    BY <1>0, <1>2 DEF Send, TypeOK, server, clients, bits
  <2> QED BY <1>2, <2>1, PeersKeep DEF Send, IndInv
<1>3. CASE Close(c)
  <2>1. TypeOK'
    BY <1>0, <1>3 DEF Close, TypeOK, server, clients, bits
  <2> QED BY <1>3, <2>1, PeersKeep DEF Close, IndInv
<1>4. CASE Message(c)
  <2>1. Callback(c) /\ UNCHANGED <<kernel, server, pc, j, bits>>
    BY <1>4 DEF Message
  <2>2. TypeOK'
    BY <1>0, <2>1, CallbackKeeps DEF TypeOK, kernel, server, bits
  <2> QED BY <2>1, <2>2, PeersKeep DEF IndInv, kernel
<1> QED BY <1>1, <1>2, <1>3, <1>4

(* addPort takes a descriptor that was not open. *)
LEMMA AddPortKeeps ==
  ASSUME IndInv, addPort
  PROVE  IndInv'
<1>1. PICK f \in Fds :
        /\ fds[f] = NONE /\ fds' = [fds EXCEPT ![f] = LISTEN]
        /\ fdActive' = fdActive \cup {f} /\ hServers' = hServers \cup {f}
        /\ left' = left \ {f}
  BY FreshFd DEF addPort
<1>2. /\ pc = "out" /\ pc' = "out" /\ j' = j /\ UNCHANGED <<hClients, bits>>
      /\ UNCHANGED <<backlog, peer, inbox, clients>>
  BY DEF addPort
<1>3. TypeOK'
  BY <1>1, <1>2 DEF IndInv, TypeOK, bits, clients
<1>4. TablesAgree'
  <2>1. \A g \in Fds : fds'[g] = IF g = f THEN LISTEN ELSE fds[g]
    BY <1>1 DEF IndInv, TypeOK
  <2> QED BY <1>1, <1>2, <2>1, NamesAssumption DEF IndInv, TablesAgree
<1>5. BitsNameTheirClients' /\ LoopSound'
  BY <1>2 DEF BitsNameTheirClients, LoopSound
<1> QED BY <1>3, <1>4, <1>5 DEF IndInv

(* The bits select returns are for clients that are there; select fails   *)
(* while a descriptor is left.                                             *)
LEMMA SelectKeeps ==
  ASSUME IndInv, Select
  PROVE  IndInv'
<1>0. TypeOK /\ TablesAgree
  BY DEF IndInv
<1>1. /\ fdRead' = {f \in fdActive : Readable(f)}
      /\ fdWrite' \subseteq {f \in Fds : HasOutput(f)}
      /\ seen' = hClients /\ LoopFrom(-1, fdRead', fdWrite')
      /\ UNCHANGED <<kernel, server, clients>>
  BY DEF Select
<1>2. fdRead' \subseteq Fds /\ fdWrite' \subseteq Fds
  BY <1>0, <1>1 DEF TypeOK
<1>3. /\ j' \in 0..MaxFd /\ pc' \in {"read", "write", "sweep"}
      /\ pc' = "read" => j' \in fdRead'
      /\ pc' = "write" => j' \in fdWrite'
  BY <1>1, <1>2, LoopGoes
<1>4. TypeOK'
  BY <1>0, <1>1, <1>2, <1>3 DEF TypeOK, kernel, server, clients
<1>5. TablesAgree'
  <2>1. left = {}
    BY <1>0 DEF Select, TypeOK, TablesAgree, FreeFds
  <2> QED BY <1>0, <1>1, <2>1 DEF TablesAgree, kernel, server
<1>6. \A f \in fdRead' : f \notin hServers => hClients[f] # NONE
  <2> SUFFICES ASSUME NEW f \in fdRead', f \notin hServers
               PROVE  hClients[f] # NONE
    OBVIOUS
  <2>1. f \in Fds /\ fds[f] # LISTEN /\ Readable(f)
    BY <1>0, <1>1, <1>2 DEF TablesAgree
  <2>2. fds[f] \in Conns
    BY <2>1 DEF Readable
  <2> QED BY <1>0, <2>1, <2>2, NamesAssumption DEF TablesAgree
<1>7. \A f \in fdWrite' : hClients[f] # NONE
  BY <1>1 DEF HasOutput
<1>8. hClients' = hClients /\ hServers' = hServers
  BY <1>1 DEF server
<1>9. BitsNameTheirClients'
  BY <1>1, <1>6, <1>7, <1>8 DEF BitsNameTheirClients
<1>10. LoopSound'
  BY <1>1, <1>3, <1>7, <1>8 DEF LoopSound
<1> QED BY <1>4, <1>5, <1>9, <1>10 DEF IndInv

(* accept gives out a descriptor that no bit still to be visited is for.   *)
LEMMA AcceptKeeps ==
  ASSUME IndInv, Accept
  PROVE  IndInv'
<1>0. TypeOK /\ TablesAgree /\ j \in Fds
  BY DEF IndInv, TypeOK, Accept
<1>1. /\ pc = "read" /\ j \in hServers /\ ReadDone
      /\ UNCHANGED <<peer, inbox, hServers, bits>>
  BY DEF Accept
<1>2. PICK c \in backlog[j], f \in Fds :
        /\ fds[f] = NONE /\ fds' = [fds EXCEPT ![f] = c]
        /\ backlog' = [backlog EXCEPT ![j] = @ \ {c}]
        /\ fdActive' = fdActive \cup {f}
        /\ hClients' = [hClients EXCEPT ![f] = c]
        /\ Callback(c) /\ left' = left \ {f}
  BY FreshFd DEF Accept
<1>3. c \in Conns /\ c # NONE /\ c # LISTEN
  BY <1>0, NamesAssumption DEF TypeOK
<1>4. \A g \in Fds : /\ fds'[g] = IF g = f THEN c ELSE fds[g]
                     /\ hClients'[g] = IF g = f THEN c ELSE hClients[g]
  BY <1>0, <1>2 DEF TypeOK
<1>5. hClients[f] = NONE /\ j # f
  BY <1>0, <1>1, <1>2, NamesAssumption DEF TablesAgree
<1>6. /\ j' \in 0..MaxFd /\ pc' \in {"out", "read", "write", "sweep"}
      /\ BitsNameTheirClients' /\ LoopSound'
  <2>1. \A g \in Fds : g > j /\ hClients[g] # NONE => hClients'[g] = hClients[g]
    BY <1>4, <1>5
  <2>2. hClients[j] # NONE => hClients'[j] \in {hClients[j], NONE}
    BY <1>0, <1>4, <1>5
  <2> QED BY <1>1, <2>1, <2>2, ReadDoneKeeps
<1>7. TypeOK'
  <2>1. qbWrite' \in [Conns -> 0..MaxOut] /\ bWantsDisconnect' \subseteq Conns
    BY <1>0, <1>2, <1>3, CallbackKeeps
  <2> QED BY <1>0, <1>1, <1>2, <1>3, <1>6, <2>1 DEF TypeOK, bits
<1>8. TablesAgree'
  <2>0. left = {} /\ left' = {}
    BY <1>1, <1>2, NoneLeft
  <2>1. fdActive' = {g \in Fds : fds'[g] # NONE} \cup left'
    BY <1>0, <1>2, <1>3, <1>4, <2>0 DEF TablesAgree
  <2>2. hServers' = {g \in Fds : fds'[g] = LISTEN}
    BY <1>0, <1>1, <1>2, <1>3, <1>4, NamesAssumption DEF TablesAgree
  <2>3. \A g \in Fds : hClients'[g] = IF fds'[g] \in Conns THEN fds'[g] ELSE NONE
    BY <1>0, <1>3, <1>4 DEF TablesAgree
  <2> QED BY <2>0, <2>1, <2>2, <2>3 DEF TablesAgree
<1> QED BY <1>6, <1>7, <1>8 DEF IndInv

(* The end of the stream of a client closes it. *)
LEMMA ReadClosedKeeps ==
  ASSUME IndInv, ReadClosed
  PROVE  IndInv'
<1>0. TypeOK /\ j \in Fds
  BY DEF IndInv, TypeOK, ReadClosed
<1>1. /\ pc = "read" /\ hClients[j] # NONE /\ closeClient({j}) /\ ReadDone
      /\ inbox' = inbox \ {hClients[j]}
      /\ UNCHANGED <<backlog, hServers, bits>>
  BY DEF ReadClosed
<1>2. {j} \in SUBSET {f \in Fds : hClients[f] # NONE}
  BY <1>0, <1>1
<1>3. /\ fds' \in [Fds -> Conns \cup {NONE, LISTEN}]
      /\ peer' \in [Conns -> {"none", "up", "closed"}]
      /\ fdActive' \subseteq Fds /\ left' \subseteq Fds
      /\ hClients' \in [Fds -> Conns \cup {NONE}]
      /\ bWantsDisconnect' \subseteq Conns
      /\ qbWrite' \in [Conns -> 0..MaxOut]
      /\ TablesAgree'
      /\ \A f \in Fds : hClients'[f] = IF f \in {j} THEN NONE ELSE hClients[f]
  BY <1>1, <1>2, CloseKeeps
<1>4. /\ j' \in 0..MaxFd /\ pc' \in {"out", "read", "write", "sweep"}
      /\ BitsNameTheirClients' /\ LoopSound'
  <2>1. \A f \in Fds : f > j => f # j
    BY <1>0 DEF Fds
  <2>2. \A f \in Fds : f > j /\ hClients[f] # NONE => hClients'[f] = hClients[f]
    BY <1>3, <2>1
  <2>3. hClients'[j] = NONE
    BY <1>0, <1>3
  <2> QED BY <1>1, <2>2, <2>3, ReadDoneKeeps
<1>5. TypeOK'
  BY <1>0, <1>1, <1>3, <1>4 DEF TypeOK, bits
<1> QED BY <1>3, <1>4, <1>5 DEF IndInv

(* Reading data changes nothing but the client. *)
LEMMA ReadDataKeeps ==
  ASSUME IndInv, ReadData
  PROVE  IndInv'
<1>0. TypeOK /\ j \in Fds
  BY DEF IndInv, TypeOK, ReadData
<1>1. /\ pc = "read" /\ hClients[j] # NONE /\ Callback(hClients[j]) /\ ReadDone
      /\ inbox' = inbox \ {hClients[j]}
      /\ UNCHANGED <<fds, backlog, peer, server, bits>>
  BY DEF ReadData
<1>2. hClients[j] \in Conns
  BY <1>0, <1>1 DEF TypeOK
<1>3. qbWrite' \in [Conns -> 0..MaxOut] /\ bWantsDisconnect' \subseteq Conns
  BY <1>0, <1>1, <1>2, CallbackKeeps
<1>4. UNCHANGED <<fdActive, hServers, hClients, left>> /\ left = {}
  BY <1>1, NoneLeft DEF server
<1>5. /\ j' \in 0..MaxFd /\ pc' \in {"out", "read", "write", "sweep"}
      /\ BitsNameTheirClients' /\ LoopSound'
  BY <1>1, <1>4, ReadDoneKeeps
<1>6. TypeOK'
  BY <1>0, <1>1, <1>3, <1>4, <1>5 DEF TypeOK, bits
<1>7. TablesAgree'
  BY <1>1, <1>4 DEF IndInv, TablesAgree
<1> QED BY <1>5, <1>6, <1>7 DEF IndInv

(* The write branch, whichever way it goes. *)
LEMMA WriteSteps ==
  ASSUME IndInv, Write \/ WriteFails \/ WriteGone
  PROVE  IndInv'
<1>0. TypeOK /\ pc = "write" /\ j \in Fds
  BY DEF IndInv, TypeOK, LoopSound, Write, WriteFails, WriteGone
<1>1. LoopFrom(j, fdRead, fdWrite)
  BY DEF Write, WriteFails, WriteGone, WriteDone
<1>2. CASE WriteFails
  <2>1. /\ HasOutput(j) /\ closeClient({j})
        /\ UNCHANGED <<backlog, inbox, hServers, bits>>
    BY <1>2 DEF WriteFails
  <2>2. {j} \in SUBSET {f \in Fds : hClients[f] # NONE}
    BY <1>0, <2>1 DEF HasOutput
  <2>3. /\ fds' \in [Fds -> Conns \cup {NONE, LISTEN}]
        /\ peer' \in [Conns -> {"none", "up", "closed"}]
        /\ fdActive' \subseteq Fds /\ left' \subseteq Fds
        /\ hClients' \in [Fds -> Conns \cup {NONE}]
        /\ bWantsDisconnect' \subseteq Conns
        /\ qbWrite' \in [Conns -> 0..MaxOut]
        /\ TablesAgree'
        /\ \A f \in Fds : hClients'[f] = IF f \in {j} THEN NONE ELSE hClients[f]
    BY <1>0, <2>1, <2>2, CloseKeeps
  <2>4. /\ j' \in 0..MaxFd /\ pc' \in {"out", "read", "write", "sweep"}
        /\ BitsNameTheirClients' /\ LoopSound'
    <3>1. \A f \in Fds : f > j => f # j
      BY <1>0 DEF Fds
    <3>2. \A f \in Fds : f > j /\ hClients[f] # NONE => hClients'[f] = hClients[f]
      BY <2>3, <3>1
    <3> QED BY <1>0, <1>1, <2>1, <3>2, LoopKeeps
  <2>5. TypeOK'
    BY <1>0, <2>1, <2>3, <2>4 DEF TypeOK, bits
  <2> QED BY <2>3, <2>4, <2>5 DEF IndInv
<1>3. ASSUME UNCHANGED <<kernel, server, bits>>,
             qbWrite' \in [Conns -> 0..MaxOut], UNCHANGED bWantsDisconnect
      PROVE  IndInv'
  <2>1. UNCHANGED <<fds, backlog, peer, inbox, fdActive, hServers, hClients, left>> /\ left = {}
    BY <1>0, <1>3, NoneLeft DEF kernel, server
  <2>2. /\ j' \in 0..MaxFd /\ pc' \in {"out", "read", "write", "sweep"}
        /\ BitsNameTheirClients' /\ LoopSound'
    BY <1>0, <1>1, <1>3, <2>1, LoopKeeps
  <2>3. TypeOK'
    BY <1>0, <1>3, <2>1, <2>2 DEF TypeOK, bits
  <2>4. TablesAgree'
    BY <2>1 DEF IndInv, TablesAgree
  <2> QED BY <2>2, <2>3, <2>4 DEF IndInv
<1>4. CASE Write
  <2>1. /\ hClients[j] # NONE /\ UNCHANGED <<kernel, server, bits, bWantsDisconnect>>
    BY <1>4 DEF Write, HasOutput
  <2>2. hClients[j] \in Conns
    BY <1>0, <2>1 DEF TypeOK
  <2>3. PICK n \in 0..qbWrite[hClients[j]] :
          qbWrite' = [qbWrite EXCEPT ![hClients[j]] = @ - n]
    BY <1>4 DEF Write
  <2>4. qbWrite[hClients[j]] - n \in 0..MaxOut
    BY <1>0, <2>2, BoundsAssumption DEF TypeOK
  <2>5. qbWrite' \in [Conns -> 0..MaxOut]
    BY <1>0, <2>3, <2>4 DEF TypeOK
  <2> QED BY <1>3, <2>1, <2>5
<1>5. CASE WriteGone
  BY <1>0, <1>3, <1>5 DEF WriteGone, clients, TypeOK
<1> QED BY <1>2, <1>4, <1>5

(* Leaving scan ends what the invariant says of the loop. *)
LEMMA EndScanKeeps ==
  ASSUME EndScan
  PROVE  /\ pc' \in {"out", "read", "write", "sweep"} /\ j' \in 0..MaxFd
         /\ fdRead' \subseteq Fds /\ fdWrite' \subseteq Fds
         /\ seen' \in [Fds -> Conns \cup {NONE}]
         /\ BitsNameTheirClients' /\ LoopSound'
<1>1. pc' = "out" /\ j' = 0 /\ fdRead' = {} /\ fdWrite' = {}
  BY DEF EndScan
<1>2. seen' \in [Fds -> Conns \cup {NONE}]
  BY DEF EndScan
<1>3. 0 \in 0..MaxFd
  BY BoundsAssumption
<1>4. BitsNameTheirClients' /\ LoopSound'
  BY <1>1 DEF BitsNameTheirClients, LoopSound
<1> QED BY <1>1, <1>2, <1>3, <1>4

(* A failed accept and the sweep leave scan. *)
LEMMA EndSteps ==
  ASSUME IndInv, AcceptFails \/ Sweep
  PROVE  IndInv'
<1>0. TypeOK
  BY DEF IndInv
<1>1. CASE AcceptFails
  <2>1. EndScan /\ UNCHANGED <<kernel, server, clients>>
    BY <1>1 DEF AcceptFails
  <2>2. TypeOK'
    BY <1>0, <2>1, EndScanKeeps DEF TypeOK, kernel, server, clients
  <2>3. TablesAgree'
    <3>1. left = {}
      BY <1>1, NoneLeft DEF AcceptFails
    <3> QED BY <2>1, <3>1 DEF IndInv, TablesAgree, kernel, server
  <2> QED BY <2>1, <2>2, <2>3, EndScanKeeps DEF IndInv
<1>2. CASE Sweep
  <2>1. closeClient(Doomed) /\ EndScan /\ UNCHANGED <<backlog, inbox, hServers>>
    BY <1>2 DEF Sweep
  <2>2. Doomed \in SUBSET {f \in Fds : hClients[f] # NONE}
    BY DEF Doomed
  <2>3. /\ fds' \in [Fds -> Conns \cup {NONE, LISTEN}]
        /\ peer' \in [Conns -> {"none", "up", "closed"}]
        /\ fdActive' \subseteq Fds /\ left' \subseteq Fds
        /\ hClients' \in [Fds -> Conns \cup {NONE}]
        /\ bWantsDisconnect' \subseteq Conns
        /\ qbWrite' \in [Conns -> 0..MaxOut]
        /\ TablesAgree'
    BY <1>2, <2>1, <2>2, CloseKeeps DEF Sweep
  <2>4. TypeOK'
    BY <1>0, <2>1, <2>3, EndScanKeeps DEF TypeOK
  <2> QED BY <2>1, <2>3, <2>4, EndScanKeeps DEF IndInv
<1> QED BY <1>1, <1>2

(* shutdown and the destructor close all, and shutdown leaves the          *)
(* descriptors of the listening sockets in fdActive.                       *)
LEMMA ShutdownKeeps ==
  ASSUME IndInv, shutdown \/ Renew
  PROVE  IndInv'
<1>1. /\ fds' = [f \in Fds |-> NONE] /\ backlog' = [f \in Fds |-> {}]
      /\ hServers' = {} /\ hClients' = [f \in Fds |-> NONE]
      /\ bWantsDisconnect' = {} /\ qbWrite' = [c \in Conns |-> 0] /\ inbox' = {}
      /\ pc = "out" /\ UNCHANGED <<pc, j, bits>>
  BY DEF shutdown, Renew, CloseAll
<1>2. peer' \in [Conns -> {"none", "up", "closed"}]
  BY DEF shutdown, Renew, CloseAll, IndInv, TypeOK
<1>3. qbWrite' \in [Conns -> 0..MaxOut]
  BY <1>1, BoundsAssumption
<1>4. fdActive' = left' /\ left' \subseteq Fds
  <2>1. CASE Renew
    BY <2>1 DEF Renew
  <2>2. CASE shutdown
    <3>1. fdActive' = {f \in fdActive : hClients[f] = NONE} /\ left' = left \cup hServers
      BY <2>2 DEF shutdown
    <3>2. /\ fdActive = {f \in Fds : fds[f] # NONE} \cup left /\ left \subseteq Fds
          /\ hServers = {f \in Fds : fds[f] = LISTEN}
          /\ \A f \in Fds : hClients[f] = IF fds[f] \in Conns THEN fds[f] ELSE NONE
          /\ \A f \in left : fds[f] = NONE
          /\ \A f \in Fds : fds[f] \in Conns \cup {NONE, LISTEN}
      BY DEF IndInv, TypeOK, TablesAgree
    <3>3. \A f \in Fds : hClients[f] = NONE <=> fds[f] \in {NONE, LISTEN}
      BY <3>2, NamesAssumption
    <3>4. left' \subseteq Fds
      BY <3>1, <3>2
    <3>5. \A f \in fdActive' : f \in left'
      BY <3>1, <3>2, <3>3
    <3>6. \A f \in left' : f \in fdActive'
      BY <3>1, <3>2, <3>3, NamesAssumption
    <3> QED BY <3>4, <3>5, <3>6
  <2> QED BY <2>1, <2>2
<1>5. TypeOK'
  BY <1>1, <1>2, <1>3, <1>4 DEF IndInv, TypeOK, bits
<1>6. TablesAgree'
  BY <1>1, <1>4, NamesAssumption DEF TablesAgree
<1>7. BitsNameTheirClients' /\ LoopSound'
  BY <1>1 DEF BitsNameTheirClients, LoopSound
<1> QED BY <1>5, <1>6, <1>7 DEF IndInv

(* Every step keeps the invariant. *)
LEMMA IndInvStep == IndInv /\ [Next]_vars => IndInv'
<1> SUFFICES ASSUME IndInv, [Next]_vars
             PROVE  IndInv'
  OBVIOUS
<1>1. ASSUME NEW c \in Conns, NEW f \in Fds, Connect(c, f) PROVE IndInv'
  BY <1>1, PeerSteps
<1>2. ASSUME NEW c \in Conns, Send(c) \/ Close(c) \/ Message(c) PROVE IndInv'
  <2>1. CASE Fds = {}
    <3>1. ~ Message(c)
      BY <2>1 DEF Message, Registered
    <3>2. UNCHANGED <<fds, server, clients, pc, j, bits, backlog>>
      BY <1>2, <3>1 DEF Send, Close
    <3>3. TypeOK'
      BY <1>2, <3>1, <3>2 DEF Send, Close, IndInv, TypeOK, server, clients, bits
    <3> QED BY <3>2, <3>3, PeersKeep DEF IndInv
  <2>2. CASE Fds # {}
    <3>1. PICK f \in Fds : TRUE
      BY <2>2
    <3> QED BY <1>2, <3>1, PeerSteps
  <2> QED BY <2>1, <2>2
<1>3. CASE UNCHANGED vars
  <2>1. UNCHANGED <<fds, backlog, peer, inbox, fdActive, hServers, hClients, left,
                    bWantsDisconnect, qbWrite, pc, j, fdRead, fdWrite, seen>>
    BY <1>3 DEF vars, kernel, server, clients, bits
  <2> QED BY <2>1 DEF IndInv, TypeOK, TablesAgree, BitsNameTheirClients,
                      LoopSound, Unvisited
<1>4. CASE Scan
  BY <1>3, <1>4, SelectKeeps, AcceptKeeps, ReadClosedKeeps, ReadDataKeeps, WriteSteps,
     EndSteps DEF Scan, SelectFails
<1> QED BY <1>1, <1>2, <1>3, <1>4, AddPortKeeps, ShutdownKeeps DEF Next

(* The invariant holds of a server without ports. *)
LEMMA InitHolds == Init => IndInv
<1> SUFFICES ASSUME Init PROVE IndInv
  OBVIOUS
<1>1. TypeOK
  BY BoundsAssumption DEF Init, TypeOK
<1>2. TablesAgree
  BY NamesAssumption DEF Init, TablesAgree
<1>3. BitsNameTheirClients /\ LoopSound
  BY DEF Init, BitsNameTheirClients, LoopSound
<1> QED BY <1>1, <1>2, <1>3 DEF IndInv

-----------------------------------------------------------------------------
(* The invariant holds in every state. *)
THEOREM Invariance == Spec => []IndInv
<1>1. Spec => Init /\ [][Next]_vars
  BY DEF Spec
<1> QED BY <1>1, InitHolds, IndInvStep, PTL

(* The variables of the server stay in their types. *)
THEOREM TypeCorrect == Spec => []TypeOK
  BY Invariance, PTL DEF IndInv

(* The tables of Server agree with the descriptors that are open, but for  *)
(* the listening ones that shutdown closed: those stay in fdActive, select *)
(* fails until they are opened again, and no client is there meanwhile.    *)
THEOREM TablesInStep == Spec => []TablesAgree
  BY Invariance, PTL DEF IndInv

(* No bit of select is ever used for a client it was not set for, and the  *)
(* lookups the read branch does not guard always find their client.        *)
THEOREM StaleBitsHarmless == Spec => []BitsNameTheirClients
  BY Invariance, PTL DEF IndInv

-----------------------------------------------------------------------------
(* Closing the clients at some descriptors unregisters no others. *)
LEMMA OnlyClosedLeave ==
  ASSUME IndInv, pc # "out", NEW closed \in SUBSET {f \in Fds : hClients[f] # NONE},
         closeClient(closed), UNCHANGED hServers,
         NEW c \in Conns, Registered(c), ~Registered(c)'
  PROVE  \E f \in closed : hClients[f] = c
<1>1. PICK f \in Fds : hClients[f] = c
  BY DEF Registered
<1>2. hClients'[f] = IF f \in closed THEN NONE ELSE hClients[f]
  BY CloseKeeps
<1>3. hClients'[f] # c
  BY DEF Registered
<1> QED BY <1>1, <1>2, <1>3

(* A step that keeps hClients unregisters nobody. *)
LEMMA NobodyLeaves ==
  ASSUME NEW c \in Conns, Registered(c), UNCHANGED hClients
  PROVE  Registered(c)'
  BY DEF Registered

(* One step lets a client go only as disconnect promises. *)
LEMMA LeaveStep ==
  ASSUME IndInv, [Next]_vars, NEW c \in Conns,
         Registered(c), ~Registered(c)', peer[c] = "up", pc # "out"
  PROVE  c \in bWantsDisconnect /\ qbWrite[c] = 0
<1>1. hClients' # hClients
  BY NobodyLeaves
<1>2. CASE Accept
  <2>1. PICK f \in Fds : hClients[f] = c
    BY DEF Registered
  <2>2. PICK d \in backlog[j], g \in Fds :
          fds[g] = NONE /\ hClients' = [hClients EXCEPT ![g] = d]
    BY <1>2, FreshFd DEF Accept
  <2>3. f # g
    BY <2>1, <2>2, NamesAssumption DEF IndInv, TablesAgree
  <2>4. hClients'[f] = c
    BY <2>1, <2>2, <2>3 DEF IndInv, TypeOK
  <2> QED BY <2>4 DEF Registered
<1>3. CASE ReadClosed
  <2>1. /\ j \in Fds /\ hClients[j] # NONE /\ peer[hClients[j]] = "closed"
        /\ closeClient({j}) /\ UNCHANGED hServers
    BY <1>3 DEF ReadClosed, IndInv, TypeOK
  <2>2. hClients[j] = c
    BY <2>1, OnlyClosedLeave
  <2> QED BY <2>1, <2>2
<1>4. CASE WriteFails
  <2>1. /\ j \in Fds /\ hClients[j] # NONE /\ peer[hClients[j]] = "closed"
        /\ closeClient({j}) /\ UNCHANGED hServers
    BY <1>4 DEF WriteFails, HasOutput, IndInv, TypeOK, LoopSound
  <2>2. hClients[j] = c
    BY <2>1, OnlyClosedLeave
  <2> QED BY <2>1, <2>2
<1>5. CASE Sweep
  <2>1. closeClient(Doomed) /\ UNCHANGED hServers
    BY <1>5 DEF Sweep
  <2>2. Doomed \in SUBSET {f \in Fds : hClients[f] # NONE}
    BY DEF Doomed
  <2>3. PICK f \in Doomed : hClients[f] = c
    BY <2>1, <2>2, OnlyClosedLeave
  <2> QED BY <2>3 DEF Doomed
<1>6. ~ (addPort \/ shutdown \/ Renew \/ Select \/ SelectFails)
  BY DEF addPort, shutdown, Renew, CloseAll, Select, SelectFails
<1>7. \A d \in Conns, f \in Fds : ~ Connect(d, f)
  BY <1>1 DEF Connect, server
<1>8. \A d \in Conns : ~ (Send(d) \/ Close(d) \/ Message(d))
  BY <1>1 DEF Send, Close, Message, server
<1>9. ~ (AcceptFails \/ ReadData \/ Write \/ WriteGone \/ UNCHANGED vars)
  BY <1>1 DEF AcceptFails, ReadData, Write, WriteGone, vars, server
<1> QED BY <1>2, <1>3, <1>4, <1>5, <1>6, <1>7, <1>8, <1>9 DEF Next, Scan

(* A scan closes a client whose peer is there only after disconnect was    *)
(* called and all its output was sent.                                     *)
THEOREM OutputFirst == Spec => OutputBeforeDisconnect
<1>1. IndInv /\ [Next]_vars =>
        [\A c \in Conns :
           /\ Registered(c) /\ ~Registered(c)' /\ peer[c] = "up" /\ pc # "out"
           => c \in bWantsDisconnect /\ qbWrite[c] = 0]_vars
  BY LeaveStep
<1>2. Spec => [][Next]_vars
  BY DEF Spec
<1> QED BY <1>1, <1>2, Invariance, PTL DEF OutputBeforeDisconnect
=============================================================================
