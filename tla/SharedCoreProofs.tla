-------------------------- MODULE SharedCoreProofs --------------------------
(***************************************************************************)
(* Proofs about SharedCore, for every finite set of shells and all         *)
(* contents.                                                               *)
(***************************************************************************)
EXTENDS SharedCore, FiniteSetTheorems, TLAPS

Values == Contents \cup {Blank}
Cell == [iRefCount : Nat, val : Values]

(* The shells of a core. *)
Users(of, i) == {s \in Shells : of[s] = i}

(* The types of the shells and the heap. *)
CoreType(c) ==
  /\ c = [of |-> c.of, heap |-> c.heap]
  /\ c.of \in [Shells -> Nat]
  /\ IsFiniteSet(DOMAIN c.heap) /\ DOMAIN c.heap \subseteq Nat \ {None}
  /\ c.heap \in [DOMAIN c.heap -> Cell]

(* A shell has an allocated core or none, and the counts are those of the  *)
(* shells.                                                                 *)
Sound(c) ==
  /\ CoreType(c)
  /\ \A s \in Shells : c.of[s] # None => c.of[s] \in DOMAIN c.heap
  /\ \A i \in DOMAIN c.heap : /\ c.heap[i].iRefCount = Cardinality(Users(c.of, i))
                              /\ c.heap[i].iRefCount > 0

(* Shell s among those of core id, and with a new core at id. *)
Joined(c, s, id) ==
  [of |-> [c.of EXCEPT ![s] = id], heap |-> [c.heap EXCEPT ![id].iRefCount = @ + 1]]
Renewed(c, s, id, v) ==
  [of |-> [c.of EXCEPT ![s] = id], heap |-> Put(c.heap, id, [iRefCount |-> 1, val |-> v])]

(* What a change of one shell leaves to the others. *)
OthersKept(c, d, s) ==
  \A t \in Shells \ {s} : /\ d.of[t] = c.of[t]
                          /\ c.of[t] # None => d.heap[c.of[t]].val = c.heap[c.of[t]].val

(* The shells of a core are finitely many. *)
LEMMA UsersCount ==
  ASSUME IsFiniteSet(Shells), NEW of, NEW i
  PROVE  IsFiniteSet(Users(of, i)) /\ Cardinality(Users(of, i)) \in Nat
  BY FS_Subset, FS_CardinalityType DEF Users

(* A count of one is a shell alone with its core. *)
LEMMA AloneWithCore ==
  ASSUME IsFiniteSet(Shells), NEW of, NEW s \in Shells, Cardinality(Users(of, of[s])) = 1
  PROVE  \A t \in Shells \ {s} : of[t] # of[s]
<1>1. PICK x : Users(of, of[s]) = {x}
  BY UsersCount, FS_Singleton
<1> QED BY <1>1 DEF Users

(* A core that loses a shell keeps the others, or goes with its last. *)
LEMMA DerefSound ==
  ASSUME IsFiniteSet(Shells), NEW c, Sound(c), NEW s \in Shells, c.of[s] # None
  PROVE  /\ Sound(deref(c, s))
         /\ deref(c, s).of = [c.of EXCEPT ![s] = None]
         /\ OthersKept(c, deref(c, s), s)
<1> DEFINE id == c.of[s]
           d == deref(c, s)
           of == [c.of EXCEPT ![s] = None]
           h == [c.heap EXCEPT ![id].iRefCount = @ - 1]
           left == Users(c.of, id) \ {s}
<1>1. /\ id \in DOMAIN c.heap /\ id # None /\ c.heap[id] \in Cell
      /\ c.heap[id].iRefCount = Cardinality(Users(c.of, id))
      /\ c.of \in [Shells -> Nat] /\ c.heap \in [DOMAIN c.heap -> Cell]
  BY DEF Sound, CoreType
<1>2. /\ DOMAIN h = DOMAIN c.heap
      /\ h[id] = [c.heap[id] EXCEPT !.iRefCount = @ - 1]
      /\ \A i \in DOMAIN h \ {id} : h[i] = c.heap[i]
  BY <1>1
<1>3. h[id].iRefCount = c.heap[id].iRefCount - 1 /\ h[id].val = c.heap[id].val
  BY <1>1, <1>2 DEF Cell
<1>4. d = [of |-> of, heap |-> IF h[id].iRefCount > 0 THEN h ELSE [i \in DOMAIN h \ {id} |-> h[i]]]
  BY DEF deref
<1>5. IsFiniteSet(left) /\ Cardinality(left) = Cardinality(Users(c.of, id)) - 1 /\ Cardinality(left) \in Nat
  <2>1. s \in Users(c.of, id)
    BY DEF Users
  <2>2. IsFiniteSet(Users(c.of, id))
    BY UsersCount
  <2> QED BY <2>1, <2>2, FS_RemoveElement, FS_CardinalityType
<1>6. of \in [Shells -> Nat] /\ of[s] = None /\ \A t \in Shells \ {s} : of[t] = c.of[t]
  BY <1>1 DEF None
<1>7. Users(of, id) = left
  BY <1>1, <1>6 DEF Users
<1>8. \A i \in DOMAIN h \ {id} : Users(of, i) = Users(c.of, i)
  <2> SUFFICES ASSUME NEW i \in DOMAIN h \ {id} PROVE Users(of, i) = Users(c.of, i)
    OBVIOUS
  <2>1. i # None
    BY <1>2 DEF Sound, CoreType
  <2> QED BY <1>6, <2>1 DEF Users
<1>9. h[id].iRefCount = Cardinality(left) /\ h[id] \in Cell
  BY <1>1, <1>2, <1>3, <1>5 DEF Cell
<1>10. /\ IsFiniteSet(DOMAIN h) /\ DOMAIN h \subseteq Nat \ {None} /\ h \in [DOMAIN h -> Cell]
       /\ \A i \in DOMAIN h \ {id} : /\ h[i].iRefCount = Cardinality(Users(c.of, i))
                                     /\ h[i].iRefCount > 0
  BY <1>1, <1>2, <1>9 DEF Sound, CoreType
<1>11. \A t \in Shells : c.of[t] # None => c.of[t] \in DOMAIN h
  BY <1>2 DEF Sound
<1> HIDE DEF d, of, h
<1>12. CASE Cardinality(left) > 0
  <2>1. d = [of |-> of, heap |-> h]
    BY <1>4, <1>9, <1>12
  <2>2. d.of = of /\ d.heap = h /\ d = [of |-> d.of, heap |-> d.heap]
    BY <2>1
  <2>3. CoreType(d)
    BY <1>6, <1>10, <2>2 DEF CoreType
  <2>4. \A i \in DOMAIN h : h[i].iRefCount = Cardinality(Users(of, i)) /\ h[i].iRefCount > 0
    BY <1>7, <1>8, <1>9, <1>10, <1>12
  <2>5. \A t \in Shells : of[t] # None => of[t] \in DOMAIN h
    BY <1>6, <1>11
  <2>6. Sound(d)
    BY <2>2, <2>3, <2>4, <2>5 DEF Sound
  <2>7. OthersKept(c, d, s)
    BY <1>2, <1>3, <1>6, <1>11, <2>2 DEF OthersKept
  <2> QED BY <2>2, <2>6, <2>7 DEF d, of
<1>13. CASE Cardinality(left) = 0
  <2> DEFINE g == [i \in DOMAIN h \ {id} |-> h[i]]
  <2>1. d = [of |-> of, heap |-> g]
    BY <1>4, <1>9, <1>13
  <2>2. DOMAIN g = DOMAIN h \ {id} /\ (\A i \in DOMAIN g : g[i] = h[i]) /\ g \in [DOMAIN g -> Cell]
    BY <1>10
  <2> HIDE DEF g
  <2>3. d.of = of /\ d.heap = g /\ d = [of |-> d.of, heap |-> d.heap]
    BY <2>1
  <2>4. left = {}
    BY <1>5, <1>13, FS_EmptySet
  <2>5. \A t \in Shells \ {s} : c.of[t] # id
    BY <2>4 DEF Users
  <2>6. IsFiniteSet(DOMAIN g)
    BY <1>10, <2>2, FS_RemoveElement
  <2>7. CoreType(d)
    BY <1>6, <1>10, <2>2, <2>3, <2>6 DEF CoreType
  <2>8. \A i \in DOMAIN g : g[i].iRefCount = Cardinality(Users(of, i)) /\ g[i].iRefCount > 0
    BY <1>8, <1>10, <2>2
  <2>9. \A t \in Shells : of[t] # None => of[t] \in DOMAIN g
    BY <1>6, <1>11, <2>2, <2>5
  <2>10. Sound(d)
    BY <2>3, <2>7, <2>8, <2>9 DEF Sound
  <2>11. OthersKept(c, d, s)
    BY <1>2, <1>6, <1>11, <2>2, <2>3, <2>5 DEF OthersKept
  <2> QED BY <2>3, <2>10, <2>11 DEF d, of
<1>14. Cardinality(left) > 0 \/ Cardinality(left) = 0
  <2> DEFINE k == Cardinality(left)
  <2>1. k \in Nat
    BY <1>5
  <2> HIDE DEF k
  <2>2. k > 0 \/ k = 0
    BY <2>1
  <2> QED BY <2>2 DEF k
<1> QED BY <1>12, <1>13, <1>14, Zenon

(* A shell without a core joins those of core id. *)
LEMMA JoinSound ==
  ASSUME IsFiniteSet(Shells), NEW c, Sound(c), NEW s \in Shells, c.of[s] = None,
         NEW id \in DOMAIN c.heap
  PROVE  /\ Sound(Joined(c, s, id)) /\ OthersKept(c, Joined(c, s, id), s)
         /\ Joined(c, s, id).of[s] = id /\ Joined(c, s, id).heap[id].val = c.heap[id].val
<1> DEFINE d == Joined(c, s, id)
           of == [c.of EXCEPT ![s] = id]
           h == [c.heap EXCEPT ![id].iRefCount = @ + 1]
<1>1. /\ id # None /\ id \in Nat /\ c.heap[id] \in Cell
      /\ c.heap[id].iRefCount = Cardinality(Users(c.of, id))
      /\ c.of \in [Shells -> Nat] /\ c.heap \in [DOMAIN c.heap -> Cell]
  BY DEF Sound, CoreType
<1>2. /\ DOMAIN h = DOMAIN c.heap
      /\ h[id] = [c.heap[id] EXCEPT !.iRefCount = @ + 1]
      /\ \A i \in DOMAIN h \ {id} : h[i] = c.heap[i]
  BY <1>1
<1>3. /\ h[id].iRefCount = c.heap[id].iRefCount + 1 /\ h[id].val = c.heap[id].val
      /\ h[id] \in Cell
  BY <1>1, <1>2 DEF Cell
<1>4. d.of = of /\ d.heap = h /\ d = [of |-> d.of, heap |-> d.heap]
  BY DEF Joined
<1>5. of \in [Shells -> Nat] /\ of[s] = id /\ \A t \in Shells \ {s} : of[t] = c.of[t]
  BY <1>1
<1>6. h \in [DOMAIN h -> Cell]
  BY <1>1, <1>2, <1>3
<1> HIDE DEF of, h, d
<1>7. Users(of, id) = Users(c.of, id) \cup {s} /\ s \notin Users(c.of, id)
  BY <1>1, <1>5 DEF Users
<1>8. Cardinality(Users(of, id)) = Cardinality(Users(c.of, id)) + 1
  BY <1>7, UsersCount, FS_AddElement
<1>9. \A i \in DOMAIN h \ {id} : Users(of, i) = Users(c.of, i)
  <2> SUFFICES ASSUME NEW i \in DOMAIN h \ {id} PROVE Users(of, i) = Users(c.of, i)
    OBVIOUS
  <2>1. i # None
    BY <1>2 DEF Sound, CoreType
  <2> QED BY <1>5, <2>1 DEF Users
<1>10. CoreType(d)
  BY <1>2, <1>4, <1>5, <1>6 DEF Sound, CoreType
<1>11. \A i \in DOMAIN h : h[i].iRefCount = Cardinality(Users(of, i)) /\ h[i].iRefCount > 0
  <2> SUFFICES ASSUME NEW i \in DOMAIN h
               PROVE  h[i].iRefCount = Cardinality(Users(of, i)) /\ h[i].iRefCount > 0
    OBVIOUS
  <2>1. CASE i = id
    <3>1. Cardinality(Users(c.of, id)) \in Nat
      BY UsersCount
    <3> QED BY <1>1, <1>3, <1>8, <2>1, <3>1
  <2>2. CASE i # id
    BY <1>2, <1>9, <2>2 DEF Sound
  <2> QED BY <2>1, <2>2
<1>12. \A t \in Shells : of[t] # None => of[t] \in DOMAIN h
  BY <1>2, <1>5 DEF Sound
<1>13. Sound(d)
  BY <1>4, <1>10, <1>11, <1>12 DEF Sound
<1>14. OthersKept(c, d, s)
  BY <1>2, <1>3, <1>4, <1>5 DEF OthersKept, Sound
<1> QED BY <1>3, <1>4, <1>5, <1>13, <1>14 DEF d

(* An address that nothing is at can be found. *)
LEMMA FreeAddress ==
  ASSUME NEW h, IsFiniteSet(DOMAIN h), NEW v
  PROVE  /\ allocateCore(h, v).id \in Nat \ {None} /\ allocateCore(h, v).id \notin DOMAIN h
         /\ allocateCore(h, v).heap = Put(h, allocateCore(h, v).id, [iRefCount |-> 1, val |-> v])
<1> DEFINE n == Cardinality(DOMAIN h) + 1
           free == CHOOSE i \in 1..n : i \notin DOMAIN h
<1>1. Cardinality(DOMAIN h) \in Nat
  BY FS_CardinalityType
<1>2. IsFiniteSet(1..n) /\ Cardinality(1..n) = n
  BY <1>1, FS_Interval
<1>3. \E i \in 1..n : i \notin DOMAIN h
  <2> SUFFICES ASSUME 1..n \in SUBSET DOMAIN h PROVE FALSE
    OBVIOUS
  <2>1. Cardinality(1..n) <= Cardinality(DOMAIN h)
    BY FS_Subset
  <2> QED BY <1>1, <1>2, <2>1
<1>4. free \in 1..n /\ free \notin DOMAIN h
  BY <1>3
<1>5. allocateCore(h, v) = [id |-> free, heap |-> Put(h, free, [iRefCount |-> 1, val |-> v])]
  BY DEF allocateCore
<1> HIDE DEF free
<1> QED BY <1>1, <1>4, <1>5 DEF None

(* A shell without a core gets a new one. *)
LEMMA NewCoreSound ==
  ASSUME IsFiniteSet(Shells), NEW c, Sound(c), NEW s \in Shells, c.of[s] = None, NEW v \in Values,
         NEW id \in Nat \ {None}, id \notin DOMAIN c.heap
  PROVE  LET d == Renewed(c, s, id, v)
         IN  /\ Sound(d) /\ OthersKept(c, d, s)
             /\ d.of[s] = id /\ d.heap[id].val = v /\ d.heap[id].iRefCount = 1
<1> DEFINE d == Renewed(c, s, id, v)
           of == [c.of EXCEPT ![s] = id]
           h == Put(c.heap, id, [iRefCount |-> 1, val |-> v])
<1>1. c.of \in [Shells -> Nat] /\ c.heap \in [DOMAIN c.heap -> Cell]
  BY DEF Sound, CoreType
<1>2. /\ DOMAIN h = DOMAIN c.heap \cup {id}
      /\ h[id] = [iRefCount |-> 1, val |-> v]
      /\ \A i \in DOMAIN c.heap : h[i] = c.heap[i]
  BY DEF Put
<1>3. h[id].iRefCount = 1 /\ h[id].val = v /\ h[id] \in Cell
  BY <1>2 DEF Cell
<1>4. d.of = of /\ d.heap = h /\ d = [of |-> d.of, heap |-> d.heap]
  BY DEF Renewed
<1>5. of \in [Shells -> Nat] /\ of[s] = id /\ \A t \in Shells \ {s} : of[t] = c.of[t]
  BY <1>1
<1>6. h \in [DOMAIN h -> Cell]
  BY <1>1, <1>2, <1>3 DEF Put
<1> HIDE DEF of, h, d
<1>7. Users(of, id) = {s}
  BY <1>1, <1>5 DEF Users, Sound
<1>8. Cardinality(Users(of, id)) = 1
  BY <1>7, FS_Singleton
<1>9. \A i \in DOMAIN c.heap : Users(of, i) = Users(c.of, i)
  <2> SUFFICES ASSUME NEW i \in DOMAIN c.heap PROVE Users(of, i) = Users(c.of, i)
    OBVIOUS
  <2>1. i # None /\ i # id
    BY DEF Sound, CoreType
  <2> QED BY <1>5, <2>1 DEF Users
<1>10. IsFiniteSet(DOMAIN h)
  BY <1>2, FS_AddElement DEF Sound, CoreType
<1>11. CoreType(d)
  BY <1>2, <1>4, <1>5, <1>6, <1>10 DEF Sound, CoreType
<1>12. \A i \in DOMAIN h : h[i].iRefCount = Cardinality(Users(of, i)) /\ h[i].iRefCount > 0
  BY <1>2, <1>3, <1>8, <1>9 DEF Sound
<1>13. \A t \in Shells : of[t] # None => of[t] \in DOMAIN h
  BY <1>2, <1>5 DEF Sound
<1>14. Sound(d)
  BY <1>4, <1>11, <1>12, <1>13 DEF Sound
<1>15. OthersKept(c, d, s)
  BY <1>2, <1>4, <1>5 DEF OthersKept, Sound
<1> QED BY <1>3, <1>4, <1>5, <1>14, <1>15 DEF d

(* A shell is moved to the core of another one. *)
LEMMA SoftCopySound ==
  ASSUME IsFiniteSet(Shells), NEW c, Sound(c), NEW s \in Shells, NEW t \in Shells,
         c.of[t] # None, c.of[s] # c.of[t]
  PROVE  LET d == softCopy(c, s, t)
         IN  /\ Sound(d) /\ OthersKept(c, d, s)
             /\ d.of[s] # None /\ d.heap[d.of[s]].val = c.heap[c.of[t]].val
<1> DEFINE id == c.of[t]
           b == IF c.of[s] = None THEN c ELSE deref(c, s)
           d == Joined(b, s, id)
<1>1. softCopy(c, s, t) = d
  BY DEF softCopy, Joined
<1>2. Sound(b) /\ OthersKept(c, b, s) /\ b.of[s] = None
  <2>1. CASE c.of[s] = None
    BY <2>1 DEF OthersKept
  <2>2. CASE c.of[s] # None
    <3>1. Sound(deref(c, s)) /\ OthersKept(c, deref(c, s), s) /\ deref(c, s).of = [c.of EXCEPT ![s] = None]
      BY <2>2, DerefSound
    <3>2. c.of \in [Shells -> Nat]
      BY DEF Sound, CoreType
    <3> QED BY <2>2, <3>1, <3>2
  <2> QED BY <2>1, <2>2
<1> HIDE DEF b
<1>3. b.of[t] = id /\ id \in DOMAIN b.heap /\ b.heap[id].val = c.heap[id].val
  BY <1>2 DEF OthersKept, Sound
<1>4. /\ Sound(d) /\ OthersKept(b, d, s) /\ d.of[s] = id /\ d.heap[id].val = b.heap[id].val
  BY <1>2, <1>3, JoinSound
<1>5. id # None
  OBVIOUS
<1> HIDE DEF d, id
<1>6. OthersKept(c, d, s)
  BY <1>2, <1>4 DEF OthersKept
<1> QED BY <1>1, <1>3, <1>4, <1>5, <1>6 DEF id

(* A shell gets a core of its own. *)
LEMMA OwnCoreSound ==
  ASSUME IsFiniteSet(Shells), NEW c, Sound(c), NEW s \in Shells, NEW v \in Values
  PROVE  LET d == ownCore(c, s, v)
         IN  /\ Sound(d) /\ OthersKept(c, d, s)
             /\ d.of[s] # None /\ d.heap[d.of[s]].val = v /\ d.heap[d.of[s]].iRefCount = 1
<1> DEFINE b == IF c.of[s] = None THEN c ELSE deref(c, s)
           n == allocateCore(b.heap, v)
           d == Renewed(b, s, n.id, v)
<1>1. ownCore(c, s, v) = [of |-> [b.of EXCEPT ![s] = n.id], heap |-> n.heap]
  BY DEF ownCore
<1>2. Sound(b) /\ OthersKept(c, b, s) /\ b.of[s] = None
  <2>1. CASE c.of[s] = None
    BY <2>1 DEF OthersKept
  <2>2. CASE c.of[s] # None
    <3>1. Sound(deref(c, s)) /\ OthersKept(c, deref(c, s), s) /\ deref(c, s).of = [c.of EXCEPT ![s] = None]
      BY <2>2, DerefSound
    <3>2. c.of \in [Shells -> Nat]
      BY DEF Sound, CoreType
    <3> QED BY <2>2, <3>1, <3>2
  <2> QED BY <2>1, <2>2
<1> HIDE DEF b
<1>3. /\ n.id \in Nat \ {None} /\ n.id \notin DOMAIN b.heap
      /\ n.heap = Put(b.heap, n.id, [iRefCount |-> 1, val |-> v])
  BY <1>2, FreeAddress DEF Sound, CoreType
<1> HIDE DEF n
<1>4. /\ Sound(d) /\ OthersKept(b, d, s)
      /\ d.of[s] = n.id /\ d.heap[n.id].val = v /\ d.heap[n.id].iRefCount = 1
  BY <1>2, <1>3, NewCoreSound
<1> HIDE DEF d
<1>5. OthersKept(c, d, s)
  BY <1>2, <1>4 DEF OthersKept
<1>6. ownCore(c, s, v) = d
  BY <1>1, <1>3 DEF d, Renewed
<1>7. n.id # None
  BY <1>3
<1> QED BY <1>4, <1>5, <1>6, <1>7

(* Before a change, a shell has its core alone, and every shell its value. *)
LEMMA HardCopySound ==
  ASSUME IsFiniteSet(Shells), NEW c, Sound(c), NEW s \in Shells, c.of[s] # None
  PROVE  LET d == hardCopy(c, s)
         IN  /\ Sound(d) /\ OthersKept(c, d, s)
             /\ d.of[s] # None /\ d.heap[d.of[s]].val = c.heap[c.of[s]].val
             /\ \A t \in Shells \ {s} : d.of[t] # d.of[s]
<1> DEFINE d == hardCopy(c, s)
           v == c.heap[c.of[s]].val
<1>1. c.of[s] \in DOMAIN c.heap /\ v \in Values
  BY DEF Sound, CoreType, Cell
<1>2. /\ Sound(d) /\ OthersKept(c, d, s)
      /\ d.of[s] # None /\ d.heap[d.of[s]].val = v /\ d.heap[d.of[s]].iRefCount = 1
  <2>1. CASE c.heap[c.of[s]].iRefCount = 1
    <3>1. d = c
      BY <2>1 DEF hardCopy
    <3>2. OthersKept(c, c, s)
      BY DEF OthersKept
    <3> HIDE DEF d
    <3> QED BY <2>1, <3>1, <3>2
  <2>2. CASE c.heap[c.of[s]].iRefCount # 1
    <3>1. d = ownCore(c, s, v)
      BY <2>2 DEF hardCopy
    <3> HIDE DEF d, v
    <3> QED BY <1>1, <3>1, OwnCoreSound
  <2> QED BY <2>1, <2>2
<1> HIDE DEF d
<1>3. d.of[s] \in DOMAIN d.heap /\ Cardinality(Users(d.of, d.of[s])) = 1
  BY <1>2 DEF Sound
<1>4. \A t \in Shells \ {s} : d.of[t] # d.of[s]
  BY <1>3, AloneWithCore
<1> QED BY <1>2, <1>4 DEF d
-----------------------------------------------------------------------------
(* Every shell that is alive has a core with its value. *)
Agrees(c, a) ==
  /\ DOMAIN a \subseteq Shells /\ a \in [DOMAIN a -> Values]
  /\ \A s \in Shells : s \in DOMAIN a <=> c.of[s] # None
  /\ \A s \in DOMAIN a : c.heap[c.of[s]].val = a[s]

Inv == Sound(core) /\ Agrees(core, abs)

(* The shell a call is about has the value the call gives it. *)
LEMMA Given ==
  ASSUME NEW c, NEW d, NEW a, NEW b, NEW s \in Shells, NEW v \in Values,
         Agrees(c, a), OthersKept(c, d, s), d.of[s] # None, d.heap[d.of[s]].val = v,
         DOMAIN b = DOMAIN a \cup {s}, b \in [DOMAIN b -> Values], b[s] = v,
         \A t \in DOMAIN a \ {s} : b[t] = a[t]
  PROVE  Agrees(d, b)
  BY DEF Agrees, OthersKept

(* There are no shells at first. *)
LEMMA InitInv == ASSUME IsFiniteSet(Shells), Init PROVE Inv
<1>1. /\ core.of = [s \in Shells |-> None] /\ core.heap = << >> /\ abs = << >>
      /\ core = [of |-> core.of, heap |-> core.heap]
  BY DEF Init
<1>2. DOMAIN core.heap = {} /\ DOMAIN abs = {}
  BY <1>1
<1>3. core.heap \in [DOMAIN core.heap -> Cell] /\ abs \in [DOMAIN abs -> Values]
  BY <1>1, <1>2
<1>4. CoreType(core)
  BY <1>1, <1>2, <1>3, FS_EmptySet DEF CoreType, None
<1>5. \A s \in Shells : core.of[s] = None
  BY <1>1
<1>6. Sound(core)
  BY <1>2, <1>4, <1>5 DEF Sound
<1>7. Agrees(core, abs)
  BY <1>2, <1>3, <1>5 DEF Agrees
<1> QED BY <1>6, <1>7 DEF Inv

(* The constructors. *)
LEMMA ConstructInv ==
  ASSUME IsFiniteSet(Shells), Inv, NEW s \in Shells, construct(s)
  PROVE  Inv'
<1>1. core' = ownCore(core, s, Blank) /\ abs' = Put(abs, s, Blank) /\ Blank \in Values
  BY DEF construct, Values
<1>2. /\ Sound(core') /\ OthersKept(core, core', s)
      /\ core'.of[s] # None /\ core'.heap[core'.of[s]].val = Blank
  BY <1>1, OwnCoreSound DEF Inv
<1>3. /\ DOMAIN abs' = DOMAIN abs \cup {s} /\ abs' \in [DOMAIN abs' -> Values]
      /\ abs'[s] = Blank /\ \A t \in DOMAIN abs \ {s} : abs'[t] = abs[t]
  <2>1. abs \in [DOMAIN abs -> Values]
    BY DEF Inv, Agrees
  <2> QED BY <1>1, <2>1 DEF Put
<1>4. Agrees(core', abs')
  BY <1>1, <1>2, <1>3, Given DEF Inv
<1> QED BY <1>2, <1>4 DEF Inv

LEMMA CopyConstructInv ==
  ASSUME IsFiniteSet(Shells), Inv, NEW s \in Shells, NEW t \in Shells, copyConstruct(s, t)
  PROVE  Inv'
<1>1. /\ core' = softCopy(core, s, t) /\ abs' = Put(abs, s, abs[t])
      /\ s \notin DOMAIN abs /\ t \in DOMAIN abs
  BY DEF copyConstruct, Alive
<1>2. /\ core.of[t] # None /\ core.of[s] # core.of[t]
      /\ core.heap[core.of[t]].val = abs[t] /\ abs[t] \in Values
  BY <1>1 DEF Inv, Agrees
<1>3. /\ Sound(core') /\ OthersKept(core, core', s)
      /\ core'.of[s] # None /\ core'.heap[core'.of[s]].val = abs[t]
  BY <1>1, <1>2, SoftCopySound DEF Inv
<1>4. /\ DOMAIN abs' = DOMAIN abs \cup {s} /\ abs' \in [DOMAIN abs' -> Values]
      /\ abs'[s] = abs[t] /\ \A u \in DOMAIN abs \ {s} : abs'[u] = abs[u]
  <2>1. abs \in [DOMAIN abs -> Values]
    BY DEF Inv, Agrees
  <2> QED BY <1>1, <1>2, <2>1 DEF Put
<1>5. Agrees(core', abs')
  BY <1>2, <1>3, <1>4, Given DEF Inv
<1> QED BY <1>3, <1>5 DEF Inv

(* operator=, between shells of one core or of two. *)
LEMMA AssignInv ==
  ASSUME IsFiniteSet(Shells), Inv, NEW s \in Shells, NEW t \in Shells, assign(s, t)
  PROVE  Inv'
<1>1. /\ s \in DOMAIN abs /\ t \in DOMAIN abs /\ abs' = [abs EXCEPT ![s] = abs[t]]
      /\ core' = IF core.of[s] = core.of[t] THEN core ELSE softCopy(core, s, t)
  BY DEF assign, Alive
<1>2. /\ core.of[s] # None /\ core.of[t] # None
      /\ core.heap[core.of[t]].val = abs[t] /\ abs[t] \in Values
  BY <1>1 DEF Inv, Agrees
<1>3. /\ Sound(core') /\ OthersKept(core, core', s)
      /\ core'.of[s] # None /\ core'.heap[core'.of[s]].val = abs[t]
  <2>1. CASE core.of[s] = core.of[t]
    BY <1>1, <1>2, <2>1 DEF Inv, OthersKept
  <2>2. CASE core.of[s] # core.of[t]
    BY <1>1, <1>2, <2>2, SoftCopySound DEF Inv
  <2> QED BY <2>1, <2>2
<1>4. /\ DOMAIN abs' = DOMAIN abs \cup {s} /\ abs' \in [DOMAIN abs' -> Values]
      /\ abs'[s] = abs[t] /\ \A u \in DOMAIN abs \ {s} : abs'[u] = abs[u]
  BY <1>1, <1>2 DEF Inv, Agrees
<1>5. Agrees(core', abs')
  BY <1>2, <1>3, <1>4, Given DEF Inv
<1> QED BY <1>3, <1>5 DEF Inv

(* clone shares the core first, and then makes it its own. *)
LEMMA CloneInv ==
  ASSUME IsFiniteSet(Shells), Inv, NEW s \in Shells, NEW t \in Shells, clone(s, t)
  PROVE  Inv'
<1> DEFINE m == softCopy(core, s, t)
<1>1. /\ core' = hardCopy(m, s) /\ abs' = Put(abs, s, abs[t])
      /\ s \notin DOMAIN abs /\ t \in DOMAIN abs
  BY DEF clone, Alive
<1>2. /\ core.of[t] # None /\ core.of[s] # core.of[t]
      /\ core.heap[core.of[t]].val = abs[t] /\ abs[t] \in Values
  BY <1>1 DEF Inv, Agrees
<1>3. /\ Sound(m) /\ OthersKept(core, m, s)
      /\ m.of[s] # None /\ m.heap[m.of[s]].val = abs[t]
  BY <1>2, SoftCopySound DEF Inv
<1> HIDE DEF m
<1>4. /\ Sound(core') /\ OthersKept(m, core', s)
      /\ core'.of[s] # None /\ core'.heap[core'.of[s]].val = abs[t]
  BY <1>1, <1>3, HardCopySound
<1>5. OthersKept(core, core', s)
  BY <1>3, <1>4 DEF OthersKept
<1>6. /\ DOMAIN abs' = DOMAIN abs \cup {s} /\ abs' \in [DOMAIN abs' -> Values]
      /\ abs'[s] = abs[t] /\ \A u \in DOMAIN abs \ {s} : abs'[u] = abs[u]
  <2>1. abs \in [DOMAIN abs -> Values]
    BY DEF Inv, Agrees
  <2> QED BY <1>1, <1>2, <2>1 DEF Put
<1>7. Agrees(core', abs')
  BY <1>2, <1>4, <1>5, <1>6, Given DEF Inv
<1> QED BY <1>4, <1>7 DEF Inv

(* A method that changes the object, behind _hardCopy. *)
LEMMA ChangeInv ==
  ASSUME IsFiniteSet(Shells), Inv, NEW s \in Shells, NEW v \in Contents, change(s, v)
  PROVE  Inv'
<1> DEFINE m == hardCopy(core, s)
           id == m.of[s]
           h == [m.heap EXCEPT ![id].val = v]
<1>1. /\ core' = [m EXCEPT !.heap[m.of[s]].val = v] /\ abs' = [abs EXCEPT ![s] = v]
      /\ s \in DOMAIN abs /\ v \in Values
  BY DEF change, Alive, Values
<1>2. core.of[s] # None
  BY <1>1 DEF Inv, Agrees
<1>3. /\ Sound(m) /\ OthersKept(core, m, s) /\ m.of[s] # None
      /\ \A t \in Shells \ {s} : m.of[t] # m.of[s]
  BY <1>2, HardCopySound DEF Inv
<1> HIDE DEF m
<1>4. /\ m = [of |-> m.of, heap |-> m.heap] /\ m.heap \in [DOMAIN m.heap -> Cell]
      /\ id \in DOMAIN m.heap /\ m.heap[id] \in Cell
  BY <1>3 DEF Sound, CoreType
<1>5. /\ DOMAIN h = DOMAIN m.heap /\ h[id] = [m.heap[id] EXCEPT !.val = v]
      /\ \A i \in DOMAIN h \ {id} : h[i] = m.heap[i]
  BY <1>4
<1>6. /\ h[id].val = v /\ h[id].iRefCount = m.heap[id].iRefCount /\ h[id] \in Cell
  BY <1>1, <1>4, <1>5 DEF Cell
<1>7. h \in [DOMAIN h -> Cell]
  BY <1>4, <1>5, <1>6
<1>8. core' = [of |-> m.of, heap |-> h]
  BY <1>1, <1>4
<1> HIDE DEF h, id
<1>9. core'.of = m.of /\ core'.heap = h /\ core' = [of |-> core'.of, heap |-> core'.heap]
  BY <1>8
<1>10. CoreType(core')
  BY <1>3, <1>5, <1>7, <1>9 DEF Sound, CoreType
<1>11. Sound(core')
  BY <1>3, <1>5, <1>6, <1>9, <1>10 DEF Sound
<1>12. OthersKept(m, core', s)
  BY <1>3, <1>5, <1>9 DEF OthersKept, Sound, id
<1>13. OthersKept(core, core', s)
  BY <1>3, <1>12 DEF OthersKept
<1>14. core'.of[s] # None /\ core'.heap[core'.of[s]].val = v
  BY <1>3, <1>6, <1>9 DEF id
<1>15. /\ DOMAIN abs' = DOMAIN abs \cup {s} /\ abs' \in [DOMAIN abs' -> Values]
       /\ abs'[s] = v /\ \A t \in DOMAIN abs \ {s} : abs'[t] = abs[t]
  BY <1>1 DEF Inv, Agrees
<1>16. Agrees(core', abs')
  BY <1>1, <1>13, <1>14, <1>15, Given DEF Inv
<1> QED BY <1>11, <1>16 DEF Inv

LEMMA ResetCoreInv ==
  ASSUME IsFiniteSet(Shells), Inv, NEW s \in Shells, resetCore(s)
  PROVE  Inv'
<1>1. /\ core' = ownCore(core, s, Blank) /\ abs' = [abs EXCEPT ![s] = Blank]
      /\ s \in DOMAIN abs /\ Blank \in Values
  BY DEF resetCore, Alive, Values
<1>2. /\ Sound(core') /\ OthersKept(core, core', s)
      /\ core'.of[s] # None /\ core'.heap[core'.of[s]].val = Blank
  BY <1>1, OwnCoreSound DEF Inv
<1>3. /\ DOMAIN abs' = DOMAIN abs \cup {s} /\ abs' \in [DOMAIN abs' -> Values]
      /\ abs'[s] = Blank /\ \A t \in DOMAIN abs \ {s} : abs'[t] = abs[t]
  BY <1>1 DEF Inv, Agrees
<1>4. Agrees(core', abs')
  BY <1>1, <1>2, <1>3, Given DEF Inv
<1> QED BY <1>2, <1>4 DEF Inv

LEMMA DestroyInv ==
  ASSUME IsFiniteSet(Shells), Inv, NEW s \in Shells, destroy(s)
  PROVE  Inv'
<1>1. /\ core' = deref(core, s) /\ abs' = [t \in DOMAIN abs \ {s} |-> abs[t]]
      /\ s \in DOMAIN abs
  BY DEF destroy, Alive
<1>2. core.of[s] # None /\ core.of \in [Shells -> Nat]
  BY <1>1 DEF Inv, Agrees, Sound, CoreType
<1>3. Sound(core') /\ OthersKept(core, core', s) /\ core'.of = [core.of EXCEPT ![s] = None]
  BY <1>1, <1>2, DerefSound DEF Inv
<1>4. core'.of[s] = None
  BY <1>2, <1>3
<1>5. /\ DOMAIN abs' = DOMAIN abs \ {s} /\ abs' \in [DOMAIN abs' -> Values]
      /\ \A t \in DOMAIN abs' : abs'[t] = abs[t]
  BY <1>1 DEF Inv, Agrees
<1>6. Agrees(core', abs')
  BY <1>3, <1>4, <1>5 DEF Inv, Agrees, OthersKept
<1> QED BY <1>3, <1>6 DEF Inv

(* Every call keeps the invariant. *)
LEMMA NextInv == ASSUME IsFiniteSet(Shells), Inv, [Next]_vars PROVE Inv'
<1>1. CASE Next
  BY <1>1, ConstructInv, CopyConstructInv, AssignInv, CloneInv, ChangeInv, ResetCoreInv, DestroyInv DEF Next
<1>2. CASE UNCHANGED vars
  BY <1>2 DEF vars, Inv, Sound, CoreType, Agrees
<1> QED BY <1>1, <1>2

(* Whatever is done through the shells that share a core, every shell has  *)
(* the value it was given last: _hardCopy never misses a sharer.           *)
THEOREM SharingIsByValue ==
  ASSUME IsFiniteSet(Shells)
  PROVE  Spec => []ValueSemantics
<1>1. Init => Inv
  BY InitInv
<1>2. Inv /\ [Next]_vars => Inv'
  BY NextInv
<1>3. Inv => ValueSemantics
  BY DEF Inv, Sound, Agrees, ValueSemantics, Alive
<1> QED BY <1>1, <1>2, <1>3, PTL DEF Spec

(* iRefCount is the number of shells of a core, so a core is freed with    *)
(* its last shell, neither before nor never.                               *)
THEOREM CoresAreCounted ==
  ASSUME IsFiniteSet(Shells)
  PROVE  Spec => []CountsAreExact
<1>1. Init => Inv
  BY InitInv
<1>2. Inv /\ [Next]_vars => Inv'
  BY NextInv
<1>3. Inv => CountsAreExact
  BY DEF Inv, Sound, CountsAreExact, Users
<1> QED BY <1>1, <1>2, <1>3, PTL DEF Spec
=============================================================================
