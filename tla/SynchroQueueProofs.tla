------------------------- MODULE SynchroQueueProofs -------------------------
(***************************************************************************)
(* Proofs about SynchroQueue, for every finite set of threads and every    *)
(* set of values and of addresses.                                         *)
(***************************************************************************)
EXTENDS SynchroQueue, WellFoundedInduction, FiniteSetTheorems, TLAPS

-----------------------------------------------------------------------------
(* Least members, and induction over the numbers. *)

(* The library's least-element theorem, for sets of naturals. *)
LEMMA WellFoundedMin ==
  ASSUME NEW T, T \subseteq Nat, T # {}, NEW R, IsWellFoundedOn(R, Nat)
  PROVE  \E x \in T : \A y \in T : ~ (<<y, x>> \in R)
  BY WFMin

(* The same with the order of the numbers as the relation. *)
LEMMA RelationMin ==
  ASSUME NEW T, T \subseteq Nat, NEW R,
         \A x, y \in Nat : x < y => <<x, y>> \in R,
         \E x \in T : \A y \in T : ~ (<<y, x>> \in R)
  PROVE  \E x \in T : \A y \in T : x <= y
<1>1. PICK x \in T : \A y \in T : ~ (<<y, x>> \in R)
  OBVIOUS
<1>2. \A y \in T : x <= y
  <2> TAKE y \in T
  <2>1. x \in Nat /\ y \in Nat
    OBVIOUS
  <2>2. ~ (y < x)
    BY <1>1, <2>1
  <2> QED BY <2>1, <2>2
<1> QED BY <1>2

(* A set of numbers that is not empty has a least member. *)
LEMMA NatMin ==
  ASSUME NEW T, T \subseteq Nat, T # {}
  PROVE  \E x \in T : \A y \in T : x <= y
<1>1. \A x, y \in Nat : x < y => <<x, y>> \in OpToRel(<, Nat)
  BY DEF OpToRel
<1>2. \E x \in T : \A y \in T : ~ (<<y, x>> \in OpToRel(<, Nat))
  BY WellFoundedMin, NatLessThanWellFounded, Zenon
<1> QED BY <1>1, <1>2, RelationMin, Zenon

(* A set that holds zero and every successor holds every number. *)
LEMMA SetInduction ==
  ASSUME NEW T \in SUBSET Nat, 0 \in T, \A n \in T : n + 1 \in T
  PROVE  \A n \in Nat : n \in T
<1>1. SUFFICES ASSUME Nat \ T # {} PROVE FALSE
  OBVIOUS
<1>2. PICK x \in Nat \ T : \A y \in Nat \ T : x <= y
  BY <1>1, NatMin
<1>3. x # 0 /\ x - 1 \in Nat /\ x - 1 \in T
  BY <1>2
<1> QED BY <1>2, <1>3

-----------------------------------------------------------------------------
(* Sequences. *)

(* Appending keeps what is there. *)
LEMMA AppendFacts ==
  ASSUME NEW S, NEW q \in Seq(S), NEW e \in S
  PROVE  /\ Append(q, e) \in Seq(S)
         /\ Len(q) \in Nat
         /\ Len(Append(q, e)) = Len(q) + 1
         /\ DOMAIN Append(q, e) = 1..(Len(q) + 1)
         /\ DOMAIN q = 1..Len(q)
         /\ \A i \in 1..Len(q) : Append(q, e)[i] = q[i]
         /\ Append(q, e)[Len(q) + 1] = e
  OBVIOUS

(* Removing the first element moves the others up. *)
LEMMA TailFacts ==
  ASSUME NEW S, NEW q \in Seq(S), q # << >>
  PROVE  /\ Tail(q) \in Seq(S)
         /\ Len(q) \in Nat \ {0}
         /\ Len(Tail(q)) = Len(q) - 1
         /\ DOMAIN Tail(q) = 1..(Len(q) - 1)
         /\ DOMAIN q = 1..Len(q)
         /\ \A i \in 1..(Len(q) - 1) : Tail(q)[i] = q[i + 1]
         /\ q[1] \in S /\ Head(q) = q[1]
  OBVIOUS

(* The elements of a sequence. *)
LEMMA SeqElem ==
  ASSUME NEW S, NEW q \in Seq(S)
  PROVE  /\ DOMAIN q = 1..Len(q) /\ Len(q) \in Nat
         /\ \A i \in DOMAIN q : q[i] \in S
         /\ q = << >> <=> Len(q) = 0
  OBVIOUS

-----------------------------------------------------------------------------
(* The linked list. *)

(* An item at a free address is linked behind the others. *)
LEMMA EnqueueList ==
  ASSUME TypeOK, ListSound, NEW v \in Values, NEW n \in Nodes, enqueue(v, n)
  PROVE  ListSound'
<1>1. /\ order \in Seq(Nodes) /\ order' = Append(order, n)
      /\ n \notin allocated /\ allocated' = allocated \cup {n}
      /\ pNext \in [Nodes -> Nodes \cup {NULL}]
      /\ pData \in [Nodes -> Values \cup {NULL}]
      /\ pData' = [pData EXCEPT ![n] = v]
      /\ pEnd' = n
  BY DEF enqueue, Link, TypeOK
<1>2. /\ Len(order) \in Nat
      /\ DOMAIN order = 1..Len(order)
      /\ DOMAIN order' = 1..(Len(order) + 1)
      /\ Len(order') = Len(order) + 1
      /\ \A i \in 1..Len(order) : order'[i] = order[i]
      /\ order'[Len(order) + 1] = n
      /\ order' # << >>
  BY <1>1, AppendFacts
<1>3. \A i \in 1..Len(order) : /\ order[i] \in Nodes /\ order[i] # n
                               /\ order[i] \in allocated
                               /\ pData[order[i]] \in Values
  BY <1>1, <1>2, SeqElem DEF ListSound
<1>4. IsInjective(order')
  <2>1. \A a, b \in 1..Len(order) : order[a] = order[b] => a = b
    BY <1>2 DEF ListSound, IsInjective
  <2>2. \A a \in DOMAIN order' : a \in 1..Len(order) \/ a = Len(order) + 1
    BY <1>2
  <2>3. ASSUME NEW a \in DOMAIN order', NEW b \in DOMAIN order',
               order'[a] = order'[b]
        PROVE  a = b
    BY <1>2, <1>3, <2>1, <2>2, <2>3
  <2> QED BY <2>3 DEF IsInjective
<1>5. pStart' = order'[1]
  <2>1. CASE order = << >>
    <3>1. pStart = NULL /\ Len(order) = 0
      BY <1>1, <2>1, SeqElem DEF ListSound
    <3>2. pStart' = n
      BY <3>1 DEF enqueue, Link
    <3> QED BY <1>2, <3>1, <3>2
  <2>2. CASE order # << >>
    <3>1. Len(order) # 0
      BY <1>1, <2>2, SeqElem
    <3>2. pStart = order[1] /\ 1 \in 1..Len(order)
      BY <1>2, <2>2, <3>1 DEF ListSound
    <3>3. pStart # NULL
      BY <1>3, <3>2, NullAssumption
    <3>4. pStart' = pStart
      BY <3>3 DEF enqueue, Link
    <3> QED BY <1>2, <3>2, <3>4
  <2> QED BY <2>1, <2>2
<1>6. \A i \in DOMAIN order' :
        pNext'[order'[i]] = (IF i < Len(order') THEN order'[i + 1] ELSE NULL)
  <2>1. pNext'[n] = NULL
    <3>1. CASE pStart = NULL
      BY <1>1, <3>1 DEF enqueue, Link
    <3>2. CASE pStart # NULL
      BY <1>1, <3>2 DEF enqueue, Link
    <3> QED BY <3>1, <3>2
  <2>2. ASSUME NEW i \in 1..Len(order)
        PROVE  pNext'[order[i]] = order'[i + 1]
    <3>1. order # << >> /\ Len(order) # 0
      BY <1>1, <2>2, SeqElem
    <3>2. pStart = order[1] /\ pEnd = order[Len(order)] /\ 1 \in 1..Len(order)
          /\ Len(order) \in 1..Len(order)
      BY <1>2, <3>1 DEF ListSound
    <3>3. pStart # NULL
      BY <1>3, <3>2, NullAssumption
    <3>4. pNext' = [pNext EXCEPT ![pEnd] = n, ![n] = NULL]
      BY <3>3 DEF enqueue, Link
    <3>5. pEnd \in Nodes /\ order[i] \in Nodes /\ order[i] # n /\ pEnd # n
      BY <1>3, <3>2
    <3>6. CASE i = Len(order)
      BY <1>1, <1>2, <3>2, <3>4, <3>5, <3>6
    <3>7. CASE i < Len(order)
      <4>1. order[i] # pEnd
        BY <1>2, <3>2, <3>7 DEF ListSound, IsInjective
      <4>2. pNext[order[i]] = order[i + 1] /\ i + 1 \in 1..Len(order)
        BY <1>2, <3>7 DEF ListSound
      <4>3. pNext'[order[i]] = pNext[order[i]]
        BY <1>1, <3>4, <3>5, <4>1
      <4> QED BY <1>2, <4>2, <4>3
    <3>8. i = Len(order) \/ i < Len(order)
      <4>1. Len(order) \in Nat
        BY <1>2
      <4> QED BY <4>1
    <3> QED BY <3>6, <3>7, <3>8
  <2>3. ASSUME NEW i \in DOMAIN order'
        PROVE  pNext'[order'[i]] =
                 (IF i < Len(order') THEN order'[i + 1] ELSE NULL)
    <3>1. CASE i = Len(order) + 1
      BY <1>2, <2>1, <3>1
    <3>2. CASE i \in 1..Len(order)
      BY <1>2, <2>2, <3>2
    <3> QED BY <1>2, <3>1, <3>2
  <2> QED BY <2>3
<1>7. \A i \in DOMAIN order' :
        order'[i] \in allocated' /\ pData'[order'[i]] \in Values
  <2>1. ASSUME NEW i \in DOMAIN order'
        PROVE  order'[i] \in allocated' /\ pData'[order'[i]] \in Values
    <3>1. CASE i = Len(order) + 1
      BY <1>1, <1>2, <3>1
    <3>2. CASE i \in 1..Len(order)
      BY <1>1, <1>2, <1>3, <3>2
    <3> QED BY <1>2, <3>1, <3>2
  <2> QED BY <2>1
<1>8. pEnd' = order'[Len(order')]
  BY <1>1, <1>2
<1> QED BY <1>2, <1>4, <1>5, <1>6, <1>7, <1>8 DEF ListSound

(* The first item is unlinked; the others stay as they are. *)
LEMMA TakeList ==
  ASSUME TypeOK, ListSound, NEW t \in Threads, Take(t)
  PROVE  ListSound' /\ order # << >> /\ pStart = order[1]
<1>1. /\ order \in Seq(Nodes) /\ order' = Tail(order)
      /\ allocated' = allocated \ {pStart}
      /\ pStart' = pNext[pStart]
      /\ pEnd' = pEnd /\ pNext' = pNext /\ pData' = pData
      /\ pStart # NULL
  BY DEF Take, TypeOK
<1>2. order # << >> /\ pStart = order[1]
  BY <1>1 DEF ListSound
<1>3. /\ Len(order) \in Nat \ {0}
      /\ DOMAIN order = 1..Len(order)
      /\ order' \in Seq(Nodes)
      /\ DOMAIN order' = 1..(Len(order) - 1)
      /\ Len(order') = Len(order) - 1
      /\ \A i \in 1..(Len(order) - 1) : order'[i] = order[i + 1]
  BY <1>1, <1>2, TailFacts
<1>4. \A a, b \in 1..Len(order) : order[a] = order[b] => a = b
  BY <1>3 DEF ListSound, IsInjective
<1>5. IsInjective(order')
  <2>1. ASSUME NEW a \in DOMAIN order', NEW b \in DOMAIN order',
               order'[a] = order'[b]
        PROVE  a = b
    <3>1. a + 1 \in 1..Len(order) /\ b + 1 \in 1..Len(order)
      BY <1>3
    <3>2. order[a + 1] = order[b + 1]
      BY <1>3, <2>1
    <3>3. a + 1 = b + 1
      BY <1>4, <3>1, <3>2
    <3> QED BY <1>3, <3>3
  <2> QED BY <2>1 DEF IsInjective
<1>6. order' = << >> <=> Len(order) = 1
  BY <1>3, SeqElem
<1>7. \A i \in 1..Len(order) :
        pNext[order[i]] = (IF i < Len(order) THEN order[i + 1] ELSE NULL)
  BY <1>3 DEF ListSound
<1>8. pStart' = (IF order' = << >> THEN NULL ELSE order'[1])
  <2>1. pStart' = (IF 1 < Len(order) THEN order[2] ELSE NULL)
    BY <1>1, <1>2, <1>3, <1>7
  <2>2. CASE Len(order) = 1
    BY <1>6, <2>1, <2>2
  <2>3. CASE Len(order) # 1
    <3>1. order'[1] = order[2]
      BY <1>3, <2>3
    <3> QED BY <1>3, <1>6, <2>1, <2>3, <3>1
  <2> QED BY <2>2, <2>3
<1>9. order' # << >> => pEnd' = order'[Len(order')]
  <2>1. pEnd = order[Len(order)]
    BY <1>2 DEF ListSound
  <2> QED BY <1>1, <1>3, <1>6, <2>1
<1>10. ASSUME NEW i \in DOMAIN order'
       PROVE  /\ pNext'[order'[i]] =
                   (IF i < Len(order') THEN order'[i + 1] ELSE NULL)
              /\ order'[i] \in allocated' /\ pData'[order'[i]] \in Values
  <2>1. i + 1 \in 1..Len(order) /\ order'[i] = order[i + 1] /\ i \in Nat
        /\ i + 1 # 1
    BY <1>3
  <2>2. order[i + 1] # order[1]
    BY <1>3, <1>4, <2>1
  <2>3. order[i + 1] \in allocated /\ pData[order[i + 1]] \in Values
    BY <1>3, <2>1 DEF ListSound
  <2>4. i < Len(order') => order'[i + 1] = order[i + 1 + 1]
    BY <1>3, <2>1
  <2>5. i < Len(order') <=> i + 1 < Len(order)
    BY <1>3, <2>1
  <2>6. pNext[order[i + 1]] =
          (IF i + 1 < Len(order) THEN order[i + 1 + 1] ELSE NULL)
    BY <1>7, <2>1
  <2> QED BY <1>1, <1>2, <2>1, <2>2, <2>3, <2>4, <2>5, <2>6
<1> QED BY <1>2, <1>5, <1>8, <1>9, <1>10 DEF ListSound

(* Every step keeps the types and the list. *)
LEMMA ListNext ==
  ASSUME TypeOK, ListSound, [Next]_vars
  PROVE  TypeOK' /\ ListSound'
<1>1. ASSUME NEW v \in Values, NEW n \in Nodes, enqueue(v, n)
      PROVE  TypeOK' /\ ListSound'
  <2>1. ListSound'
    BY <1>1, EnqueueList
  <2>2. order' \in Seq(Nodes)
    BY <1>1, AppendFacts DEF enqueue, TypeOK
  <2>3. awake' \subseteq {t \in Threads : waits'[t] # "none"}
    BY <1>1 DEF enqueue, signal, Asleep, TypeOK
  <2>4. pNext' \in [Nodes -> Nodes \cup {NULL}] /\ pStart' \in Nodes \cup {NULL}
        /\ pEnd' \in Nodes \cup {NULL}
    BY <1>1 DEF enqueue, Link, TypeOK
  <2>5. pData' \in [Nodes -> Values \cup {NULL}]
    BY <1>1 DEF enqueue, Link, TypeOK
  <2>6. /\ nSize' \in Int /\ allocated' \subseteq Nodes
        /\ waits' \in [Threads -> {"none", "block", "timed"}]
        /\ ret' \in [Threads -> Values \cup {NULL}]
    BY <1>1 DEF enqueue, TypeOK
  <2> QED BY <2>1, <2>2, <2>3, <2>4, <2>5, <2>6 DEF TypeOK
<1>2. ASSUME NEW t \in Threads, Take(t)
      PROVE  TypeOK' /\ ListSound'
  <2>1. ListSound' /\ order # << >> /\ pStart = order[1]
    BY <1>2, TakeList
  <2>2. order' \in Seq(Nodes) /\ order[1] \in Nodes
    BY <1>2, <2>1, TailFacts DEF Take, TypeOK
  <2>3. pData[order[1]] \in Values
    BY <2>1, SeqElem DEF ListSound, TypeOK
  <2>4. /\ pStart' \in Nodes \cup {NULL} /\ pEnd' \in Nodes \cup {NULL}
        /\ pNext' \in [Nodes -> Nodes \cup {NULL}]
        /\ pData' \in [Nodes -> Values \cup {NULL}]
        /\ nSize' \in Int /\ allocated' \subseteq Nodes
    BY <1>2, <2>1, <2>2 DEF Take, TypeOK
  <2>5. ret' \in [Threads -> Values \cup {NULL}]
    BY <1>2, <2>1, <2>3 DEF Take, TypeOK
  <2>6. /\ waits' \in [Threads -> {"none", "block", "timed"}]
        /\ awake' \subseteq {u \in Threads : waits'[u] # "none"}
    BY <1>2 DEF Take, Leave, TypeOK
  <2> QED BY <2>1, <2>2, <2>4, <2>5, <2>6 DEF TypeOK
<1>3. ASSUME UNCHANGED listVars
      PROVE  ListSound'
  BY <1>3 DEF listVars, ListSound
<1>4. ASSUME NEW t \in Threads, Null(t)
      PROVE  TypeOK' /\ ListSound'
  BY <1>3, <1>4 DEF Null, Leave, TypeOK, listVars
<1>5. ASSUME NEW t \in Threads, NEW kind \in {"block", "timed"}, Wait(t, kind)
      PROVE  TypeOK' /\ ListSound'
  BY <1>3, <1>5 DEF Wait, TypeOK, listVars
<1>6. ASSUME UNCHANGED <<listVars, waits, ret>>,
             NEW T \in SUBSET Asleep, awake' = awake \cup T
      PROVE  TypeOK' /\ ListSound'
  BY <1>3, <1>6 DEF Asleep, TypeOK, listVars
<1>7. ASSUME Destroy
      PROVE  TypeOK' /\ ListSound'
  <2>1. TypeOK'
    BY <1>7 DEF Destroy, TypeOK
  <2>2. ListSound'
    BY <1>7 DEF Destroy, ListSound, IsInjective
  <2> QED BY <2>1, <2>2
<1>8. ASSUME NEW t \in Threads, Timeout(t) \/ SpuriousWakeup(t)
      PROVE  TypeOK' /\ ListSound'
  <2>1. /\ UNCHANGED <<listVars, waits, ret>>
        /\ {t} \in SUBSET Asleep /\ awake' = awake \cup {t}
    BY <1>8 DEF Timeout, SpuriousWakeup
  <2> QED BY <1>6, <2>1
<1>9. CASE unblockAll
  BY <1>6, <1>9 DEF unblockAll
<1>10. CASE UNCHANGED vars
  BY <1>3, <1>10 DEF vars, listVars, TypeOK
<1>11. ASSUME NEW t \in Threads,
              dequeue(t) \/ dequeueBlock(t) \/ dequeueTimed(t) \/ Resume(t)
       PROVE  TypeOK' /\ ListSound'
  BY <1>2, <1>4, <1>5, <1>11 DEF dequeue, dequeueBlock, dequeueTimed, Resume
<1> QED BY <1>1, <1>7, <1>8, <1>9, <1>10, <1>11 DEF Next

-----------------------------------------------------------------------------
(* Wake-ups. *)

(* A set of threads that grows or shrinks by one. *)
LEMMA AwakeCount ==
  ASSUME TypeOK, NEW t
  PROVE  /\ IsFiniteSet(awake) /\ Cardinality(awake) \in Nat
         /\ t \notin awake =>
              Cardinality(awake \cup {t}) = Cardinality(awake) + 1
         /\ t \in awake => Cardinality(awake \ {t}) = Cardinality(awake) - 1
<1>1. awake \subseteq Threads
  BY DEF TypeOK
<1>2. IsFiniteSet(awake)
  BY <1>1, FS_Subset, ThreadsAssumption
<1> QED BY <1>2, FS_CardinalityType, FS_AddElement, FS_RemoveElement

(* No step breaks the balance of items and threads that are awake. *)
LEMMA WakeupNext ==
  ASSUME TypeOK, ListSound, NoLostWakeup, [Next]_vars
  PROVE  NoLostWakeup'
<1>1. ASSUME NEW v \in Values, NEW n \in Nodes, enqueue(v, n)
      PROVE  NoLostWakeup'
  <2>1. Len(order') = Len(order) + 1 /\ Len(order) \in Nat
    BY <1>1, AppendFacts DEF enqueue, TypeOK
  <2>2. waits' = waits
    BY <1>1 DEF enqueue
  <2>3. CASE Asleep = {} /\ UNCHANGED awake
    BY <2>2, <2>3 DEF NoLostWakeup, Asleep
  <2>4. ASSUME NEW t \in Asleep, awake' = awake \cup {t}
        PROVE  NoLostWakeup'
    <3>1. t \notin awake /\ Asleep # {}
      BY <2>4 DEF Asleep
    <3>2. Len(order) <= Cardinality(awake)
      BY <3>1 DEF NoLostWakeup
    <3>3. Cardinality(awake') = Cardinality(awake) + 1
          /\ Cardinality(awake) \in Nat
      BY <2>4, <3>1, AwakeCount
    <3>4. Len(order') <= Cardinality(awake')
      BY <2>1, <3>2, <3>3
    <3> QED BY <3>4 DEF NoLostWakeup
  <2> QED BY <1>1, <2>3, <2>4 DEF enqueue, signal
<1>2. ASSUME NEW t \in Threads, Take(t)
      PROVE  NoLostWakeup'
  <2>1. order # << >>
    BY <1>2, TakeList
  <2>2. Len(order') = Len(order) - 1 /\ Len(order) \in Nat
    BY <1>2, <2>1, TailFacts DEF Take, TypeOK
  <2>3. awake' = awake \ {t} /\ waits' = [waits EXCEPT ![t] = "none"]
    BY <1>2 DEF Take, Leave
  <2>4. SUFFICES ASSUME Asleep' # {}
                 PROVE  Len(order') <= Cardinality(awake')
    BY DEF NoLostWakeup
  <2>5. Asleep # {}
    BY <2>3, <2>4 DEF Asleep, TypeOK
  <2>6. Len(order) <= Cardinality(awake)
    BY <2>5 DEF NoLostWakeup
  <2>7. CASE t \in awake
    <3>1. Cardinality(awake') = Cardinality(awake) - 1
          /\ Cardinality(awake) \in Nat
      BY <2>3, <2>7, AwakeCount
    <3> QED BY <2>2, <2>6, <3>1
  <2>8. CASE t \notin awake
    <3>1. awake' = awake /\ Cardinality(awake) \in Nat
      BY <2>3, <2>8, AwakeCount
    <3> QED BY <2>2, <2>6, <3>1
  <2> QED BY <2>7, <2>8
<1>3. ASSUME pStart = NULL, UNCHANGED order, TypeOK'
      PROVE  NoLostWakeup'
  <2>1. Len(order') = 0
    <3>1. order = << >>
      <4>1. order # << >> => order[1] \in Nodes
        BY TailFacts DEF TypeOK
      <4> QED BY <1>3, <4>1, NullAssumption DEF ListSound
    <3> QED BY <1>3, <3>1
  <2>2. awake' \subseteq Threads
    BY <1>3 DEF TypeOK
  <2>3. Cardinality(awake') \in Nat
    BY <2>2, FS_Subset, FS_CardinalityType, ThreadsAssumption
  <2> QED BY <2>1, <2>3 DEF NoLostWakeup
<1>4. TypeOK'
  BY ListNext
<1>5. ASSUME UNCHANGED <<listVars, waits, ret>>,
             NEW T \in SUBSET Asleep, awake' = awake \cup T
      PROVE  NoLostWakeup'
  <2>1. Asleep' # {} => Asleep # {}
    BY <1>5 DEF Asleep
  <2>2. order' = order
    BY <1>5 DEF listVars
  <2>3. awake' \subseteq Threads /\ awake \subseteq awake'
    BY <1>4, <1>5 DEF TypeOK
  <2>4. /\ Cardinality(awake) <= Cardinality(awake')
        /\ Cardinality(awake) \in Nat /\ Cardinality(awake') \in Nat
    <3>1. IsFiniteSet(awake') /\ IsFiniteSet(awake)
      BY <2>3, FS_Subset, ThreadsAssumption
    <3> QED BY <2>3, <3>1, FS_Subset, FS_CardinalityType
  <2>5. Len(order) \in Nat
    BY SeqElem DEF TypeOK
  <2> QED BY <2>1, <2>2, <2>4, <2>5 DEF NoLostWakeup
<1>6. ASSUME NEW t \in Threads, NEW kind, Null(t) \/ Wait(t, kind)
      PROVE  NoLostWakeup'
  BY <1>3, <1>4, <1>6 DEF Null, Wait, listVars
<1>7. CASE Destroy
  <2>1. Asleep' = {}
    BY <1>7 DEF Destroy, Asleep
  <2> QED BY <2>1 DEF NoLostWakeup
<1>8. ASSUME NEW t \in Threads, Timeout(t) \/ SpuriousWakeup(t)
      PROVE  NoLostWakeup'
  <2>1. /\ UNCHANGED <<listVars, waits, ret>>
        /\ {t} \in SUBSET Asleep /\ awake' = awake \cup {t}
    BY <1>8 DEF Timeout, SpuriousWakeup
  <2> QED BY <1>5, <2>1
<1>9. CASE unblockAll
  BY <1>5, <1>9 DEF unblockAll
<1>10. CASE UNCHANGED vars
  BY <1>10 DEF vars, NoLostWakeup, Asleep
<1>11. ASSUME NEW t \in Threads,
              dequeue(t) \/ dequeueBlock(t) \/ dequeueTimed(t) \/ Resume(t)
       PROVE  NoLostWakeup'
  BY <1>2, <1>6, <1>11 DEF dequeue, dequeueBlock, dequeueTimed, Resume
<1> QED BY <1>1, <1>7, <1>8, <1>9, <1>10, <1>11 DEF Next

-----------------------------------------------------------------------------
(* The invariants. *)

IndInv == TypeOK /\ ListSound /\ NoLostWakeup

(* An empty queue without threads in it. *)
LEMMA IndInvInit == Init => IndInv
<1> SUFFICES ASSUME Init PROVE IndInv
  OBVIOUS
<1>1. TypeOK
  BY DEF Init, TypeOK
<1>2. ListSound
  BY DEF Init, ListSound, IsInjective
<1>3. NoLostWakeup
  BY DEF Init, NoLostWakeup, Asleep
<1> QED BY <1>1, <1>2, <1>3 DEF IndInv

(* Types, list and wake-ups hold in every state of every behaviour, with   *)
(* no fairness assumed.                                                    *)
THEOREM Invariance == Spec => []IndInv
<1>1. IndInv /\ [Next]_vars => IndInv'
  BY ListNext, WakeupNext DEF IndInv
<1> QED BY <1>1, IndInvInit, PTL DEF Spec

(* The variables stay in their types, whatever the threads do. *)
THEOREM TypeCorrect == Spec => []TypeOK
<1>1. IndInv => TypeOK
  BY DEF IndInv
<1> QED BY <1>1, Invariance, PTL

(* The pointers always chain the items in order, although pEnd dangles in  *)
(* an empty queue.                                                         *)
THEOREM PointersSound == Spec => []ListSound
<1>1. IndInv => ListSound
  BY DEF IndInv
<1> QED BY <1>1, Invariance, PTL

(* While a thread sleeps in dequeue, every item has a thread awake for it. *)
THEOREM WakeupsKept == Spec => []NoLostWakeup
<1>1. IndInv => NoLostWakeup
  BY DEF IndInv
<1> QED BY <1>1, Invariance, PTL

-----------------------------------------------------------------------------
(* Memory: what the queue holds is what is allocated. *)

(* Following pNext from pStart meets every item of the queue, and no other *)
(* one: by induction along the queue, for any number of items.             *)
LEMMA ChainIsQueue ==
  ASSUME TypeOK, ListSound
  PROVE  Chain = Range(order)
<1> DEFINE Followed(S) == /\ pStart \in S \cup {NULL}
                          /\ \A n \in S : pNext[n] \in S \cup {NULL}
<1>1. /\ order \in Seq(Nodes) /\ DOMAIN order = 1..Len(order) /\ Len(order) \in Nat
      /\ \A i \in 1..Len(order) : order[i] \in Nodes
      /\ order = << >> <=> Len(order) = 0
  BY SeqElem DEF TypeOK
<1>2. /\ pStart = (IF order = << >> THEN NULL ELSE order[1])
      /\ \A i \in 1..Len(order) :
           pNext[order[i]] = (IF i < Len(order) THEN order[i + 1] ELSE NULL)
  BY <1>1 DEF ListSound
<1>3. Followed(Range(order))
  <2>1. pStart \in Range(order) \cup {NULL}
    <3>1. order # << >> => 1 \in DOMAIN order
      BY <1>1
    <3> QED BY <1>2, <3>1 DEF Range
  <2>2. ASSUME NEW n \in Range(order)
        PROVE  pNext[n] \in Range(order) \cup {NULL}
    <3>1. PICK i \in 1..Len(order) : n = order[i]
      BY <1>1 DEF Range
    <3>2. i < Len(order) => i + 1 \in DOMAIN order
      BY <1>1
    <3> QED BY <1>2, <3>1, <3>2 DEF Range
  <2> QED BY <2>1, <2>2
<1>4. Range(order) \in SUBSET Nodes
  BY <1>1 DEF Range
<1>5. ASSUME NEW S \in SUBSET Nodes, Followed(S), NEW i \in 1..Len(order)
      PROVE  order[i] \in S
  <2> DEFINE T == {k \in Nat : k < Len(order) => order[k + 1] \in S}
  <2>1. 0 \in T
    BY <1>1, <1>2, <1>5, NullAssumption
  <2>2. ASSUME NEW k \in T
        PROVE  k + 1 \in T
    <3> SUFFICES ASSUME k + 1 < Len(order)
                 PROVE  order[k + 1 + 1] \in S
      OBVIOUS
    <3>1. k \in Nat /\ k < Len(order) /\ k + 1 \in 1..Len(order)
          /\ k + 1 + 1 \in 1..Len(order)
      BY <1>1
    <3>2. order[k + 1] \in S
      BY <3>1
    <3>3. pNext[order[k + 1]] = order[k + 1 + 1]
      BY <1>2, <3>1
    <3>4. order[k + 1 + 1] \in Nodes
      BY <1>1, <3>1
    <3> QED BY <1>5, <3>2, <3>3, <3>4, NullAssumption
  <2>3. T \in SUBSET Nat
    OBVIOUS
  <2> HIDE DEF T
  <2>4. \A k \in Nat : k \in T
    BY <2>1, <2>2, <2>3, SetInduction
  <2>5. i - 1 \in Nat /\ i - 1 < Len(order) /\ (i - 1) + 1 = i
    BY <1>1
  <2>6. i - 1 \in T
    BY <2>4, <2>5
  <2> QED BY <2>5, <2>6 DEF T
<1> HIDE DEF Followed
<1>6. Chain = {n \in Nodes : \A S \in SUBSET Nodes : Followed(S) => n \in S}
  BY DEF Chain, Followed
<1>7. Chain \subseteq Range(order)
  BY <1>3, <1>4, <1>6
<1>8. Range(order) \subseteq Chain
  <2> SUFFICES ASSUME NEW n \in Range(order), NEW S \in SUBSET Nodes, Followed(S)
               PROVE  n \in S
    BY <1>4, <1>6
  <2>1. PICK i \in 1..Len(order) : n = order[i]
    BY <1>1 DEF Range
  <2> QED BY <1>5, <2>1
<1> QED BY <1>7, <1>8

(* Each step deletes an item exactly when it takes it out of the queue. *)
LEMMA LeakNext ==
  ASSUME TypeOK, ListSound, NoLeak, [Next]_vars
  PROVE  NoLeak'
<1>1. ASSUME NEW v \in Values, NEW n \in Nodes, enqueue(v, n)
      PROVE  NoLeak'
  <2>1. /\ order \in Seq(Nodes) /\ order' = Append(order, n)
        /\ allocated' = allocated \cup {n} /\ nSize' = nSize + 1
    BY <1>1 DEF enqueue, TypeOK
  <2>2. /\ Len(order) \in Nat
        /\ DOMAIN order = 1..Len(order)
        /\ DOMAIN order' = 1..(Len(order) + 1)
        /\ Len(order') = Len(order) + 1
        /\ \A i \in 1..Len(order) : order'[i] = order[i]
        /\ order'[Len(order) + 1] = n
    BY <2>1, AppendFacts
  <2>3. Range(order') = Range(order) \cup {n}
    <3>1. \A i \in 1..(Len(order) + 1) : i \in 1..Len(order) \/ i = Len(order) + 1
      BY <2>2
    <3>2. \A i \in 1..Len(order) : i \in 1..(Len(order) + 1)
      BY <2>2
    <3>3. Len(order) + 1 \in 1..(Len(order) + 1)
      BY <2>2
    <3>4. Range(order') \subseteq Range(order) \cup {n}
      BY <2>2, <3>1 DEF Range
    <3>5. Range(order) \cup {n} \subseteq Range(order')
      BY <2>2, <3>2, <3>3 DEF Range
    <3> QED BY <3>4, <3>5
  <2> QED BY <2>1, <2>2, <2>3 DEF NoLeak
<1>2. ASSUME NEW t \in Threads, Take(t)
      PROVE  NoLeak'
  <2>1. order # << >> /\ pStart = order[1]
    BY <1>2, TakeList
  <2>2. /\ order \in Seq(Nodes) /\ order' = Tail(order)
        /\ allocated' = allocated \ {order[1]} /\ nSize' = nSize - 1
    BY <1>2, <2>1 DEF Take, TypeOK
  <2>3. /\ Len(order) \in Nat \ {0}
        /\ DOMAIN order = 1..Len(order)
        /\ DOMAIN order' = 1..(Len(order) - 1)
        /\ Len(order') = Len(order) - 1
        /\ \A i \in 1..(Len(order) - 1) : order'[i] = order[i + 1]
    BY <2>1, <2>2, TailFacts
  <2>4. \A i, j \in 1..Len(order) : order[i] = order[j] => i = j
    BY <2>3 DEF ListSound, IsInjective
  <2>5. Range(order') = Range(order) \ {order[1]}
    <3>1. ASSUME NEW i \in 1..(Len(order) - 1)
          PROVE  order'[i] \in Range(order) \ {order[1]}
      <4>1. i + 1 \in 1..Len(order) /\ 1 \in 1..Len(order) /\ i + 1 # 1
        BY <2>3
      <4>2. order[i + 1] # order[1]
        BY <2>4, <4>1
      <4> QED BY <2>3, <4>1, <4>2 DEF Range
    <3>2. ASSUME NEW i \in 1..Len(order), order[i] # order[1]
          PROVE  order[i] \in Range(order')
      <4>1. i - 1 \in 1..(Len(order) - 1) /\ (i - 1) + 1 = i
        BY <2>3, <3>2
      <4>2. order'[i - 1] = order[i]
        BY <2>3, <4>1
      <4> QED BY <2>3, <4>1, <4>2 DEF Range
    <3>3. Range(order') \subseteq Range(order) \ {order[1]}
      BY <2>3, <3>1 DEF Range
    <3>4. Range(order) \ {order[1]} \subseteq Range(order')
      BY <2>3, <3>2 DEF Range
    <3> QED BY <3>3, <3>4
  <2> QED BY <2>2, <2>3, <2>5 DEF NoLeak
<1>3. CASE UNCHANGED <<allocated, nSize, order>>
  BY <1>3 DEF NoLeak
<1>4. ASSUME NEW t \in Threads, Null(t) \/ Wait(t, "block") \/ Wait(t, "timed")
      PROVE  NoLeak'
  BY <1>3, <1>4 DEF Null, Wait, listVars
<1>5. ASSUME NEW t \in Threads, Timeout(t) \/ SpuriousWakeup(t)
      PROVE  NoLeak'
  BY <1>3, <1>5 DEF Timeout, SpuriousWakeup, listVars
<1>6. CASE unblockAll
  BY <1>3, <1>6 DEF unblockAll, listVars
<1>7. CASE Destroy
  <2>1. allocated' = {} /\ nSize' = 0 /\ order' = << >>
    BY <1>7, ChainIsQueue DEF Destroy, NoLeak
  <2>2. Range(<< >>) = {} /\ Len(<< >>) = 0
    BY DEF Range
  <2> QED BY <2>1, <2>2 DEF NoLeak
<1>8. CASE UNCHANGED vars
  BY <1>3, <1>8 DEF vars
<1>9. ASSUME NEW t \in Threads, dequeue(t) \/ dequeueBlock(t) \/ dequeueTimed(t) \/ Resume(t)
      PROVE  NoLeak'
  BY <1>2, <1>4, <1>9 DEF dequeue, dequeueBlock, dequeueTimed, Resume
<1> QED BY <1>1, <1>5, <1>6, <1>7, <1>8, <1>9 DEF Next

(* Every item is deleted exactly when it leaves the queue, by whichever of *)
(* the three copies of the code or by the destructor, and nSize is the     *)
(* number of items.                                                        *)
THEOREM NothingLeaks == Spec => []NoLeak
<1>1. Init => NoLeak
  <2>1. Range(<< >>) = {} /\ Len(<< >>) = 0
    BY DEF Range
  <2> QED BY <2>1 DEF Init, NoLeak
<1>2. IndInv /\ NoLeak /\ [Next]_vars => NoLeak'
  BY LeakNext DEF IndInv
<1> QED BY <1>1, <1>2, Invariance, PTL DEF Spec

-----------------------------------------------------------------------------
(* The queue implements Fifo. *)

(* The values in the queue and the threads in a dequeue, as Promise has    *)
(* them.                                                                   *)
Queue == [i \in DOMAIN order |-> pData[order[i]]]
Inside == {t \in Threads : waits[t] # "none"}

(* Sequences with the same elements are equal. *)
LEMMA SameSeq ==
  ASSUME NEW S, NEW p \in Seq(S), NEW q \in Seq(S), Len(p) = Len(q),
         \A i \in 1..Len(p) : p[i] = q[i]
  PROVE  p = q
  OBVIOUS

QueueFacts ==
  /\ Queue \in Seq(Values)
  /\ Len(Queue) = Len(order)
  /\ \A i \in 1..Len(order) : Queue[i] = pData[order[i]]
  /\ Queue = << >> <=> order = << >>

(* The values are as many as the items. *)
LEMMA QueueSeq == TypeOK /\ ListSound => QueueFacts
<1> SUFFICES ASSUME TypeOK, ListSound PROVE QueueFacts
  OBVIOUS
<1>1. Len(order) \in Nat /\ DOMAIN order = 1..Len(order)
      /\ (order = << >> <=> Len(order) = 0)
  BY SeqElem DEF TypeOK
<1>2. \A i \in 1..Len(order) : pData[order[i]] \in Values
  BY <1>1 DEF ListSound
<1>3. Queue \in [1..Len(order) -> Values]
  BY <1>1, <1>2 DEF Queue
<1>4. Queue \in Seq(Values) /\ Len(Queue) = Len(order)
  BY <1>1, <1>3
<1>5. \A i \in 1..Len(order) : Queue[i] = pData[order[i]]
  BY <1>1 DEF Queue
<1>6. Queue = << >> <=> Len(Queue) = 0
  BY <1>4, SeqElem
<1> QED BY <1>1, <1>4, <1>5, <1>6 DEF QueueFacts

(* The same of the next state. *)
LEMMA QueueSeqNext == (TypeOK /\ ListSound => QueueFacts)'
  BY QueueSeq, PTL

(* An enqueue appends its value. *)
LEMMA QueueEnqueue ==
  ASSUME TypeOK, ListSound, NEW v \in Values, NEW n \in Nodes, enqueue(v, n),
         TypeOK', ListSound'
  PROVE  Queue' = Append(Queue, v)
<1>1. /\ Queue \in Seq(Values) /\ Len(Queue) = Len(order)
      /\ \A i \in 1..Len(order) : Queue[i] = pData[order[i]]
  BY QueueSeq DEF QueueFacts
<1>2. /\ Queue' \in Seq(Values) /\ Len(Queue') = Len(order')
      /\ \A i \in 1..Len(order') : Queue'[i] = pData'[order'[i]]
  BY QueueSeqNext DEF QueueFacts
<1>3. /\ order \in Seq(Nodes) /\ order' = Append(order, n)
      /\ pData \in [Nodes -> Values \cup {NULL}]
      /\ pData' = [pData EXCEPT ![n] = v]
      /\ n \notin allocated
  BY DEF enqueue, Link, TypeOK
<1>4. /\ Len(order) \in Nat /\ DOMAIN order = 1..Len(order)
      /\ Len(order') = Len(order) + 1
      /\ \A i \in 1..Len(order) : order'[i] = order[i]
      /\ order'[Len(order) + 1] = n
  BY <1>3, AppendFacts
<1>5. ASSUME NEW i \in 1..Len(order)
      PROVE  Queue'[i] = Queue[i]
  <2>1. order[i] \in Nodes /\ order[i] # n
    BY <1>3, <1>4, SeqElem DEF ListSound
  <2>2. i \in 1..Len(order')
    BY <1>4
  <2> QED BY <1>1, <1>2, <1>3, <1>4, <2>1, <2>2
<1>6. Queue'[Len(order) + 1] = v
  BY <1>2, <1>3, <1>4
<1>7. /\ Append(Queue, v) \in Seq(Values)
      /\ Len(Append(Queue, v)) = Len(order) + 1
      /\ \A i \in 1..Len(order) : Append(Queue, v)[i] = Queue[i]
      /\ Append(Queue, v)[Len(order) + 1] = v
  BY <1>1, AppendFacts
<1>8. \A i \in 1..Len(Queue') : Queue'[i] = Append(Queue, v)[i]
  <2>1. ASSUME NEW i \in 1..Len(Queue')
        PROVE  Queue'[i] = Append(Queue, v)[i]
    <3>1. i \in 1..Len(order) \/ i = Len(order) + 1
      BY <1>2, <1>4
    <3> QED BY <1>5, <1>6, <1>7, <3>1
  <2> QED BY <2>1
<1> QED BY <1>2, <1>4, <1>7, <1>8, SameSeq

(* A dequeue that finds an item removes and returns the first value. *)
LEMMA QueueTake ==
  ASSUME TypeOK, ListSound, NEW t \in Threads, Take(t), TypeOK', ListSound'
  PROVE  Queue # << >> /\ Queue' = Tail(Queue) /\ pData[pStart] = Head(Queue)
<1>1. /\ Queue \in Seq(Values) /\ Len(Queue) = Len(order)
      /\ \A i \in 1..Len(order) : Queue[i] = pData[order[i]]
      /\ Queue = << >> <=> order = << >>
  BY QueueSeq DEF QueueFacts
<1>2. /\ Queue' \in Seq(Values) /\ Len(Queue') = Len(order')
      /\ \A i \in 1..Len(order') : Queue'[i] = pData'[order'[i]]
  BY QueueSeqNext DEF QueueFacts
<1>3. order # << >> /\ pStart = order[1] /\ Queue # << >>
  BY <1>1, TakeList
<1>4. order \in Seq(Nodes) /\ order' = Tail(order) /\ pData' = pData
  BY DEF Take, TypeOK
<1>5. /\ Len(order) \in Nat \ {0} /\ Len(order') = Len(order) - 1
      /\ \A i \in 1..(Len(order) - 1) : order'[i] = order[i + 1]
  BY <1>3, <1>4, TailFacts
<1>6. /\ Tail(Queue) \in Seq(Values)
      /\ Len(Tail(Queue)) = Len(order) - 1
      /\ \A i \in 1..(Len(order) - 1) : Tail(Queue)[i] = Queue[i + 1]
      /\ Head(Queue) = Queue[1]
  BY <1>1, <1>3, TailFacts
<1>7. ASSUME NEW i \in 1..Len(Queue')
      PROVE  Queue'[i] = Tail(Queue)[i]
  <2>1. i \in 1..(Len(order) - 1) /\ i \in 1..Len(order')
        /\ i + 1 \in 1..Len(order)
    BY <1>2, <1>5
  <2> QED BY <1>1, <1>2, <1>4, <1>5, <1>6, <2>1
<1>8. Queue' = Tail(Queue)
  BY <1>2, <1>5, <1>6, <1>7, SameSeq
<1> QED BY <1>1, <1>3, <1>5, <1>6, <1>8

(* Every step of the queue is a step of Fifo, or none. *)
LEMMA FifoStep ==
  ASSUME TypeOK, ListSound, [Next]_vars
  PROVE  [Promise!FifoNext]_(Promise!fifoVars)
<1>0. TypeOK' /\ ListSound'
  BY ListNext
<1>2. ASSUME NEW v \in Values, NEW n \in Nodes, enqueue(v, n)
      PROVE  Promise!FifoNext
  <2>1. Queue' = Append(Queue, v)
    BY <1>0, <1>2, QueueEnqueue
  <2>2. Inside' = Inside /\ ret' = ret
    BY <1>2 DEF enqueue, Inside
  <2>3. Promise!Enqueue(v)
    BY <2>1, <2>2 DEF Promise!Enqueue, Queue, Inside
  <2> QED BY <2>3 DEF Promise!FifoNext
<1>3. ASSUME NEW t \in Threads, Take(t)
      PROVE  Promise!FifoNext
  <2>1. Queue # << >> /\ Queue' = Tail(Queue) /\ pData[pStart] = Head(Queue)
    BY <1>0, <1>3, QueueTake
  <2>2. Inside' = Inside \ {t}
    BY <1>3 DEF Take, Leave, Inside, TypeOK
  <2>3. ret' = [ret EXCEPT ![t] = Head(Queue)]
    BY <1>3, <2>1 DEF Take
  <2>4. Promise!Return(t)
    BY <2>1, <2>2, <2>3 DEF Promise!Return, Queue, Inside
  <2> QED BY <2>4 DEF Promise!FifoNext
<1>4. ASSUME pStart = NULL
      PROVE  order = << >> /\ Queue = << >>
  <2>1. order # << >> => order[1] \in Nodes
    BY TailFacts DEF TypeOK
  <2>2. order = << >>
    BY <1>4, <2>1, NullAssumption DEF ListSound
  <2> QED BY <2>2, QueueSeq DEF QueueFacts
<1>5. ASSUME UNCHANGED listVars
      PROVE  Queue' = Queue
  BY <1>5 DEF listVars, Queue
<1>6. ASSUME NEW t \in Threads, Null(t)
      PROVE  Promise!FifoNext
  <2>1. Queue = << >> /\ Queue' = Queue
    BY <1>4, <1>5, <1>6 DEF Null
  <2>2. Inside' = Inside \ {t} /\ ret' = [ret EXCEPT ![t] = NULL]
    BY <1>6 DEF Null, Leave, Inside, TypeOK
  <2>3. Promise!ReturnNull(t)
    BY <2>1, <2>2 DEF Promise!ReturnNull, Queue, Inside
  <2> QED BY <2>3 DEF Promise!FifoNext
<1>7. ASSUME NEW t \in Threads, NEW kind \in {"block", "timed"}, Wait(t, kind)
      PROVE  Promise!FifoNext
  <2>1. Queue' = Queue
    BY <1>5, <1>7 DEF Wait
  <2>2. Inside' = Inside \cup {t} /\ ret' = ret
    BY <1>7 DEF Wait, Inside, TypeOK
  <2>3. Promise!Call(t)
    BY <2>1, <2>2 DEF Promise!Call, Queue, Inside
  <2> QED BY <2>3 DEF Promise!FifoNext
<1>8. ASSUME UNCHANGED <<listVars, waits, ret>>
      PROVE  UNCHANGED (Promise!fifoVars)
  <2>1. Queue' = Queue
    BY <1>5, <1>8
  <2>2. Inside' = Inside
    BY <1>8 DEF Inside
  <2> QED BY <1>8, <2>1, <2>2 DEF Inside, Queue, Promise!fifoVars
<1>9. CASE Destroy
  <2>1. Inside = {} /\ Inside' = Inside /\ ret' = ret
    BY <1>9 DEF Destroy, Inside
  <2>2. Queue' = << >>
    <3>1. order' = << >>
      BY <1>9 DEF Destroy
    <3> QED BY <1>0, <3>1, QueueSeqNext DEF QueueFacts
  <2>3. Promise!Destroy
    BY <2>1, <2>2 DEF Promise!Destroy, Queue, Inside
  <2> QED BY <2>3 DEF Promise!FifoNext
<1>10. ASSUME NEW t \in Threads, Timeout(t) \/ SpuriousWakeup(t)
       PROVE  UNCHANGED (Promise!fifoVars)
  BY <1>8, <1>10 DEF Timeout, SpuriousWakeup
<1>11. CASE unblockAll
  BY <1>8, <1>11 DEF unblockAll
<1>12. CASE UNCHANGED vars
  <2>1. UNCHANGED <<listVars, waits, ret>>
    BY <1>12 DEF vars, listVars
  <2> QED BY <1>8, <2>1
<1>13. ASSUME NEW t \in Threads,
              dequeue(t) \/ dequeueBlock(t) \/ dequeueTimed(t) \/ Resume(t)
       PROVE  Promise!FifoNext
  BY <1>3, <1>6, <1>7, <1>13 DEF dequeue, dequeueBlock, dequeueTimed, Resume
<1> QED BY <1>2, <1>9, <1>10, <1>11, <1>12, <1>13 DEF Next

(* The linked list with its waits and wake-ups implements the FIFO that    *)
(* callers of SynchroQueue rely on.                                        *)
THEOREM ImplementsFifo == Spec => IsFifo
<1>1. Init => Promise!FifoInit
  BY DEF Init, Promise!FifoInit
<1>2. IndInv /\ [Next]_vars => [Promise!FifoNext]_(Promise!fifoVars)
  BY FifoStep DEF IndInv
<1>3. Spec => Init /\ [][Next]_vars
  BY DEF Spec
<1> QED BY <1>1, <1>2, <1>3, Invariance, PTL DEF IsFifo, Promise!FifoSpec
=============================================================================
