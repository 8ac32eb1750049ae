------------------------- MODULE SynchroHeapProofs --------------------------
(***************************************************************************)
(* Proofs about SynchroHeap, for every set of threads and items.           *)
(***************************************************************************)
EXTENDS SynchroHeap, TLAPS

(* LocksMatch needs no more than the types: a thread comes into the        *)
(* section of a mutex only when nobody has it, and leaves with it free.    *)
HeapInv == TypeOK /\ LocksMatch

(* A new queue is empty and nobody is in it. *)
LEMMA InitHeapInv == Init => HeapInv
<1> SUFFICES ASSUME Init PROVE HeapInv
  OBVIOUS
<1> QED BY NoneAssumption DEF Init, HeapInv, TypeOK, LocksMatch, Labels

(* The heap loses an item or none. *)
LEMMA TakeItemType ==
  ASSUME TypeOK, TakeItem
  PROVE  hData' \subseteq Items
  BY DEF TypeOK, TakeItem

(* enqueue takes imData from nobody, and its signal gives it up: the       *)
(* thread it wakes holds no mutex.                                         *)
LEMMA EnqueueInv ==
  ASSUME HeapInv, NEW t \in Threads,
         (\E i \in Items : enqueue(t, i)) \/ Signal(t)
  PROVE  HeapInv'
<1> USE NoneAssumption
<1>1. CASE \E i \in Items : enqueue(t, i)
  <2>1. PICK i \in Items : enqueue(t, i)
    BY <1>1
  <2>2. TypeOK'
    BY <2>1 DEF enqueue, Goto, HeapInv, TypeOK, Labels
  <2>3. LocksMatch'
    BY <2>1 DEF enqueue, Goto, HeapInv, TypeOK, LocksMatch
  <2> QED BY <2>2, <2>3 DEF HeapInv
<1>2. CASE Signal(t) /\ Waiting = {} /\ Goto(t, "out")
  <2>1. TypeOK'
    BY <1>2 DEF Signal, Goto, HeapInv, TypeOK, Labels
  <2>2. LocksMatch'
    BY <1>2 DEF Signal, Goto, HeapInv, TypeOK, LocksMatch
  <2> QED BY <2>1, <2>2 DEF HeapInv
<1>3. CASE Signal(t) /\ \E u \in Waiting : pc' = [pc EXCEPT ![t] = "out", ![u] = "relock"]
  <2>1. PICK u \in Waiting : pc' = [pc EXCEPT ![t] = "out", ![u] = "relock"]
    BY <1>3
  <2>2. /\ u \in Threads /\ pc[u] = "waiting"
        /\ pc[t] = "signal" /\ imData' = NONE
        /\ UNCHANGED <<hData, icBlock, timed>>
    BY <1>3, <2>1 DEF Signal, Waiting
  <2>3. TypeOK'
    BY <2>1, <2>2 DEF HeapInv, TypeOK, Labels
  <2>4. LocksMatch'
    BY <2>1, <2>2 DEF HeapInv, TypeOK, LocksMatch
  <2> QED BY <2>3, <2>4 DEF HeapInv
<1> QED BY <1>1, <1>2, <1>3 DEF Signal

(* The three calls of dequeue that end, or begin to wait, without icBlock. *)
LEMMA DequeueInv ==
  ASSUME HeapInv, NEW t \in Threads,
         dequeue(t) \/ dequeueBlock(t) \/ dequeueTimed(t)
  PROVE  HeapInv'
<1> USE NoneAssumption
<1>1. CASE dequeue(t)
  <2>1. hData' \subseteq Items /\ UNCHANGED <<imData, icBlock, pc, timed>>
    BY <1>1, TakeItemType DEF dequeue, HeapInv
  <2> QED BY <2>1 DEF HeapInv, TypeOK, LocksMatch
<1>2. CASE dequeueBlock(t)
  <2>1. TypeOK'
    BY <1>2 DEF dequeueBlock, Goto, HeapInv, TypeOK, Labels
  <2>2. LocksMatch'
    BY <1>2 DEF dequeueBlock, Goto, HeapInv, TypeOK, LocksMatch
  <2> QED BY <2>1, <2>2 DEF HeapInv
<1>3. CASE dequeueTimed(t)
  <2>1. TypeOK'
    BY <1>3 DEF dequeueTimed, Goto, HeapInv, TypeOK, Labels
  <2>2. LocksMatch'
    BY <1>3 DEF dequeueTimed, Goto, HeapInv, TypeOK, LocksMatch
  <2> QED BY <2>1, <2>2 DEF HeapInv
<1> QED BY <1>1, <1>2, <1>3

(* A thread gets icBlock, when it is free, at the start or after a wait,   *)
(* and goes where it holds it.                                             *)
LEMMA LockInv ==
  ASSUME HeapInv, NEW t \in Threads, lock(t) \/ Relock(t)
  PROVE  HeapInv'
<1> USE NoneAssumption
<1>1. /\ pc[t] \in {"lock", "relock"} /\ icBlock = NONE
      /\ icBlock' = t
      /\ \E l \in {"look", "wait", "take"} : pc' = [pc EXCEPT ![t] = l]
      /\ UNCHANGED <<hData, imData, timed>>
  BY DEF lock, Relock, Goto
<1>2. PICK l \in {"look", "wait", "take"} : pc' = [pc EXCEPT ![t] = l]
  BY <1>1
<1>3. TypeOK'
  BY <1>1, <1>2 DEF HeapInv, TypeOK, Labels
<1>4. LocksMatch'
  BY <1>1, <1>2 DEF HeapInv, TypeOK, LocksMatch
<1> QED BY <1>3, <1>4 DEF HeapInv

(* The look at the heap keeps icBlock, the wait gives it up, and a wait    *)
(* that ends does not have it yet.                                         *)
LEMMA WaitInv ==
  ASSUME HeapInv, NEW t \in Threads,
         Look(t) \/ wait(t) \/ Timeout(t) \/ SpuriousWakeup(t)
  PROVE  HeapInv'
<1> USE NoneAssumption
<1>1. CASE Look(t)
  <2>1. PICK l \in {"wait", "take"} : pc' = [pc EXCEPT ![t] = l]
    BY <1>1 DEF Look, Goto
  <2>2. TypeOK'
    BY <1>1, <2>1 DEF Look, HeapInv, TypeOK, Labels
  <2>3. LocksMatch'
    BY <1>1, <2>1 DEF Look, HeapInv, TypeOK, LocksMatch
  <2> QED BY <2>2, <2>3 DEF HeapInv
<1>2. CASE wait(t)
  <2>1. TypeOK'
    BY <1>2 DEF wait, Goto, HeapInv, TypeOK, Labels
  <2>2. LocksMatch'
    BY <1>2 DEF wait, Goto, HeapInv, TypeOK, LocksMatch
  <2> QED BY <2>1, <2>2 DEF HeapInv
<1>3. CASE Timeout(t) \/ SpuriousWakeup(t)
  <2>1. /\ pc[t] = "waiting" /\ pc' = [pc EXCEPT ![t] = "relock"]
        /\ UNCHANGED <<hData, imData, icBlock, timed>>
    BY <1>3 DEF Timeout, SpuriousWakeup, Goto
  <2>2. TypeOK'
    BY <2>1 DEF HeapInv, TypeOK, Labels
  <2>3. LocksMatch'
    BY <2>1 DEF HeapInv, TypeOK, LocksMatch
  <2> QED BY <2>2, <2>3 DEF HeapInv
<1> QED BY <1>1, <1>2, <1>3

(* The way out of a dequeue, with an item or with the exception, leaves    *)
(* both mutexes free.                                                      *)
LEMMA TakeInv ==
  ASSUME HeapInv, NEW t \in Threads, take(t)
  PROVE  HeapInv'
<1> USE NoneAssumption
<1>1. hData' \subseteq Items
  BY TakeItemType DEF take, HeapInv
<1>2. TypeOK'
  BY <1>1 DEF take, Goto, HeapInv, TypeOK, Labels
<1>3. LocksMatch'
  BY DEF take, Goto, HeapInv, TypeOK, LocksMatch
<1> QED BY <1>2, <1>3 DEF HeapInv

(* Every step keeps the types and the match of mutexes and sections. *)
LEMMA HeapInvStep ==
  ASSUME HeapInv, [Next]_vars
  PROVE  HeapInv'
<1>1. CASE Next
  <2>1. PICK t \in Threads :
          \/ \E i \in Items : enqueue(t, i)
          \/ Signal(t)
          \/ dequeue(t) \/ dequeueBlock(t) \/ dequeueTimed(t)
          \/ lock(t) \/ Look(t) \/ wait(t) \/ Timeout(t) \/ SpuriousWakeup(t)
          \/ Relock(t) \/ take(t)
    BY <1>1 DEF Next
  <2> QED BY <2>1, EnqueueInv, DequeueInv, LockInv, WaitInv, TakeInv
<1>2. CASE UNCHANGED vars
  BY <1>2 DEF vars, HeapInv, TypeOK, LocksMatch
<1> QED BY <1>1, <1>2

(* The variables stay in their types, for any number of threads, and only  *)
(* a thread inside a dequeue is ever marked as timed.                      *)
THEOREM TypeCorrect == Spec => []TypeOK
<1>1. Init => HeapInv
  BY InitHeapInv
<1>2. HeapInv /\ [Next]_vars => HeapInv'
  BY HeapInvStep
<1>3. HeapInv => TypeOK
  BY DEF HeapInv
<1> QED BY <1>1, <1>2, <1>3, PTL DEF Spec

(* imData and icBlock are each held by exactly the thread inside the       *)
(* section they guard: no path out of SynchroHeap, also not the exception  *)
(* of an empty heap, keeps a mutex.                                        *)
THEOREM MutexesHeldInSections == Spec => []LocksMatch
<1>1. Init => HeapInv
  BY InitHeapInv
<1>2. HeapInv /\ [Next]_vars => HeapInv'
  BY HeapInvStep
<1>3. HeapInv => LocksMatch
  BY DEF HeapInv
<1> QED BY <1>1, <1>2, <1>3, PTL DEF Spec
=============================================================================
