----------------------------- MODULE SynchroHeap ----------------------------
(***************************************************************************)
(* Bu::SynchroHeap (stable/synchroheap.h): a priority queue shared by      *)
(* threads.  The heap hData is guarded by the mutex imData, the condition  *)
(* icBlock has a mutex of its own.  enqueue signals without holding that   *)
(* mutex, and the loop of the blocking dequeue looks at the heap without   *)
(* holding imData, so the look and the wait are two steps between which an *)
(* enqueue fits.                                                           *)
(*                                                                         *)
(* A step ends where a thread takes or gives up a mutex or reads what      *)
(* another thread may write.  The heap is the bag of its items: its order  *)
(* is the subject of Heap.                                                 *)
(***************************************************************************)
EXTENDS Integers, FiniteSets

CONSTANTS
  Threads,
  Items,       \* the items that are enqueued, each once at a time
  NONE,
  Spurious     \* whether waits may end for no reason

ASSUME NoneAssumption == NONE \notin Threads \cup Items
ASSUME SpuriousAssumption == Spurious \in BOOLEAN

VARIABLES
  hData,     \* the items in the heap
  imData,    \* the owner of the mutex imData, or NONE
  icBlock,   \* the owner of the mutex of icBlock, or NONE
  pc,        \* where each thread is
  timed      \* the threads that are in dequeue( sec, usec )

vars == <<hData, imData, icBlock, pc, timed>>

Goto(t, l) == pc' = [pc EXCEPT ![t] = l]

Init ==
  /\ hData = {}
  /\ imData = NONE /\ icBlock = NONE
  /\ pc = [t \in Threads |-> "out"]
  /\ timed = {}

-----------------------------------------------------------------------------
(* enqueue: imData is held over the insertion and the signal. *)
enqueue(t, i) ==
  /\ pc[t] = "out" /\ imData = NONE
  /\ i \notin hData
  /\ imData' = t
  /\ hData' = hData \cup {i}
  /\ Goto(t, "signal")
  /\ UNCHANGED <<icBlock, timed>>

Waiting == {u \in Threads : pc[u] = "waiting"}

(* Mutant of Signal: the mutex of icBlock is taken for the signal, as the  *)
(* comment of Condition asks, but inside imData: the other way round than  *)
(* in dequeue.                                                             *)
Signal_lockedInside(t) ==
  /\ pc[t] = "signal" /\ icBlock = NONE
  /\ \/ Waiting = {} /\ Goto(t, "out")
     \/ \E u \in Waiting : pc' = [pc EXCEPT ![t] = "out", ![u] = "relock"]
  /\ imData' = NONE
  /\ UNCHANGED <<hData, icBlock, timed>>

(* icBlock.signal(), whoever has its mutex, and imData.unlock(). *)
Signal(t) ==
  /\ pc[t] = "signal"
  /\ \/ Waiting = {} /\ Goto(t, "out")
     \/ \E u \in Waiting : pc' = [pc EXCEPT ![t] = "out", ![u] = "relock"]
  /\ imData' = NONE
  /\ UNCHANGED <<hData, icBlock, timed>>

(* hData.dequeue(): an exception for an empty heap; else any item stands   *)
(* for the least one.                                                      *)
TakeItem ==
  \/ hData = {} /\ UNCHANGED hData
  \/ \E i \in hData : hData' = hData \ {i}

(* dequeue with imData taken, the heap looked at and imData given up. *)
dequeue(t) ==
  /\ pc[t] = "out" /\ imData = NONE
  /\ TakeItem
  /\ UNCHANGED <<imData, icBlock, pc, timed>>

dequeueBlock(t) ==
  /\ pc[t] = "out" /\ imData = NONE
  /\ hData = {}
  /\ Goto(t, "lock")
  /\ UNCHANGED <<hData, imData, icBlock, timed>>

dequeueTimed(t) ==
  /\ pc[t] = "out" /\ imData = NONE
  /\ hData = {}
  /\ Goto(t, "lock")
  /\ timed' = timed \cup {t}
  /\ UNCHANGED <<hData, imData, icBlock>>

-----------------------------------------------------------------------------
(* The rest of the blocking and the timed dequeue. *)

lock(t) ==
  /\ pc[t] = "lock" /\ icBlock = NONE
  /\ icBlock' = t
  /\ Goto(t, IF t \in timed THEN "wait" ELSE "look")
  /\ UNCHANGED <<hData, imData, timed>>

(* while( hData.isEmpty() ), without imData. *)
Look(t) ==
  /\ pc[t] = "look"
  /\ Goto(t, IF hData = {} THEN "wait" ELSE "take")
  /\ UNCHANGED <<hData, imData, icBlock, timed>>

wait(t) ==
  /\ pc[t] = "wait"
  /\ icBlock' = NONE
  /\ Goto(t, "waiting")
  /\ UNCHANGED <<hData, imData, timed>>

(* A wait that ends without a signal. *)
Timeout(t) ==
  /\ pc[t] = "waiting" /\ t \in timed
  /\ Goto(t, "relock")
  /\ UNCHANGED <<hData, imData, icBlock, timed>>

SpuriousWakeup(t) ==
  /\ Spurious
  /\ pc[t] = "waiting"
  /\ Goto(t, "relock")
  /\ UNCHANGED <<hData, imData, icBlock, timed>>

(* The wait returns with the mutex of icBlock. *)
Relock(t) ==
  /\ pc[t] = "relock" /\ icBlock = NONE
  /\ icBlock' = t
  /\ Goto(t, IF t \in timed THEN "take" ELSE "look")
  /\ UNCHANGED <<hData, imData, timed>>

(* Mutant of take: the handler of the exception keeps icBlock. *)
take_lockKept(t) ==
  /\ pc[t] = "take" /\ imData = NONE
  /\ TakeItem
  /\ icBlock' = IF hData = {} THEN icBlock ELSE NONE
  /\ Goto(t, "out")
  /\ timed' = timed \ {t}
  /\ UNCHANGED imData

(* Mutant of take: the call stays marked as timed. *)
take_stillTimed(t) ==
  /\ pc[t] = "take" /\ imData = NONE
  /\ TakeItem
  /\ icBlock' = NONE
  /\ Goto(t, "out")
  /\ UNCHANGED <<imData, timed>>

(* imData.lock(), hData.dequeue() and, exception or not, both unlocks. *)
take(t) ==
  /\ pc[t] = "take" /\ imData = NONE
  /\ TakeItem
  /\ icBlock' = NONE
  /\ Goto(t, "out")
  /\ timed' = timed \ {t}
  /\ UNCHANGED imData

Next ==
  \E t \in Threads :
    \/ \E i \in Items : enqueue(t, i)
    \/ Signal(t)
    \/ dequeue(t) \/ dequeueBlock(t) \/ dequeueTimed(t)
    \/ lock(t) \/ Look(t) \/ wait(t) \/ Timeout(t) \/ SpuriousWakeup(t)
    \/ Relock(t) \/ take(t)

(* A thread inside a function goes on; one that wants a mutex which is     *)
(* free again and again gets it; a timeout comes.                          *)
Fairness ==
  \A t \in Threads :
    /\ WF_vars(Signal(t)) /\ WF_vars(Look(t)) /\ WF_vars(wait(t))
    /\ WF_vars(Timeout(t))
    /\ SF_vars(lock(t)) /\ SF_vars(Relock(t)) /\ SF_vars(take(t))

Spec == Init /\ [][Next]_vars /\ Fairness

-----------------------------------------------------------------------------
(* Properties. *)

Labels == {"out", "signal", "lock", "look", "wait", "waiting", "relock", "take"}

(* The variables stay in their types; only threads inside a dequeue are    *)
(* timed.                                                                  *)
TypeOK ==
  /\ hData \subseteq Items
  /\ imData \in Threads \cup {NONE} /\ icBlock \in Threads \cup {NONE}
  /\ pc \in [Threads -> Labels]
  /\ timed \subseteq {t \in Threads : pc[t] \notin {"out", "signal"}}

(* Each mutex is held by exactly the thread that is in its section: no     *)
(* path out of a function, exceptions included, keeps one, and no two      *)
(* threads are in a section at a time.                                     *)
LocksMatch ==
  \A t \in Threads :
    /\ imData = t <=> pc[t] = "signal"
    /\ icBlock = t <=> pc[t] \in {"look", "wait", "take"}

(* The two mutexes never stop a dequeue for good: a thread that wants the  *)
(* mutex of icBlock, or has it and wants imData, comes to the wait or out  *)
(* of the function.                                                        *)
LocksAreGot ==
  \A t \in Threads :
    pc[t] \in {"lock", "relock", "take"} ~> pc[t] \in {"waiting", "out"}

(* A timed dequeue comes back: with an item, or with the exception.        *)
TimedComesBack == \A t \in Threads : t \in timed ~> pc[t] = "out"

(* It is never so for ever that a thread waits in dequeue while there is   *)
(* an item: what a condition is for, by the comment of signal.             *)
ItemsReachWaiters == []<>(Waiting = {} \/ hData = {})
=============================================================================
