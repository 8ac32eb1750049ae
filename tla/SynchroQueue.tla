---------------------------- MODULE SynchroQueue ----------------------------
(***************************************************************************)
(* Bu::SynchroQueue (stable/synchroqueue.h): a queue as a linked list of   *)
(* heap-allocated items, with blocking and timed dequeues on a condition   *)
(* variable (stable/condition.cpp).                                        *)
(*                                                                         *)
(* Every member function holds the mutex of cBlock except while it waits,  *)
(* so the code between taking it (at the start or when a wait ends) and    *)
(* giving it up is one step.  A wait ends because of a signal, a           *)
(* broadcast, a timeout, or for no reason: pthreads allows it.             *)
(***************************************************************************)
EXTENDS Integers, SequencesExt

CONSTANTS
  Threads,    \* the threads that dequeue
  Values,     \* what is enqueued
  Nodes,      \* bound: the memory for items
  NULL,
  Spurious,   \* whether waits may end for no reason
  Unblocks    \* whether unblockAll is called

ASSUME NullAssumption == NULL \notin Values \cup Nodes
ASSUME FlagsAssumption == Spurious \in BOOLEAN /\ Unblocks \in BOOLEAN
ASSUME ThreadsAssumption == IsFiniteSet(Threads)

VARIABLES
  pStart, pEnd,   \* first and last item; pEnd dangles in an empty queue
  pNext, pData,   \* the fields of the items, kept when an item is deleted
  nSize,
  allocated,      \* the items that were created and not deleted
  waits,          \* the wait each thread is in: "none", "block" or "timed"
  awake,          \* the threads whose wait is over, the mutex not yet taken
  ret,            \* what the last dequeue of each thread returned
  order           \* history variable: the items in the queue, in order

vars == <<pStart, pEnd, pNext, pData, nSize, allocated, waits, awake, ret, order>>
listVars == <<pStart, pEnd, pNext, pData, nSize, allocated, order>>

Asleep == {t \in Threads : waits[t] # "none"} \ awake

Init ==
  /\ pStart = NULL /\ pEnd = NULL
  /\ pNext = [n \in Nodes |-> NULL]
  /\ pData = [n \in Nodes |-> NULL]
  /\ nSize = 0
  /\ allocated = {}
  /\ waits = [t \in Threads |-> "none"]
  /\ awake = {}
  /\ ret = [t \in Threads |-> NULL]
  /\ order = << >>

-----------------------------------------------------------------------------
(* Mutant of signal: nobody is told. *)
signal_dropped == UNCHANGED awake

(* pthread_cond_signal: one waiting thread, if there is one. *)
signal ==
  \/ Asleep = {} /\ UNCHANGED awake
  \/ \E t \in Asleep : awake' = awake \cup {t}

(* Mutant of Link: the end is not moved when there is one already. *)
Link_endKept(v, n) ==
  /\ pNext' = IF pStart = NULL
              THEN [pNext EXCEPT ![n] = NULL]
              ELSE [pNext EXCEPT ![pEnd] = n, ![n] = NULL]
  /\ pStart' = IF pStart = NULL THEN n ELSE pStart
  /\ pEnd' = IF pStart = NULL THEN n ELSE pEnd
  /\ pData' = [pData EXCEPT ![n] = v]

(* new Item, at any free address n, put behind pEnd. *)
Link(v, n) ==
  /\ pNext' = IF pStart = NULL
              THEN [pNext EXCEPT ![n] = NULL]
              ELSE [pNext EXCEPT ![pEnd] = n, ![n] = NULL]
  /\ pStart' = IF pStart = NULL THEN n ELSE pStart
  /\ pEnd' = n
  /\ pData' = [pData EXCEPT ![n] = v]

enqueue(v, n) ==
  /\ n \notin allocated
  /\ Link(v, n)
  /\ allocated' = allocated \cup {n}
  /\ nSize' = nSize + 1
  /\ order' = Append(order, n)
  /\ signal
  /\ UNCHANGED <<waits, ret>>

(* Mutant of Leave: the end of the wait is not taken note of. *)
Leave_stillAwake(t) ==
  /\ waits' = [waits EXCEPT ![t] = "none"]
  /\ UNCHANGED awake

(* The mutex is given up and the function returns. *)
Leave(t) ==
  /\ waits' = [waits EXCEPT ![t] = "none"]
  /\ awake' = awake \ {t}

(* Mutant of Take: the item is neither counted down nor deleted. *)
Take_uncounted(t) ==
  /\ pStart # NULL
  /\ ret' = [ret EXCEPT ![t] = pData[pStart]]
  /\ pStart' = pNext[pStart]
  /\ order' = Tail(order)
  /\ Leave(t)
  /\ UNCHANGED <<pEnd, pNext, pData, nSize, allocated>>

(* The three copies of the code that takes the first item. *)
Take(t) ==
  /\ pStart # NULL
  /\ ret' = [ret EXCEPT ![t] = pData[pStart]]
  /\ pStart' = pNext[pStart]
  /\ allocated' = allocated \ {pStart}
  /\ nSize' = nSize - 1
  /\ order' = Tail(order)
  /\ Leave(t)
  /\ UNCHANGED <<pEnd, pNext, pData>>

Null(t) ==
  /\ pStart = NULL
  /\ ret' = [ret EXCEPT ![t] = NULL]
  /\ Leave(t)
  /\ UNCHANGED listVars

Wait(t, kind) ==
  /\ pStart = NULL
  /\ waits' = [waits EXCEPT ![t] = kind]
  /\ UNCHANGED <<listVars, awake, ret>>

(* The start of dequeue( false ), dequeue( true ) and dequeue( sec, usec ). *)
dequeue(t) == waits[t] = "none" /\ (Take(t) \/ Null(t))
dequeueBlock(t) == waits[t] = "none" /\ (Take(t) \/ Wait(t, "block"))
dequeueTimed(t) == waits[t] = "none" /\ (Take(t) \/ Wait(t, "timed"))

(* The rest of a blocking dequeue, with the mutex back: no second wait. *)
Resume(t) == t \in awake /\ (Take(t) \/ Null(t))

Timeout(t) ==
  /\ t \in Asleep /\ waits[t] = "timed"
  /\ awake' = awake \cup {t}
  /\ UNCHANGED <<listVars, waits, ret>>

SpuriousWakeup(t) ==
  /\ Spurious
  /\ t \in Asleep
  /\ awake' = awake \cup {t}
  /\ UNCHANGED <<listVars, waits, ret>>

unblockAll ==
  /\ Unblocks
  /\ Asleep # {}
  /\ awake' = awake \cup Asleep
  /\ UNCHANGED <<listVars, waits, ret>>

(* The items met by following pNext from pStart: those in every set that   *)
(* has the first item, and the next one of each item in it.                *)
Chain ==
  LET Followed(S) == /\ pStart \in S \cup {NULL}
                     /\ \A n \in S : pNext[n] \in S \cup {NULL}
  IN  {n \in Nodes : \A S \in SUBSET Nodes : Followed(S) => n \in S}

(* ~SynchroQueue, then a new queue; no thread may be inside. *)
Destroy ==
  /\ \A t \in Threads : waits[t] = "none"
  /\ allocated' = allocated \ Chain
  /\ pStart' = NULL /\ pEnd' = NULL /\ nSize' = 0
  /\ order' = << >>
  /\ UNCHANGED <<pNext, pData, waits, awake, ret>>

Next ==
  \/ \E v \in Values, n \in Nodes : enqueue(v, n)
  \/ \E t \in Threads :
       \/ dequeue(t) \/ dequeueBlock(t) \/ dequeueTimed(t)
       \/ Resume(t) \/ Timeout(t) \/ SpuriousWakeup(t)
  \/ unblockAll
  \/ Destroy

(* A thread whose wait is over gets the mutex in the end: everyone who     *)
(* holds it gives it up after a few statements.  Nobody has to call        *)
(* anything.                                                               *)
Fairness == \A t \in Threads : WF_vars(Resume(t))

Spec == Init /\ [][Next]_vars /\ Fairness

-----------------------------------------------------------------------------
(* Properties. *)

(* The variables stay in their types. *)
TypeOK ==
  /\ pStart \in Nodes \cup {NULL} /\ pEnd \in Nodes \cup {NULL}
  /\ pNext \in [Nodes -> Nodes \cup {NULL}]
  /\ pData \in [Nodes -> Values \cup {NULL}]
  /\ nSize \in Int
  /\ allocated \subseteq Nodes
  /\ waits \in [Threads -> {"none", "block", "timed"}]
  /\ awake \subseteq {t \in Threads : waits[t] # "none"}
  /\ ret \in [Threads -> Values \cup {NULL}]
  /\ order \in Seq(Nodes)

(* The pointers describe the queue: they chain exactly its items, in       *)
(* order, and pEnd is the last, although a dequeue that empties the queue  *)
(* leaves pEnd on a deleted item whose memory may be used again.           *)
ListSound ==
  /\ IsInjective(order)
  /\ pStart = (IF order = << >> THEN NULL ELSE order[1])
  /\ order # << >> => pEnd = order[Len(order)]
  /\ \A i \in DOMAIN order :
       pNext[order[i]] = (IF i < Len(order) THEN order[i + 1] ELSE NULL)
  /\ \A i \in DOMAIN order :
       order[i] \in allocated /\ pData[order[i]] \in Values

(* Every item is deleted exactly when it leaves the queue, and nSize is    *)
(* the number of items.                                                    *)
NoLeak == allocated = Range(order) /\ nSize = Len(order)

(* No wake-up is lost: when a thread sleeps, every item in the queue has a *)
(* thread that is awake to take it, although other threads may take items  *)
(* first and waits may end without a signal.                               *)
NoLostWakeup == Asleep # {} => Len(order) <= Cardinality(awake)

(* It is never so for ever that a thread sleeps in dequeue while there is  *)
(* an item: the signal in enqueue reaches someone who takes it.            *)
ItemsReachSleepers == []<>(Asleep = {} \/ order = << >>)

(* The queue is a FIFO as its callers see it: pointers, waits and          *)
(* wake-ups implement Fifo.                                                *)
Promise == INSTANCE Fifo
  WITH items <- [i \in DOMAIN order |-> pData[order[i]]],
       calling <- {t \in Threads : waits[t] # "none"}

IsFifo == Promise!FifoSpec

(* What the comment on dequeue says of its blocking mode: no thread that   *)
(* waits in dequeue( true ) ever leaves it with NULL.                      *)
BlockingNeverNull ==
  [][\A t \in Threads :
       waits[t] = "block" => waits'[t] # "none" \/ ret'[t] # NULL]_vars
=============================================================================
