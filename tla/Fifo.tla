-------------------------------- MODULE Fifo --------------------------------
(***************************************************************************)
(* What Bu::SynchroQueue promises its callers: a first-in first-out queue  *)
(* shared by threads.  Every value enqueued is returned by at most one     *)
(* dequeue, in the order of the enqueues, and a dequeue returns NULL only  *)
(* at a moment when the queue is empty.                                    *)
(***************************************************************************)
EXTENDS Sequences

CONSTANTS Threads, Values, NULL

VARIABLES
  items,    \* the values in the queue
  calling,  \* the threads that wait inside a dequeue
  ret       \* what the last dequeue of each thread returned

fifoVars == <<items, calling, ret>>

FifoInit ==
  /\ items = << >>
  /\ calling = {}
  /\ ret = [t \in Threads |-> NULL]

Enqueue(v) == items' = Append(items, v) /\ UNCHANGED <<calling, ret>>

Call(t) == calling' = calling \cup {t} /\ UNCHANGED <<items, ret>>

Return(t) ==
  /\ items # << >>
  /\ items' = Tail(items)
  /\ ret' = [ret EXCEPT ![t] = Head(items)]
  /\ calling' = calling \ {t}

ReturnNull(t) ==
  /\ items = << >>
  /\ ret' = [ret EXCEPT ![t] = NULL]
  /\ calling' = calling \ {t}
  /\ UNCHANGED items

(* The queue is destroyed, with what it holds, when no thread is in it. *)
Destroy == calling = {} /\ items' = << >> /\ UNCHANGED <<calling, ret>>

FifoNext ==
  \/ \E v \in Values : Enqueue(v)
  \/ \E t \in Threads : Call(t) \/ Return(t) \/ ReturnNull(t)
  \/ Destroy

FifoSpec == FifoInit /\ [][FifoNext]_fifoVars
=============================================================================
