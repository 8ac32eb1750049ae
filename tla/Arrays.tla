----------------------------- MODULE Arrays ---------------------------------
(***************************************************************************)
(* Containers in one piece of raw memory: Bu::Array and Bu::RingBuffer.    *)
(* They share no state: which says what a behaviour is about.              *)
(***************************************************************************)
EXTENDS Integers, Sequences, SequencesExt

VARIABLES which, core, abs
vars == <<which, core, abs>>
-----------------------------------------------------------------------------
(***************************************************************************)
(* Bu::Array (src/stable/array.h): a growing array whose elements are      *)
(* constructed and destroyed one by one in raw memory.  core is the        *)
(* ArrayCore, with Raw in the places that hold no object; abs is the       *)
(* sequence the calls describe.  A construct over an object loses it and a *)
(* destroy of raw memory is undefined: either marks the place Broken.      *)
(***************************************************************************)
CONSTANTS ArrayValues, ArrayRaw, Broken,
          inc,       \* the growth of the capacity (10 by default)
          MaxSize    \* bound: the longest array of a run

-----------------------------------------------------------------------------
ArrayCore == [pData |-> <<>>, iSize |-> 0, iCapacity |-> 0]

construct(d, i, v) == [d EXCEPT ![i] = IF @ = ArrayRaw THEN v ELSE Broken]

destroy(d, i) == [d EXCEPT ![i] = IF @ = ArrayRaw THEN Broken ELSE ArrayRaw]

coreSetCapacity(c, iNewLen) ==
    IF iNewLen <= c.iCapacity THEN c
    ELSE [c EXCEPT !.iCapacity = iNewLen,
                   !.pData = [i \in 0..(iNewLen - 1) |-> IF i < c.iSize THEN c.pData[i] ELSE ArrayRaw]]

roomForOne(c) == IF c.iSize = c.iCapacity THEN coreSetCapacity(c, c.iCapacity + inc) ELSE c

\* Mutant: the erase that closes the gap without destroying the last object.
RECURSIVE EraseLeavesLast(_, _)
EraseLeavesLast(c, j) ==
    IF j >= c.iSize - 1 THEN [c EXCEPT !.iSize = IF @ > 0 THEN @ - 1 ELSE 0]
    ELSE EraseLeavesLast([c EXCEPT !.pData = construct(destroy(@, j), j, @[j + 1])], j + 1)

\* The loop of erase, from position j on (nothing happens from the end on).
RECURSIVE coreErase(_, _)
coreErase(c, j) ==
    CASE j >= c.iSize -> c
      [] j = c.iSize - 1 -> [c EXCEPT !.iSize = @ - 1, !.pData = destroy(@, j)]
      [] OTHER -> coreErase([c EXCEPT !.pData = construct(destroy(@, j), j, @[j + 1])], j + 1)

coreSwapErase(c, iPos) ==
    IF iPos = c.iSize - 1 THEN coreErase(c, iPos)
    ELSE [c EXCEPT !.iSize = @ - 1,
                   !.pData = destroy(construct(destroy(@, iPos), iPos, @[c.iSize - 1]), c.iSize - 1)]

coreAppend(c, v) ==
    LET g == roomForOne(c)
    IN  [g EXCEPT !.iSize = @ + 1, !.pData = construct(@, g.iSize, v)]

\* The loop of insert that moves the objects from iTo on up by one place.
RECURSIVE moveUp(_, _, _)
moveUp(d, iPos, iTo) ==
    IF iPos <= iTo THEN d
    ELSE moveUp(construct(destroy(d, iPos), iPos, d[iPos - 1]), iPos - 1, iTo)

coreInsert(c, iPos, v) ==
    LET g == roomForOne(c)
        n == g.iSize
        d == moveUp(construct(g.pData, n, g.pData[n - 1]), n - 1, iPos)
    IN  [g EXCEPT !.iSize = n + 1, !.pData = construct(destroy(d, iPos), iPos, v)]

\* Iterators: an index, -1 being the end.
begin(c) == IF 0 >= c.iSize THEN -1 ELSE 0

next(c, iPos) == IF iPos + 1 >= c.iSize THEN -1 ELSE iPos + 1

\* operator--( int ); the other form, operator--(), already ends at index 0 (README).
prev(c, iPos) == iPos - 1

RECURSIVE forward(_, _), backward(_, _)
forward(c, i) == IF i < 0 THEN <<>> ELSE <<c.pData[i]>> \o forward(c, next(c, i))
backward(c, i) == IF i < 0 THEN <<>> ELSE <<c.pData[i]>> \o backward(c, prev(c, i))
-----------------------------------------------------------------------------
ArrayInit == core = ArrayCore /\ abs = <<>>

setCapacity(n) == core' = coreSetCapacity(core, n) /\ UNCHANGED abs

append(v) == core.iSize < MaxSize /\ core' = coreAppend(core, v) /\ abs' = Append(abs, v)

\* append( Array ): another array; an array appended to itself is never done (README).
appendArray(v, w) ==
    /\ core.iSize + 2 <= MaxSize
    /\ LET g == IF core.iSize + 2 > core.iCapacity
                THEN coreSetCapacity(core, core.iSize + 2 + inc) ELSE core
       IN  core' = [g EXCEPT !.iSize = @ + 2,
                             !.pData = construct(construct(@, g.iSize, v), g.iSize + 1, w)]
    /\ abs' = abs \o <<v, w>>

\* operator[] used to assign; an index out of range throws.
setAt(i, v) ==
    /\ core' = [core EXCEPT !.pData[i - 1] = v]
    /\ abs' = [abs EXCEPT ![i] = v]

insert(i, v) ==
    /\ core.iSize < MaxSize
    /\ core' = coreInsert(core, i - 1, v)
    /\ abs' = InsertAt(abs, i, v)

erase(i) == core' = coreErase(core, i - 1) /\ abs' = RemoveAt(abs, i)

eraseValue(v) ==
    LET hits == {i \in DOMAIN abs : core.pData[i - 1] = v}
    IN  /\ core' = IF hits = {} THEN core ELSE coreErase(core, Min(hits) - 1)
        /\ abs' = IF v \in Range(abs) THEN RemoveAt(abs, Min({i \in DOMAIN abs : abs[i] = v})) ELSE abs

eraseFirst == core' = coreErase(core, 0) /\ abs' = IF abs = <<>> THEN abs ELSE Tail(abs)

\* Only called on an array that is not empty: on an empty one iSize would become -1.
eraseLast == abs /= <<>> /\ core' = coreErase(core, core.iSize - 1) /\ abs' = Front(abs)

swapErase(i) ==
    /\ core' = coreSwapErase(core, i - 1)
    /\ abs' = Front([abs EXCEPT ![i] = Last(abs)])

clear == core' = ArrayCore /\ abs' = <<>>

copyCore ==
    /\ core' = [coreSetCapacity(ArrayCore, core.iCapacity) EXCEPT
                   !.iSize = core.iSize,
                   !.pData = [i \in DOMAIN @ |-> IF i < core.iSize THEN core.pData[i] ELSE ArrayRaw]]
    /\ UNCHANGED abs

ArrayNext == \/ \E v \in ArrayValues : \/ append(v)
                                       \/ eraseValue(v)
                                       \/ \E w \in ArrayValues : appendArray(v, w)
                                       \/ \E i \in DOMAIN abs : setAt(i, v) \/ insert(i, v)
             \/ \E i \in DOMAIN abs : erase(i) \/ swapErase(i)
             \/ \E n \in 0..MaxSize : setCapacity(n)
             \/ eraseFirst \/ eraseLast \/ clear \/ copyCore

-----------------------------------------------------------------------------
\* The objects of the array are the sequence the calls describe, and what lies between
\* size and capacity is raw memory: no place is constructed twice, destroyed twice or
\* left constructed, whichever way objects are moved up, moved down or swapped; an iterator
\* meets the sequence forward, and backward from its last item.
ObjectsAreTheSequence ==
    /\ core.iSize = Len(abs) /\ core.iSize <= core.iCapacity
    /\ forward(core, begin(core)) = abs
    /\ backward(core, core.iSize - 1) = Reverse(abs)
    /\ \A i \in 0..(core.iCapacity - 1) :
           core.pData[i] = IF i < Len(abs) THEN abs[i + 1] ELSE ArrayRaw
-----------------------------------------------------------------------------
(***************************************************************************)
(* Bu::RingBuffer (src/stable/ringbuffer.h): a queue in a fixed array; an  *)
(* enqueue into a full ring drops the oldest value.  core is the           *)
(* RingBufferCore (iStart -1: empty, iStart = iEnd: full); abs is the      *)
(* queue.  The hard copy is not an action: it copies getSize() values, and *)
(* getSize is not the number of values (README).                           *)
(***************************************************************************)
CONSTANTS RingBufferValues, RingBufferRaw, Capacities

-----------------------------------------------------------------------------
\* RingBuffer( int ): capacities of two and more; with one, iEnd = 1 is out of the array.
RingBufferCore(n) == [iCapacity |-> n, iStart |-> -1, iEnd |-> -2,
                      aData |-> [i \in 0..(n - 1) |-> RingBufferRaw]]

RingBufferInit == \E n \in Capacities : core = RingBufferCore(n) /\ abs = <<>>

coreDequeue(c) ==
    LET s == (c.iStart + 1) % c.iCapacity
    IN  [c EXCEPT !.aData[c.iStart] = RingBufferRaw,
                  !.iStart = IF s = c.iEnd THEN -1 ELSE s,
                  !.iEnd = IF s = c.iEnd THEN -2 ELSE @]

\* Mutant: a full ring is not noticed.
EnqueueOverFull(c, v) ==
    IF c.iStart = -1 THEN [c EXCEPT !.iStart = 0, !.iEnd = 1, !.aData[0] = v]
    ELSE [c EXCEPT !.aData[c.iEnd] = v, !.iEnd = (@ + 1) % c.iCapacity]

coreEnqueue(c, v) ==
    IF c.iStart = -1 THEN [c EXCEPT !.iStart = 0, !.iEnd = 1, !.aData[0] = v]
    ELSE LET d == IF c.iStart = c.iEnd THEN coreDequeue(c) ELSE c
         IN  [d EXCEPT !.aData[d.iEnd] = v, !.iEnd = (@ + 1) % d.iCapacity]

get(c, iIndex) == c.aData[(iIndex + c.iStart) % c.iCapacity]

last(c) == c.aData[(c.iEnd - 1 + c.iCapacity) % c.iCapacity]

enqueue(v) ==
    /\ core' = coreEnqueue(core, v)
    /\ abs' = Append(IF Len(abs) = core.iCapacity THEN Tail(abs) ELSE abs, v)

\* An empty ring throws.
dequeue == core.iStart /= -1 /\ core' = coreDequeue(core) /\ abs' = Tail(abs)

RingBufferNext == (\E v \in RingBufferValues : enqueue(v)) \/ dequeue

-----------------------------------------------------------------------------
\* The ring holds the last values enqueued, oldest first, at the indexes get() reads them
\* from; last() is the newest; isEmpty and isFilled, which look at the two ends only, are
\* right; and every other place is free, through wrap-around and overwriting.
RingIsQueue ==
    /\ \A i \in 1..Len(abs) : get(core, i - 1) = abs[i]
    /\ abs /= <<>> => last(core) = abs[Len(abs)]
    /\ (core.iStart = -1) = (abs = <<>>)
    /\ (core.iStart = core.iEnd) = (Len(abs) = core.iCapacity)
    /\ \A j \in 0..(core.iCapacity - 1) :
           core.aData[j] = RingBufferRaw <=> ~\E i \in 1..Len(abs) : j = (i - 1 + core.iStart) % core.iCapacity
-----------------------------------------------------------------------------
Init == \/ which = "Array" /\ ArrayInit
        \/ which = "RingBuffer" /\ RingBufferInit

Next == /\ UNCHANGED which
        /\ \/ which = "Array" /\ ArrayNext
           \/ which = "RingBuffer" /\ RingBufferNext

Spec == Init /\ [][Next]_vars
=============================================================================
