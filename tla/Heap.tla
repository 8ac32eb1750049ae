-------------------------------- MODULE Heap --------------------------------
(***************************************************************************)
(* Bu::Heap, the priority queue of src/stable/heap.h: a binary tree in an  *)
(* array, filled by a walk down the tree followed by a walk up, emptied by *)
(* moving a hole down.  core is the HeapCore (iFill is Len(aItem)); abs is *)
(* the bag of the items inside, as a function from item to number.         *)
(***************************************************************************)
EXTENDS Integers, Sequences

CONSTANTS Items,    \* naturals, compared by __basicLTCmp
          MaxFill   \* bound: how many items a run puts into the heap

VARIABLES core, abs
vars == <<core, abs>>
-----------------------------------------------------------------------------
HeapCore == [iSize |-> 0, aItem |-> <<>>]

cmp(a, b) == a < b

\* init( int ): the least 2^n - 1 that holds iCap.
initSize[n \in Nat, iCap \in Nat] == IF n < iCap THEN initSize[2 * n + 1, iCap] ELSE n

initCap(iCap) == [iSize |-> initSize[1, iCap], aItem |-> <<>>]

upSize(c) == [c EXCEPT !.iSize = IF @ = 0 THEN 7 ELSE 2 * @ + 1]

\* Mutant: enqueue without its second loop.
NoWalkUp(a, j) == a

\* The first loop of enqueue: the item in hand is exchanged for larger ones.
RECURSIVE walkDown(_, _, _)
walkDown(a, i, j) ==
    IF j >= Len(a) THEN [a |-> a, i |-> i]
    ELSE LET less == cmp(i, a[j + 1])
             b    == IF less THEN [a EXCEPT ![j + 1] = i] ELSE a
             x    == IF less THEN a[j + 1] ELSE i
         IN  IF 2 * j + 1 >= Len(a) THEN [a |-> b, i |-> x]
             ELSE walkDown(b, x, IF cmp(x, b[2 * j + 2]) THEN 2 * j + 1 ELSE 2 * j + 2)

\* The second loop of enqueue: the new last item rises.
RECURSIVE walkUp(_, _)
walkUp(a, j) ==
    IF j = 0 THEN a
    ELSE LET k == (j - 1) \div 2
         IN  IF cmp(a[k + 1], a[j + 1]) THEN a
             ELSE walkUp([a EXCEPT ![k + 1] = a[j + 1], ![j + 1] = a[k + 1]], k)

coreEnqueue(c, it) ==
    LET g == IF Len(c.aItem) + 1 >= c.iSize THEN upSize(c) ELSE c
        d == walkDown(g.aItem, it, 0)
    IN  [g EXCEPT !.aItem = walkUp(Append(d.a, d.i), Len(d.a))]

\* Mutant: the larger child moves up.
RECURSIVE HoleWrongChild(_, _)
HoleWrongChild(a, j) ==
    LET n == Len(a)  k == 2 * j + 1
    IN  IF k < n THEN HoleWrongChild([a EXCEPT ![j + 1] = a[k + 1]], k)
        ELSE [a |-> a, j |-> j]

\* The loop of dequeue: the hole moves to the lesser child until the last item fits.
RECURSIVE holeDown(_, _)
holeDown(a, j) ==
    LET n    == Len(a)
        k    == 2 * j + 1
        m    == IF k + 1 < n /\ cmp(a[k + 2], a[k + 1]) THEN k + 1 ELSE k
        stop == m >= n \/ (m < n - 1 /\ cmp(a[n], a[m + 1]))
    IN  IF stop THEN [a |-> a, j |-> j]
        ELSE holeDown([a EXCEPT ![j + 1] = a[m + 1]], m)

\* What dequeue leaves of a heap that is not empty.
rest(c) ==
    LET h == holeDown(c.aItem, 0)
        n == Len(c.aItem)
        b == IF h.j < n - 1 THEN [h.a EXCEPT ![h.j + 1] = h.a[n]] ELSE h.a
    IN  [c EXCEPT !.aItem = SubSeq(b, 1, n - 1)]

\* Iterators: an index, -1 being the end.
next(c, iIndex) == IF iIndex + 1 >= Len(c.aItem) THEN -1 ELSE iIndex + 1

begin(c) == IF c.aItem = <<>> THEN -1 ELSE 0

RECURSIVE iterate(_, _)
iterate(c, i) == IF i = -1 THEN <<>> ELSE <<c.aItem[i + 1]>> \o iterate(c, next(c, i))

\* List::sort and Array::sort: everything in, everything out.
RECURSIVE fillAll(_, _), drain(_)
fillAll(c, s) == IF s = <<>> THEN c ELSE fillAll(coreEnqueue(c, Head(s)), Tail(s))
drain(c) == IF c.aItem = <<>> THEN <<>> ELSE <<c.aItem[1]>> \o drain(rest(c))

sorted(s) == drain(fillAll(initCap(Len(s)), s))
-----------------------------------------------------------------------------
Init == \E c \in {HeapCore} \cup {initCap(n) : n \in 0..4} :
            core = c /\ abs = [i \in Items |-> 0]

enqueue(it) ==
    /\ Len(core.aItem) < MaxFill
    /\ core' = coreEnqueue(core, it)
    /\ abs' = [abs EXCEPT ![it] = @ + 1]

\* An empty heap throws.
dequeue ==
    /\ core.aItem /= <<>>
    /\ core' = rest(core)
    /\ abs' = [abs EXCEPT ![core.aItem[1]] = @ - 1]

Next == (\E it \in Items : enqueue(it)) \/ dequeue

Spec == Init /\ [][Next]_vars
-----------------------------------------------------------------------------
\* "Every time an item is dequeued it is always the least item in the heap" (the comment
\* on Bu::Heap): the first item is the least, whatever was put in and taken out before,
\* an iterator meets every item, none lost or doubled by the walks and the holes, and there is room for one more.
LeastFirst ==
    /\ core.aItem /= <<>> => \A i \in Items : abs[i] > 0 => core.aItem[1] <= i
    /\ \A i \in Items : abs[i] = Len(SelectSeq(iterate(core, begin(core)), LAMBDA x : x = i))
    /\ core.aItem /= <<>> => Len(core.aItem) < core.iSize

\* The heap is a sorting machine: emptied, it gives its items in ascending order.
DrainsAscending ==
    LET out == drain(core) IN \A i \in 2..Len(out) : out[i - 1] <= out[i]
=============================================================================
