-------------------------------- MODULE List --------------------------------
(***************************************************************************)
(* Bu::List, the doubly linked list of src/stable/list.h.  core is the     *)
(* ListCore with its links (a link's address is a natural; 0 is NULL; the  *)
(* allocator gives the least free address); abs is the sequence it stands  *)
(* for.  An iterator is the address of a link, 0 being end().              *)
(***************************************************************************)
EXTENDS Integers, FiniteSets, SequencesExt

CONSTANTS Values,   \* naturals, compared by __basicLTCmp
          MaxSize   \* bound: the longest list of a run

VARIABLES core, abs
vars == <<core, abs>>

LOCAL Sorter == INSTANCE Heap WITH Items <- Values, MaxFill <- MaxSize
-----------------------------------------------------------------------------
NULL == 0

ListCore == [pFirst |-> NULL, pLast |-> NULL, nSize |-> 0, link |-> <<>>]

allocate(c) == CHOOSE n \in 1..(Cardinality(DOMAIN c.link) + 1) : n \notin DOMAIN c.link

Link(v, p, n) == [pValue |-> v, pPrev |-> p, pNext |-> n]

coreAppend(c, v) ==
    LET n == allocate(c)
        l == IF c.pFirst = NULL THEN c.link ELSE [c.link EXCEPT ![c.pLast].pNext = n]
    IN  [pFirst |-> IF c.pFirst = NULL THEN n ELSE c.pFirst, pLast |-> n,
         nSize |-> c.nSize + 1,
         link |-> (n :> Link(v, IF c.pFirst = NULL THEN NULL ELSE c.pLast, NULL)) @@ l]

corePrepend(c, v) ==
    LET n == allocate(c)
        l == IF c.pFirst = NULL THEN c.link ELSE [c.link EXCEPT ![c.pFirst].pPrev = n]
    IN  [pFirst |-> n, pLast |-> IF c.pFirst = NULL THEN n ELSE c.pLast,
         nSize |-> c.nSize + 1, link |-> (n :> Link(v, NULL, c.pFirst)) @@ l]

coreInsert(c, at, v) ==
    CASE at = NULL -> coreAppend(c, v)
      [] at /= NULL /\ c.link[at].pPrev = NULL -> corePrepend(c, v)
      [] OTHER ->
           LET n == allocate(c)
               p == c.link[at].pPrev
           IN  [c EXCEPT !.nSize = @ + 1,
                         !.link = (n :> Link(v, p, at))
                                  @@ [@ EXCEPT ![at].pPrev = n, ![p].pNext = n]]

\* Mutant: the erase of the last link leaves pLast where it was.
EraseKeepsLast(c, at) ==
    IF at = NULL THEN c
    ELSE LET p == c.link[at].pPrev
             n == c.link[at].pNext
             l == [x \in DOMAIN c.link \ {at} |->
                     [c.link[x] EXCEPT !.pNext = IF x = p THEN n ELSE @,
                                       !.pPrev = IF x = n THEN p ELSE @]]
         IN  [pFirst |-> IF p = NULL THEN n ELSE c.pFirst,
              pLast |-> c.pLast, nSize |-> c.nSize - 1, link |-> l]

coreErase(c, at) ==
    IF at = NULL THEN c
    ELSE LET p == c.link[at].pPrev
             n == c.link[at].pNext
             l == [x \in DOMAIN c.link \ {at} |->
                     [c.link[x] EXCEPT !.pNext = IF x = p THEN n ELSE @,
                                       !.pPrev = IF x = n THEN p ELSE @]]
         IN  [pFirst |-> IF p = NULL THEN n ELSE c.pFirst,
              pLast  |-> IF p = NULL THEN (IF n = NULL THEN NULL ELSE c.pLast)
                         ELSE IF n = NULL THEN p ELSE c.pLast,
              nSize |-> c.nSize - 1, link |-> l]

\* What an iterator meets from pFirst on (forward) or from pLast back (backward).
Walk(c, from, forward) ==
    LET W[at \in Nat, left \in 0..Cardinality(DOMAIN c.link)] ==
            IF at \notin DOMAIN c.link \/ left = 0 THEN <<>>
            ELSE <<at>> \o W[IF forward THEN c.link[at].pNext ELSE c.link[at].pPrev, left - 1]
    IN  W[from, Cardinality(DOMAIN c.link)]

At(c, i) == Walk(c, c.pFirst, TRUE)[i]

ValuesOf(c, ats) == [i \in DOMAIN ats |-> c.link[ats[i]].pValue]

\* _copyCore, and the list built from a sequence of values.
RECURSIVE appendAll(_, _)
appendAll(c, s) == IF s = <<>> THEN c ELSE appendAll(coreAppend(c, Head(s)), Tail(s))

\* The first link whose value is greater, NULL when there is none.
firstGreater(c, v) ==
    LET w    == Walk(c, c.pFirst, TRUE)
        over == {i \in DOMAIN w : v < c.link[w[i]].pValue}
    IN  IF over = {} THEN NULL ELSE w[Min(over)]
-----------------------------------------------------------------------------
Init == core = ListCore /\ abs = <<>>

Room == core.nSize < MaxSize

\* append, enqueue and operator+=.
append(v) == Room /\ core' = coreAppend(core, v) /\ abs' = Append(abs, v)

\* prepend and push.
prepend(v) == Room /\ core' = corePrepend(core, v) /\ abs' = <<v>> \o abs

\* prepend( list ): item by item, so that the other list arrives reversed.
prependList(v, w) ==
    /\ core.nSize + 1 < MaxSize
    /\ core' = corePrepend(corePrepend(core, v), w)
    /\ abs' = <<w, v>> \o abs

\* insert before an iterator; i counts the items in front of it.
insert(i, v) ==
    /\ Room
    /\ core' = coreInsert(core, IF i = Len(abs) THEN NULL ELSE At(core, i + 1), v)
    /\ abs' = InsertAt(abs, i + 1, v)

insertSorted(v) ==
    /\ Room
    /\ core' = coreInsert(core, firstGreater(core, v), v)
    /\ LET over == {i \in DOMAIN abs : v < abs[i]}
       IN  abs' = IF over = {} THEN Append(abs, v) ELSE InsertAt(abs, Min(over), v)

\* erase( iterator ): also pop, dequeue, eraseFirst and, at the end, eraseLast.
erase(i) == core' = coreErase(core, At(core, i)) /\ abs' = RemoveAt(abs, i)

eraseLast ==
    /\ core' = coreErase(core, core.pLast)
    /\ abs' = IF abs = <<>> THEN <<>> ELSE Front(abs)

\* erase( value ) and operator-=: the first item that is equal.
eraseValue(v) ==
    LET w    == Walk(core, core.pFirst, TRUE)
        hits == {i \in DOMAIN w : core.link[w[i]].pValue = v}
    IN  /\ core' = IF hits = {} THEN core ELSE coreErase(core, w[Min(hits)])
        /\ abs' = IF v \in Range(abs)
                  THEN RemoveAt(abs, Min({i \in DOMAIN abs : abs[i] = v})) ELSE abs

clear == core' = ListCore /\ abs' = <<>>

\* sort: every item through a heap, the list cleared, the items appended.
sort ==
    /\ core' = appendAll(ListCore, Sorter!sorted(ValuesOf(core, Walk(core, core.pFirst, TRUE))))
    /\ abs' = SortSeq(abs, <)

copyCore ==
    /\ core' = appendAll(ListCore, ValuesOf(core, Walk(core, core.pFirst, TRUE)))
    /\ UNCHANGED abs

Next == \/ \E v \in Values : \/ append(v)
                             \/ prepend(v)
                             \/ \E w \in Values : prependList(v, w)
                             \/ \E i \in 0..Len(abs) : insert(i, v)
                             \/ insertSorted(v)
                             \/ eraseValue(v)
        \/ \E i \in DOMAIN abs : erase(i)
        \/ eraseLast
        \/ clear
        \/ sort
        \/ copyCore

Spec == Init /\ [][Next]_vars
-----------------------------------------------------------------------------
\* Every legal sequence of calls leaves a list that reads the same in both directions:
\* forward it is the sequence the calls describe, backward its reverse, getSize is its
\* length, and no link is left behind that neither direction meets.
LinksAgree ==
    LET fwd == Walk(core, core.pFirst, TRUE)
        bwd == Walk(core, core.pLast, FALSE)
    IN  /\ ValuesOf(core, fwd) = abs
        /\ bwd = Reverse(fwd)
        /\ core.nSize = Len(abs)
        /\ DOMAIN core.link = Range(fwd)
=============================================================================
