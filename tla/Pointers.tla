----------------------------- MODULE Pointers -------------------------------
(***************************************************************************)
(* Holders of a value on the heap: Bu::SPtr, and Bu::Variant with          *)
(* Bu::Atom. They share no state: which says what a behaviour is about.    *)
(***************************************************************************)
EXTENDS FiniteSets, Integers, TLC

VARIABLES which, core, abs
vars == <<which, core, abs>>
-----------------------------------------------------------------------------
(***************************************************************************)
(* Bu::SPtr (src/stable/sptr.h): pointers that share an object and delete  *)
(* it when the last of them lets go.  pRefCnt points to a count of its     *)
(* own; a cast to a class that the object is not of shares the count but   *)
(* has no pData.                                                           *)
(* core is the pointers, the counts and the objects that exist; abs what   *)
(* each pointer should point to, and the objects that were miscast.        *)
(***************************************************************************)
CONSTANTS Ptrs, Objects

SPtrNull == "null"
Unset == [pRefCnt |-> SPtrNull, pData |-> SPtrNull]
-----------------------------------------------------------------------------
SPtrInit == /\ core = [ptr |-> [p \in Ptrs |-> Unset], count |-> [o \in Objects |-> 0], alive |-> {}]
            /\ abs = [to |-> [p \in Ptrs |-> SPtrNull], made |-> {}, miscast |-> {}]

\* The count of an object is named by it; the last one to let go deletes what its pData says.
decCount(c, p) ==
    LET n == c.ptr[p].pRefCnt
    IN  IF n = SPtrNull THEN c
        ELSE IF c.count[n] > 1 THEN [c EXCEPT !.count[n] = @ - 1]
        ELSE [c EXCEPT !.count[n] = 0, !.alive = @ \ {c.ptr[p].pData}, !.ptr[p] = Unset]

incCount(c, n) == IF n = SPtrNull THEN c ELSE [c EXCEPT !.count[n] = @ + 1]

\* Mutant: the pointer that is assigned to does not let go of its object first.
AssignWithoutDec(c, p, q) == incCount([c EXCEPT !.ptr[p] = c.ptr[q]], c.ptr[q].pRefCnt)

\* operator=: q is read again after p has let go.
assign(c, p, q) == LET d == decCount(c, p)
                   IN  incCount([d EXCEPT !.ptr[p] = d.ptr[q]], d.ptr[q].pRefCnt)

\* p = SPtr( new object ): the temporary pointer goes on to p.
New(p, o) == /\ o \notin abs.made
             /\ LET d == decCount(core, p)
                IN  core' = [d EXCEPT !.ptr[p] = [pRefCnt |-> o, pData |-> o], !.count[o] = 1, !.alive = @ \cup {o}]
             /\ abs' = [abs EXCEPT !.to[p] = o, !.made = @ \cup {o}]

\* The last pointer to an object is not assigned to itself: it would delete the object (sptr.h:105).
SPtrAssign(p, q) == /\ p # q \/ \A o \in {core.ptr[p].pRefCnt} \cap Objects : core.count[o] > 1
                    /\ core' = assign(core, p, q)
                    /\ abs' = [abs EXCEPT !.to[p] = abs.to[q]]

\* SPtrCast: dynamic_cast gives the object, or nothing when it is not of the class.
Cast(p, q) == /\ p # q /\ core.ptr[q].pRefCnt # SPtrNull
              /\ \E fits \in BOOLEAN :
                    /\ core' = LET d == assign(core, p, q) IN IF fits THEN d ELSE [d EXCEPT !.ptr[p].pData = SPtrNull]
                    /\ abs' = [abs EXCEPT !.to[p] = IF fits THEN abs.to[q] ELSE SPtrNull,
                                          !.miscast = IF fits THEN @ ELSE @ \cup {core.ptr[q].pRefCnt}]

\* Mutant: clear leaves the pointers.
ClearLeavesPointers(p) == /\ core' = decCount(core, p)
                          /\ abs' = [abs EXCEPT !.to[p] = SPtrNull]

SPtrClear(p) == /\ core' = [decCount(core, p) EXCEPT !.ptr[p] = Unset]
                /\ abs' = [abs EXCEPT !.to[p] = SPtrNull]

SPtrNext == \E p \in Ptrs : (\E o \in Objects : New(p, o)) \/ (\E q \in Ptrs : SPtrAssign(p, q) \/ Cast(p, q)) \/ SPtrClear(p)
-----------------------------------------------------------------------------
\* A pointer points where it was told to, to an object that exists.
PointsToLiving == \A p \in Ptrs : core.ptr[p].pData = abs.to[p] /\ (abs.to[p] # SPtrNull => abs.to[p] \in core.alive)

\* An object exists as long as it has pointers and no longer, but for one that a failed cast let go of.
DeletedWithTheLast ==
    \A o \in Objects :
        LET owners == {p \in Ptrs : core.ptr[p].pRefCnt = o}
        IN  /\ core.count[o] = Cardinality(owners)
            /\ owners # {} => o \in core.alive
            /\ owners = {} /\ o \in core.alive => o \in abs.miscast
-----------------------------------------------------------------------------
(***************************************************************************)
(* Two holders of a value on the heap.  Bu::Variant (src/stable/variant.h, *)
(* variant.cpp) holds a value of any type and checks the type when it is   *)
(* asked for; Bu::Atom (src/stable/atom.h) holds a value of one type or    *)
(* none.  A value is <<type, number>>, an Atom's of type "t".              *)
(* core is the holders' pointers, pCore and pData, and the heap; abs the   *)
(* value each should have, and the one that was got last.                  *)
(***************************************************************************)
CONSTANTS Variants, Atoms, Types, Numbers,
          Cells            \* bound: values on the heap at a time

VariantNull == 0
None == <<>>
Holders == Variants \cup Atoms
-----------------------------------------------------------------------------
VariantInit == /\ core = [ptr |-> [h \in Holders |-> VariantNull], heap |-> [k \in {} |-> None]]
               /\ abs = [val |-> [h \in Holders |-> None], got |-> <<>>]

Free(c) == Cells \ DOMAIN c.heap
delete(c, h) == [c EXCEPT !.heap = [k \in DOMAIN @ \ {c.ptr[h]} |-> @[k]], !.ptr[h] = VariantNull]
new(c, h, k, v) == [c EXCEPT !.heap = @ @@ (k :> v), !.ptr[h] = k]

Puts(h, v, c) == core' = c /\ abs' = [abs EXCEPT !.val[h] = v, !.got = <<>>]

\* operator=( t ) and Atom::set: the old value goes first.
VariantAssign(h, v) == LET d == delete(core, h) IN Free(d) # {} /\ \E k \in Free(d) : Puts(h, v, new(d, h, k, v))

\* Variant::set keeps a value of the same type on the heap for ever (variant.h:171).
set(h, v) == LET d == IF core.ptr[h] # VariantNull /\ core.heap[core.ptr[h]][1] # v[1] THEN delete(core, h) ELSE core
             IN  \E k \in Free(d) : Puts(h, v, new(d, h, k, v))

\* Mutant: a copy shares the value.
CopyShares(h, g) == Puts(h, abs.val[g], [core EXCEPT !.ptr[h] = core.ptr[g]])

\* A copy is a clone.  A Variant loses its value when it is assigned to itself, an Atom keeps its own when it
\* is assigned one with none: neither is done here.
Copy(h, g) == LET d == delete(core, h)
              IN  IF core.ptr[g] = VariantNull THEN Puts(h, None, d)
                  ELSE \E k \in Free(d) : Puts(h, abs.val[g], new(d, h, k, d.heap[d.ptr[g]]))

\* Mutant: the type is not compared.
GetsAny(h, t) == /\ core.ptr[h] # VariantNull
                 /\ abs' = [abs EXCEPT !.got = <<h, t, core.heap[core.ptr[h]]>>]
                 /\ UNCHANGED core

\* get and operator t throw when there is nothing, or something of another type.
get(h, t) == /\ abs' = [abs EXCEPT !.got = IF core.ptr[h] = VariantNull \/ core.heap[core.ptr[h]][1] # t THEN <<h, t, None>>
                                           ELSE <<h, t, core.heap[core.ptr[h]]>>]
             /\ UNCHANGED core

\* Atom::clear and the destructors.
VariantClear(h) == Puts(h, None, delete(core, h))

VariantNext == \/ \E h \in Variants, t \in Types, n \in Numbers : VariantAssign(h, <<t, n>>) \/ set(h, <<t, n>>)
               \/ \E h \in Variants, t \in Types : get(h, t)
               \/ \E h, g \in Variants : h # g /\ Copy(h, g)
               \/ \E h \in Atoms, n \in Numbers : VariantAssign(h, <<"t", n>>)
               \/ \E h, g \in Atoms : h # g /\ core.ptr[g] # VariantNull /\ Copy(h, g)
               \/ \E h \in Holders : VariantClear(h)
-----------------------------------------------------------------------------
\* Each holder has a value of its own, the one that was put or copied into it last, whatever is done to the
\* ones it was copied from and to.
ValuesAreTheirOwn ==
    /\ \A h, g \in Holders : h # g /\ core.ptr[h] # VariantNull => core.ptr[h] # core.ptr[g]
    /\ \A h \in Holders : IF core.ptr[h] = VariantNull THEN abs.val[h] = None
                          ELSE core.ptr[h] \in DOMAIN core.heap /\ core.heap[core.ptr[h]] = abs.val[h]

\* What a Variant gives is its value and of the type that was asked for; with another type it gives nothing.
GetsTheType == abs.got # <<>> => abs.got[3] = IF abs.val[abs.got[1]] # None /\ abs.val[abs.got[1]][1] = abs.got[2]
                                              THEN abs.val[abs.got[1]] ELSE None
-----------------------------------------------------------------------------
Init == \/ which = "SPtr" /\ SPtrInit
        \/ which = "Variant" /\ VariantInit

Next == /\ UNCHANGED which
        /\ \/ which = "SPtr" /\ SPtrNext
           \/ which = "Variant" /\ VariantNext

Spec == Init /\ [][Next]_vars
=============================================================================
