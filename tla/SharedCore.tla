----------------------------- MODULE SharedCore -----------------------------
(***************************************************************************)
(* Bu::SharedCore (src/stable/sharedcore.h), the copy-on-write base of     *)
(* every container: shells point to cores, a core is shared until a shell  *)
(* changes it (_hardCopy) and freed with its last shell.  core.of[s] is    *)
(* the core of shell s (0: s is not alive), core.heap the allocated cores  *)
(* with their iRefCount; abs[s] is the value shell s should have.          *)
(***************************************************************************)
EXTENDS Integers, FiniteSets

CONSTANTS Shells, Contents, Blank

VARIABLES core, abs
vars == <<core, abs>>
-----------------------------------------------------------------------------
None == 0

\* f with v at x, where it may have had nothing.
Put(f, x, v) == [y \in {x} \cup DOMAIN f |-> IF y = x THEN v ELSE f[y]]

allocateCore(h, v) ==
    LET n == CHOOSE i \in 1..(Cardinality(DOMAIN h) + 1) : i \notin DOMAIN h
    IN  [id |-> n, heap |-> Put(h, n, [iRefCount |-> 1, val |-> v])]

\* Mutant: the core stays when its last shell goes.
DerefLeaks(c, s) == [of |-> [c.of EXCEPT ![s] = None],
                     heap |-> [c.heap EXCEPT ![c.of[s]].iRefCount = @ - 1]]

deref(c, s) ==
    LET id == c.of[s]
        h  == [c.heap EXCEPT ![id].iRefCount = @ - 1]
    IN  [of |-> [c.of EXCEPT ![s] = None],
         heap |-> IF h[id].iRefCount > 0 THEN h
                  ELSE [i \in DOMAIN h \ {id} |-> h[i]]]

softCopy(c, s, t) ==
    LET id == c.of[t]
        d  == IF c.of[s] = None THEN c ELSE deref(c, s)
    IN  [of |-> [d.of EXCEPT ![s] = id], heap |-> [d.heap EXCEPT ![id].iRefCount = @ + 1]]

\* A core of its own for s: a copy of the shared one (_hardCopy) or a new one (_resetCore).
ownCore(c, s, v) ==
    LET d == IF c.of[s] = None THEN c ELSE deref(c, s)
        n == allocateCore(d.heap, v)
    IN  [of |-> [d.of EXCEPT ![s] = n.id], heap |-> n.heap]

\* Mutant: a change through one shell reaches the core the others share.
HardCopySkipped(c, s) == c

hardCopy(c, s) ==
    IF c.heap[c.of[s]].iRefCount = 1 THEN c ELSE ownCore(c, s, c.heap[c.of[s]].val)
-----------------------------------------------------------------------------
Init == core = [of |-> [s \in Shells |-> None], heap |-> <<>>] /\ abs = <<>>

Alive == DOMAIN abs

\* The default constructor.
construct(s) ==
    /\ s \notin Alive
    /\ core' = ownCore(core, s, Blank)
    /\ abs' = Put(abs, s, Blank)

copyConstruct(s, t) ==
    /\ s \notin Alive /\ t \in Alive
    /\ core' = softCopy(core, s, t)
    /\ abs' = Put(abs, s, abs[t])

\* operator=: nothing to do between shells of one core, itself included.
assign(s, t) ==
    /\ {s, t} \subseteq Alive
    /\ core' = IF core.of[s] = core.of[t] THEN core ELSE softCopy(core, s, t)
    /\ abs' = [abs EXCEPT ![s] = abs[t]]

\* clone(): a copy that shares nothing.
clone(s, t) ==
    /\ s \notin Alive /\ t \in Alive
    /\ core' = hardCopy(softCopy(core, s, t), s)
    /\ abs' = Put(abs, s, abs[t])

\* Any method that changes the object calls _hardCopy first.
change(s, v) ==
    /\ s \in Alive
    /\ LET c == hardCopy(core, s) IN core' = [c EXCEPT !.heap[c.of[s]].val = v]
    /\ abs' = [abs EXCEPT ![s] = v]

resetCore(s) ==
    /\ s \in Alive
    /\ core' = ownCore(core, s, Blank)
    /\ abs' = [abs EXCEPT ![s] = Blank]

destroy(s) ==
    /\ s \in Alive
    /\ core' = deref(core, s)
    /\ abs' = [t \in Alive \ {s} |-> abs[t]]

Next == \E s \in Shells :
            \/ construct(s)
            \/ \E t \in Shells : copyConstruct(s, t) \/ assign(s, t) \/ clone(s, t)
            \/ \E v \in Contents : change(s, v)
            \/ resetCore(s)
            \/ destroy(s)

Spec == Init /\ [][Next]_vars
-----------------------------------------------------------------------------
\* A core is copied "when a user tries to modify the object": a shell has the value last
\* given to it, whatever is done through the shells that share its core.
ValueSemantics ==
    \A s \in Alive : core.of[s] \in DOMAIN core.heap /\ core.heap[core.of[s]].val = abs[s]

\* iRefCount of every core is the number of its shells, and it is never zero: no core is
\* freed under a shell, none is leaked.
CountsAreExact ==
    \A i \in DOMAIN core.heap :
        /\ core.heap[i].iRefCount = Cardinality({s \in Shells : core.of[s] = i})
        /\ core.heap[i].iRefCount > 0
=============================================================================
