-------------------------------- MODULE Hash --------------------------------
(***************************************************************************)
(* Bu::Hash, the open-addressing hash table of src/stable/hash.h: probing  *)
(* with doubling steps, lazy deletion (a deleted slot stays filled until   *)
(* the table is rebuilt), and the rebuild that probe itself starts, also   *)
(* under has() and get(), when a probe chain has no free slot left.        *)
(* core is the HashCore; abs is the map the table stands for.              *)
(***************************************************************************)
EXTENDS Integers, SequencesExt

CONSTANTS Keys, Values, calcHashCode(_)

VARIABLES core, abs
vars == <<core, abs>>
-----------------------------------------------------------------------------
Free == [is |-> "free"]
Slot == {Free} \cup [is : {"deleted"}, hash : Nat]
               \cup [is : {"live"}, hash : Nat, key : Keys, val : Values]

\* A HashCore: bFilled, bDeleted, aHashCodes, aKeys and aValues are the slots.
Blank(n) == [nCapacity |-> n, nFilled |-> 0, nDeleted |-> 0,
             slot |-> [i \in 0..(n - 1) |-> Free]]

HashCore == Blank(0)

\* HashCore::init, the allocation put off until the first probe.
init(c) == IF c.nCapacity > 0 THEN c ELSE Blank(11)

\* The next size: doubling, always odd.
Grown[n \in Nat, want \in Nat] ==
    IF n < want THEN Grown[2 * n + 1, want] ELSE n

szCalc(c) ==
    LET live == c.nFilled - c.nDeleted
    IN  CASE live <= c.nCapacity \div 4 -> Grown[11, (c.nFilled * 5) \div 4]
          [] live > c.nCapacity \div 4 /\ live <= c.nCapacity \div 2 ->
                IF c.nDeleted = 0 THEN (c.nCapacity \div 4) * 5 + 1 ELSE c.nCapacity
          [] OTHER -> 2 * c.nCapacity + 1

\* Mutants: an erased slot that ends the chains through it; an entry not counted.
EraseFrees(c, loc) == [c EXCEPT !.nDeleted = @ + 1, !.slot[loc] = Free]

FillUncounted(c, loc, k, v) ==
    [c EXCEPT !.slot[loc] = [is |-> "live", hash |-> calcHashCode(k), key |-> k, val |-> v]]

fill(c, loc, k, v) ==
    [c EXCEPT !.nFilled = @ + 1,
              !.slot[loc] = [is |-> "live", hash |-> calcHashCode(k), key |-> k, val |-> v]]

eraseAt(c, loc) ==
    [c EXCEPT !.nDeleted = @ + 1, !.slot[loc] = [is |-> "deleted", hash |-> @.hash]]

Holds(c, loc, k) == c.slot[loc].is = "live" /\ c.slot[loc].key = k

\* One walk down the chain, by steps of 1, 2, 4, ... modulo the size: it ends at the key,
\* at a free slot, or after 32 steps.
RECURSIVE walk(_, _, _, _, _)
walk(c, k, nCur, step, j) ==
    CASE j = 32 -> [pos |-> nCur, bFill |-> FALSE, full |-> TRUE]
      [] j < 32 /\ c.slot[nCur] = Free -> [pos |-> nCur, bFill |-> FALSE, full |-> FALSE]
      [] j < 32 /\ Holds(c, nCur, k) -> [pos |-> nCur, bFill |-> TRUE, full |-> FALSE]
      [] OTHER -> walk(c, k, (nCur + step) % c.nCapacity, (2 * step) % c.nCapacity, j + 1)

scan(c, k) == walk(c, k, calcHashCode(k) % c.nCapacity, 1, 0)

\* An iterator is a position; -1 stands for bFinished.
liveFrom(c, pos) ==
    LET live == {i \in pos..(c.nCapacity - 1) : c.slot[i].is = "live"}
    IN  IF live = {} THEN -1 ELSE Min(live)

getFirstPos(c) == liveFrom(c, 0)

getNextPos(c, pos) == liveFrom(c, pos + 1)

\* What a loop from begin() to end() meets.
RECURSIVE iterate(_, _)
iterate(c, pos) == IF pos = -1 THEN <<>> ELSE <<pos>> \o iterate(c, getNextPos(c, pos))

Live(c) == LET at == iterate(c, getFirstPos(c)) IN [i \in DOMAIN at |-> c.slot[at[i]]]

RECURSIVE probe(_, _), Reinsert(_, _)

\* HashCore::probe: a full chain rebuilds the table and probes again.
probe(c, k) ==
    LET i == init(c)
        s == scan(i, k)
    IN  IF s.full THEN probe(Reinsert(Blank(szCalc(i)), Live(i)), k)
        ELSE [core |-> i, pos |-> s.pos, bFill |-> s.bFill]

coreInsert(c, k, v) ==
    LET p == probe(c, k)
    IN  IF p.bFill THEN [p.core EXCEPT !.slot[p.pos].val = v]
        ELSE fill(p.core, p.pos, k, v)

\* The second half of HashCore::reHash: the live entries, in slot order.
Reinsert(c, entries) ==
    IF entries = <<>> THEN c
    ELSE Reinsert(coreInsert(c, Head(entries).key, Head(entries).val), Tail(entries))
-----------------------------------------------------------------------------
Init == core = HashCore /\ abs = <<>>

insert(k, v) ==
    /\ core' = coreInsert(core, k, v)
    /\ abs' = [x \in DOMAIN abs \cup {k} |-> IF x = k THEN v ELSE abs[x]]

erase(k) ==
    LET p == probe(core, k)
    IN  /\ core' = IF p.bFill THEN eraseAt(p.core, p.pos) ELSE p.core
        /\ abs' = [x \in DOMAIN abs \ {k} |-> abs[x]]

\* erase(iterator &): the entry under the iterator, if it is still there.
eraseIterator(nPos) ==
    /\ core.slot[nPos].is = "live"
    /\ core' = eraseAt(core, nPos)
    /\ abs' = [x \in DOMAIN abs \ {core.slot[nPos].key} |-> abs[x]]

\* has() and get() const: a lookup, which may rebuild the table.
has(k) == core' = probe(core, k).core /\ UNCHANGED abs

\* get(): the lookup that never rebuilds; it throws when the key is not there.
get(k) == core' = init(core) /\ UNCHANGED abs

clear == core' = HashCore /\ abs' = <<>>

\* What a hard copy leaves in the shell: the live entries in a table of the same size.
copyCore == core' = Reinsert(Blank(core.nCapacity), Live(core)) /\ UNCHANGED abs

Next == \/ \E k \in Keys : \/ \E v \in Values : insert(k, v)
                           \/ erase(k)
                           \/ has(k)
                           \/ get(k)
        \/ \E nPos \in DOMAIN core.slot : eraseIterator(nPos)
        \/ clear
        \/ copyCore

Spec == Init /\ [][Next]_vars
-----------------------------------------------------------------------------
getKeys == LET live == Live(core) IN [i \in DOMAIN live |-> live[i].key]

\* operator==: as many items, and every key of one with the same value in the other.
equals(c, d) ==
    /\ c.nFilled - c.nDeleted = d.nFilled - d.nDeleted
    /\ \A e \in Range(Live(c)) : LET p == probe(d, e.key)
                                IN  p.bFill /\ p.core.slot[p.pos].val = e.val

TypeOK ==
    /\ core.nCapacity \in Nat
    /\ core.nFilled \in 0..core.nCapacity /\ core.nDeleted \in 0..core.nFilled
    /\ DOMAIN core.slot = 0..(core.nCapacity - 1)
    /\ \A i \in DOMAIN core.slot : core.slot[i] \in Slot
    /\ DOMAIN abs \subseteq Keys

\* Whatever was inserted and erased before, through however many rebuilds, a lookup
\* finds exactly the keys of the map, with the value last stored under each: probe,
\* which has() and the const get() use, and the scan without rebuild of get().
LookupIsMap ==
    \A k \in Keys :
        LET p == probe(core, k)
            s == scan(init(core), k)
        IN  /\ p.bFill <=> k \in DOMAIN abs
            /\ s.bFill <=> k \in DOMAIN abs
            /\ k \in DOMAIN abs => /\ p.core.slot[p.pos].val = abs[k]
                                   /\ core.slot[s.pos].val = abs[k]

\* Iteration (getFirstPos, getNextPos, getKeys) meets every key of the map once, and
\* getSize, computed from the two counters, is their number; a hard copy is operator== to
\* the table it was made from.
IterationIsComplete ==
    /\ LET keys == getKeys
       IN  /\ IsInjective(keys) /\ Range(keys) = DOMAIN abs
           /\ core.nFilled - core.nDeleted = Len(keys)
    /\ equals(core, Reinsert(Blank(core.nCapacity), Live(core)))
=============================================================================
