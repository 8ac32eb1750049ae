------------------------------ MODULE Archive -------------------------------
(***************************************************************************)
(* Bu::Archive (src/stable/archive.cpp, archivebase.cpp): objects with     *)
(* pointers to each other are written to a stream and read back as new     *)
(* objects with the same pointers.  A pointer is written as the id that    *)
(* getID gives its object; on loading it is filled in when the object of   *)
(* that id has been read.  The objects here write their id, an array of    *)
(* numbers, and their link, in that order.                                 *)
(* core is the Archive: the stream of bytes and the tables hPtrID and      *)
(* hPtrDest; abs the objects that were saved and those that were loaded.   *)
(***************************************************************************)
EXTENDS Integers, SequencesExt

CONSTANTS Objects,      \* addresses of the objects that are saved
          Loaded,       \* where the objects come that are loaded, as many
          Base,         \* values of a byte
          LongBytes,    \* bytes of a long, and of an id
          Words,        \* values of the 32 bits that getID looks a pointer up by
          Arrays        \* the arrays of numbers that objects have

VARIABLES core, abs
vars == <<core, abs>>
Null == 0
-----------------------------------------------------------------------------
RECURSIVE Power(_)
Power(k) == IF k = 0 THEN 1 ELSE Base * Power(k - 1)

\* The bytes of a number that takes w of them, the least first.
write(s, v, w) == s \o [k \in 1..w |-> (v \div Power(k - 1)) % Base]
read(s, w) == [val |-> FoldLeftDomain(LAMBDA a, k : a + s[k] * Power(k - 1), 0, SubSeq(s, 1, w)), rest |-> SubSeq(s, w + 1, Len(s))]

\* An array: its length, then its members, each a byte.
writeArray(s, a) == FoldLeft(LAMBDA t, v : write(t, v, 1), write(s, Len(a), LongBytes), a)

Short == [short |-> TRUE]

RECURSIVE readMembers(_, _, _)
readMembers(s, n, a) == IF n = 0 THEN [val |-> a, rest |-> s]
                        ELSE IF s = <<>> THEN Short
                        ELSE readMembers(read(s, 1).rest, n - 1, Append(a, read(s, 1).val))

\* A read that does not get all its bytes throws.
readArray(s) == IF Len(s) < LongBytes THEN Short ELSE LET n == read(s, LongBytes) IN readMembers(n.rest, n.val, <<>>)
readLong(s) == IF Len(s) < LongBytes THEN Short ELSE read(s, LongBytes)
-----------------------------------------------------------------------------
Id(c, ptr) == c.hPtrID[ptr % Words]

\* Mutant: a new pointer does not use its id up.
IdStays(c, ptr) == IF (ptr % Words) \in DOMAIN c.hPtrID THEN c
                   ELSE [c EXCEPT !.hPtrID = @ @@ (ptr % Words :> c.nNextID)]

\* The key of hPtrID is a uint32_t, which loses the upper half of a pointer.
getID(c, ptr) == IF (ptr % Words) \in DOMAIN c.hPtrID THEN c
                 ELSE [c EXCEPT !.hPtrID = @ @@ (ptr % Words :> c.nNextID), !.nNextID = @ + 1]

\* Mutant: a pointer is filled in only when its object comes later.
AssocAlwaysWaits(c, dest, id) == [c EXCEPT !.hPtrDest = (id :> Append(IF id \in DOMAIN @ THEN @[id] ELSE <<>>, dest)) @@ @]

\* The link of object dest: filled in now or when the object with the id is read.
assocPtrID(c, dest, id) ==
    IF id \in DOMAIN c.hPtrID THEN [c EXCEPT !.link[dest] = c.hPtrID[id]]
    ELSE [c EXCEPT !.hPtrDest = (id :> Append(IF id \in DOMAIN @ THEN @[id] ELSE <<>>, dest)) @@ @]

readID(c, ptr, id) ==
    LET waiting == IF id \in DOMAIN c.hPtrDest THEN ToSet(c.hPtrDest[id]) ELSE {}
    IN  [c EXCEPT !.hPtrID = (id :> ptr) @@ @,
                  !.link = [o \in DOMAIN @ |-> IF o \in waiting THEN ptr ELSE @[o]],
                  !.hPtrDest = [k \in DOMAIN @ \ {id} |-> @[k]]]
-----------------------------------------------------------------------------
Empty == [k \in {} |-> Null]
New(s, bLoading) == [stream |-> s, bLoading |-> bLoading, nNextID |-> 1, hPtrID |-> Empty, hPtrDest |-> [k \in {} |-> <<>>],
                     link |-> [o \in Loaded |-> Null], failed |-> FALSE]
Init == \E numbers \in [Objects -> Arrays], link \in [Objects -> Objects] :
            /\ core = New(<<>>, FALSE)
            /\ abs = [numbers |-> numbers, link |-> link, saved |-> <<>>, loaded |-> <<>>, got |-> [o \in Loaded |-> <<>>], cut |-> FALSE]

Save(o) ==
    /\ ~core.bLoading /\ o \notin ToSet(abs.saved)
    /\ LET c == getID(getID(core, o), abs.link[o])
       IN  core' = [c EXCEPT !.stream = write(writeArray(write(@, Id(c, o), LongBytes), abs.numbers[o]), Id(c, abs.link[o]), LongBytes)]
    /\ abs' = [abs EXCEPT !.saved = Append(@, o)]

\* The stream is loaded by another Archive, whole or cut short.
Open == /\ ~core.bLoading /\ ToSet(abs.saved) = Objects
        /\ \E n \in {0, 1, LongBytes} : n < Len(core.stream) /\ core' = New(SubSeq(core.stream, 1, Len(core.stream) - n), TRUE)
                                        /\ abs' = [abs EXCEPT !.cut = n > 0]

Fail == core' = [core EXCEPT !.failed = TRUE] /\ UNCHANGED abs

\* The next object is loaded to any free place.
Load(o) ==
    /\ core.bLoading /\ ~core.failed /\ o \notin ToSet(abs.loaded) /\ Len(abs.loaded) < Len(abs.saved)
    /\ LET id == readLong(core.stream)
           numbers == IF id = Short THEN Short ELSE readArray(id.rest)
           link == IF numbers = Short THEN Short ELSE readLong(numbers.rest)
       IN  IF link = Short THEN Fail
           ELSE /\ core' = [assocPtrID(readID(core, o, id.val), o, link.val) EXCEPT !.stream = link.rest]
                /\ abs' = [abs EXCEPT !.loaded = Append(@, o), !.got[o] = numbers.val]

Next == (\E o \in Objects : Save(o)) \/ Open \/ (\E o \in Loaded : Load(o))
Spec == Init /\ [][Next]_vars
-----------------------------------------------------------------------------
\* When all objects are loaded they are the ones that were saved: the object loaded for each has its numbers,
\* and points to the object loaded for the one it pointed to, in whatever order they were saved and wherever
\* they are loaded to, with pointers forward, backward, in circles and to itself.
PointersComeBack ==
    core.bLoading /\ Len(abs.loaded) = Len(abs.saved) =>
        \A k, m \in DOMAIN abs.saved :
            /\ abs.got[abs.loaded[k]] = abs.numbers[abs.saved[k]]
            /\ abs.link[abs.saved[k]] = abs.saved[m] => core.link[abs.loaded[k]] = abs.loaded[m]

\* A stream that was cut short is never loaded as a whole, and the pointers of what was loaded from it lead
\* to the right objects or nowhere.
CutIsNoticed ==
    /\ abs.cut => Len(abs.loaded) < Len(abs.saved)
    /\ \A k \in DOMAIN abs.loaded :
          LET to == core.link[abs.loaded[k]]
          IN  to # Null => \E m \in DOMAIN abs.loaded : abs.loaded[m] = to /\ abs.saved[m] = abs.link[abs.saved[k]]
=============================================================================
