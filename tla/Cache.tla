------------------------------- MODULE Cache -------------------------------
(***************************************************************************)
(* Bu::Cache (src/experimental/cache.h) over its two stores, CacheStore-   *)
(* Files and CacheStoreMyriad.  core holds the table hEnt of loaded        *)
(* objects with their counts, the objects in memory (obj: an address in    *)
(* use maps to the value of its object), the handles (Cache::Ptr) of the   *)
(* program and the store: files maps a key to what its file holds, hId and *)
(* streams are the Myriad's table of keys and its streams, saved is the    *)
(* copy of hId in stream 1.  abs is what a program expects of a key: the   *)
(* value it last wrote and the value it can rely on after an unload.       *)
(* CacheCalc is the program's: shouldSync and what onDestroy does are      *)
(* free.  A crash falls between two calls and loses the memory.            *)
(***************************************************************************)
EXTENDS Integers, FiniteSets, FiniteSetsExt, TLC

CONSTANTS Keys, Values, Handles, Addresses, NULL, Blank,
          MaxStream   \* bound: the last stream of the Myriad

VARIABLES core, abs
vars == <<core, abs>>
-----------------------------------------------------------------------------
Without(f, x) == [y \in DOMAIN f \ {x} |-> f[y]]
Empty == [x \in {} |-> 0]

\* CacheStoreFiles.  A file is only touched by create and is Blank, without a byte, until a
\* sync; an object is at least a byte long.
filesCreate(c, k) == [c EXCEPT !.files = (k :> Blank) @@ @]
filesSync(c, k, v) == [c EXCEPT !.files[k] = v]
filesDestroy(c, k) == [c EXCEPT !.files = Without(@, k)]
filesHas(c, k) == k \in DOMAIN c.files

\* Mutant: an object is made of an empty file as well.
LoadsBlank(c, k) == {c.files[k]}

\* What a load may give; of an empty file nothing, for Archive::read throws.
filesLoad(c, k) == {c.files[k]} \ {Blank}

\* CacheStoreMyriad.
myriadCreate(c, k, v) ==
    LET s == Max(DOMAIN c.streams \cup {1}) + 1
    IN  [c EXCEPT !.hId = (k :> s) @@ @, !.streams = (s :> v) @@ @]
myriadWrite(c, k, v) == [c EXCEPT !.streams[c.hId[k]] = v]
myriadSync(c) == [c EXCEPT !.saved = c.hId]
myriadLoad(c, k) == {c.streams[c.hId[k]]}
myriadHas(c, k) == k \in DOMAIN c.hId

\* Mutant: the key stays in the table when its stream is deleted.
DestroyKeepsKey(c, k) == [c EXCEPT !.streams = Without(@, c.hId[k])]

myriadDestroy(c, k) == [c EXCEPT !.streams = Without(@, c.hId[k]), !.hId = Without(@, k)]

\* The store the cache was made with.
Files(c) == c.kind = "files"
has(c, k) == IF Files(c) THEN filesHas(c, k) ELSE myriadHas(c, k)
load(c, k) == IF Files(c) THEN filesLoad(c, k) ELSE myriadLoad(c, k)
storeCreate(c, k, v) == IF Files(c) THEN filesCreate(c, k) ELSE myriadCreate(c, k, v)
storeWrite(c, k, v) == IF Files(c) THEN filesSync(c, k, v) ELSE myriadWrite(c, k, v)
storeDestroy(c, k) == IF Files(c) THEN filesDestroy(c, k) ELSE myriadDestroy(c, k)
storeSync(c) == IF Files(c) THEN c ELSE myriadSync(c)

\* The object of k can be had; otherwise the call throws and changes nothing.
Available(c, k) == k \in DOMAIN c.ent \/ (has(c, k) /\ load(c, k) /= {})
-----------------------------------------------------------------------------
Free(c) == Addresses \ DOMAIN c.obj
Loaded(c, k) == k \in DOMAIN c.ent

incRef(c, k) == [c EXCEPT !.ent[k].iRefs = @ + 1]
decRef(c, k) == [c EXCEPT !.ent[k].iRefs = @ - 1]

\* getRaw: the loaded object, or a new one from the store.
getRaw(c, k) ==
    LET a == Min(Free(c))
    IN  IF Loaded(c, k) THEN c
        ELSE [c EXCEPT !.obj = (a :> (CHOOSE v \in load(c, k) : TRUE)) @@ @, !.ent = (k :> [pData |-> a, iRefs |-> 0]) @@ @]

Bound(c, p) == c.ptr[p].cache /\ c.ptr[p].pData /= NULL

\* Mutant: unbind forgets the object and leaves its count.
UnbindKeepsCount(c, p) == [c EXCEPT !.ptr[p].pData = NULL]

\* Ptr::unbind
unbind(c, p) ==
    [(IF Bound(c, p) THEN decRef(c, c.ptr[p].kId) ELSE c) EXCEPT !.ptr[p].pData = NULL]

\* Mutant: an assigned handle is not counted.
SetPtrUncounted(c, p, q) == [unbind(c, p) EXCEPT !.ptr[p] = q]

\* Ptr::operator=: the old reference goes, then the new one counts.
setPtr(c, p, q) ==
    LET d == [unbind(c, p) EXCEPT !.ptr[p] = q]
    IN  IF Bound(d, p) THEN incRef(d, q.kId) ELSE d

\* Ptr::checkPtr, on the first use of a lazy handle.
checkPtr(c, p) ==
    IF ~c.ptr[p].cache \/ c.ptr[p].pData /= NULL THEN c
    ELSE LET k == c.ptr[p].kId
             d == getRaw(c, k)
         IN  incRef([d EXCEPT !.ptr[p].pData = d.ent[k].pData], k)
-----------------------------------------------------------------------------
Unset == [cache |-> FALSE, pData |-> NULL, kId |-> NULL]

Init == /\ core \in [kind : {"files", "myriad"}, ent : {Empty}, obj : {Empty}, ptr : {[p \in Handles |-> Unset]},
                     files : {Empty}, hId : {Empty}, streams : {Empty}, saved : {Empty}]
        /\ abs = Empty

Room(k) == Loaded(core, k) \/ Free(core) /= {}

Reverted(a) == [a EXCEPT !.now = a.kept]

\* What a load of k makes the program see.
Seen(k) == IF Loaded(core, k) \/ k \notin DOMAIN abs THEN abs ELSE [abs EXCEPT ![k] = Reverted(@)]

insert(p, k, v) ==
    /\ ~has(core, k) /\ Free(core) /= {} /\ MaxStream \notin DOMAIN core.streams
    /\ LET a == Min(Free(core))
           c == storeSync([storeCreate(core, k, v) EXCEPT !.obj = (a :> v) @@ @,
                                                          !.ent = (k :> [pData |-> a, iRefs |-> 0]) @@ @])
       IN  core' = setPtr(c, p, [cache |-> TRUE, pData |-> a, kId |-> k])
    /\ abs' = (k :> [now |-> v, kept |-> IF core.kind = "files" THEN Blank ELSE v]) @@ abs

get(p, k) ==
    /\ Available(core, k) /\ Room(k)
    /\ LET c == getRaw(core, k)
       IN  core' = setPtr(c, p, [cache |-> TRUE, pData |-> c.ent[k].pData, kId |-> k])
    /\ abs' = Seen(k)

getLazy(p, k) == core' = setPtr(core, p, [cache |-> TRUE, pData |-> NULL, kId |-> k]) /\ UNCHANGED abs

\* operator-> and a change of the object; a lazy handle of a key that cannot be loaded
\* throws.
change(p, v) ==
    LET k == core.ptr[p].kId
    IN  /\ core.ptr[p].cache
        /\ core.ptr[p].pData /= NULL \/ (Available(core, k) /\ Room(k))
        /\ LET c == checkPtr(core, p) IN core' = [c EXCEPT !.obj[c.ptr[p].pData] = v]
        /\ abs' = [abs EXCEPT ![k].now = v]

assign(p, q) == core' = setPtr(core, p, core.ptr[q]) /\ UNCHANGED abs

clear(p) == core' = [unbind(core, p) EXCEPT !.ptr[p].cache = FALSE] /\ UNCHANGED abs

Dropped(c, k) == [c EXCEPT !.obj = Without(@, c.ent[k].pData), !.ent = Without(@, k)]

unload(k) ==
    /\ Loaded(core, k) /\ core.ent[k].iRefs <= 0
    /\ core' = Dropped(core, k)
    /\ abs' = [abs EXCEPT ![k] = Reverted(@)]

\* erase, of a loaded object or, after an onDestroy that may load it, of a stored one.
erase(k) ==
    /\ Loaded(core, k) => core.ent[k].iRefs <= 0
    /\ has(core, k)
    /\ core' = storeSync(storeDestroy(IF Loaded(core, k) THEN Dropped(core, k) ELSE core, k))
    /\ abs' = Without(abs, k)

\* sync: the objects nobody holds for which shouldSync says so, then the store.
Idle == {k \in DOMAIN core.ent : core.ent[k].iRefs = 0}

RECURSIVE wrote(_, _)
wrote(c, S) == IF S = {} THEN c
               ELSE LET k == CHOOSE x \in S : TRUE
                    IN  wrote(storeWrite(c, k, c.obj[c.ent[k].pData]), S \ {k})

sync(S) ==
    /\ S /= {} /\ S \subseteq Idle
    /\ core' = storeSync(wrote(core, S))
    /\ abs' = [k \in DOMAIN abs |-> IF k \in S THEN [abs[k] EXCEPT !.kept = abs[k].now] ELSE abs[k]]

crash ==
    /\ core' = [core EXCEPT !.ent = Empty, !.obj = Empty, !.ptr = [p \in Handles |-> Unset], !.hId = core.saved]
    /\ abs' = [k \in DOMAIN abs |-> Reverted(abs[k])]

Next == \/ \E p \in Handles, k \in Keys : getLazy(p, k) \/ get(p, k) \/ (\E v \in Values : insert(p, k, v))
        \/ \E p \in Handles : clear(p) \/ (\E v \in Values : change(p, v)) \/ (\E q \in Handles : assign(p, q))
        \/ \E k \in Keys : unload(k) \/ erase(k)
        \/ \E S \in SUBSET Keys : sync(S)
        \/ crash

Spec == Init /\ [][Next]_vars
-----------------------------------------------------------------------------
\* A handle that is bound points to the object the cache holds for its key, which has not
\* been freed: unload and erase go by the counts alone, and the counts survive every
\* order of copying, assigning, unbinding and lazy binding.
HandlesAreLive ==
    \A p \in Handles : Bound(core, p) =>
        /\ core.ptr[p].kId \in DOMAIN core.ent
        /\ core.ent[core.ptr[p].kId].pData = core.ptr[p].pData
        /\ core.ptr[p].pData \in DOMAIN core.obj

\* Every object in memory is the one of exactly one key, and is held by as many bound
\* handles as its count says: one that nobody holds can always be unloaded.
RefsAreCounted ==
    /\ \A k \in DOMAIN core.ent :
          core.ent[k].iRefs = Cardinality({p \in Handles : Bound(core, p) /\ core.ptr[p].kId = k})
    /\ {core.ent[k].pData : k \in DOMAIN core.ent} = DOMAIN core.obj
    /\ Cardinality(DOMAIN core.ent) = Cardinality(DOMAIN core.obj)

\* What a program wrote is what it reads while the object is loaded, and what the last
\* sync, or over Myriad the create, stored is what it reads after an unload or a crash;
\* over files nothing is read of a key that was never synced: its load throws, while the
\* key stays.  A key is in the store exactly when it was inserted and not erased, also
\* in the stored table.
StoreKeepsSynced ==
    /\ DOMAIN abs = {k \in Keys : has(core, k)}
    /\ core.kind = "myriad" => core.saved = core.hId
    /\ \A k \in DOMAIN abs : /\ core.kind = "myriad" => core.hId[k] \in DOMAIN core.streams
                             /\ load(core, k) = {abs[k].kept} \ {Blank}
                             /\ Loaded(core, k) => core.obj[core.ent[k].pData] = abs[k].now
=============================================================================
