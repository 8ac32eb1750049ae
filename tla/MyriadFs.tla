------------------------------ MODULE MyriadFs ------------------------------
(***************************************************************************)
(* Bu::MyriadFs (src/unstable/myriadfs.cpp): a file system in the streams  *)
(* of a Myriad.  Stream 1 holds the node index, written when the file      *)
(* system is closed; stream 2 is the table of inodes, kept dense by moving *)
(* the last inode into the place of a destroyed one; every directory, file *)
(* and symbolic link has a stream of its own.  core holds the index        *)
(* (hNodeIndex), the table (inodes, position p at index p + 1) and the     *)
(* streams; abs remembers of every node its type and what was last written *)
(* to it.  A directory's stream is the sequence of its entries, a file's   *)
(* the value last written.  Closing and opening again changes nothing of   *)
(* this; a crash, which loses the index, is not modelled (README).         *)
(***************************************************************************)
EXTENDS Integers, FiniteSets, SequencesExt

CONSTANTS Names, Data,
          MaxNodes, MaxEntries,  \* bounds: inodes, entries of one directory
          MaxStream              \* bound: the last stream (Myriad never reuses a number below it)

VARIABLES core, abs
vars == <<core, abs>>
-----------------------------------------------------------------------------
Types == {"dir", "file", "symlink", "dev"}
Streamed == {"dir", "file", "symlink"}

RawStat(n, t, s) == [iNode |-> n, type |-> t, iLinks |-> 1, uStreamIndex |-> s]

\* The constructor on an empty store: the root, node 0, with stream 3.
Formatted == [index |-> 0 :> 0, inodes |-> <<RawStat(0, "dir", 3)>>,
              stream |-> 3 :> <<>>]

\* Paths are sequences of names; <<>> is "/".
Paths == {<<>>} \cup {<<n>> : n \in Names} \cup {<<n, m>> : n, m \in Names}

readInode(c, n) == c.inodes[c.index[n] + 1]

writeInode(c, rs) ==
    LET kept == [i \in 1..Cardinality(DOMAIN c.index) |->
                    IF i <= Len(c.inodes) THEN c.inodes[i] ELSE rs]
    IN  [c EXCEPT !.inodes = [kept EXCEPT ![c.index[rs.iNode] + 1] = rs]]

readDir(c, n) == c.stream[readInode(c, n).uStreamIndex]

\* lookupInode: the node, the last directory entered (iParent) and the error: 1 when a
\* directory on the way is missing, 2 when the last name is, 0 otherwise.
RECURSIVE lookup(_, _, _)
lookup(c, path, n) ==
    LET hits == {i \in DOMAIN readDir(c, n) : readDir(c, n)[i].name = Head(path)}
        node == readDir(c, n)[Min(hits)].iNode
    IN  CASE hits = {} -> [found |-> FALSE, node |-> -1, parent |-> n,
                           code |-> IF Len(path) = 1 THEN 2 ELSE 1]
          [] hits /= {} /\ Len(path) = 1 -> [found |-> TRUE, node |-> node, parent |-> n, code |-> 0]
          [] hits /= {} /\ Len(path) > 1 /\ readInode(c, node).type = "dir" ->
                lookup(c, Tail(path), node)
          [] OTHER -> [found |-> FALSE, node |-> -1, parent |-> -1, code |-> 0]

lookupInode(c, path) ==
    IF path = <<>> THEN [found |-> TRUE, node |-> 0, parent |-> -1, code |-> 0]
    ELSE lookup(c, path, 0)

addToDir(c, dir, node, name) ==
    [c EXCEPT !.stream[readInode(c, dir).uStreamIndex] = Append(@, [iNode |-> node, name |-> name])]

\* allocInode: the least free number, at the end of the table, with a new stream.
newNode(c) == CHOOSE n \in 0..MaxNodes : n \notin DOMAIN c.index /\ 0..(n - 1) \subseteq DOMAIN c.index

\* Mutant: the number of the next stream is taken from how many there are.
StreamByCount(c, type) == IF type \in Streamed THEN Cardinality(DOMAIN c.stream) + 3 ELSE 0

newStream(c, type) == IF type \in Streamed THEN Max(DOMAIN c.stream) + 1 ELSE 0

allocInode(c, type) ==
    LET n == newNode(c)
        s == newStream(c, type)
        d == [c EXCEPT !.index = (n :> Cardinality(DOMAIN @)) @@ @,
                       !.stream = IF type \in Streamed THEN (s :> <<>>) @@ @ ELSE @]
    IN  writeInode(d, RawStat(n, type, s))

\* Mutant: the inode moved into the gap keeps its old place in the index.
DestroyKeepsIndex(c, n) ==
    LET rs == readInode(c, n)
        p  == c.index[n]
        last == Last(c.inodes)
    IN  [c EXCEPT !.index = [i \in DOMAIN @ \ {n} |-> @[i]],
                  !.inodes = Front([@ EXCEPT ![p + 1] = last]),
                  !.stream = [s \in DOMAIN @ \ {rs.uStreamIndex} |-> @[s]]]

\* destroyNode: the stream goes, the last inode fills the gap, the table is cut.
destroyNode(c, n) ==
    LET rs   == readInode(c, n)
        d    == [c EXCEPT !.index = [i \in DOMAIN @ \ {n} |-> @[i]],
                          !.stream = IF rs.type \in Streamed
                                     THEN [s \in DOMAIN @ \ {rs.uStreamIndex} |-> @[s]] ELSE @]
        size == Cardinality(DOMAIN d.index)
        last == c.inodes[size + 1]
        e    == IF c.index[n] = size THEN d
                ELSE LET m == [d EXCEPT !.index[last.iNode] = c.index[n]] IN writeInode(m, last)
    IN  [e EXCEPT !.inodes = SubSeq(@, 1, size)]
-----------------------------------------------------------------------------
Init == core = Formatted /\ abs = (0 :> [type |-> "dir", data |-> <<>>])

Room(c, dir) == /\ Cardinality(DOMAIN c.index) < MaxNodes /\ Max(DOMAIN c.stream) < MaxStream
                /\ Len(readDir(c, dir)) < MaxEntries

\* What create( path ), mkDir, mkSymLink and open do from the catch on: they come there
\* when the last name is missing, and also with their own "Path already exists.".
createNode(l, name, type, data) ==
    /\ l.parent >= 0 /\ l.code /= 1 /\ Room(core, l.parent)
    /\ LET n == newNode(core)
           a == allocInode(core, type)
           c == addToDir(a, l.parent, n, name)
       IN  /\ core' = IF type = "symlink"
                      THEN [c EXCEPT !.stream[readInode(c, n).uStreamIndex] = data] ELSE c
           /\ abs' = (n :> [type |-> type, data |-> data]) @@ abs

create(path, type) == createNode(lookupInode(core, path), Last(path), type, <<>>)

mkSymLink(path, target) == createNode(lookupInode(core, path), Last(path), "symlink", target)

\* open: an existing file is opened, and written to here; a missing one is created; a
\* device is neither, and ends in the catch as well.
open(path, data) ==
    LET l == lookupInode(core, path)
    IN  IF l.found /\ readInode(core, l.node).type \in Streamed
        THEN /\ readInode(core, l.node).type /= "dir"
             /\ core' = [core EXCEPT !.stream[readInode(core, l.node).uStreamIndex] = data]
             /\ abs' = [abs EXCEPT ![l.node].data = data]
        ELSE createNode(l, Last(path), "file", <<>>)

setFileSize(path) ==
    LET l == lookupInode(core, path)
    IN  /\ l.found /\ readInode(core, l.node).type \in {"file", "symlink"}
        /\ core' = [core EXCEPT !.stream[readInode(core, l.node).uStreamIndex] = <<>>]
        /\ abs' = [abs EXCEPT ![l.node].data = <<>>]

\* Mutant: the new name is not counted.
LinkedUncounted(c, l, to) == addToDir(c, to.parent, l.node, to.name)

linked(c, l, to) ==
    LET rs == readInode(c, l.node)
        d  == addToDir(c, to.parent, l.node, to.name)
    IN  writeInode(d, [rs EXCEPT !.iLinks = @ + 1])

CanLink(from, to) ==
    /\ from.found /\ to.parent >= 0 /\ to.code /= 1
    /\ Len(readDir(core, to.parent)) < MaxEntries

Target(path) == lookupInode(core, path) @@ [name |-> Last(path)]

mkHardLink(path, to) ==
    /\ CanLink(lookupInode(core, path), lookupInode(core, to))
    /\ core' = linked(core, lookupInode(core, path), Target(to))
    /\ UNCHANGED abs

\* unlink of an entry of a directory; a directory that is not empty throws.
Unlinkable(c, path) ==
    LET l == lookupInode(c, path)
    IN  /\ path /= <<>> /\ l.found
        /\ readInode(c, l.node).type = "dir" => readDir(c, l.node) = <<>>

unlinked(c, path) ==
    LET l  == lookupInode(c, path)
        rs == readInode(c, l.node)
        d  == IF rs.iLinks = 1 THEN destroyNode(c, l.node)
              ELSE writeInode(c, [rs EXCEPT !.iLinks = @ - 1])
        at == readInode(d, l.parent).uStreamIndex
        i  == Min({j \in DOMAIN readDir(c, l.parent) : readDir(c, l.parent)[j].name = Last(path)})
    IN  [d EXCEPT !.stream[at] = RemoveAt(@, i)]

unlink(path) ==
    /\ Unlinkable(core, path)
    /\ core' = unlinked(core, path)
    /\ abs' = [n \in DOMAIN unlinked(core, path).index |-> abs[n]]

\* rename: a hard link, then an unlink; when the unlink throws, both names stay.
rename(from, to) ==
    /\ CanLink(lookupInode(core, from), lookupInode(core, to))
    /\ LET c == linked(core, lookupInode(core, from), Target(to))
       IN  core' = IF Unlinkable(c, from) THEN unlinked(c, from) ELSE c
    /\ abs' = [n \in DOMAIN core'.index |-> abs[n]]

Next == \/ \E p \in Paths \ {<<>>} :
              \/ \E t \in {"dir", "file", "dev"} : create(p, t)
              \/ \E d \in Data : mkSymLink(p, d) \/ open(p, d)
              \/ setFileSize(p) \/ unlink(p)
              \/ \E q \in Paths \ {<<>>} : mkHardLink(p, q) \/ rename(p, q)

Spec == Init /\ [][Next]_vars
-----------------------------------------------------------------------------
Entries(c) == {<<n, i>> \in (DOMAIN c.index) \X (1..MaxEntries) :
                  readInode(c, n).type = "dir" /\ i \in DOMAIN readDir(c, n)}

Named(c, n) == {e \in Entries(c) : readDir(c, e[1])[e[2]].iNode = n}

\* The inode table stays dense and the index right, whichever inode is destroyed and
\* whichever is moved into its place: every node is found where the index says, at one of
\* the positions 0 .. size - 1, and no other inode is left in the table.
TableIsDense ==
    /\ {core.index[n] : n \in DOMAIN core.index} = 0..(Len(core.inodes) - 1)
    /\ Cardinality(DOMAIN core.index) = Len(core.inodes)
    /\ \A n \in DOMAIN core.index : readInode(core, n).iNode = n

\* iLinks of every node but the root is the number of directory entries that name it, so
\* that no entry names a destroyed node and no node without a name keeps its inode and
\* its stream: also after a rename that stopped half way.
LinksAreCounted ==
    /\ \A e \in Entries(core) : readDir(core, e[1])[e[2]].iNode \in DOMAIN core.index
    /\ \A n \in DOMAIN core.index \ {0} :
           readInode(core, n).iLinks = Cardinality(Named(core, n)) /\ Named(core, n) /= {}
    /\ DOMAIN core.stream = {readInode(core, n).uStreamIndex :
                                n \in {m \in DOMAIN core.index : readInode(core, m).type \in Streamed}}

\* A file and a symbolic link keep their type and what was written to them while other
\* nodes are created, linked, renamed and destroyed: no two nodes share a stream.
ContentsAreKept ==
    /\ DOMAIN abs = DOMAIN core.index
    /\ \A n \in DOMAIN abs :
          LET rs == readInode(core, n)
          IN  /\ rs.type = abs[n].type
              /\ rs.type \in {"file", "symlink"} => core.stream[rs.uStreamIndex] = abs[n].data
=============================================================================
