-------------------------- MODULE MyriadSyncProofs --------------------------
(***************************************************************************)
(* Proofs about MyriadSync, for every number of streams, blocks and calls, *)
(* every size of a block and of the header's first block: a crash leaves   *)
(* the streams nobody touched as the last sync left them.  The inductive   *)
(* invariant relates three places a stream is in: the entries in memory,   *)
(* the blocks in memory or in the store, and the entries in the header.    *)
(***************************************************************************)
EXTENDS MyriadSync, SequenceTheorems, TLAPS

(* A block holds a byte, and an entry of the header has a place.           *)
Parameters == MaxId \in Nat /\ iBlockSize \in Nat \ {0} /\ EntryCounts \subseteq Nat

Data == [1..iBlockSize -> Nat]
Stream == [iId : Ids, iSize : Nat, aBlocks : Seq(Nat)]
Handle == [iBlockIndex : Nat, pData : Data, bChanged : BOOLEAN]
Header == [count : Nat, first : Seq(Stream), second : Seq(Stream)]
Places == {"out", "first", "second", "clear", "last", "blocks"}
CoreType ==
  [entries : Nat, aStreams : Seq(Stream), lFreeBlocks : SUBSET Nat, bHeaderChanged : BOOLEAN,
   pCurBlock : [Ids -> Handle], sStore : Seq(Data), header : Header, buf : Seq(Stream), at : Places]
Files == [Ids -> Seq(Nat) \cup {None}]
AbsType ==
  [changes : Nat, file : Files, synced : Files, touched : SUBSET Ids, during : SUBSET Ids,
   late : SUBSET Ids, missed : SUBSET Ids]

TypeOK == core \in CoreType /\ abs \in AbsType

(* The entries are in the order of their ids, no two of them share a block *)
(* of the first n, and they have the blocks for their bytes.               *)
Rising(S) == \A i, j \in DOMAIN S : i < j => S[i].iId < S[j].iId
Apart(S, n) ==
  \A i, j \in DOMAIN S : \A p \in DOMAIN S[i].aBlocks, q \in DOMAIN S[j].aBlocks :
    S[i].aBlocks[p] \in 1..n /\ (S[i].aBlocks[p] = S[j].aBlocks[q] => i = j /\ p = q)
Room(S) == \A i \in DOMAIN S : S[i].iSize <= Len(S[i].aBlocks) * iBlockSize
Owned(S, b) == \E i \in DOMAIN S : \E p \in DOMAIN S[i].aBlocks : S[i].aBlocks[p] = b
Has(S, id, b) == \E i \in DOMAIN S : S[i].iId = id /\ \E p \in DOMAIN S[i].aBlocks : S[i].aBlocks[p] = b

(* Memory: the blocks in use and the free ones are apart, and a handle has *)
(* a block of its stream, as it is in the store unless it was changed.     *)
Entries(S, n) == Rising(S) /\ Room(S) /\ Apart(S, n)
FreeInv(S, F, n) == F \subseteq 1..n /\ \A b \in F : ~Owned(S, b)
HandleInv(S, P, D) ==
  \A id \in Ids :
    /\ P[id].iBlockIndex # 0 => Has(S, id, P[id].iBlockIndex)
    /\ P[id].bChanged => P[id].iBlockIndex # 0
    /\ P[id].iBlockIndex # 0 /\ ~P[id].bChanged => P[id].pData = D[P[id].iBlockIndex]

(* A byte of a stream is in the block in memory or in the store.           *)
At(p) == ((p - 1) \div iBlockSize) + 1
Off(p) == ((p - 1) % iBlockSize) + 1
Held(P, D, id, b) == IF P[id].iBlockIndex = b THEN P[id].pData ELSE D[b]
ContentInv(S, P, D, file) ==
  /\ \A id \in Ids : file[id] # None => \E k \in DOMAIN S : S[k].iId = id
  /\ \A k \in DOMAIN S :
       /\ file[S[k].iId] \in Seq(Nat) /\ Len(file[S[k].iId]) = S[k].iSize
       /\ \A p \in 1..S[k].iSize : file[S[k].iId][p] = Held(P, D, S[k].iId, S[k].aBlocks[At(p)])[Off(p)]

Memory(c, file) ==
  /\ Entries(c.aStreams, Len(c.sStore))
  /\ FreeInv(c.aStreams, c.lFreeBlocks, Len(c.sStore))
  /\ HandleInv(c.aStreams, c.pCurBlock, c.sStore)
  /\ ContentInv(c.aStreams, c.pCurBlock, c.sStore, file)

(* The header, when it is not torn, holds entries that could be memory's.  *)
Disk(c) == SubSeq(c.header.first \o c.header.second, 1, c.header.count)
TornAt(c) == c.at \in {"clear", "last"} /\ Len(c.aStreams) > c.entries
DiskInv(c) ==
  ~TornAt(c) =>
    /\ c.header.count <= Len(c.header.first) + Len(c.header.second)
    /\ Rising(Disk(c)) /\ Apart(Disk(c), Len(c.sStore))
    /\ \A j \in DOMAIN Disk(c) : Len(Disk(c)[j].aBlocks) = blkDiv(Disk(c)[j].iSize)

(* The entry the header gets for a stream, and a header that has it for id.*)
Trim(s) == [iId |-> s.iId, iSize |-> s.iSize, aBlocks |-> SubSeq(s.aBlocks, 1, blkDiv(s.iSize))]
Agrees(D, S, id) ==
  /\ \A j \in DOMAIN D : D[j].iId = id => \E k \in DOMAIN S : D[j] = Trim(S[k])
  /\ \A k \in DOMAIN S : S[k].iId = id => \E j \in DOMAIN D : D[j].iId = id

(* What was not touched since the last sync is in the store and the header *)
(* as it is in memory; once the header is written, what was not touched    *)
(* during the sync is; and a header that is not changed is memory's.       *)
SyncInv(c, a) ==
  /\ \A id \in Ids \ a.touched : a.synced[id] = a.file[id] /\ ~c.pCurBlock[id].bChanged
  /\ ~TornAt(c) => \A id \in Ids \ (a.touched \cup a.missed) : Agrees(Disk(c), c.aStreams, id)
  /\ c.at \in {"out", "blocks"} /\ ~c.bHeaderChanged =>
       \A id \in Ids \ a.missed : Agrees(Disk(c), c.aStreams, id)
  /\ c.at = "blocks" => \A id \in Ids \ (a.during \cup a.missed) : Agrees(Disk(c), c.aStreams, id)
  /\ a.during \subseteq a.touched

(* An entry that was made for a stream in this updateHeader: the stream    *)
(* may have grown in its last block since, which is then known.            *)
EntryOf(e, s) == e.iId = s.iId /\ e.iSize \in 0..s.iSize /\ e.aBlocks = SubSeq(s.aBlocks, 1, blkDiv(e.iSize))
Current(c, a, e, s) ==
  e.iSize = s.iSize \/ s.iId \in a.late \/ (c.at = "last" /\ c.bHeaderChanged /\ s.iId \in a.during)
Pends(c, a, e, s) == EntryOf(e, s) /\ Current(c, a, e, s)
PendFirst(c, a) ==
  /\ Len(c.aStreams) > c.entries /\ Len(c.buf) = c.entries
  /\ \A k \in 1..c.entries : Pends(c, a, c.buf[k], c.aStreams[k])
PendSecond(c, a) ==
  /\ c.header.count = Len(c.aStreams) /\ Len(c.header.first) = c.entries
  /\ Len(c.buf) = Len(c.aStreams) - c.entries
  /\ \A k \in 1..c.entries : Pends(c, a, c.header.first[k], c.aStreams[k])
  /\ \A k \in 1..Len(c.buf) : Pends(c, a, c.buf[k], c.aStreams[c.entries + k])
PendOnly(c, a) ==
  /\ Len(c.buf) = Len(c.aStreams)
  /\ \A k \in 1..Len(c.buf) : Pends(c, a, c.buf[k], c.aStreams[k])
PendInv(c, a) ==
  /\ c.at = "second" => PendFirst(c, a)
  /\ c.at \in {"clear", "last"} /\ Len(c.aStreams) > c.entries => PendSecond(c, a)
  /\ c.at \in {"clear", "last"} /\ ~(Len(c.aStreams) > c.entries) => PendOnly(c, a)

IInv == TypeOK /\ Memory(core, abs.file) /\ DiskInv(core) /\ SyncInv(core, abs) /\ PendInv(core, abs)
-----------------------------------------------------------------------------
(* Division with remainder.                                                *)
LEMMA DivMod ==
  ASSUME NEW a \in Nat, NEW c \in Nat \ {0}
  PROVE  /\ a \div c \in Nat
         /\ a % c \in 0..(c - 1)
         /\ a = c * (a \div c) + (a % c)
  OBVIOUS

(* A product with a greater number is greater by a factor at least.        *)
LEMMA MulStep ==
  ASSUME NEW a \in Nat, NEW b \in Nat, NEW c \in Nat, a < b
  PROVE  a * c + c <= b * c
<1>1. (a + 1) * c = a * c + c
  OBVIOUS
<1>2. PICK d \in Nat : b = (a + 1) + d
  <2>1. b - (a + 1) \in Nat /\ b = (a + 1) + (b - (a + 1))
    OBVIOUS
  <2> QED BY <2>1
<1>3. b * c = (a + 1) * c + d * c /\ d * c \in Nat
  BY <1>2
<1> QED BY <1>1, <1>3

(* A number of bytes fits into some blocks if as many blocks as blkDiv     *)
(* says do.                                                                *)
LEMMA BlkDiv ==
  ASSUME Parameters, NEW n \in Nat
  PROVE  /\ blkDiv(n) \in Nat
         /\ n <= blkDiv(n) * iBlockSize
         /\ \A m \in Nat : n <= m * iBlockSize => blkDiv(n) <= m
<1> DEFINE b == iBlockSize
           t == n + b - 1
<1>1. b \in Nat \ {0} /\ t \in Nat /\ blkDiv(n) = t \div b
  BY DEF Parameters, blkDiv
<1> HIDE DEF b
<1>2. t \div b \in Nat /\ t % b \in 0..(b - 1) /\ t = b * (t \div b) + (t % b)
  <2> HIDE DEF t
  <2> QED BY <1>1, DivMod
<1>3. n <= (t \div b) * b
  <2> DEFINE q == t \div b
  <2>1. q \in Nat /\ q * b \in Nat /\ b * q = q * b /\ n + b - 1 <= q * b + b - 1
    <3> HIDE DEF q
    <3>1. q \in Nat /\ t = b * q + (t % b) /\ t % b <= b - 1
      BY <1>1, <1>2 DEF q
    <3>2. q * b \in Nat /\ b * q = q * b
      BY <1>1, <3>1
    <3> QED BY <1>1, <1>2, <3>1, <3>2
  <2> HIDE DEF q
  <2>2. n <= q * b
    BY <1>1, <2>1
  <2> QED BY <2>2 DEF q
<1>4. ASSUME NEW m \in Nat, n <= m * b PROVE t \div b <= m
  <2>1. SUFFICES ASSUME m < t \div b PROVE FALSE
    BY <1>2
  <2>2. m * b + b <= (t \div b) * b
    BY <1>1, <1>2, <2>1, MulStep
  <2>3. m * b \in Nat /\ (t \div b) * b \in Nat /\ (t \div b) * b = b * (t \div b)
    BY <1>1, <1>2
  <2>4. (t \div b) * b <= t
    BY <1>1, <1>2, <2>3
  <2> QED BY <1>1, <1>4, <2>2, <2>3, <2>4
<1> QED BY <1>1, <1>2, <1>3, <1>4 DEF b

(* The byte p of n bytes is in one of their blocks, and no other byte is   *)
(* at the same place of the same block.                                    *)
LEMMA PlaceOfByte ==
  ASSUME Parameters, NEW p \in Nat \ {0}
  PROVE  /\ At(p) \in Nat \ {0} /\ Off(p) \in 1..iBlockSize
         /\ p = (At(p) - 1) * iBlockSize + Off(p)
         /\ \A m \in Nat : p <= m * iBlockSize => At(p) <= m
<1> DEFINE b == iBlockSize
           q == (p - 1) \div b
           r == (p - 1) % b
<1>1. b \in Nat \ {0} /\ At(p) = q + 1 /\ Off(p) = r + 1
  BY DEF Parameters, At, Off
<1> HIDE DEF b, q, r
<1>2. q \in Nat /\ r \in 0..(b - 1) /\ p - 1 = b * q + r
  <2>1. p - 1 \in Nat
    OBVIOUS
  <2> QED BY <1>1, <2>1, DivMod DEF q, r
<1>3. b * q = q * b /\ q * b \in Nat
  BY <1>1, <1>2
<1>4. p = q * b + (r + 1)
  BY <1>1, <1>2, <1>3
<1>5. ASSUME NEW m \in Nat, p <= m * b PROVE q + 1 <= m
  <2>1. SUFFICES ASSUME m <= q PROVE FALSE
    BY <1>2
  <2>2. m * b <= q * b /\ m * b \in Nat
    <3>1. CASE m = q
      BY <1>1, <1>2, <3>1
    <3>2. CASE m < q
      <4>1. m * b + b <= q * b
        BY <1>1, <1>2, <3>2, MulStep
      <4>2. m * b \in Nat
        BY <1>1
      <4> QED BY <1>1, <1>3, <4>1, <4>2
    <3> QED BY <1>2, <2>1, <3>1, <3>2
  <2> QED BY <1>2, <1>3, <1>4, <1>5, <2>2
<1>6. q + 1 - 1 = q
  BY <1>2
<1>7. /\ At(p) \in Nat \ {0} /\ Off(p) \in 1..b
      /\ p = (At(p) - 1) * b + Off(p)
  BY <1>1, <1>2, <1>4, <1>6
<1>8. \A m \in Nat : p <= m * b => At(p) <= m
  BY <1>1, <1>5
<1> QED BY <1>7, <1>8 DEF b

(* Two bytes at the same place of a block are the same.                    *)
LEMMA PlacesApart ==
  ASSUME Parameters, NEW p \in Nat \ {0}, NEW q \in Nat \ {0}, At(p) = At(q), Off(p) = Off(q)
  PROVE  p = q
<1>1. p = (At(p) - 1) * iBlockSize + Off(p)
  BY PlaceOfByte
<1>2. q = (At(q) - 1) * iBlockSize + Off(q)
  BY PlaceOfByte
<1> QED BY <1>1, <1>2
-----------------------------------------------------------------------------
(* The streams in memory have different ids, so that Index is the one      *)
(* place of the id.                                                        *)
LEMMA RisingApart ==
  ASSUME Parameters, NEW S \in Seq(Stream), Rising(S), NEW i \in DOMAIN S, NEW j \in DOMAIN S, S[i].iId = S[j].iId
  PROVE  i = j
<1>1. i \in Nat /\ j \in Nat /\ S[i].iId \in Int /\ S[j].iId \in Int
  <2>1. S[i] \in Stream /\ S[j] \in Stream /\ i \in Nat /\ j \in Nat
    OBVIOUS
  <2> QED BY <2>1 DEF Stream, Ids, Parameters
<1>2. ~(i < j) /\ ~(j < i)
  BY <1>1 DEF Rising
<1> QED BY <1>1, <1>2

LEMMA IndexOf ==
  ASSUME Parameters, NEW c, c.aStreams \in Seq(Stream), Rising(c.aStreams), NEW id \in Known(c)
  PROVE  /\ Index(c, id) \in DOMAIN c.aStreams
         /\ c.aStreams[Index(c, id)].iId = id
         /\ \A k \in DOMAIN c.aStreams : c.aStreams[k].iId = id => k = Index(c, id)
<1>1. \E k \in DOMAIN c.aStreams : c.aStreams[k].iId = id
  BY DEF Known
<1>2. Index(c, id) \in DOMAIN c.aStreams /\ c.aStreams[Index(c, id)].iId = id
  BY <1>1 DEF Index
<1> QED BY <1>2, RisingApart
-----------------------------------------------------------------------------
(* A block belongs to one stream.                                          *)
LEMMA HasApart ==
  ASSUME NEW S \in Seq(Stream), NEW n \in Nat, Apart(S, n), NEW i, NEW j, NEW b, Has(S, i, b), Has(S, j, b)
  PROVE  i = j /\ b \in 1..n
<1>1. PICK k \in DOMAIN S : S[k].iId = i /\ \E p \in DOMAIN S[k].aBlocks : S[k].aBlocks[p] = b
  BY DEF Has
<1>2. PICK p \in DOMAIN S[k].aBlocks : S[k].aBlocks[p] = b
  BY <1>1
<1>3. PICK m \in DOMAIN S : S[m].iId = j /\ \E q \in DOMAIN S[m].aBlocks : S[m].aBlocks[q] = b
  BY DEF Has
<1>4. PICK q \in DOMAIN S[m].aBlocks : S[m].aBlocks[q] = b
  BY <1>3
<1>5. S[k].aBlocks[p] \in 1..n /\ (S[k].aBlocks[p] = S[m].aBlocks[q] => k = m /\ p = q)
  BY DEF Apart
<1> QED BY <1>1, <1>2, <1>3, <1>4, <1>5

LEMMA OwnerIsId ==
  ASSUME NEW S \in Seq(Stream), NEW i, NEW b, Has(S, i, b)
  PROVE  i \in Ids
<1>1. PICK k \in DOMAIN S : S[k].iId = i
  BY DEF Has
<1>2. S[k] \in Stream
  OBVIOUS
<1> QED BY <1>1, <1>2 DEF Stream

(* The byte p of a stream is in one of its blocks.                         *)
LEMMA ByteInBlock ==
  ASSUME Parameters, NEW S \in Seq(Stream), Room(S), NEW k \in DOMAIN S, NEW p \in 1..S[k].iSize
  PROVE  /\ At(p) \in DOMAIN S[k].aBlocks /\ Off(p) \in 1..iBlockSize
         /\ Has(S, S[k].iId, S[k].aBlocks[At(p)])
<1>1. S[k] \in Stream /\ S[k].iSize \in Nat /\ S[k].aBlocks \in Seq(Nat) /\ p \in Nat \ {0}
  <2>1. S[k] \in Stream
    OBVIOUS
  <2> QED BY <2>1 DEF Stream
<1>2. DOMAIN S[k].aBlocks = 1..Len(S[k].aBlocks) /\ Len(S[k].aBlocks) \in Nat
  BY <1>1
<1>3. p <= Len(S[k].aBlocks) * iBlockSize
  <2>1. S[k].iSize <= Len(S[k].aBlocks) * iBlockSize /\ Len(S[k].aBlocks) * iBlockSize \in Nat
    BY <1>2 DEF Room, Parameters
  <2> QED BY <1>1, <2>1
<1>4. At(p) \in Nat \ {0} /\ Off(p) \in 1..iBlockSize /\ At(p) <= Len(S[k].aBlocks)
  BY <1>1, <1>2, <1>3, PlaceOfByte
<1>5. At(p) \in DOMAIN S[k].aBlocks
  BY <1>2, <1>4
<1> QED BY <1>4, <1>5 DEF Has

(* The bytes of the streams do not change when none of their blocks does.  *)
LEMMA ContentKept ==
  ASSUME Parameters, NEW S \in Seq(Stream), Room(S), NEW P, NEW D, NEW Q, NEW E, NEW file,
         ContentInv(S, P, D, file),
         \A id, b : Has(S, id, b) => Held(Q, E, id, b) = Held(P, D, id, b)
  PROVE  ContentInv(S, Q, E, file)
<1>1. ASSUME NEW k \in DOMAIN S, NEW p \in 1..S[k].iSize
      PROVE  file[S[k].iId][p] = Held(Q, E, S[k].iId, S[k].aBlocks[At(p)])[Off(p)]
  <2>1. Has(S, S[k].iId, S[k].aBlocks[At(p)])
    BY ByteInBlock
  <2>2. file[S[k].iId][p] = Held(P, D, S[k].iId, S[k].aBlocks[At(p)])[Off(p)]
    BY DEF ContentInv
  <2>3. Held(Q, E, S[k].iId, S[k].aBlocks[At(p)]) = Held(P, D, S[k].iId, S[k].aBlocks[At(p)])
    BY <2>1
  <2> QED BY <2>2, <2>3
<1> QED BY <1>1 DEF ContentInv
-----------------------------------------------------------------------------
(* What a call on the handle of stream id leaves alone.                    *)
Steady(c, d, id) ==
  /\ d \in CoreType
  /\ d.entries = c.entries /\ d.aStreams = c.aStreams /\ d.lFreeBlocks = c.lFreeBlocks
  /\ d.bHeaderChanged = c.bHeaderChanged /\ d.header = c.header /\ d.buf = c.buf /\ d.at = c.at
  /\ Len(d.sStore) = Len(c.sStore)
  /\ \A j \in Ids \ {id} : d.pCurBlock[j] = c.pCurBlock[j]

LEMMA CoreFields ==
  ASSUME NEW c \in CoreType
  PROVE  /\ c.entries \in Nat /\ c.aStreams \in Seq(Stream) /\ c.lFreeBlocks \in SUBSET Nat
         /\ c.bHeaderChanged \in BOOLEAN /\ c.pCurBlock \in [Ids -> Handle] /\ c.sStore \in Seq(Data)
         /\ c.header \in Header /\ c.buf \in Seq(Stream) /\ c.at \in Places
         /\ Len(c.sStore) \in Nat /\ DOMAIN c.sStore = 1..Len(c.sStore)
  BY DEF CoreType

LEMMA HandlesReplaced ==
  ASSUME NEW c \in CoreType, NEW P \in [Ids -> Handle], NEW D \in Seq(Data)
  PROVE  [c EXCEPT !.sStore = D, !.pCurBlock = P] \in CoreType
  BY DEF CoreType

(* The block of a handle is one of the store, and of no other stream.      *)
LEMMA HandleBlock ==
  ASSUME NEW c \in CoreType, NEW file, Memory(c, file), NEW id \in Ids, c.pCurBlock[id].iBlockIndex # 0
  PROVE  /\ c.pCurBlock[id].iBlockIndex \in 1..Len(c.sStore)
         /\ Has(c.aStreams, id, c.pCurBlock[id].iBlockIndex)
         /\ \A j : Has(c.aStreams, j, c.pCurBlock[id].iBlockIndex) => j = id
<1>1. c.aStreams \in Seq(Stream) /\ Len(c.sStore) \in Nat
  BY CoreFields
<1>2. Apart(c.aStreams, Len(c.sStore)) /\ Has(c.aStreams, id, c.pCurBlock[id].iBlockIndex)
  BY DEF Memory, Entries, HandleInv
<1> QED BY <1>1, <1>2, HasApart

(* syncBlock writes the block of one stream: the bytes are where they were.*)
LEMMA SyncBlockKeeps ==
  ASSUME Parameters, NEW c \in CoreType, NEW file, Memory(c, file), NEW id \in Ids
  PROVE  /\ Steady(c, syncBlock(c, id), id) /\ Memory(syncBlock(c, id), file)
         /\ ~syncBlock(c, id).pCurBlock[id].bChanged
         /\ syncBlock(c, id).pCurBlock[id].iBlockIndex = c.pCurBlock[id].iBlockIndex
<1> DEFINE p == c.pCurBlock[id]
           d == [c EXCEPT !.sStore[p.iBlockIndex] = p.pData, !.pCurBlock[id].bChanged = FALSE]
<1>1. CASE ~p.bChanged
  <2>1. syncBlock(c, id) = c
    BY <1>1 DEF syncBlock
  <2>2. Steady(c, c, id)
    BY DEF Steady
  <2> QED BY <1>1, <2>1, <2>2
<1>2. CASE p.bChanged
  <2>1. syncBlock(c, id) = d
    BY <1>2 DEF syncBlock
  <2>2. p \in Handle /\ p.iBlockIndex # 0 /\ p.iBlockIndex \in 1..Len(c.sStore) /\ p.pData \in Data
    <3>1. p \in Handle
      BY CoreFields
    <3>2. p.iBlockIndex # 0
      BY <1>2 DEF Memory, HandleInv
    <3> QED BY <3>1, <3>2, HandleBlock DEF Handle
  <2>3. /\ d.sStore = [c.sStore EXCEPT ![p.iBlockIndex] = p.pData]
        /\ d.pCurBlock = [c.pCurBlock EXCEPT ![id] = [p EXCEPT !.bChanged = FALSE]]
        /\ d.entries = c.entries /\ d.aStreams = c.aStreams /\ d.lFreeBlocks = c.lFreeBlocks
        /\ d.bHeaderChanged = c.bHeaderChanged /\ d.header = c.header /\ d.buf = c.buf /\ d.at = c.at
    BY DEF CoreType
  <2>4. d.sStore \in Seq(Data) /\ Len(d.sStore) = Len(c.sStore)
    BY <2>2, <2>3, CoreFields, ExceptSeq
  <2>5. [p EXCEPT !.bChanged = FALSE] \in Handle
    BY <2>2 DEF Handle
  <2>6. d \in CoreType
    <3> DEFINE D == [c.sStore EXCEPT ![p.iBlockIndex] = p.pData]
               P == [c.pCurBlock EXCEPT ![id] = [p EXCEPT !.bChanged = FALSE]]
    <3>1. P \in [Ids -> Handle] /\ D \in Seq(Data)
      BY <2>3, <2>4, <2>5, CoreFields
    <3>2. d = [c EXCEPT !.sStore = D, !.pCurBlock = P]
      OBVIOUS
    <3> HIDE DEF D, P
    <3> QED BY <3>1, <3>2, HandlesReplaced
  <2>7. /\ \A j \in Ids \ {id} : d.pCurBlock[j] = c.pCurBlock[j]
        /\ d.pCurBlock[id].iBlockIndex = p.iBlockIndex /\ d.pCurBlock[id].pData = p.pData
        /\ ~d.pCurBlock[id].bChanged
    BY <2>2, <2>3, CoreFields DEF Handle
  <2>8. /\ d.sStore[p.iBlockIndex] = p.pData
        /\ \A b \in 1..Len(c.sStore) : b # p.iBlockIndex => d.sStore[b] = c.sStore[b]
    BY <2>2, <2>3, CoreFields
  <2> HIDE DEF d
  <2>9. HandleInv(d.aStreams, d.pCurBlock, d.sStore)
    <3>1. SUFFICES ASSUME NEW j \in Ids
          PROVE /\ d.pCurBlock[j].iBlockIndex # 0 => Has(c.aStreams, j, d.pCurBlock[j].iBlockIndex)
                /\ d.pCurBlock[j].bChanged => d.pCurBlock[j].iBlockIndex # 0
                /\ d.pCurBlock[j].iBlockIndex # 0 /\ ~d.pCurBlock[j].bChanged =>
                     d.pCurBlock[j].pData = d.sStore[d.pCurBlock[j].iBlockIndex]
      BY <2>3 DEF HandleInv
    <3>2. CASE j = id
      BY <2>2, <2>7, <2>8, <3>2, HandleBlock
    <3>3. CASE j # id
      <4>1. d.pCurBlock[j] = c.pCurBlock[j]
        BY <2>7, <3>3
      <4>2. c.pCurBlock[j].iBlockIndex # 0 =>
              c.pCurBlock[j].iBlockIndex \in 1..Len(c.sStore) /\ c.pCurBlock[j].iBlockIndex # p.iBlockIndex
        BY <2>2, <3>3, HandleBlock
      <4>3. /\ c.pCurBlock[j].iBlockIndex # 0 => Has(c.aStreams, j, c.pCurBlock[j].iBlockIndex)
            /\ c.pCurBlock[j].bChanged => c.pCurBlock[j].iBlockIndex # 0
            /\ c.pCurBlock[j].iBlockIndex # 0 /\ ~c.pCurBlock[j].bChanged =>
                 c.pCurBlock[j].pData = c.sStore[c.pCurBlock[j].iBlockIndex]
        BY DEF Memory, HandleInv
      <4> QED BY <2>8, <4>1, <4>2, <4>3
    <3> QED BY <3>2, <3>3
  <2>10. ContentInv(d.aStreams, d.pCurBlock, d.sStore, file)
    <3>1. ASSUME NEW i, NEW b, Has(c.aStreams, i, b)
          PROVE  Held(d.pCurBlock, d.sStore, i, b) = Held(c.pCurBlock, c.sStore, i, b)
      <4>1. i \in Ids /\ b \in 1..Len(c.sStore)
        <5>1. i \in Ids
          BY <3>1, OwnerIsId, CoreFields
        <5> QED BY <3>1, <5>1, HasApart, CoreFields DEF Memory, Entries
      <4>2. CASE i = id
        BY <2>7, <2>8, <4>1, <4>2 DEF Held
      <4>3. CASE i # id
        <5>1. b # p.iBlockIndex
          BY <2>2, <3>1, <4>3, HandleBlock
        <5> QED BY <2>7, <2>8, <4>1, <4>3, <5>1 DEF Held
      <4> QED BY <4>2, <4>3
    <3>2. ContentInv(c.aStreams, c.pCurBlock, c.sStore, file) /\ Room(c.aStreams) /\ c.aStreams \in Seq(Stream)
      BY CoreFields DEF Memory, Entries
    <3> QED BY <2>3, <3>1, <3>2, ContentKept
  <2>11. Memory(d, file)
    BY <2>3, <2>4, <2>9, <2>10 DEF Memory
  <2>12. Steady(c, d, id)
    BY <2>3, <2>4, <2>6, <2>7 DEF Steady
  <2> QED BY <2>1, <2>7, <2>11, <2>12
<1> QED BY <1>1, <1>2

(* A handle without changes may have any block of its stream, or none.     *)
WithHandle(c, id, h) == [c EXCEPT !.pCurBlock[id] = h]

LEMMA WithHandleKeeps ==
  ASSUME Parameters, NEW c \in CoreType, NEW file, Memory(c, file), NEW id \in Ids, ~c.pCurBlock[id].bChanged,
         NEW h \in Handle, ~h.bChanged,
         h.iBlockIndex # 0 => Has(c.aStreams, id, h.iBlockIndex) /\ h.pData = c.sStore[h.iBlockIndex]
  PROVE  /\ Steady(c, WithHandle(c, id, h), id) /\ Memory(WithHandle(c, id, h), file)
         /\ WithHandle(c, id, h).pCurBlock[id] = h
         /\ WithHandle(c, id, h).sStore = c.sStore
<1> DEFINE P == [c.pCurBlock EXCEPT ![id] = h]
           d == [c EXCEPT !.sStore = c.sStore, !.pCurBlock = P]
<1>1. /\ d.sStore = c.sStore /\ d.pCurBlock = P
      /\ d.entries = c.entries /\ d.aStreams = c.aStreams /\ d.lFreeBlocks = c.lFreeBlocks
      /\ d.bHeaderChanged = c.bHeaderChanged /\ d.header = c.header /\ d.buf = c.buf /\ d.at = c.at
  BY DEF CoreType
<1>2. WithHandle(c, id, h) = d
  BY DEF WithHandle, CoreType
<1>3. P \in [Ids -> Handle] /\ P[id] = h /\ \A j \in Ids \ {id} : P[j] = c.pCurBlock[j]
  BY CoreFields
<1>4. d \in CoreType
  <2> HIDE DEF P
  <2> QED BY <1>3, CoreFields, HandlesReplaced
<1> HIDE DEF P, d
<1>5. HandleInv(d.aStreams, d.pCurBlock, d.sStore)
  <2>1. SUFFICES ASSUME NEW j \in Ids
        PROVE /\ P[j].iBlockIndex # 0 => Has(c.aStreams, j, P[j].iBlockIndex)
              /\ P[j].bChanged => P[j].iBlockIndex # 0
              /\ P[j].iBlockIndex # 0 /\ ~P[j].bChanged => P[j].pData = c.sStore[P[j].iBlockIndex]
    BY <1>1 DEF HandleInv
  <2>2. CASE j = id
    BY <1>3, <2>2
  <2>3. CASE j # id
    <3>1. P[j] = c.pCurBlock[j]
      BY <1>3, <2>3
    <3> QED BY <3>1 DEF Memory, HandleInv
  <2> QED BY <2>2, <2>3
<1>6. ContentInv(d.aStreams, d.pCurBlock, d.sStore, file)
  <2>1. ASSUME NEW i, NEW b, Has(c.aStreams, i, b)
        PROVE  Held(P, c.sStore, i, b) = Held(c.pCurBlock, c.sStore, i, b)
    <3>1. i \in Ids
      BY <2>1, OwnerIsId, CoreFields
    <3>2. b # 0
      <4>1. b \in 1..Len(c.sStore)
        BY <2>1, HasApart, CoreFields DEF Memory, Entries
      <4> QED BY <4>1, CoreFields
    <3>3. CASE i = id
      <4>1. c.pCurBlock[id].iBlockIndex = b => c.pCurBlock[id].pData = c.sStore[b]
        BY <3>2 DEF Memory, HandleInv
      <4>2. h.iBlockIndex = b => h.pData = c.sStore[b]
        BY <3>2
      <4> QED BY <1>3, <3>3, <4>1, <4>2 DEF Held
    <3>4. CASE i # id
      BY <1>3, <3>1, <3>4 DEF Held
    <3> QED BY <3>3, <3>4
  <2>2. ContentInv(c.aStreams, c.pCurBlock, c.sStore, file) /\ Room(c.aStreams) /\ c.aStreams \in Seq(Stream)
    BY CoreFields DEF Memory, Entries
  <2> QED BY <1>1, <2>1, <2>2, ContentKept
<1>7. Memory(d, file)
  BY <1>1, <1>5, <1>6 DEF Memory
<1>8. Steady(c, d, id)
  BY <1>1, <1>3, <1>4 DEF Steady
<1> QED BY <1>1, <1>2, <1>3, <1>7, <1>8

LEMMA NoBlockIsHandle ==
  ASSUME Parameters
  PROVE  NoBlock \in Handle /\ NoBlock.iBlockIndex = 0 /\ ~NoBlock.bChanged /\ Blank \in Data
<1>1. Blank \in Data
  BY DEF Blank, Data
<1>2. NoBlock.iBlockIndex = 0 /\ NoBlock.bChanged = FALSE /\ NoBlock.pData = Blank
  BY DEF NoBlock
<1> QED BY <1>1, <1>2 DEF NoBlock, Handle

(* releaseBlock leaves the handle without a block.                         *)
LEMMA ReleaseKeeps ==
  ASSUME Parameters, NEW c \in CoreType, NEW file, Memory(c, file), NEW id \in Ids
  PROVE  /\ Steady(c, releaseBlock(c, id), id) /\ Memory(releaseBlock(c, id), file)
         /\ releaseBlock(c, id).pCurBlock[id] = NoBlock
<1> DEFINE d == syncBlock(c, id)
<1>1. Steady(c, d, id) /\ Memory(d, file) /\ ~d.pCurBlock[id].bChanged
  BY SyncBlockKeeps
<1>2. releaseBlock(c, id) = WithHandle(d, id, NoBlock)
  BY DEF releaseBlock, WithHandle
<1> HIDE DEF d
<1>3. d \in CoreType
  BY <1>1 DEF Steady
<1>4. /\ Steady(d, WithHandle(d, id, NoBlock), id) /\ Memory(WithHandle(d, id, NoBlock), file)
      /\ WithHandle(d, id, NoBlock).pCurBlock[id] = NoBlock
  BY <1>1, <1>3, NoBlockIsHandle, WithHandleKeeps
<1>5. Steady(c, WithHandle(d, id, NoBlock), id)
  BY <1>1, <1>4 DEF Steady
<1> QED BY <1>2, <1>4, <1>5

(* Loaded brings a block of the stream into memory.                        *)
LEMMA LoadedKeeps ==
  ASSUME Parameters, NEW c \in CoreType, NEW file, Memory(c, file), NEW id \in Ids, NEW blk, Has(c.aStreams, id, blk)
  PROVE  /\ Steady(c, Loaded(c, id, blk), id) /\ Memory(Loaded(c, id, blk), file)
         /\ Loaded(c, id, blk).pCurBlock[id].iBlockIndex = blk
<1>1. CASE c.pCurBlock[id].iBlockIndex = blk
  BY <1>1 DEF Loaded, Steady
<1>2. CASE c.pCurBlock[id].iBlockIndex # blk
  <2> DEFINE d == releaseBlock(c, id)
             h == [iBlockIndex |-> blk, pData |-> d.sStore[blk], bChanged |-> FALSE]
  <2>1. Steady(c, d, id) /\ Memory(d, file) /\ d.pCurBlock[id] = NoBlock
    BY ReleaseKeeps
  <2>2. Loaded(c, id, blk) = WithHandle(d, id, h)
    BY <1>2 DEF Loaded, WithHandle
  <2>3. blk \in 1..Len(c.sStore)
    BY HasApart, CoreFields DEF Memory, Entries
  <2> HIDE DEF d
  <2>4. d \in CoreType /\ d.aStreams = c.aStreams /\ Len(d.sStore) = Len(c.sStore)
    BY <2>1 DEF Steady
  <2>5. blk \in Nat /\ d.sStore[blk] \in Data
    BY <2>3, <2>4, CoreFields
  <2>6. h \in Handle /\ h.iBlockIndex = blk /\ h.pData = d.sStore[blk] /\ ~h.bChanged
    BY <2>5 DEF Handle
  <2> HIDE DEF h
  <2>7. /\ Steady(d, WithHandle(d, id, h), id) /\ Memory(WithHandle(d, id, h), file)
        /\ WithHandle(d, id, h).pCurBlock[id] = h
    BY <2>1, <2>4, <2>6, NoBlockIsHandle, WithHandleKeeps
  <2>8. Steady(c, WithHandle(d, id, h), id)
    BY <2>1, <2>7 DEF Steady
  <2> QED BY <2>2, <2>6, <2>7, <2>8
<1> QED BY <1>1, <1>2
-----------------------------------------------------------------------------
(* What a call that changes entries replaces.                              *)
Replaced(c, S, F, P, D) ==
  [c EXCEPT !.aStreams = S, !.lFreeBlocks = F, !.bHeaderChanged = TRUE, !.pCurBlock = P, !.sStore = D]

(* What stays when the entries are replaced: the place in sync, the header *)
(* and the other handles; the store may have grown.                        *)
Edits(c, d, id) ==
  /\ d \in CoreType /\ d.bHeaderChanged = TRUE
  /\ d.entries = c.entries /\ d.header = c.header /\ d.buf = c.buf /\ d.at = c.at
  /\ Len(c.sStore) <= Len(d.sStore)
  /\ \A j \in Ids \ {id} : d.pCurBlock[j] = c.pCurBlock[j]

LEMMA StreamResized ==
  ASSUME NEW s \in Stream, NEW n \in Nat
  PROVE  /\ [s EXCEPT !.iSize = n] \in Stream /\ [s EXCEPT !.iSize = n].iId = s.iId
         /\ [s EXCEPT !.iSize = n].aBlocks = s.aBlocks /\ [s EXCEPT !.iSize = n].iSize = n
  BY DEF Stream

LEMMA MulNat ==
  ASSUME NEW a \in Nat, NEW b \in Nat
  PROVE  a * b \in Nat
  OBVIOUS

(* The entry of a stream with one byte more.                               *)
Grown(S, k) == [S EXCEPT ![k].iSize = @ + 1]

LEMMA GrownShape ==
  ASSUME NEW S \in Seq(Stream), NEW k \in DOMAIN S
  PROVE  /\ Grown(S, k) \in Seq(Stream) /\ Len(Grown(S, k)) = Len(S) /\ DOMAIN Grown(S, k) = DOMAIN S
         /\ \A i \in DOMAIN S : Grown(S, k)[i].iId = S[i].iId /\ Grown(S, k)[i].aBlocks = S[i].aBlocks
         /\ \A i \in DOMAIN S : i # k => Grown(S, k)[i] = S[i]
         /\ Grown(S, k)[k].iSize = S[k].iSize + 1
<1> DEFINE e == [S[k] EXCEPT !.iSize = @ + 1]
<1>1. S[k] \in Stream /\ k \in 1..Len(S)
  OBVIOUS
<1>2. e \in Stream /\ e.iId = S[k].iId /\ e.aBlocks = S[k].aBlocks /\ e.iSize = S[k].iSize + 1
  <2>1. S[k].iSize + 1 \in Nat
    BY <1>1 DEF Stream
  <2>2. e = [S[k] EXCEPT !.iSize = S[k].iSize + 1]
    OBVIOUS
  <2> QED BY <1>1, <2>1, <2>2, StreamResized
<1>3. Grown(S, k) = [S EXCEPT ![k] = e]
  BY DEF Grown
<1> HIDE DEF e
<1>4. /\ [S EXCEPT ![k] = e] \in Seq(Stream) /\ Len([S EXCEPT ![k] = e]) = Len(S)
      /\ DOMAIN [S EXCEPT ![k] = e] = DOMAIN S
  BY <1>1, <1>2, ExceptSeq
<1>5. \A i \in DOMAIN S : [S EXCEPT ![k] = e][i] = IF i = k THEN e ELSE S[i]
  OBVIOUS
<1> QED BY <1>2, <1>3, <1>4, <1>5

(* Two lists of entries with the same ids and blocks.                      *)
SameBlocks(S, T) ==
  /\ DOMAIN S = DOMAIN T
  /\ \A i \in DOMAIN S : T[i].iId = S[i].iId /\ T[i].aBlocks = S[i].aBlocks

LEMMA SameBlocksSame ==
  ASSUME NEW S, NEW T, SameBlocks(S, T)
  PROVE  /\ Rising(S) => Rising(T)
         /\ \A n : Apart(S, n) => Apart(T, n)
         /\ \A i, b : Has(S, i, b) <=> Has(T, i, b)
         /\ \A b : Owned(S, b) <=> Owned(T, b)
<1>1. Rising(S) => Rising(T)
  BY DEF SameBlocks, Rising
<1>2. ASSUME NEW n, Apart(S, n) PROVE Apart(T, n)
  BY <1>2 DEF SameBlocks, Apart
<1>3. ASSUME NEW i, NEW b PROVE Has(S, i, b) <=> Has(T, i, b)
  BY DEF SameBlocks, Has
<1>4. ASSUME NEW b PROVE Owned(S, b) <=> Owned(T, b)
  BY DEF SameBlocks, Owned
<1> QED BY <1>1, <1>2, <1>3, <1>4

(* A byte behind the end of a stream that has a place for it: the block is *)
(* in memory, and no other byte of any stream changes.                     *)
LEMMA WrittenKeeps ==
  ASSUME Parameters, NEW c \in CoreType, NEW file \in Files, Memory(c, file), NEW id \in Ids, id \in Known(c),
         c.aStreams[Index(c, id)].iSize < Len(c.aStreams[Index(c, id)].aBlocks) * iBlockSize
  PROVE  /\ Edits(c, Written(c, id), id)
         /\ Written(c, id).aStreams = Grown(c.aStreams, Index(c, id))
         /\ Memory(Written(c, id), [file EXCEPT ![id] = Append(file[id], id)])
<1> DEFINE S == c.aStreams
           k == Index(c, id)
           p == S[k].iSize + 1
           b == S[k].aBlocks[At(p)]
           d == Loaded(c, id, b)
           h == d.pCurBlock[id]
           g == [h EXCEPT !.pData[Off(p)] = id, !.bChanged = TRUE]
           P == [d.pCurBlock EXCEPT ![id] = g]
           T == Grown(S, k)
           w == Replaced(d, T, c.lFreeBlocks, P, d.sStore)
           new == [file EXCEPT ![id] = Append(file[id], id)]
<1> HIDE DEF w, new, g, P, T
<1>1. /\ S \in Seq(Stream) /\ Rising(S) /\ Room(S) /\ Apart(S, Len(c.sStore)) /\ Len(c.sStore) \in Nat
  BY CoreFields DEF Memory, Entries
<1>2. k \in DOMAIN S /\ S[k].iId = id /\ \A m \in DOMAIN S : S[m].iId = id => m = k
  BY <1>1, IndexOf
<1>3. S[k] \in Stream /\ S[k].iSize \in Nat /\ S[k].aBlocks \in Seq(Nat)
  <2>1. S[k] \in Stream
    BY <1>1, <1>2
  <2> QED BY <2>1 DEF Stream
<1>4. /\ p \in Nat \ {0} /\ p - 1 = S[k].iSize /\ p <= Len(S[k].aBlocks) * iBlockSize
      /\ Len(S[k].aBlocks) \in Nat /\ DOMAIN S[k].aBlocks = 1..Len(S[k].aBlocks)
  <2>1. Len(S[k].aBlocks) \in Nat /\ DOMAIN S[k].aBlocks = 1..Len(S[k].aBlocks) /\ iBlockSize \in Nat
    BY <1>3 DEF Parameters
  <2>2. Len(S[k].aBlocks) * iBlockSize \in Nat
    BY <2>1, MulNat
  <2>3. S[k].iSize < Len(S[k].aBlocks) * iBlockSize
    OBVIOUS
  <2> HIDE DEF S, k
  <2> QED BY <1>3, <2>1, <2>2, <2>3 DEF p
<1>5. At(p) = (S[k].iSize \div iBlockSize) + 1 /\ Off(p) = (S[k].iSize % iBlockSize) + 1
  BY <1>4 DEF At, Off
<1>6. At(p) \in DOMAIN S[k].aBlocks /\ Off(p) \in 1..iBlockSize
  <2> HIDE DEF p, S, k
  <2>1. At(p) \in Nat \ {0} /\ Off(p) \in 1..iBlockSize /\ At(p) <= Len(S[k].aBlocks)
    BY <1>4, PlaceOfByte
  <2> QED BY <1>4, <2>1
<1>7. Has(S, id, b)
  BY <1>2, <1>6 DEF Has
<1>8. Steady(c, d, id) /\ Memory(d, file) /\ h.iBlockIndex = b
  <2> HIDE DEF S, b
  <2> QED BY <1>7, LoadedKeeps DEF S
<1>9. Written(c, id) = [d EXCEPT !.pCurBlock[id] = [@ EXCEPT !.pData[Off(p)] = id, !.bChanged = TRUE],
                                 !.aStreams[k].iSize = @ + 1, !.bHeaderChanged = TRUE]
  BY <1>5 DEF Written
<1> HIDE DEF d, p, S, k
<1>10. d \in CoreType /\ d.aStreams = S /\ d.lFreeBlocks = c.lFreeBlocks
  BY <1>8 DEF Steady, S
<1>11. Written(c, id) = w
  <2>1. w = [d EXCEPT !.aStreams = T, !.lFreeBlocks = c.lFreeBlocks, !.bHeaderChanged = TRUE, !.pCurBlock = P,
                      !.sStore = d.sStore]
    BY DEF w, Replaced
  <2>2. Written(c, id) = [d EXCEPT !.pCurBlock = P, !.aStreams = T, !.bHeaderChanged = TRUE]
    BY <1>9, <1>10 DEF P, g, h, T, Grown
  <2> QED BY <1>10, <2>1, <2>2 DEF CoreType
<1>12. /\ g \in Handle /\ g.iBlockIndex = b /\ g.bChanged /\ g.pData = [h.pData EXCEPT ![Off(p)] = id]
       /\ g.pData[Off(p)] = id /\ \A o \in 1..iBlockSize : o # Off(p) => g.pData[o] = h.pData[o]
  <2>1. h \in Handle
    BY <1>10, CoreFields
  <2>2. h.pData \in [1..iBlockSize -> Nat] /\ id \in Nat
    BY <2>1 DEF Handle, Data, Ids, Parameters
  <2>3. g = [h EXCEPT !.pData = [h.pData EXCEPT ![Off(p)] = id], !.bChanged = TRUE]
    BY DEF g
  <2> HIDE DEF h
  <2>4. [h.pData EXCEPT ![Off(p)] = id] \in [1..iBlockSize -> Nat]
    BY <2>2
  <2>5. g.iBlockIndex = h.iBlockIndex /\ g.bChanged = TRUE /\ g.pData = [h.pData EXCEPT ![Off(p)] = id] /\ g \in Handle
    BY <2>1, <2>3, <2>4 DEF Handle, Data
  <2> QED BY <1>6, <1>8, <2>2, <2>5
<1> HIDE DEF h, b
<1>13. P \in [Ids -> Handle] /\ P[id] = g /\ \A j \in Ids \ {id} : P[j] = d.pCurBlock[j] /\ P[j] = c.pCurBlock[j]
  <2>1. d.pCurBlock \in [Ids -> Handle] /\ \A j \in Ids \ {id} : d.pCurBlock[j] = c.pCurBlock[j]
    BY <1>8, <1>10, CoreFields DEF Steady
  <2> QED BY <1>12, <2>1 DEF P
<1>14. /\ T \in Seq(Stream) /\ SameBlocks(S, T) /\ SameBlocks(T, S)
       /\ \A i \in DOMAIN S : i # k => T[i] = S[i]
       /\ T[k].iSize = p
  BY <1>1, <1>2, GrownShape DEF SameBlocks, p, T
<1>15. /\ w \in CoreType /\ w.aStreams = T /\ w.lFreeBlocks = c.lFreeBlocks /\ w.bHeaderChanged = TRUE
       /\ w.pCurBlock = P /\ w.sStore = d.sStore /\ w.entries = d.entries /\ w.header = d.header
       /\ w.buf = d.buf /\ w.at = d.at
  <2>1. d.sStore \in Seq(Data)
    BY <1>10, CoreFields
  <2>2. c.lFreeBlocks \in SUBSET Nat
    BY CoreFields
  <2>3. d \in CoreType /\ T \in Seq(Stream) /\ P \in [Ids -> Handle]
    BY <1>10, <1>13, <1>14
  <2> DEFINE F == c.lFreeBlocks
             D == d.sStore
  <2>4. w = Replaced(d, T, F, P, D) /\ F \in SUBSET Nat /\ D \in Seq(Data)
    BY <2>1, <2>2 DEF w
  <2> HIDE DEF F, D
  <2> DEFINE r == Replaced(d, T, F, P, D)
  <2>5. /\ r \in CoreType
        /\ r.aStreams = T /\ r.lFreeBlocks = F
        /\ r.bHeaderChanged = TRUE /\ r.pCurBlock = P
        /\ r.sStore = D /\ r.entries = d.entries
        /\ r.header = d.header /\ r.buf = d.buf
        /\ r.at = d.at
    BY <2>3, <2>4 DEF Replaced, CoreType
  <2> QED BY <2>4, <2>5 DEF F, D
<1>16. Edits(c, w, id)
  BY <1>8, <1>13, <1>15, CoreFields DEF Edits, Steady
<1>17. Entries(T, Len(w.sStore))
  <2>1. Rising(T) /\ Apart(T, Len(w.sStore))
    BY <1>1, <1>8, <1>14, <1>15, SameBlocksSame DEF Steady
  <2>2. Room(T)
    <3>1. SUFFICES ASSUME NEW i \in DOMAIN T PROVE T[i].iSize <= Len(T[i].aBlocks) * iBlockSize
      BY DEF Room
    <3>2. i \in DOMAIN S /\ T[i].aBlocks = S[i].aBlocks
      BY <1>14 DEF SameBlocks
    <3>3. CASE i = k
      BY <1>4, <1>14, <3>2, <3>3
    <3>4. CASE i # k
      BY <1>1, <1>14, <3>2, <3>4 DEF Room
    <3> QED BY <3>3, <3>4
  <2> QED BY <2>1, <2>2 DEF Entries
<1>18. FreeInv(T, w.lFreeBlocks, Len(w.sStore))
  <2>1. FreeInv(S, c.lFreeBlocks, Len(c.sStore)) /\ Len(w.sStore) = Len(c.sStore)
    BY <1>8, <1>15 DEF Memory, Steady, S
  <2> QED BY <1>14, <1>15, <2>1, SameBlocksSame DEF FreeInv
<1>19. HandleInv(T, P, w.sStore)
  <2>1. SUFFICES ASSUME NEW j \in Ids
        PROVE /\ P[j].iBlockIndex # 0 => Has(S, j, P[j].iBlockIndex)
              /\ P[j].bChanged => P[j].iBlockIndex # 0
              /\ P[j].iBlockIndex # 0 /\ ~P[j].bChanged => P[j].pData = d.sStore[P[j].iBlockIndex]
    BY <1>14, <1>15, SameBlocksSame DEF HandleInv
  <2>2. CASE j = id
    <3>1. b # 0
      <4>1. b \in 1..Len(c.sStore)
        BY <1>1, <1>7, HasApart DEF b
      <4> QED BY <1>1, <4>1
    <3> QED BY <1>7, <1>12, <1>13, <2>2, <3>1
  <2>3. CASE j # id
    <3>1. P[j] = d.pCurBlock[j]
      BY <1>13, <2>3
    <3> QED BY <1>8, <1>10, <3>1 DEF Memory, HandleInv
  <2> QED BY <2>2, <2>3
<1>20. ContentInv(T, P, w.sStore, new)
  <2>1. file[id] \in Seq(Nat) /\ Len(file[id]) = S[k].iSize /\ id \in Nat
    BY <1>2, <1>8, <1>10 DEF Memory, ContentInv, Ids, Parameters
  <2>2. /\ new[id] = Append(file[id], id) /\ \A j \in Ids : j # id => new[j] = file[j]
    BY DEF Files, new
  <2>3. /\ Append(file[id], id) \in Seq(Nat) /\ Len(Append(file[id], id)) = p
        /\ Append(file[id], id)[p] = id
        /\ \A q \in 1..S[k].iSize : Append(file[id], id)[q] = file[id][q]
    <3> QED BY <1>4, <2>1 DEF p
  <2>4. ASSUME NEW j \in Ids, new[j] # None PROVE \E m \in DOMAIN T : T[m].iId = j
    <3>1. CASE j = id
      BY <1>2, <1>14, <3>1 DEF SameBlocks
    <3>2. CASE j # id
      <4>1. \E m \in DOMAIN S : S[m].iId = j
        BY <1>8, <1>10, <2>2, <2>4, <3>2 DEF Memory, ContentInv
      <4> QED BY <1>14, <4>1 DEF SameBlocks
    <3> QED BY <3>1, <3>2
  <2>5. ASSUME NEW m \in DOMAIN T
        PROVE  /\ new[T[m].iId] \in Seq(Nat) /\ Len(new[T[m].iId]) = T[m].iSize
               /\ \A q \in 1..T[m].iSize : new[T[m].iId][q] = Held(P, d.sStore, T[m].iId, T[m].aBlocks[At(q)])[Off(q)]
    <3>1. m \in DOMAIN S /\ T[m].iId = S[m].iId /\ T[m].aBlocks = S[m].aBlocks /\ S[m] \in Stream
      BY <1>1, <1>14 DEF SameBlocks
    <3>2. CASE m # k
      <4>1. S[m].iId # id /\ S[m].iId \in Ids /\ T[m] = S[m]
        BY <1>2, <1>14, <3>1, <3>2 DEF Stream
      <4>2. new[S[m].iId] = file[S[m].iId] /\ P[S[m].iId] = d.pCurBlock[S[m].iId]
        BY <1>13, <2>2, <4>1
      <4>3. ContentInv(S, d.pCurBlock, d.sStore, file)
        BY <1>8, <1>10 DEF Memory
      <4> QED BY <3>1, <4>1, <4>2, <4>3 DEF ContentInv, Held
    <3>3. CASE m = k
      <4>1. new[id] \in Seq(Nat) /\ Len(new[id]) = p
        BY <2>2, <2>3
      <4>2. ASSUME NEW q \in 1..p PROVE new[id][q] = Held(P, d.sStore, id, S[k].aBlocks[At(q)])[Off(q)]
        <5>1. CASE q = p
          <6>1. Held(P, d.sStore, id, S[k].aBlocks[At(q)]) = g.pData
            BY <1>12, <1>13, <5>1 DEF Held, b
          <6> QED BY <1>12, <2>2, <2>3, <5>1, <6>1
        <5>2. CASE q # p
          <6>1. q \in 1..S[k].iSize /\ q \in Nat \ {0}
            BY <1>3, <5>2 DEF p
          <6>2. new[id][q] = Held(d.pCurBlock, d.sStore, id, S[k].aBlocks[At(q)])[Off(q)]
            BY <1>2, <1>8, <1>10, <2>2, <2>3, <6>1 DEF Memory, ContentInv
          <6>3. At(q) \in DOMAIN S[k].aBlocks /\ Off(q) \in 1..iBlockSize
            BY <1>1, <1>2, <6>1, ByteInBlock
          <6>4. CASE S[k].aBlocks[At(q)] = b
            <7>1. At(q) = At(p)
              BY <1>1, <1>2, <1>6, <6>3, <6>4 DEF Apart, b
            <7>2. Off(q) # Off(p)
              BY <1>4, <5>2, <6>1, <7>1, PlacesApart
            <7>3. Held(P, d.sStore, id, b) = g.pData
              BY <1>12, <1>13 DEF Held
            <7>4. Held(d.pCurBlock, d.sStore, id, b) = h.pData
              BY <1>8 DEF Held, h
            <7>5. g.pData[Off(q)] = h.pData[Off(q)]
              BY <1>12, <6>3, <7>2
            <7> QED BY <6>2, <6>4, <7>3, <7>4, <7>5
          <6>5. CASE S[k].aBlocks[At(q)] # b
            BY <1>8, <1>12, <1>13, <6>2, <6>5 DEF Held, h
          <6> QED BY <6>4, <6>5
        <5> QED BY <5>1, <5>2
      <4> QED BY <1>2, <1>14, <3>1, <3>3, <4>1, <4>2
    <3> QED BY <3>2, <3>3
  <2> QED BY <1>15, <2>4, <2>5 DEF ContentInv
<1>21. Memory(w, new)
  BY <1>15, <1>17, <1>18, <1>19, <1>20 DEF Memory
<1> QED BY <1>11, <1>15, <1>16, <1>21 DEF T, S, k, new
-----------------------------------------------------------------------------
(* The entry of a stream with one block more.                              *)
Longer(S, k, blk) == [S EXCEPT ![k].aBlocks = Append(@, blk)]

LEMMA StreamReblocked ==
  ASSUME NEW s \in Stream, NEW B \in Seq(Nat)
  PROVE  /\ [s EXCEPT !.aBlocks = B] \in Stream /\ [s EXCEPT !.aBlocks = B].iId = s.iId
         /\ [s EXCEPT !.aBlocks = B].aBlocks = B /\ [s EXCEPT !.aBlocks = B].iSize = s.iSize
  BY DEF Stream

LEMMA LongerShape ==
  ASSUME NEW S \in Seq(Stream), NEW k \in DOMAIN S, NEW blk \in Nat
  PROVE  /\ Longer(S, k, blk) \in Seq(Stream) /\ Len(Longer(S, k, blk)) = Len(S) /\ DOMAIN Longer(S, k, blk) = DOMAIN S
         /\ \A i \in DOMAIN S : Longer(S, k, blk)[i].iId = S[i].iId /\ Longer(S, k, blk)[i].iSize = S[i].iSize
         /\ \A i \in DOMAIN S : i # k => Longer(S, k, blk)[i] = S[i]
         /\ Longer(S, k, blk)[k].aBlocks = Append(S[k].aBlocks, blk)
<1> DEFINE e == [S[k] EXCEPT !.aBlocks = Append(S[k].aBlocks, blk)]
<1>1. S[k] \in Stream /\ k \in 1..Len(S)
  OBVIOUS
<1>2. /\ e \in Stream /\ e.iId = S[k].iId /\ e.iSize = S[k].iSize
      /\ e.aBlocks = Append(S[k].aBlocks, blk)
  <2>1. S[k].aBlocks \in Seq(Nat)
    BY <1>1 DEF Stream
  <2> DEFINE B == Append(S[k].aBlocks, blk)
  <2>2. B \in Seq(Nat)
    BY <2>1
  <2> HIDE DEF B
  <2> QED BY <1>1, <2>2, StreamReblocked DEF B
<1>3. Longer(S, k, blk) = [S EXCEPT ![k] = e]
  BY DEF Longer
<1> HIDE DEF e
<1>4. /\ [S EXCEPT ![k] = e] \in Seq(Stream) /\ Len([S EXCEPT ![k] = e]) = Len(S)
      /\ DOMAIN [S EXCEPT ![k] = e] = DOMAIN S
  BY <1>1, <1>2, ExceptSeq
<1>5. \A i \in DOMAIN S : [S EXCEPT ![k] = e][i] = IF i = k THEN e ELSE S[i]
  OBVIOUS
<1> QED BY <1>2, <1>3, <1>4, <1>5

(* An empty block is in no stream.                                         *)
LEMMA EmptyBlockFree ==
  ASSUME NEW c \in CoreType, NEW file, Memory(c, file), NEW blk \in EmptyBlocks(c)
  PROVE  /\ blk \in Nat \ {0} /\ ~Owned(c.aStreams, blk)
         /\ blk \in 1..Len(c.sStore) \/ (blk = Len(c.sStore) + 1 /\ c.lFreeBlocks = {})
<1>1. /\ c.aStreams \in Seq(Stream) /\ Len(c.sStore) \in Nat /\ Apart(c.aStreams, Len(c.sStore))
      /\ FreeInv(c.aStreams, c.lFreeBlocks, Len(c.sStore))
  BY CoreFields DEF Memory, Entries
<1>2. CASE c.lFreeBlocks = {}
  <2>1. blk = Len(c.sStore) + 1
    BY <1>2 DEF EmptyBlocks
  <2>2. ~Owned(c.aStreams, blk)
    <3>1. SUFFICES ASSUME Owned(c.aStreams, blk) PROVE FALSE
      OBVIOUS
    <3>2. PICK i \in DOMAIN c.aStreams : \E q \in DOMAIN c.aStreams[i].aBlocks : c.aStreams[i].aBlocks[q] = blk
      BY <3>1 DEF Owned
    <3>3. blk \in 1..Len(c.sStore)
      BY <1>1, <3>2 DEF Apart
    <3> QED BY <1>1, <2>1, <3>3
  <2> QED BY <1>1, <1>2, <2>1, <2>2
<1>3. CASE c.lFreeBlocks # {}
  <2>1. blk \in c.lFreeBlocks
    BY <1>3 DEF EmptyBlocks
  <2> QED BY <1>1, <2>1 DEF FreeInv
<1> QED BY <1>2, <1>3

(* streamAddBlock gives the stream a block that nothing else has.          *)
LEMMA AddBlockKeeps ==
  ASSUME Parameters, NEW c \in CoreType, NEW file, Memory(c, file), NEW id \in Ids, id \in Known(c),
         NEW blk \in EmptyBlocks(c)
  PROVE  /\ Edits(c, streamAddBlock(c, id, blk), id) /\ Memory(streamAddBlock(c, id, blk), file)
         /\ streamAddBlock(c, id, blk).aStreams = Longer(c.aStreams, Index(c, id), blk)
         /\ streamAddBlock(c, id, blk).pCurBlock = c.pCurBlock
<1> DEFINE S == c.aStreams
           k == Index(c, id)
           n == Len(c.sStore)
           F == c.lFreeBlocks \ {blk}
           D == IF blk \in DOMAIN c.sStore THEN c.sStore ELSE Append(c.sStore, Blank)
           T == Longer(S, k, blk)
           P == c.pCurBlock
           a == Replaced(c, T, F, P, D)
<1>1. /\ S \in Seq(Stream) /\ Rising(S) /\ Room(S) /\ Apart(S, n) /\ n \in Nat /\ FreeInv(S, c.lFreeBlocks, n)
      /\ HandleInv(S, P, c.sStore) /\ ContentInv(S, P, c.sStore, file)
  BY CoreFields DEF Memory, Entries
<1>2. k \in DOMAIN S /\ S[k].iId = id /\ \A m \in DOMAIN S : S[m].iId = id => m = k
  BY <1>1, IndexOf
<1>3. blk \in Nat \ {0} /\ ~Owned(S, blk) /\ (blk \in 1..n \/ (blk = n + 1 /\ c.lFreeBlocks = {}))
  BY EmptyBlockFree
<1>4. /\ D \in Seq(Data) /\ n <= Len(D) /\ blk \in 1..Len(D)
      /\ \A b \in 1..n : D[b] = c.sStore[b]
  <2>1. c.sStore \in Seq(Data) /\ DOMAIN c.sStore = 1..n
    BY CoreFields
  <2>2. CASE blk \in 1..n
    BY <1>1, <2>1, <2>2
  <2>3. CASE blk = n + 1
    <3>1. D = Append(c.sStore, Blank)
      BY <1>1, <2>1, <2>3
    <3>2. Blank \in Data
      BY NoBlockIsHandle
    <3> QED BY <1>1, <2>1, <2>3, <3>1, <3>2
  <2> QED BY <1>3, <2>2, <2>3
<1>5. /\ T \in Seq(Stream) /\ Len(T) = Len(S) /\ DOMAIN T = DOMAIN S
      /\ \A i \in DOMAIN S : T[i].iId = S[i].iId /\ T[i].iSize = S[i].iSize
      /\ \A i \in DOMAIN S : i # k => T[i] = S[i]
      /\ T[k].aBlocks = Append(S[k].aBlocks, blk)
  BY <1>1, <1>2, <1>3, LongerShape
<1>6. streamAddBlock(c, id, blk) = a
  BY DEF streamAddBlock, Replaced, Longer, CoreType
<1>7. F \in SUBSET Nat /\ P \in [Ids -> Handle]
  BY CoreFields
<1>8. ASSUME NEW i \in DOMAIN S
      PROVE  /\ S[i] \in Stream /\ S[i].aBlocks \in Seq(Nat) /\ Len(S[i].aBlocks) \in Nat
             /\ DOMAIN S[i].aBlocks = 1..Len(S[i].aBlocks) /\ S[i].iSize \in Nat /\ S[i].iId \in Ids
  <2>1. S[i] \in Stream
    BY <1>1
  <2> QED BY <2>1 DEF Stream
<1> HIDE DEF D, F, T, P, a, S, k, n
<1>9. /\ a \in CoreType
      /\ a.aStreams = T /\ a.lFreeBlocks = F
      /\ a.bHeaderChanged = TRUE /\ a.pCurBlock = P
      /\ a.sStore = D /\ a.entries = c.entries
      /\ a.header = c.header /\ a.buf = c.buf
      /\ a.at = c.at
  BY <1>4, <1>5, <1>7 DEF a, Replaced, CoreType
<1>10. Edits(c, a, id)
  BY <1>4, <1>9 DEF Edits, P, n
<1>11. /\ Len(T[k].aBlocks) = Len(S[k].aBlocks) + 1 /\ T[k].aBlocks[Len(S[k].aBlocks) + 1] = blk
       /\ DOMAIN T[k].aBlocks = 1..(Len(S[k].aBlocks) + 1)
       /\ \A q \in 1..Len(S[k].aBlocks) : T[k].aBlocks[q] = S[k].aBlocks[q]
  BY <1>2, <1>3, <1>5, <1>8
<1>12. ASSUME NEW i \in DOMAIN S, NEW q \in DOMAIN T[i].aBlocks
       PROVE  \/ q \in DOMAIN S[i].aBlocks /\ T[i].aBlocks[q] = S[i].aBlocks[q] /\ T[i].aBlocks[q] # blk
              \/ i = k /\ q = Len(S[k].aBlocks) + 1 /\ T[i].aBlocks[q] = blk
  <2>1. \A o \in DOMAIN S[i].aBlocks : S[i].aBlocks[o] # blk
    BY <1>3 DEF Owned
  <2>2. CASE i = k
    <3>1. CASE q = Len(S[k].aBlocks) + 1
      BY <1>11, <2>2, <3>1
    <3>2. CASE q # Len(S[k].aBlocks) + 1
      <4>1. q \in 1..Len(S[k].aBlocks)
        BY <1>2, <1>8, <1>11, <2>2, <3>2
      <4> QED BY <1>2, <1>8, <1>11, <2>1, <2>2, <4>1
    <3> QED BY <3>1, <3>2
  <2>3. CASE i # k
    BY <1>5, <2>1, <2>3
  <2> QED BY <2>2, <2>3
<1>13. Apart(T, Len(D))
  <2>1. SUFFICES ASSUME NEW i \in DOMAIN T, NEW j \in DOMAIN T,
                        NEW p \in DOMAIN T[i].aBlocks, NEW q \in DOMAIN T[j].aBlocks
        PROVE T[i].aBlocks[p] \in 1..Len(D) /\ (T[i].aBlocks[p] = T[j].aBlocks[q] => i = j /\ p = q)
    BY DEF Apart
  <2>2. i \in DOMAIN S /\ j \in DOMAIN S
    BY <1>5
  <2>3. \/ p \in DOMAIN S[i].aBlocks /\ T[i].aBlocks[p] = S[i].aBlocks[p] /\ T[i].aBlocks[p] # blk
        \/ i = k /\ p = Len(S[k].aBlocks) + 1 /\ T[i].aBlocks[p] = blk
    BY <1>12, <2>2
  <2>4. \/ q \in DOMAIN S[j].aBlocks /\ T[j].aBlocks[q] = S[j].aBlocks[q] /\ T[j].aBlocks[q] # blk
        \/ j = k /\ q = Len(S[k].aBlocks) + 1 /\ T[j].aBlocks[q] = blk
    BY <1>12, <2>2
  <2>5. T[i].aBlocks[p] \in 1..Len(D)
    <3>1. p \in DOMAIN S[i].aBlocks => S[i].aBlocks[p] \in 1..n
      BY <1>1, <2>2 DEF Apart
    <3>2. Len(D) \in Nat
      BY <1>4
    <3> QED BY <1>1, <1>4, <2>3, <3>1, <3>2
  <2>6. p \in DOMAIN S[i].aBlocks /\ q \in DOMAIN S[j].aBlocks => (S[i].aBlocks[p] = S[j].aBlocks[q] => i = j /\ p = q)
    BY <1>1, <2>2 DEF Apart
  <2> QED BY <2>3, <2>4, <2>5, <2>6
<1>14. Rising(T)
  BY <1>1, <1>5 DEF Rising
<1>15. Room(T)
  <2>1. SUFFICES ASSUME NEW i \in DOMAIN S PROVE T[i].iSize <= Len(T[i].aBlocks) * iBlockSize
    BY <1>5 DEF Room
  <2>2. S[i].iSize <= Len(S[i].aBlocks) * iBlockSize
    BY <1>1 DEF Room
  <2>3. CASE i = k
    <3> DEFINE m == Len(S[k].aBlocks)
    <3>1. m \in Nat /\ iBlockSize \in Nat
      BY <1>2, <1>8 DEF Parameters
    <3> HIDE DEF m
    <3>2. m * iBlockSize + iBlockSize <= (m + 1) * iBlockSize /\ m * iBlockSize \in Nat /\ (m + 1) * iBlockSize \in Nat
      BY <3>1, MulStep, MulNat
    <3>3. S[i].iSize <= m * iBlockSize /\ Len(T[i].aBlocks) = m + 1 /\ T[i].iSize = S[i].iSize /\ S[i].iSize \in Nat
      BY <1>5, <1>8, <1>11, <2>2, <2>3 DEF m
    <3> QED BY <3>1, <3>2, <3>3
  <2>4. CASE i # k
    BY <1>5, <2>2, <2>4
  <2> QED BY <2>3, <2>4
<1>16. FreeInv(T, F, Len(D))
  <2>1. SUFFICES ASSUME NEW b \in F PROVE b \in 1..Len(D) /\ ~Owned(T, b)
    BY DEF FreeInv
  <2>2. b # blk /\ b \in 1..n /\ ~Owned(S, b)
    BY <1>1 DEF F, FreeInv
  <2>3. b \in 1..Len(D)
    BY <1>1, <1>4, <2>2
  <2>4. ASSUME NEW i \in DOMAIN T, NEW q \in DOMAIN T[i].aBlocks PROVE T[i].aBlocks[q] # b
    <3>1. i \in DOMAIN S
      BY <1>5
    <3> QED BY <1>12, <2>2, <3>1 DEF Owned
  <2> QED BY <2>3, <2>4 DEF Owned
<1>17. ASSUME NEW i, NEW b, Has(S, i, b) PROVE Has(T, i, b) /\ b \in 1..n
  <2>1. b \in 1..n
    BY <1>1, <1>17, HasApart
  <2>2. PICK m \in DOMAIN S : S[m].iId = i /\ \E q \in DOMAIN S[m].aBlocks : S[m].aBlocks[q] = b
    BY <1>17 DEF Has
  <2>3. PICK q \in DOMAIN S[m].aBlocks : S[m].aBlocks[q] = b
    BY <2>2
  <2>4. q \in DOMAIN T[m].aBlocks /\ T[m].aBlocks[q] = b
    <3>1. CASE m = k
      <4>1. q \in 1..Len(S[k].aBlocks) /\ Len(S[k].aBlocks) \in Nat
        BY <1>2, <1>8, <2>3, <3>1
      <4>2. q \in 1..(Len(S[k].aBlocks) + 1)
        BY <4>1
      <4> QED BY <1>11, <2>3, <3>1, <4>1, <4>2
    <3>2. CASE m # k
      BY <1>5, <2>3, <3>2
    <3> QED BY <3>1, <3>2
  <2> QED BY <1>5, <2>1, <2>2, <2>4 DEF Has
<1>18. HandleInv(T, P, D)
  <2>1. SUFFICES ASSUME NEW j \in Ids
        PROVE /\ P[j].iBlockIndex # 0 => Has(T, j, P[j].iBlockIndex)
              /\ P[j].bChanged => P[j].iBlockIndex # 0
              /\ P[j].iBlockIndex # 0 /\ ~P[j].bChanged => P[j].pData = D[P[j].iBlockIndex]
    BY DEF HandleInv
  <2>2. /\ P[j].iBlockIndex # 0 => Has(S, j, P[j].iBlockIndex)
        /\ P[j].bChanged => P[j].iBlockIndex # 0
        /\ P[j].iBlockIndex # 0 /\ ~P[j].bChanged => P[j].pData = c.sStore[P[j].iBlockIndex]
    BY <1>1 DEF HandleInv
  <2> QED BY <1>4, <1>17, <2>2
<1>19. ContentInv(T, P, D, file)
  <2>1. ASSUME NEW i, NEW b, Has(S, i, b) PROVE Held(P, D, i, b) = Held(P, c.sStore, i, b)
    BY <1>4, <1>17, <2>1 DEF Held
  <2>2. ContentInv(S, P, D, file)
    BY <1>1, <2>1, ContentKept
  <2>3. ASSUME NEW m \in DOMAIN T
        PROVE  /\ file[T[m].iId] \in Seq(Nat) /\ Len(file[T[m].iId]) = T[m].iSize
               /\ \A q \in 1..T[m].iSize : file[T[m].iId][q] = Held(P, D, T[m].iId, T[m].aBlocks[At(q)])[Off(q)]
    <3>1. m \in DOMAIN S /\ T[m].iId = S[m].iId /\ T[m].iSize = S[m].iSize
      BY <1>5
    <3>2. ASSUME NEW q \in 1..S[m].iSize PROVE T[m].aBlocks[At(q)] = S[m].aBlocks[At(q)]
      <4>1. At(q) \in DOMAIN S[m].aBlocks
        BY <1>1, <3>1, ByteInBlock
      <4>2. CASE m = k
        BY <1>2, <1>8, <1>11, <4>1, <4>2
      <4>3. CASE m # k
        BY <1>5, <3>1, <4>3
      <4> QED BY <4>2, <4>3
    <3> QED BY <2>2, <3>1, <3>2 DEF ContentInv
  <2> QED BY <1>5, <2>2, <2>3 DEF ContentInv
<1>20. Memory(a, file)
  BY <1>9, <1>13, <1>14, <1>15, <1>16, <1>18, <1>19 DEF Memory, Entries
<1> QED BY <1>6, <1>9, <1>10, <1>20 DEF T, P, S, k
-----------------------------------------------------------------------------
(* Every block of T is one that S has for the same stream at the same place*)
Part(T, S) ==
  \A i \in DOMAIN T : \A q \in DOMAIN T[i].aBlocks :
    \E m \in DOMAIN S : S[m].iId = T[i].iId /\ q \in DOMAIN S[m].aBlocks /\ S[m].aBlocks[q] = T[i].aBlocks[q]

LEMMA PartApart ==
  ASSUME Parameters, NEW S \in Seq(Stream), NEW T \in Seq(Stream), NEW n, Apart(S, n), Rising(T), Part(T, S)
  PROVE  /\ Apart(T, n)
         /\ \A i, b : Has(T, i, b) => Has(S, i, b)
         /\ \A b : Owned(T, b) => Owned(S, b)
<1>1. Apart(T, n)
  <2>1. SUFFICES ASSUME NEW i \in DOMAIN T, NEW j \in DOMAIN T,
                        NEW p \in DOMAIN T[i].aBlocks, NEW q \in DOMAIN T[j].aBlocks
        PROVE T[i].aBlocks[p] \in 1..n /\ (T[i].aBlocks[p] = T[j].aBlocks[q] => i = j /\ p = q)
    BY DEF Apart
  <2>2. PICK u \in DOMAIN S : S[u].iId = T[i].iId /\ p \in DOMAIN S[u].aBlocks /\ S[u].aBlocks[p] = T[i].aBlocks[p]
    BY DEF Part
  <2>3. PICK v \in DOMAIN S : S[v].iId = T[j].iId /\ q \in DOMAIN S[v].aBlocks /\ S[v].aBlocks[q] = T[j].aBlocks[q]
    BY DEF Part
  <2>4. S[u].aBlocks[p] \in 1..n /\ (S[u].aBlocks[p] = S[v].aBlocks[q] => u = v /\ p = q)
    BY <2>2, <2>3 DEF Apart
  <2>5. u = v => i = j
    BY <2>2, <2>3, RisingApart
  <2> QED BY <2>2, <2>3, <2>4, <2>5
<1>2. ASSUME NEW i, NEW b, Has(T, i, b) PROVE Has(S, i, b)
  BY <1>2 DEF Part, Has
<1>3. ASSUME NEW b, Owned(T, b) PROVE Owned(S, b)
  BY <1>3 DEF Part, Owned
<1> QED BY <1>1, <1>2, <1>3

(* S and T have the same entries, except for one stream.                   *)
Others(S, T, id) ==
  /\ \A m \in DOMAIN S : S[m].iId # id => \E i \in DOMAIN T : T[i] = S[m]
  /\ \A i \in DOMAIN T : T[i].iId # id => \E m \in DOMAIN S : S[m] = T[i]

(* What the header has of the other streams stays right.                   *)
LEMMA AgreesKept ==
  ASSUME NEW S, NEW T, NEW D, NEW id, NEW j, j # id, Others(S, T, id), Agrees(D, S, j)
  PROVE  Agrees(D, T, j)
<1>1. ASSUME NEW i \in DOMAIN D, D[i].iId = j PROVE \E m \in DOMAIN T : D[i] = Trim(T[m])
  <2>1. PICK m \in DOMAIN S : D[i] = Trim(S[m])
    BY <1>1 DEF Agrees
  <2>2. S[m].iId # id
    BY <1>1, <2>1 DEF Trim
  <2> QED BY <2>1, <2>2 DEF Others
<1>2. ASSUME NEW m \in DOMAIN T, T[m].iId = j PROVE \E i \in DOMAIN D : D[i].iId = j
  BY <1>2 DEF Others, Agrees
<1> QED BY <1>1, <1>2 DEF Agrees

(* Stream id comes, goes, or loses blocks and bytes at its end.            *)
EditOf(c, file, id, T, F, new) ==
  /\ c.pCurBlock[id].iBlockIndex = 0
  /\ T \in Seq(Stream) /\ Rising(T) /\ Room(T)
  /\ Part(T, c.aStreams) /\ Others(c.aStreams, T, id)
  /\ \A b \in F : b \in c.lFreeBlocks \/ (Has(c.aStreams, id, b) /\ ~Has(T, id, b))
  /\ new \in Files /\ \A j \in Ids : j # id => new[j] = file[j]
  /\ new[id] # None => \E i \in DOMAIN T : T[i].iId = id
  /\ \A i \in DOMAIN T : T[i].iId = id =>
       /\ new[id] \in Seq(Nat) /\ Len(new[id]) = T[i].iSize
       /\ \A q \in 1..T[i].iSize :
            new[id][q] = file[id][q] /\ \E m \in DOMAIN c.aStreams : c.aStreams[m].iId = id /\ q <= c.aStreams[m].iSize

(* As long as no block of it is in memory, memory stays sound.             *)
LEMMA EditKeeps ==
  ASSUME Parameters, NEW c \in CoreType, NEW file \in Files, Memory(c, file), NEW id \in Ids,
         NEW T, NEW F, NEW new, EditOf(c, file, id, T, F, new)
  PROVE  /\ Edits(c, Replaced(c, T, F, c.pCurBlock, c.sStore), id)
         /\ Replaced(c, T, F, c.pCurBlock, c.sStore).aStreams = T
         /\ Replaced(c, T, F, c.pCurBlock, c.sStore).pCurBlock = c.pCurBlock
         /\ Replaced(c, T, F, c.pCurBlock, c.sStore).sStore = c.sStore
         /\ Memory(Replaced(c, T, F, c.pCurBlock, c.sStore), new)
<1> DEFINE S == c.aStreams
           n == Len(c.sStore)
           D == c.sStore
           P == c.pCurBlock
           a == Replaced(c, T, F, P, D)
<1>1. /\ S \in Seq(Stream) /\ Rising(S) /\ Room(S) /\ Apart(S, n) /\ n \in Nat /\ FreeInv(S, c.lFreeBlocks, n)
      /\ HandleInv(S, P, D) /\ ContentInv(S, P, D, file) /\ D \in Seq(Data) /\ P \in [Ids -> Handle]
  BY CoreFields DEF Memory, Entries
<1>0. /\ T \in Seq(Stream) /\ Rising(T) /\ Room(T) /\ c.pCurBlock[id].iBlockIndex = 0
      /\ new \in Files /\ \A j \in Ids : j # id => new[j] = file[j]
  BY DEF EditOf
<1>14. new[id] # None => \E i \in DOMAIN T : T[i].iId = id
  BY DEF EditOf
<1>2. c.lFreeBlocks \subseteq 1..n /\ \A b \in F : b \in c.lFreeBlocks \/ (Has(S, id, b) /\ ~Has(T, id, b))
  BY <1>1 DEF FreeInv, EditOf
<1>3. \A i \in DOMAIN T : T[i].iId = id =>
           /\ new[id] \in Seq(Nat) /\ Len(new[id]) = T[i].iSize
           /\ \A q \in 1..T[i].iSize :
                new[id][q] = file[id][q] /\ \E m \in DOMAIN S : S[m].iId = id /\ q <= S[m].iSize
  BY DEF EditOf
<1>4. Part(T, S) /\ Others(S, T, id)
  BY DEF EditOf
<1> HIDE DEF D, P, S, n, a
<1>5. /\ Apart(T, n) /\ \A i, b : Has(T, i, b) => Has(S, i, b)
      /\ \A b : Owned(T, b) => Owned(S, b)
  BY <1>0, <1>1, <1>4, PartApart
<1>6. F \subseteq 1..n /\ F \in SUBSET Nat
  <2>1. \A b : Has(S, id, b) => b \in 1..n
    BY <1>1, HasApart
  <2>2. F \subseteq 1..n
    BY <1>2, <2>1
  <2> QED BY <1>1, <2>2
<1>7. /\ a \in CoreType
      /\ a.aStreams = T /\ a.lFreeBlocks = F
      /\ a.bHeaderChanged = TRUE /\ a.pCurBlock = P
      /\ a.sStore = D /\ a.entries = c.entries
      /\ a.header = c.header /\ a.buf = c.buf
      /\ a.at = c.at
  BY <1>0, <1>1, <1>6 DEF a, Replaced, CoreType
<1>8. Edits(c, a, id)
  BY <1>1, <1>7 DEF Edits, P, D, n
<1>9. FreeInv(T, F, n)
  <2>1. SUFFICES ASSUME NEW b \in F, Owned(T, b) PROVE FALSE
    BY <1>6 DEF FreeInv
  <2>2. PICK i \in DOMAIN T : \E q \in DOMAIN T[i].aBlocks : T[i].aBlocks[q] = b
    BY <2>1 DEF Owned
  <2>3. Has(T, T[i].iId, b) /\ Has(S, T[i].iId, b)
    <3>1. Has(T, T[i].iId, b)
      BY <2>2 DEF Has
    <3> QED BY <1>5, <3>1
  <2>4. Owned(S, b)
    BY <1>5, <2>1
  <2>5. CASE b \in c.lFreeBlocks
    BY <1>1, <2>4, <2>5 DEF FreeInv
  <2>6. CASE Has(S, id, b) /\ ~Has(T, id, b)
    BY <1>1, <2>3, <2>6, HasApart
  <2> QED BY <1>2, <2>5, <2>6
<1>10. HandleInv(T, P, D)
  <2>1. SUFFICES ASSUME NEW j \in Ids
        PROVE /\ P[j].iBlockIndex # 0 => Has(T, j, P[j].iBlockIndex)
              /\ P[j].bChanged => P[j].iBlockIndex # 0
              /\ P[j].iBlockIndex # 0 /\ ~P[j].bChanged => P[j].pData = D[P[j].iBlockIndex]
    BY DEF HandleInv
  <2>2. /\ P[j].iBlockIndex # 0 => Has(S, j, P[j].iBlockIndex)
        /\ P[j].bChanged => P[j].iBlockIndex # 0
        /\ P[j].iBlockIndex # 0 /\ ~P[j].bChanged => P[j].pData = D[P[j].iBlockIndex]
    BY <1>1 DEF HandleInv
  <2>3. CASE j = id
    BY <1>0, <2>2, <2>3 DEF P
  <2>4. CASE j # id
    <3>1. ASSUME NEW b, Has(S, j, b) PROVE Has(T, j, b)
      <4>1. PICK m \in DOMAIN S : S[m].iId = j /\ \E q \in DOMAIN S[m].aBlocks : S[m].aBlocks[q] = b
        BY <3>1 DEF Has
      <4>2. PICK i \in DOMAIN T : T[i] = S[m]
        BY <1>4, <2>4, <4>1 DEF Others
      <4> QED BY <4>1, <4>2 DEF Has
    <3> QED BY <2>2, <3>1
  <2> QED BY <2>3, <2>4
<1>11. ContentInv(T, P, D, new)
  <2>1. ASSUME NEW j \in Ids, new[j] # None PROVE \E i \in DOMAIN T : T[i].iId = j
    <3>1. CASE j = id
      BY <1>14, <2>1, <3>1
    <3>2. CASE j # id
      <4>1. PICK m \in DOMAIN S : S[m].iId = j
        BY <1>0, <1>1, <2>1, <3>2 DEF ContentInv
      <4>2. \E i \in DOMAIN T : T[i] = S[m]
        BY <1>4, <3>2, <4>1 DEF Others
      <4> QED BY <4>1, <4>2
    <3> QED BY <3>1, <3>2
  <2>2. ASSUME NEW i \in DOMAIN T
        PROVE  /\ new[T[i].iId] \in Seq(Nat) /\ Len(new[T[i].iId]) = T[i].iSize
               /\ \A q \in 1..T[i].iSize : new[T[i].iId][q] = Held(P, D, T[i].iId, T[i].aBlocks[At(q)])[Off(q)]
    <3>1. CASE T[i].iId = id
      <4>1. /\ new[id] \in Seq(Nat) /\ Len(new[id]) = T[i].iSize
            /\ \A q \in 1..T[i].iSize :
                 new[id][q] = file[id][q] /\ \E m \in DOMAIN S : S[m].iId = id /\ q <= S[m].iSize
        BY <1>3, <3>1
      <4>2. ASSUME NEW q \in 1..T[i].iSize PROVE new[id][q] = Held(P, D, id, T[i].aBlocks[At(q)])[Off(q)]
        <5>1. PICK m \in DOMAIN S : S[m].iId = id /\ q <= S[m].iSize
          BY <4>1
        <5>2. At(q) \in DOMAIN T[i].aBlocks
          BY <1>0, ByteInBlock
        <5>3. PICK u \in DOMAIN S : S[u].iId = id /\ S[u].aBlocks[At(q)] = T[i].aBlocks[At(q)]
          BY <1>4, <3>1, <5>2 DEF Part
        <5>4. u = m
          BY <1>1, <5>1, <5>3, RisingApart
        <5>5. q \in 1..S[m].iSize
          <6>1. S[m] \in Stream /\ q \in Nat \ {0}
            <7>1. T[i] \in Stream /\ S[m] \in Stream
              BY <1>0, <1>1
            <7>2. T[i].iSize \in Nat
              BY <7>1 DEF Stream
            <7> QED BY <7>1, <7>2
          <6> QED BY <5>1, <6>1 DEF Stream
        <5>6. file[id][q] = Held(P, D, id, S[m].aBlocks[At(q)])[Off(q)]
          BY <1>1, <5>1, <5>5 DEF ContentInv
        <5> QED BY <4>1, <5>3, <5>4, <5>6
      <4> QED BY <3>1, <4>1, <4>2
    <3>2. CASE T[i].iId # id
      <4>1. PICK m \in DOMAIN S : S[m] = T[i]
        BY <1>4, <3>2 DEF Others
      <4>2. new[T[i].iId] = file[T[i].iId]
        <5>1. T[i] \in Stream
          BY <1>0
        <5> QED BY <1>0, <3>2, <5>1 DEF Stream
      <4> QED BY <1>1, <4>1, <4>2 DEF ContentInv
    <3> QED BY <3>1, <3>2
  <2> QED BY <2>1, <2>2 DEF ContentInv
<1>12. Memory(a, new)
  BY <1>0, <1>5, <1>7, <1>9, <1>10, <1>11 DEF Memory, Entries, n, D
<1> QED BY <1>7, <1>8, <1>12 DEF a, P, D
-----------------------------------------------------------------------------
(* What Touched changes.                                                   *)
TouchedBy(a, b, at, id) ==
  /\ \A j \in Ids : j # id => b.file[j] = a.file[j]
  /\ b.synced = a.synced /\ b.touched = a.touched \cup {id} /\ b.missed = a.missed
  /\ b.during = (IF at = "out" THEN a.during ELSE a.during \cup {id})

LEMMA ApartGrows ==
  ASSUME NEW S, NEW m \in Nat, NEW n \in Nat, m <= n, Apart(S, m)
  PROVE  Apart(S, n)
<1>1. 1..m \subseteq 1..n
  OBVIOUS
<1> QED BY <1>1 DEF Apart

(* A call that changes one stream touches it: what the header has of the   *)
(* others stays right.                                                     *)
LEMMA EditSync ==
  ASSUME NEW c \in CoreType, NEW d, NEW id \in Ids, Edits(c, d, id), Others(c.aStreams, d.aStreams, id),
         TornAt(c) <=> TornAt(d), NEW a, NEW b, TouchedBy(a, b, c.at, id), DiskInv(c), SyncInv(c, a)
  PROVE  DiskInv(d) /\ SyncInv(d, b)
<1>1. d \in CoreType /\ Disk(d) = Disk(c) /\ d.at = c.at /\ d.bHeaderChanged = TRUE
  BY DEF Edits, Disk
<1>2. DiskInv(d)
  <2>1. Len(c.sStore) \in Nat /\ Len(d.sStore) \in Nat /\ Len(c.sStore) <= Len(d.sStore) /\ d.header = c.header
    BY <1>1, CoreFields DEF Edits
  <2> QED BY <1>1, <2>1, ApartGrows DEF DiskInv
<1>3. ASSUME NEW j \in Ids \ b.touched PROVE b.synced[j] = b.file[j] /\ ~d.pCurBlock[j].bChanged
  <2>1. j # id /\ j \in Ids \ a.touched
    BY DEF TouchedBy
  <2>2. d.pCurBlock[j] = c.pCurBlock[j] /\ b.synced = a.synced /\ b.file[j] = a.file[j]
    BY <2>1 DEF Edits, TouchedBy
  <2> QED BY <2>1, <2>2 DEF SyncInv
<1>4. ASSUME ~TornAt(d), NEW j \in Ids \ (b.touched \cup b.missed) PROVE Agrees(Disk(d), d.aStreams, j)
  <2>1. j # id /\ j \in Ids \ (a.touched \cup a.missed) /\ ~TornAt(c)
    BY <1>4 DEF TouchedBy
  <2>2. Agrees(Disk(c), c.aStreams, j)
    BY <2>1 DEF SyncInv
  <2> QED BY <1>1, <2>1, <2>2, AgreesKept
<1>5. ASSUME d.at = "blocks", NEW j \in Ids \ (b.during \cup b.missed) PROVE Agrees(Disk(d), d.aStreams, j)
  <2>1. c.at = "blocks" /\ c.at # "out"
    BY <1>1, <1>5
  <2>2. j # id /\ j \in Ids \ (a.during \cup a.missed)
    BY <2>1 DEF TouchedBy
  <2>3. Agrees(Disk(c), c.aStreams, j)
    BY <2>1, <2>2 DEF SyncInv
  <2> QED BY <1>1, <2>2, <2>3, AgreesKept
<1>6. b.during \subseteq b.touched
  <2>1. a.during \subseteq a.touched
    BY DEF SyncInv
  <2> QED BY <2>1 DEF TouchedBy
<1> QED BY <1>1, <1>2, <1>3, <1>4, <1>5, <1>6 DEF SyncInv

(* The state of the streams after a call that changes one.                 *)
LEMMA TouchedEffect ==
  ASSUME abs \in AbsType, NEW id \in Ids, NEW f \in Seq(Nat) \cup {None}
  PROVE  /\ Touched(id, f) \in AbsType /\ TouchedBy(abs, Touched(id, f), core.at, id)
         /\ Touched(id, f).file = [abs.file EXCEPT ![id] = f] /\ Touched(id, f).late = abs.late
<1> DEFINE D == IF core.at = "out" THEN abs.during ELSE abs.during \cup {id}
<1>1. D \in SUBSET Ids
  BY DEF AbsType
<1>2. Touched(id, f) = [abs EXCEPT !.changes = @ + 1, !.file[id] = f, !.touched = @ \cup {id}, !.during = D]
  BY DEF Touched, AbsType
<1> HIDE DEF D
<1>3. Touched(id, f) \in AbsType
  <2> DEFINE F == [abs.file EXCEPT ![id] = f]
             t == abs.touched \cup {id}
             n == abs.changes + 1
  <2>1. F \in Files /\ t \in SUBSET Ids /\ n \in Nat
    BY DEF AbsType, Files
  <2>2. Touched(id, f) = [abs EXCEPT !.changes = n, !.file = F, !.touched = t, !.during = D]
    BY <1>2
  <2> HIDE DEF F, t, n
  <2> QED BY <1>1, <2>1, <2>2 DEF AbsType
<1>4. /\ Touched(id, f).file = [abs.file EXCEPT ![id] = f] /\ Touched(id, f).late = abs.late
      /\ Touched(id, f).synced = abs.synced /\ Touched(id, f).touched = abs.touched \cup {id}
      /\ Touched(id, f).missed = abs.missed /\ Touched(id, f).during = D
  BY <1>2 DEF AbsType
<1>5. \A j \in Ids : j # id => [abs.file EXCEPT ![id] = f][j] = abs.file[j]
  BY DEF AbsType, Files
<1> QED BY <1>3, <1>4, <1>5 DEF TouchedBy, D
-----------------------------------------------------------------------------
(* A call that changes a stream while nobody holds mHeader.                *)
LEMMA EditStep ==
  ASSUME Parameters, IInv, mHeaderFree, NEW id \in Ids, NEW f \in Seq(Nat) \cup {None},
         Edits(core, core', id), Others(core.aStreams, core'.aStreams, id), abs' = Touched(id, f),
         Memory(core', [abs.file EXCEPT ![id] = f])
  PROVE  IInv'
<1>1. core \in CoreType /\ abs \in AbsType /\ DiskInv(core) /\ SyncInv(core, abs)
  BY DEF IInv, TypeOK
<1>2. /\ abs' \in AbsType /\ TouchedBy(abs, abs', core.at, id)
      /\ abs'.file = [abs.file EXCEPT ![id] = f]
  BY <1>1, TouchedEffect
<1>3. core' \in CoreType /\ core'.at = core.at /\ core.at \in {"out", "blocks"}
  BY DEF Edits, mHeaderFree
<1>4. ~TornAt(core) /\ ~TornAt(core')
  BY <1>3 DEF TornAt
<1>5. DiskInv(core') /\ SyncInv(core', abs')
  BY <1>1, <1>2, <1>4, EditSync
<1>6. PendInv(core', abs')
  BY <1>3 DEF PendInv
<1> QED BY <1>2, <1>3, <1>5, <1>6 DEF IInv, TypeOK

(* The handle of an unknown stream has no block.                           *)
LEMMA UnknownHandle ==
  ASSUME NEW c \in CoreType, NEW file, Memory(c, file), NEW id \in Ids, \A k \in DOMAIN c.aStreams : c.aStreams[k].iId # id
  PROVE  c.pCurBlock[id].iBlockIndex = 0
<1>1. ~Has(c.aStreams, id, c.pCurBlock[id].iBlockIndex)
  BY DEF Has
<1> QED BY <1>1 DEF Memory, HandleInv

LEMMA CreateStep ==
  ASSUME Parameters, IInv, createStream
  PROVE  IInv'
<1> DEFINE S == core.aStreams
           id == IF S = <<>> THEN 1 ELSE Last(S).iId + 1
           e == [iId |-> id, iSize |-> 0, aBlocks |-> <<>>]
           T == Append(S, e)
           P == core.pCurBlock
           D == core.sStore
           F == core.lFreeBlocks
           new == [abs.file EXCEPT ![id] = <<>>]
<1>1. /\ core \in CoreType /\ abs \in AbsType /\ Memory(core, abs.file) /\ mHeaderFree
      /\ S \in Seq(Stream) /\ Rising(S) /\ Room(S)
  BY CoreFields DEF IInv, TypeOK, createStream, Memory, Entries
<1>2. id \in Int /\ id <= MaxId /\ 1 <= id /\ \A k \in DOMAIN S : S[k].iId < id
  <2>1. CASE S = <<>>
    BY <2>1 DEF createStream
  <2>2. CASE S # <<>>
    <3>1. Len(S) \in Nat \ {0} /\ DOMAIN S = 1..Len(S) /\ S[Len(S)] \in Stream
      BY <1>1, <2>2
    <3>2. id = S[Len(S)].iId + 1 /\ id <= MaxId
      BY <2>2 DEF createStream, Last
    <3>3. S[Len(S)].iId \in 1..MaxId /\ MaxId \in Nat
      BY <3>1 DEF Stream, Ids, Parameters
    <3>4. ASSUME NEW k \in DOMAIN S PROVE S[k].iId < id
      <4>1. S[k] \in Stream /\ k \in 1..Len(S)
        BY <1>1, <3>1
      <4>2. S[k].iId \in 1..MaxId
        BY <4>1 DEF Stream, Ids
      <4>3. CASE k = Len(S)
        BY <3>2, <3>3, <4>3
      <4>4. CASE k # Len(S)
        <5>1. S[k].iId < S[Len(S)].iId
          BY <1>1, <3>1, <4>1, <4>4 DEF Rising
        <5> QED BY <3>2, <3>3, <4>2, <5>1
      <4> QED BY <4>3, <4>4
    <3> QED BY <3>2, <3>3, <3>4
  <2> QED BY <2>1, <2>2
<1>3. id \in Ids /\ \A k \in DOMAIN S : S[k].iId # id
  <2>1. MaxId \in Nat
    BY DEF Parameters
  <2>2. ASSUME NEW k \in DOMAIN S PROVE S[k].iId # id
    <3>1. S[k].iId < id /\ S[k] \in Stream
      BY <1>1, <1>2
    <3> HIDE DEF id, S
    <3> QED BY <1>2, <3>1
  <2> HIDE DEF id
  <2> QED BY <1>2, <2>1, <2>2 DEF Ids
<1>4. core' = Replaced(core, T, F, P, D)
  BY <1>1 DEF createStream, Replaced, CoreType
<1>5. abs' = Touched(id, <<>>)
  BY DEF createStream
<1>6. e \in Stream /\ e.iId = id /\ e.iSize = 0 /\ e.aBlocks = <<>>
  <2> HIDE DEF id
  <2> QED BY <1>3 DEF Stream
<1> HIDE DEF id, e, S
<1>7. /\ T \in Seq(Stream) /\ Len(T) = Len(S) + 1 /\ T[Len(S) + 1] = e
      /\ Len(S) \in Nat /\ DOMAIN S = 1..Len(S) /\ DOMAIN T = 1..(Len(S) + 1)
      /\ \A k \in DOMAIN S : T[k] = S[k]
  BY <1>1, <1>6
<1> HIDE DEF T
<1>8. \A i \in DOMAIN T : i = Len(S) + 1 \/ i \in DOMAIN S
  BY <1>7
<1>9. Rising(T)
  <2>1. SUFFICES ASSUME NEW i \in DOMAIN T, NEW j \in DOMAIN T, i < j PROVE T[i].iId < T[j].iId
    BY DEF Rising
  <2>2. i \in DOMAIN S
    BY <1>7, <2>1
  <2>3. CASE j \in DOMAIN S
    BY <1>1, <1>7, <2>1, <2>2, <2>3 DEF Rising
  <2>4. CASE j = Len(S) + 1
    BY <1>2, <1>6, <1>7, <2>2, <2>4
  <2> QED BY <1>8, <2>3, <2>4
<1>10. Room(T)
  <2>1. SUFFICES ASSUME NEW i \in DOMAIN T PROVE T[i].iSize <= Len(T[i].aBlocks) * iBlockSize
    BY DEF Room
  <2>2. CASE i \in DOMAIN S
    BY <1>1, <1>7, <2>2 DEF Room
  <2>3. CASE i = Len(S) + 1
    <3>1. Len(T[i].aBlocks) = 0 /\ T[i].iSize = 0 /\ iBlockSize \in Nat
      BY <1>6, <1>7, <2>3 DEF Parameters
    <3> QED BY <3>1
  <2> QED BY <1>8, <2>2, <2>3
<1>11. Part(T, S)
  <2>1. SUFFICES ASSUME NEW i \in DOMAIN T, NEW q \in DOMAIN T[i].aBlocks
        PROVE \E m \in DOMAIN S : S[m].iId = T[i].iId /\ q \in DOMAIN S[m].aBlocks /\ S[m].aBlocks[q] = T[i].aBlocks[q]
    BY DEF Part
  <2>2. i # Len(S) + 1
    <3>1. DOMAIN e.aBlocks = {}
      BY <1>6
    <3> QED BY <1>7, <3>1
  <2> QED BY <1>7, <1>8, <2>2
<1>12. Others(S, T, id)
  <2>1. \A m \in DOMAIN S : m \in DOMAIN T
    BY <1>7
  <2> QED BY <1>6, <1>7, <1>8, <2>1 DEF Others
<1>13. P[id].iBlockIndex = 0
  BY <1>1, <1>3, UnknownHandle DEF S
<1>14. /\ new \in Files /\ abs.file \in Files /\ new[id] = <<>> /\ \A j \in Ids : j # id => new[j] = abs.file[j]
       /\ <<>> \in Seq(Nat) \cup {None}
  <2>1. <<>> \in Seq(Nat)
    OBVIOUS
  <2> QED BY <1>1, <1>3, <2>1 DEF AbsType, Files
<1> HIDE DEF new
<1>15. ASSUME NEW i \in DOMAIN T, T[i].iId = id
       PROVE  /\ new[id] \in Seq(Nat) /\ Len(new[id]) = T[i].iSize /\ T[i].iSize = 0
  BY <1>3, <1>6, <1>7, <1>8, <1>14, <1>15
<1>16. new[id] # None => \E i \in DOMAIN T : T[i].iId = id
  BY <1>6, <1>7
<1>17. \A i \in DOMAIN T : T[i].iId = id =>
           /\ new[id] \in Seq(Nat) /\ Len(new[id]) = T[i].iSize
           /\ \A q \in 1..T[i].iSize :
                new[id][q] = abs.file[id][q] /\ \E m \in DOMAIN core.aStreams : core.aStreams[m].iId = id /\ q <= core.aStreams[m].iSize
  BY <1>15
<1>18. EditOf(core, abs.file, id, T, F, new)
  <2>1. \A b \in F : b \in core.lFreeBlocks \/ (Has(core.aStreams, id, b) /\ ~Has(T, id, b))
    OBVIOUS
  <2> HIDE DEF F
  <2> QED BY <1>7, <1>9, <1>10, <1>11, <1>12, <1>13, <1>14, <1>16, <1>17, <2>1 DEF EditOf, S
<1>19. /\ Edits(core, core', id) /\ core'.aStreams = T /\ Memory(core', new)
  <2> HIDE DEF F
  <2> QED BY <1>1, <1>3, <1>4, <1>14, <1>18, EditKeeps
<1> QED BY <1>1, <1>3, <1>5, <1>12, <1>14, <1>19, EditStep DEF S, new
-----------------------------------------------------------------------------
LEMMA MinOfTwo ==
  ASSUME NEW x \in Nat, NEW y \in Nat
  PROVE  /\ Min({x, y}) \in {x, y} /\ Min({x, y}) <= x /\ Min({x, y}) <= y
<1>1. \E m \in {x, y} : \A z \in {x, y} : m =< z
  OBVIOUS
<1>2. Min({x, y}) \in {x, y} /\ \A z \in {x, y} : Min({x, y}) =< z
  BY <1>1 DEF Min
<1> QED BY <1>2

(* The block a size ends in has room for it.                               *)
LEMMA BelowNext ==
  ASSUME NEW z \in Nat, NEW b \in Nat \ {0}
  PROVE  z \div b \in Nat /\ z <= ((z \div b) + 1) * b
<1> DEFINE q == z \div b
           r == z % b
<1>1. q \in Nat /\ r \in 0..(b - 1) /\ z = b * q + r
  BY DivMod
<1> HIDE DEF q, r
<1>2. q * b + b <= (q + 1) * b /\ q * b \in Nat /\ (q + 1) * b \in Nat
  BY <1>1, MulStep, MulNat
<1>3. b * q = q * b
  BY <1>1
<1>4. r <= b /\ r \in Nat
  BY <1>1
<1>5. z <= (q + 1) * b
  <2> DEFINE x == q * b
             y == (q + 1) * b
  <2>1. x \in Nat /\ y \in Nat /\ x + b <= y /\ z = x + r
    BY <1>1, <1>2, <1>3
  <2> HIDE DEF x, y
  <2>2. z <= y
    BY <1>4, <2>1
  <2> QED BY <2>2 DEF y
<1> QED BY <1>1, <1>5 DEF q

(* The entry of a stream that lost blocks and bytes at its end.            *)
Shorter(S, k, m, z) == [S EXCEPT ![k].aBlocks = SubSeq(@, 1, m), ![k].iSize = z]

LEMMA Prefix ==
  ASSUME NEW B \in Seq(Nat), NEW m \in 0..Len(B)
  PROVE  /\ SubSeq(B, 1, m) \in Seq(Nat) /\ Len(SubSeq(B, 1, m)) = m /\ DOMAIN SubSeq(B, 1, m) = 1..m
         /\ \A q \in 1..m : SubSeq(B, 1, m)[q] = B[q]
  OBVIOUS

LEMMA ShorterShape ==
  ASSUME NEW S \in Seq(Stream), NEW k \in DOMAIN S, NEW m \in 0..Len(S[k].aBlocks), NEW z \in Nat
  PROVE  /\ Shorter(S, k, m, z) \in Seq(Stream) /\ DOMAIN Shorter(S, k, m, z) = DOMAIN S
         /\ \A i \in DOMAIN S : i # k => Shorter(S, k, m, z)[i] = S[i]
         /\ Shorter(S, k, m, z)[k].iId = S[k].iId /\ Shorter(S, k, m, z)[k].iSize = z
         /\ Shorter(S, k, m, z)[k].aBlocks = SubSeq(S[k].aBlocks, 1, m)
<1> DEFINE B == SubSeq(S[k].aBlocks, 1, m)
           d == [S[k] EXCEPT !.aBlocks = B]
           e == [d EXCEPT !.iSize = z]
<1>1. S[k] \in Stream /\ k \in 1..Len(S)
  OBVIOUS
<1>2. B \in Seq(Nat)
  <2>1. S[k].aBlocks \in Seq(Nat)
    BY <1>1 DEF Stream
  <2> QED BY <2>1, Prefix
<1>3. Shorter(S, k, m, z) = [S EXCEPT ![k] = e]
  BY DEF Shorter
<1> HIDE DEF B
<1>4. d \in Stream /\ d.iId = S[k].iId /\ d.aBlocks = B
  BY <1>1, <1>2, StreamReblocked
<1> HIDE DEF d
<1>5. e \in Stream /\ e.iId = S[k].iId /\ e.aBlocks = B /\ e.iSize = z
  BY <1>4, StreamResized
<1> HIDE DEF e
<1>6. /\ [S EXCEPT ![k] = e] \in Seq(Stream) /\ DOMAIN [S EXCEPT ![k] = e] = DOMAIN S
  BY <1>1, <1>5, ExceptSeq
<1>7. \A i \in DOMAIN S : [S EXCEPT ![k] = e][i] = IF i = k THEN e ELSE S[i]
  OBVIOUS
<1> QED BY <1>3, <1>5, <1>6, <1>7 DEF B

(* The call that takes blocks away works on a stream whose handle was      *)
(* released.                                                               *)
LEMMA ReleasedEdit ==
  ASSUME Parameters, IInv, mHeaderFree, NEW id \in Ids, NEW f \in Seq(Nat) \cup {None}, NEW T, NEW F,
         core' = Replaced(releaseBlock(core, id), T, F, releaseBlock(core, id).pCurBlock, releaseBlock(core, id).sStore),
         EditOf(releaseBlock(core, id), abs.file, id, T, F, [abs.file EXCEPT ![id] = f]),
         abs' = Touched(id, f)
  PROVE  IInv'
<1> DEFINE c == releaseBlock(core, id)
           new == [abs.file EXCEPT ![id] = f]
<1>1. core \in CoreType /\ abs \in AbsType /\ Memory(core, abs.file) /\ abs.file \in Files
  BY DEF IInv, TypeOK, AbsType
<1>2. Steady(core, c, id) /\ Memory(c, abs.file)
  BY <1>1, ReleaseKeeps
<1>3. EditOf(c, abs.file, id, T, F, new) /\ core' = Replaced(c, T, F, c.pCurBlock, c.sStore)
  OBVIOUS
<1> HIDE DEF c, new
<1>4. c \in CoreType /\ c.aStreams = core.aStreams
  BY <1>2 DEF Steady
<1>5. Edits(c, core', id) /\ core'.aStreams = T /\ Memory(core', new)
  BY <1>1, <1>2, <1>3, <1>4, EditKeeps
<1>6. Edits(core, core', id)
  BY <1>2, <1>5 DEF Steady, Edits
<1>7. Others(core.aStreams, core'.aStreams, id)
  BY <1>3, <1>4, <1>5 DEF EditOf
<1> QED BY <1>5, <1>6, <1>7, EditStep DEF new

LEMMA SetSizeStep ==
  ASSUME Parameters, IInv, setSize
  PROVE  IInv'
<1>1. /\ core \in CoreType /\ abs \in AbsType /\ Memory(core, abs.file) /\ mHeaderFree
      /\ abs.file \in Files
  BY DEF IInv, TypeOK, setSize, AbsType
<1>2. PICK id \in Known(core) :
        LET c == releaseBlock(core, id)
            k == Index(c, id)
        IN  \E iSize \in 0..c.aStreams[k].iSize - 1 :
              /\ core' = Cut(c, k, iSize)
              /\ abs' = Touched(id, SubSeq(abs.file[id], 1, iSize))
  BY DEF setSize
<1> DEFINE c == releaseBlock(core, id)
           S == c.aStreams
           k == Index(c, id)
<1>3. PICK iSize \in 0..S[k].iSize - 1 : core' = Cut(c, k, iSize) /\ abs' = Touched(id, SubSeq(abs.file[id], 1, iSize))
  BY <1>2
<1>4. id \in Ids /\ core.aStreams \in Seq(Stream) /\ Rising(core.aStreams)
  <2>1. core.aStreams \in Seq(Stream) /\ Rising(core.aStreams)
    BY <1>1, CoreFields DEF Memory, Entries
  <2>2. PICK m \in DOMAIN core.aStreams : core.aStreams[m].iId = id
    BY DEF Known
  <2>3. core.aStreams[m] \in Stream
    BY <2>1
  <2> QED BY <2>1, <2>2, <2>3 DEF Stream
<1>5. Steady(core, c, id) /\ Memory(c, abs.file) /\ c.pCurBlock[id] = NoBlock
  BY <1>1, <1>4, ReleaseKeeps
<1> DEFINE B == S[k].aBlocks
           n == Min({Len(B), (iSize \div iBlockSize) + 1})
           T == Shorter(S, k, n, iSize)
           F == c.lFreeBlocks \cup Range(SubSeq(B, n + 1, Len(B)))
           f == SubSeq(abs.file[id], 1, iSize)
           new == [abs.file EXCEPT ![id] = f]
<1>6. core' = [c EXCEPT !.lFreeBlocks = F, !.aStreams[k].aBlocks = SubSeq(@, 1, n), !.aStreams[k].iSize = iSize, !.bHeaderChanged = TRUE]
  BY <1>3 DEF Cut
<1> HIDE DEF c, n, f, new
<1>7. /\ c \in CoreType /\ S = core.aStreams /\ S \in Seq(Stream) /\ Rising(S) /\ Room(S) /\ Apart(S, Len(c.sStore))
      /\ ContentInv(S, c.pCurBlock, c.sStore, abs.file) /\ c.lFreeBlocks \subseteq Nat
  BY <1>4, <1>5, CoreFields DEF Steady, Memory, Entries
<1>8. k \in DOMAIN S /\ S[k].iId = id /\ \A m \in DOMAIN S : S[m].iId = id => m = k
  <2>1. id \in Known(c)
    BY <1>7 DEF Known
  <2> QED BY <1>7, <2>1, IndexOf
<1>9. core' = Replaced(c, T, F, c.pCurBlock, c.sStore)
  <2>1. T = [S EXCEPT ![k].aBlocks = SubSeq(@, 1, n), ![k].iSize = iSize]
    BY DEF Shorter
  <2>2. core' = [c EXCEPT !.lFreeBlocks = F, !.aStreams = T, !.bHeaderChanged = TRUE]
    BY <1>6, <1>7, <2>1
  <2> HIDE DEF T, F
  <2> QED BY <1>7, <2>2 DEF Replaced, CoreType
<1> HIDE DEF S, k, F, T
<1>10. S[k] \in Stream /\ B \in Seq(Nat) /\ S[k].iSize \in Nat /\ iSize \in Nat /\ iSize < S[k].iSize /\ Len(B) \in Nat /\ DOMAIN B = 1..Len(B)
  <2>1. S[k] \in Stream
    BY <1>7, <1>8
  <2>2. B \in Seq(Nat) /\ S[k].iSize \in Nat
    BY <2>1 DEF Stream
  <2> HIDE DEF B
  <2> QED BY <1>3, <2>1, <2>2 DEF S, k
<1>11. n \in 0..Len(B) /\ iSize <= n * iBlockSize
  <2> DEFINE q == iSize \div iBlockSize
             l == Len(B)
  <2>1. q \in Nat /\ iSize <= (q + 1) * iBlockSize
    BY <1>10, BelowNext DEF Parameters
  <2>2. S[k].iSize <= l * iBlockSize
    BY <1>7, <1>8 DEF Room
  <2>3. l \in Nat /\ n = Min({l, q + 1})
    BY <1>10 DEF n
  <2> HIDE DEF q, l
  <2>4. q + 1 \in Nat
    BY <2>1
  <2>5. n \in {l, q + 1} /\ n <= l
    BY <2>3, <2>4, MinOfTwo
  <2>6. n \in 0..l
    BY <2>3, <2>4, <2>5
  <2>7. iSize <= l * iBlockSize
    <3> DEFINE x == l * iBlockSize
    <3>1. x \in Nat /\ S[k].iSize <= x
      BY <2>2, <2>3, MulNat DEF Parameters
    <3> HIDE DEF x
    <3>2. iSize <= x
      BY <1>10, <3>1
    <3> QED BY <3>2 DEF x
  <2> QED BY <2>1, <2>5, <2>6, <2>7 DEF l
<1>12. /\ T \in Seq(Stream) /\ DOMAIN T = DOMAIN S
       /\ \A i \in DOMAIN S : i # k => T[i] = S[i]
       /\ T[k].iId = id /\ T[k].iSize = iSize /\ T[k].aBlocks = SubSeq(B, 1, n)
  <2>1. n \in 0..Len(S[k].aBlocks) /\ iSize \in Nat
    BY <1>10, <1>11
  <2> QED BY <1>7, <1>8, <2>1, ShorterShape DEF T
<1>13. /\ DOMAIN T[k].aBlocks = 1..n /\ Len(T[k].aBlocks) = n /\ \A q \in 1..n : q \in DOMAIN B /\ T[k].aBlocks[q] = B[q]
  <2> HIDE DEF B
  <2>1. DOMAIN SubSeq(B, 1, n) = 1..n /\ Len(SubSeq(B, 1, n)) = n /\ \A q \in 1..n : SubSeq(B, 1, n)[q] = B[q]
    BY <1>10, <1>11, Prefix
  <2>2. 1..n \subseteq DOMAIN B
    BY <1>10, <1>11
  <2> QED BY <1>12, <2>1, <2>2
<1>14. Rising(T)
  BY <1>7, <1>8, <1>12 DEF Rising
<1>15. Room(T)
  <2>1. SUFFICES ASSUME NEW i \in DOMAIN S PROVE T[i].iSize <= Len(T[i].aBlocks) * iBlockSize
    BY <1>12 DEF Room
  <2>2. CASE i = k
    BY <1>11, <1>12, <1>13, <2>2
  <2>3. CASE i # k
    BY <1>7, <1>12, <2>3 DEF Room
  <2> QED BY <2>2, <2>3
<1>16. Part(T, S)
  <2>1. SUFFICES ASSUME NEW i \in DOMAIN S, NEW q \in DOMAIN T[i].aBlocks
        PROVE S[i].iId = T[i].iId /\ q \in DOMAIN S[i].aBlocks /\ S[i].aBlocks[q] = T[i].aBlocks[q]
    BY <1>12 DEF Part
  <2>2. CASE i = k
    BY <1>8, <1>12, <1>13, <2>2
  <2>3. CASE i # k
    BY <1>12, <2>3
  <2> QED BY <2>2, <2>3
<1>17. Others(S, T, id)
  BY <1>8, <1>12 DEF Others
<1>18. \A b \in F : b \in c.lFreeBlocks \/ (Has(S, id, b) /\ ~Has(T, id, b))
  <2>1. SUFFICES ASSUME NEW b, b \in Range(SubSeq(B, n + 1, Len(B))) PROVE Has(S, id, b) /\ ~Has(T, id, b)
    BY DEF F
  <2> HIDE DEF B
  <2>2. PICK i \in DOMAIN SubSeq(B, n + 1, Len(B)) : b = SubSeq(B, n + 1, Len(B))[i]
    BY <2>1 DEF Range
  <2>3. i \in Nat \ {0} /\ n + i \in DOMAIN B /\ b = B[n + i]
    <3> DEFINE l == Len(B)
               C == SubSeq(B, n + 1, l)
    <3>1. n \in Nat /\ l \in Nat /\ n <= l /\ DOMAIN B = 1..l
      BY <1>10, <1>11
    <3>2. \A j \in n + 1..l : B[j] \in Nat
      BY <1>10, <3>1
    <3> HIDE DEF l, n
    <3>3. /\ C \in Seq(Nat) /\ Len(C) = (IF n + 1 <= l THEN l - (n + 1) + 1 ELSE 0)
          /\ \A j \in 1..l - (n + 1) + 1 : C[j] = B[n + 1 + j - 1]
      BY <3>1, <3>2, SubSeqProperties
    <3>4. DOMAIN C = 1..Len(C) /\ i \in DOMAIN C /\ b = C[i]
      BY <2>2, <3>3 DEF l
    <3> HIDE DEF C
    <3>5. i \in 1..l - n
      BY <3>1, <3>3, <3>4
    <3>6. i \in Nat \ {0} /\ n + i \in 1..l /\ n + 1 + i - 1 = n + i
      BY <3>1, <3>5
    <3>7. i \in 1..l - (n + 1) + 1
      BY <3>1, <3>5
    <3>8. C[i] = B[n + 1 + i - 1]
      BY <3>3, <3>7
    <3> QED BY <3>1, <3>4, <3>6, <3>8
  <2>4. Has(S, id, b)
    BY <1>8, <2>3 DEF Has, B
  <2>5. SUFFICES ASSUME Has(T, id, b) PROVE FALSE
    BY <2>4
  <2>6. PICK m \in DOMAIN T : T[m].iId = id /\ \E q \in DOMAIN T[m].aBlocks : T[m].aBlocks[q] = b
    BY <2>5 DEF Has
  <2>7. m = k
    BY <1>8, <1>12, <2>6
  <2>8. PICK q \in 1..n : B[q] = b /\ q \in DOMAIN B
    BY <1>13, <2>6, <2>7
  <2>9. q = n + i
    BY <1>7, <1>8, <2>3, <2>8 DEF Apart, B
  <2> QED BY <1>10, <1>11, <2>3, <2>8, <2>9
<1>19. /\ abs.file[id] \in Seq(Nat) /\ Len(abs.file[id]) = S[k].iSize
  BY <1>7, <1>8 DEF ContentInv
<1>20. f \in Seq(Nat) /\ Len(f) = iSize /\ \A q \in 1..iSize : f[q] = abs.file[id][q]
  <2> DEFINE g == abs.file[id]
  <2>1. g \in Seq(Nat) /\ Len(g) = S[k].iSize /\ f = SubSeq(g, 1, iSize)
    BY <1>19 DEF f
  <2> HIDE DEF g
  <2>2. iSize \in 0..Len(g)
    BY <1>10, <2>1
  <2>3. f \in Seq(Nat) /\ Len(f) = iSize /\ \A q \in 1..iSize : f[q] = g[q]
    BY <2>1, <2>2, Prefix
  <2> QED BY <2>3 DEF g
<1>21. new \in Files /\ new[id] = f /\ \A j \in Ids : j # id => new[j] = abs.file[j]
  BY <1>1, <1>4, <1>20 DEF Files, new
<1>22. \A i \in DOMAIN T : T[i].iId = id =>
           /\ new[id] \in Seq(Nat) /\ Len(new[id]) = T[i].iSize
           /\ \A q \in 1..T[i].iSize : new[id][q] = abs.file[id][q] /\ \E m \in DOMAIN S : S[m].iId = id /\ q <= S[m].iSize
  <2>1. SUFFICES ASSUME NEW q \in 1..iSize PROVE new[id][q] = abs.file[id][q] /\ q <= S[k].iSize
    BY <1>8, <1>12, <1>20, <1>21
  <2>2. q <= S[k].iSize
    BY <1>10
  <2> QED BY <1>20, <1>21, <2>2
<1>23. EditOf(c, abs.file, id, T, F, new)
  <2>1. c.pCurBlock[id].iBlockIndex = 0
    BY <1>5, NoBlockIsHandle
  <2>2. new[id] # None => \E i \in DOMAIN T : T[i].iId = id
    BY <1>8, <1>12
  <2> QED BY <1>12, <1>14, <1>15, <1>16, <1>17, <1>18, <1>21, <1>22, <2>1, <2>2 DEF EditOf, S
<1>24. abs' = Touched(id, f)
  BY <1>3 DEF f
<1>25. f \in Seq(Nat) \cup {None} /\ id \in Ids /\ mHeaderFree
  BY <1>1, <1>4, <1>20
<1> QED BY <1>9, <1>23, <1>24, <1>25, ReleasedEdit DEF c, new
-----------------------------------------------------------------------------
(* The entries without one of them.                                        *)
LEMMA RemovedShape ==
  ASSUME NEW S \in Seq(Stream), NEW k \in 1..Len(S)
  PROVE  /\ RemoveAt(S, k) \in Seq(Stream) /\ Len(RemoveAt(S, k)) = Len(S) - 1
         /\ \A i \in 1..Len(S) - 1 : i < k => RemoveAt(S, k)[i] = S[i]
         /\ \A i \in 1..Len(S) - 1 : i >= k => RemoveAt(S, k)[i] = S[i + 1]
<1> DEFINE A == SubSeq(S, 1, k - 1)
           B == SubSeq(S, k + 1, Len(S))
<1>1. A \in Seq(Stream) /\ Len(A) = k - 1 /\ \A i \in 1..k - 1 : A[i] = S[i]
  OBVIOUS
<1>2. B \in Seq(Stream) /\ Len(B) = Len(S) - k /\ \A i \in 1..Len(S) - k : B[i] = S[k + i]
  OBVIOUS
<1>3. RemoveAt(S, k) = A \o B
  BY DEF RemoveAt
<1> HIDE DEF A, B
<1>4. Len(S) \in Nat /\ k \in Nat
  OBVIOUS
<1>5. A \o B \in Seq(Stream) /\ Len(A \o B) = Len(S) - 1
  <2>1. A \o B \in Seq(Stream) /\ Len(A \o B) = Len(A) + Len(B)
    BY <1>1, <1>2, ConcatProperties
  <2> QED BY <1>1, <1>2, <1>4, <2>1
<1>6. ASSUME NEW i \in 1..Len(S) - 1 PROVE (i < k => (A \o B)[i] = S[i]) /\ (i >= k => (A \o B)[i] = S[i + 1])
  <2>1. (A \o B)[i] = IF i <= Len(A) THEN A[i] ELSE B[i - Len(A)]
    BY <1>1, <1>2, <1>4, ConcatProperties
  <2>2. CASE i < k
    BY <1>1, <1>4, <2>1, <2>2
  <2>3. CASE i >= k
    <3> DEFINE j == i - Len(A)
    <3>1. j \in 1..Len(S) - k /\ ~(i <= Len(A)) /\ k + j = i + 1
      BY <1>1, <1>4, <2>3
    <3>2. (A \o B)[i] = B[j]
      BY <2>1, <3>1
    <3> HIDE DEF j
    <3>3. B[j] = S[k + j]
      BY <1>2, <3>1
    <3>4. ~(i < k)
      BY <1>4, <2>3
    <3> QED BY <3>1, <3>2, <3>3, <3>4
  <2> QED BY <1>4, <2>2, <2>3
<1> QED BY <1>3, <1>5, <1>6

LEMMA DeleteStep ==
  ASSUME Parameters, IInv, deleteStream
  PROVE  IInv'
<1>1. /\ core \in CoreType /\ abs \in AbsType /\ Memory(core, abs.file) /\ mHeaderFree
      /\ abs.file \in Files
  BY DEF IInv, TypeOK, deleteStream, AbsType
<1>2. PICK id \in Known(core) :
        LET c == releaseBlock(core, id)
            k == Index(c, id)
        IN  /\ core' = [c EXCEPT !.lFreeBlocks = @ \cup Range(c.aStreams[k].aBlocks), !.aStreams = RemoveAt(@, k), !.bHeaderChanged = TRUE]
            /\ abs' = Touched(id, None)
  BY DEF deleteStream
<1> DEFINE c == releaseBlock(core, id)
           S == c.aStreams
           k == Index(c, id)
           T == RemoveAt(S, k)
           F == c.lFreeBlocks \cup Range(S[k].aBlocks)
           new == [abs.file EXCEPT ![id] = None]
<1>3. /\ core' = [c EXCEPT !.lFreeBlocks = F, !.aStreams = T, !.bHeaderChanged = TRUE]
      /\ abs' = Touched(id, None)
  BY <1>2
<1>4. id \in Ids /\ core.aStreams \in Seq(Stream) /\ Rising(core.aStreams)
  <2>1. core.aStreams \in Seq(Stream) /\ Rising(core.aStreams)
    BY <1>1, CoreFields DEF Memory, Entries
  <2>2. PICK m \in DOMAIN core.aStreams : core.aStreams[m].iId = id
    BY DEF Known
  <2>3. core.aStreams[m] \in Stream
    BY <2>1
  <2> QED BY <2>1, <2>2, <2>3 DEF Stream
<1>5. Steady(core, c, id) /\ Memory(c, abs.file) /\ c.pCurBlock[id] = NoBlock
  BY <1>1, <1>4, ReleaseKeeps
<1> HIDE DEF c, T, F, new
<1>6. /\ c \in CoreType /\ S = core.aStreams /\ S \in Seq(Stream) /\ Rising(S) /\ Room(S)
  BY <1>4, <1>5, CoreFields DEF Steady, Memory, Entries
<1>7. k \in DOMAIN S /\ S[k].iId = id /\ \A m \in DOMAIN S : S[m].iId = id => m = k
  <2>1. id \in Known(c)
    BY <1>6 DEF Known
  <2> QED BY <1>6, <2>1, IndexOf
<1>8. core' = Replaced(c, T, F, c.pCurBlock, c.sStore)
  BY <1>3, <1>6 DEF Replaced, CoreType
<1> HIDE DEF S, k
<1>9. Len(S) \in Nat /\ DOMAIN S = 1..Len(S) /\ k \in 1..Len(S)
  BY <1>6, <1>7
<1>10. /\ T \in Seq(Stream) /\ DOMAIN T = 1..Len(S) - 1
       /\ \A i \in DOMAIN T : i < k => T[i] = S[i]
       /\ \A i \in DOMAIN T : i >= k => T[i] = S[i + 1]
  <2>1. /\ T \in Seq(Stream) /\ Len(T) = Len(S) - 1
        /\ \A i \in 1..Len(S) - 1 : i < k => T[i] = S[i]
        /\ \A i \in 1..Len(S) - 1 : i >= k => T[i] = S[i + 1]
    BY <1>6, <1>9, RemovedShape DEF T
  <2> QED BY <2>1
<1>11. ASSUME NEW i \in DOMAIN T PROVE \E m \in DOMAIN S : m # k /\ T[i] = S[m]
  <2>1. CASE i < k
    BY <1>9, <1>10, <2>1
  <2>2. CASE i >= k
    <3>1. i + 1 \in DOMAIN S /\ i + 1 # k
      BY <1>9, <1>10, <2>2
    <3> QED BY <1>10, <2>2, <3>1
  <2> QED BY <1>9, <1>10, <2>1, <2>2
<1>12. ASSUME NEW m \in DOMAIN S, m # k PROVE \E i \in DOMAIN T : T[i] = S[m]
  <2>1. CASE m < k
    <3>1. m \in DOMAIN T
      BY <1>9, <1>10, <2>1
    <3> QED BY <1>10, <2>1, <3>1
  <2>2. CASE m > k
    <3>1. m - 1 \in DOMAIN T /\ m - 1 >= k /\ (m - 1) + 1 = m
      BY <1>9, <1>10, <2>2
    <3> QED BY <1>10, <3>1
  <2> QED BY <1>9, <1>12, <2>1, <2>2
<1>13. Rising(T)
  <2>1. SUFFICES ASSUME NEW i \in DOMAIN T, NEW j \in DOMAIN T, i < j PROVE T[i].iId < T[j].iId
    BY DEF Rising
  <2>2. CASE j < k
    BY <1>6, <1>9, <1>10, <2>1, <2>2 DEF Rising
  <2>3. CASE i < k /\ j >= k
    <3>1. i \in DOMAIN S /\ j + 1 \in DOMAIN S /\ i < j + 1
      BY <1>9, <1>10, <2>1
    <3> QED BY <1>6, <1>10, <2>3, <3>1 DEF Rising
  <2>4. CASE i >= k
    <3>1. i + 1 \in DOMAIN S /\ j + 1 \in DOMAIN S /\ i + 1 < j + 1 /\ j >= k
      BY <1>9, <1>10, <2>1, <2>4
    <3> QED BY <1>6, <1>10, <2>4, <3>1 DEF Rising
  <2> QED BY <1>9, <1>10, <2>1, <2>2, <2>3, <2>4
<1>14. Room(T)
  BY <1>6, <1>11 DEF Room
<1>15. Part(T, S)
  <2>1. SUFFICES ASSUME NEW i \in DOMAIN T, NEW q \in DOMAIN T[i].aBlocks
        PROVE \E m \in DOMAIN S : S[m].iId = T[i].iId /\ q \in DOMAIN S[m].aBlocks /\ S[m].aBlocks[q] = T[i].aBlocks[q]
    BY DEF Part
  <2> QED BY <1>11
<1>16. \A i \in DOMAIN T : T[i].iId # id
  BY <1>7, <1>11
<1>17. Others(S, T, id)
  BY <1>7, <1>11, <1>12 DEF Others
<1>18. \A b \in F : b \in c.lFreeBlocks \/ (Has(S, id, b) /\ ~Has(T, id, b))
  <2>1. SUFFICES ASSUME NEW b, b \in Range(S[k].aBlocks) PROVE Has(S, id, b) /\ ~Has(T, id, b)
    BY DEF F
  <2>2. Has(S, id, b)
    BY <1>7, <2>1 DEF Has, Range
  <2>3. ~Has(T, id, b)
    BY <1>16 DEF Has
  <2> QED BY <2>2, <2>3
<1>19. new \in Files /\ new[id] = None /\ \A j \in Ids : j # id => new[j] = abs.file[j]
  BY <1>1, <1>4 DEF Files, new
<1>20. EditOf(c, abs.file, id, T, F, new)
  <2>1. c.pCurBlock[id].iBlockIndex = 0
    BY <1>5, NoBlockIsHandle
  <2> QED BY <1>10, <1>13, <1>14, <1>15, <1>16, <1>17, <1>18, <1>19, <2>1 DEF EditOf, S
<1>21. None \in Seq(Nat) \cup {None} /\ id \in Ids /\ mHeaderFree
  BY <1>1, <1>4
<1> QED BY <1>3, <1>8, <1>20, <1>21, ReleasedEdit DEF c, new
-----------------------------------------------------------------------------
(* A byte is behind the end of stream id, for which a block may have come. *)
WroteTo(c, d, id) ==
  LET k == Index(c, id)
  IN  /\ Edits(c, d, id) /\ d.aStreams \in Seq(Stream) /\ Len(d.aStreams) = Len(c.aStreams)
      /\ \A m \in DOMAIN c.aStreams : m # k => d.aStreams[m] = c.aStreams[m]
      /\ d.aStreams[k].iId = id /\ d.aStreams[k].iSize = c.aStreams[k].iSize + 1
      /\ c.at \notin {"out", "blocks"} => d.aStreams[k].aBlocks = c.aStreams[k].aBlocks

LEMMA WrittenInBlock ==
  ASSUME Parameters, NEW c \in CoreType, NEW file \in Files, Memory(c, file), NEW id \in Ids, id \in Known(c),
         c.aStreams[Index(c, id)].iSize # Len(c.aStreams[Index(c, id)].aBlocks) * iBlockSize
  PROVE  /\ WroteTo(c, Written(c, id), id) /\ Memory(Written(c, id), [file EXCEPT ![id] = Append(file[id], id)])
<1> DEFINE S == c.aStreams
           k == Index(c, id)
           T == Grown(S, k)
<1>1. S \in Seq(Stream) /\ Rising(S) /\ Room(S)
  BY CoreFields DEF Memory, Entries
<1>2. k \in DOMAIN S /\ S[k].iId = id
  BY <1>1, IndexOf
<1>3. S[k].iSize < Len(S[k].aBlocks) * iBlockSize
  <2> DEFINE x == Len(S[k].aBlocks) * iBlockSize
  <2>1. S[k].iSize <= x /\ S[k].iSize # x
    BY <1>1, <1>2 DEF Room
  <2>2. S[k].iSize \in Nat /\ Len(S[k].aBlocks) \in Nat
    <3>1. S[k] \in Stream
      BY <1>1, <1>2
    <3> QED BY <3>1 DEF Stream
  <2>3. x \in Nat
    BY <2>2, MulNat DEF Parameters
  <2> HIDE DEF x, S, k
  <2>4. S[k].iSize < x
    BY <2>1, <2>2, <2>3
  <2> QED BY <2>4 DEF x
<1>4. /\ Edits(c, Written(c, id), id) /\ Written(c, id).aStreams = T
      /\ Memory(Written(c, id), [file EXCEPT ![id] = Append(file[id], id)])
  BY <1>3, WrittenKeeps
<1>5. /\ T \in Seq(Stream) /\ Len(T) = Len(S)
      /\ \A i \in DOMAIN S : T[i].iId = S[i].iId /\ T[i].aBlocks = S[i].aBlocks
      /\ \A i \in DOMAIN S : i # k => T[i] = S[i]
      /\ T[k].iSize = S[k].iSize + 1
  BY <1>1, <1>2, GrownShape
<1> HIDE DEF T
<1>6. WroteTo(c, Written(c, id), id)
  BY <1>2, <1>4, <1>5 DEF WroteTo
<1> QED BY <1>4, <1>6

LEMMA WrittenInNewBlock ==
  ASSUME Parameters, NEW c \in CoreType, NEW file \in Files, Memory(c, file), NEW id \in Ids, id \in Known(c),
         c.aStreams[Index(c, id)].iSize = Len(c.aStreams[Index(c, id)].aBlocks) * iBlockSize,
         NEW blk \in EmptyBlocks(c), c.at \in {"out", "blocks"}
  PROVE  /\ WroteTo(c, Written(streamAddBlock(c, id, blk), id), id)
         /\ Memory(Written(streamAddBlock(c, id, blk), id), [file EXCEPT ![id] = Append(file[id], id)])
<1> DEFINE S == c.aStreams
           k == Index(c, id)
           a == streamAddBlock(c, id, blk)
           U == Longer(S, k, blk)
           w == Written(a, id)
<1>1. S \in Seq(Stream) /\ Rising(S) /\ Room(S)
  BY CoreFields DEF Memory, Entries
<1>2. k \in DOMAIN S /\ S[k].iId = id
  BY <1>1, IndexOf
<1>3. Edits(c, a, id) /\ Memory(a, file) /\ a.aStreams = U
  BY AddBlockKeeps
<1>4. blk \in Nat
  BY EmptyBlockFree
<1>5. /\ U \in Seq(Stream) /\ Len(U) = Len(S) /\ DOMAIN U = DOMAIN S
      /\ \A i \in DOMAIN S : U[i].iId = S[i].iId /\ U[i].iSize = S[i].iSize
      /\ \A i \in DOMAIN S : i # k => U[i] = S[i]
      /\ U[k].aBlocks = Append(S[k].aBlocks, blk)
  BY <1>1, <1>2, <1>4, LongerShape
<1> HIDE DEF a, U
<1>6. a \in CoreType /\ Rising(a.aStreams) /\ a.aStreams \in Seq(Stream)
  BY <1>3, <1>5 DEF Edits, Memory, Entries
<1>7. id \in Known(a)
  BY <1>2, <1>3, <1>5 DEF Known
<1>8. Index(a, id) = k
  BY <1>2, <1>3, <1>5, <1>6, <1>7, IndexOf
<1>9. U[k].iSize # Len(U[k].aBlocks) * iBlockSize
  <2> DEFINE l == Len(S[k].aBlocks)
  <2>1. l \in Nat /\ Len(U[k].aBlocks) = l + 1
    <3>1. S[k] \in Stream
      BY <1>1, <1>2
    <3>2. S[k].aBlocks \in Seq(Nat)
      BY <3>1 DEF Stream
    <3> QED BY <1>4, <1>5, <3>2
  <2>2. U[k].iSize = l * iBlockSize
    BY <1>2, <1>5
  <2> HIDE DEF l
  <2>3. l * iBlockSize + iBlockSize <= (l + 1) * iBlockSize /\ l * iBlockSize \in Nat /\ (l + 1) * iBlockSize \in Nat
    BY <2>1, MulStep, MulNat DEF Parameters
  <2>4. l * iBlockSize # (l + 1) * iBlockSize
    <3> DEFINE x == l * iBlockSize
               y == (l + 1) * iBlockSize
    <3>1. x \in Nat /\ y \in Nat /\ x + iBlockSize <= y /\ iBlockSize \in Nat \ {0}
      BY <2>3 DEF Parameters
    <3> HIDE DEF x, y
    <3>2. x # y
      BY <3>1
    <3> QED BY <3>2 DEF x, y
  <2> QED BY <2>1, <2>2, <2>4
<1>10. WroteTo(a, w, id) /\ Memory(w, [file EXCEPT ![id] = Append(file[id], id)])
  <2>1. a.aStreams[Index(a, id)].iSize # Len(a.aStreams[Index(a, id)].aBlocks) * iBlockSize
    BY <1>3, <1>8, <1>9
  <2> QED BY <1>3, <1>6, <1>7, <2>1, WrittenInBlock
<1> HIDE DEF w, S, k
<1>11. /\ Edits(a, w, id) /\ w.aStreams \in Seq(Stream) /\ Len(w.aStreams) = Len(U)
       /\ \A m \in DOMAIN U : m # k => w.aStreams[m] = U[m]
       /\ w.aStreams[k].iId = id /\ w.aStreams[k].iSize = U[k].iSize + 1
  BY <1>3, <1>8, <1>10 DEF WroteTo
<1>12. Edits(c, w, id)
  <2>1. Len(c.sStore) \in Nat /\ Len(a.sStore) \in Nat /\ w \in CoreType
    BY <1>6, <1>11, CoreFields DEF Edits
  <2>2. Len(w.sStore) \in Nat
    BY <2>1, CoreFields
  <2>3. Len(c.sStore) <= Len(w.sStore)
    BY <1>3, <1>11, <2>1, <2>2 DEF Edits
  <2> QED BY <1>3, <1>11, <2>3 DEF Edits
<1>13. WroteTo(c, w, id)
  BY <1>2, <1>5, <1>11, <1>12 DEF WroteTo, S, k
<1> QED BY <1>10, <1>13 DEF w, a

(* While the header is written the stream has no new block: an entry that  *)
(* was made is one of the stream still, and it is known to have grown.     *)
LEMMA WriteStep ==
  ASSUME Parameters, IInv, write
  PROVE  IInv'
<1>1. /\ core \in CoreType /\ abs \in AbsType /\ Memory(core, abs.file) /\ abs.file \in Files
      /\ DiskInv(core) /\ SyncInv(core, abs) /\ PendInv(core, abs)
  BY DEF IInv, TypeOK, AbsType
<1>2. PICK id \in Known(core) :
       /\ \/ ~full(id) /\ core' = Written(core, id)
          \/ /\ full(id) /\ mHeaderFree
             /\ \E blk \in EmptyBlocks(core) : core' = Written(streamAddBlock(core, id, blk), id)
       /\ abs' = [Touched(id, Append(abs.file[id], id)) EXCEPT !.late = IF Missed(id) THEN @ \cup {id} ELSE @]
  BY DEF write
<1> DEFINE S == core.aStreams
           T == core'.aStreams
           k == Index(core, id)
           f == Append(abs.file[id], id)
           t == Touched(id, f)
           new == [abs.file EXCEPT ![id] = f]
<1>3. S \in Seq(Stream) /\ Rising(S)
  BY <1>1, CoreFields DEF Memory, Entries
<1>4. id \in Ids /\ k \in DOMAIN S /\ S[k].iId = id /\ \A m \in DOMAIN S : S[m].iId = id => m = k
  <2>1. k \in DOMAIN S /\ S[k].iId = id /\ \A m \in DOMAIN S : S[m].iId = id => m = k
    BY <1>3, IndexOf
  <2>2. S[k] \in Stream
    BY <1>3, <2>1
  <2> QED BY <2>1, <2>2 DEF Stream
<1>5. WroteTo(core, core', id) /\ Memory(core', new)
  <2>1. CASE ~full(id) /\ core' = Written(core, id)
    BY <1>1, <1>4, <2>1, WrittenInBlock DEF full
  <2>2. CASE full(id) /\ mHeaderFree /\ \E blk \in EmptyBlocks(core) : core' = Written(streamAddBlock(core, id, blk), id)
    <3>1. PICK blk \in EmptyBlocks(core) : core' = Written(streamAddBlock(core, id, blk), id)
      BY <2>2
    <3>2. core.aStreams[Index(core, id)].iSize = Len(core.aStreams[Index(core, id)].aBlocks) * iBlockSize
      BY <2>2 DEF full
    <3>3. core.at \in {"out", "blocks"}
      BY <2>2 DEF mHeaderFree
    <3> HIDE DEF S, T, k
    <3> QED BY <1>1, <1>4, <3>1, <3>2, <3>3, WrittenInNewBlock
  <2> QED BY <1>2, <2>1, <2>2
<1>6. f \in Seq(Nat) \cup {None}
  <2>1. abs.file[id] \in Seq(Nat) /\ id \in Nat
    BY <1>1, <1>4 DEF Memory, ContentInv, Ids, Parameters
  <2> QED BY <2>1
<1>7. t \in AbsType /\ TouchedBy(abs, t, core.at, id) /\ t.file = new /\ t.late = abs.late
  BY <1>1, <1>4, <1>6, TouchedEffect
<1> HIDE DEF t, f, new
<1>8. /\ abs' \in AbsType /\ TouchedBy(abs, abs', core.at, id) /\ abs'.file = new
      /\ abs'.late = IF Missed(id) THEN abs.late \cup {id} ELSE abs.late
  <2> DEFINE L == IF Missed(id) THEN abs.late \cup {id} ELSE abs.late
  <2>1. L \in SUBSET Ids
    BY <1>1, <1>4 DEF AbsType
  <2>2. abs' = [t EXCEPT !.late = L]
    BY <1>2, <1>7 DEF t, f
  <2> HIDE DEF L
  <2>3. /\ abs' \in AbsType /\ abs'.late = L /\ abs'.file = t.file /\ abs'.synced = t.synced
        /\ abs'.touched = t.touched /\ abs'.during = t.during /\ abs'.missed = t.missed
    BY <1>7, <2>1, <2>2 DEF AbsType
  <2> QED BY <1>7, <2>3 DEF TouchedBy, L
<1>9. /\ Edits(core, core', id) /\ T \in Seq(Stream) /\ Len(T) = Len(S) /\ DOMAIN T = DOMAIN S
      /\ \A m \in DOMAIN S : m # k => T[m] = S[m]
      /\ T[k].iId = id /\ T[k].iSize = S[k].iSize + 1
      /\ core.at \notin {"out", "blocks"} => T[k].aBlocks = S[k].aBlocks
  BY <1>3, <1>5 DEF WroteTo
<1>10. Others(S, T, id)
  BY <1>4, <1>9 DEF Others
<1>11. /\ core' \in CoreType /\ core'.at = core.at /\ core'.entries = core.entries /\ core'.header = core.header
       /\ core'.buf = core.buf /\ core'.bHeaderChanged = TRUE
  BY <1>9 DEF Edits
<1>12. TornAt(core) <=> TornAt(core')
  BY <1>9, <1>11 DEF TornAt
<1>13. DiskInv(core') /\ SyncInv(core', abs')
  BY <1>1, <1>4, <1>8, <1>9, <1>10, <1>12, EditSync
<1>14. ASSUME core.at \notin {"out", "blocks"}, NEW m \in DOMAIN S, core.at = "second" => m <= core.entries,
              core.at \in {"second", "clear", "last"}, NEW e, Pends(core, abs, e, S[m])
       PROVE  Pends(core', abs', e, T[m])
  <2>1. CASE m = k
    <3>1. EntryOf(e, T[m])
      <4>1. S[k] \in Stream /\ EntryOf(e, S[k])
        BY <1>3, <1>4, <1>14, <2>1 DEF Pends
      <4>2. S[k].iSize \in Nat /\ T[k].iSize = S[k].iSize + 1 /\ T[k].aBlocks = S[k].aBlocks /\ T[k].iId = S[k].iId
        BY <1>4, <1>9, <1>14, <4>1 DEF Stream
      <4>3. 0..S[k].iSize \subseteq 0..T[k].iSize
        BY <4>2
      <4> QED BY <2>1, <4>1, <4>2, <4>3 DEF EntryOf
    <3>2. CASE core.at = "last"
      <4>1. id \in abs'.during
        BY <1>8, <3>2 DEF TouchedBy
      <4> QED BY <1>9, <1>11, <2>1, <3>1, <3>2, <4>1 DEF Pends, Current
    <3>3. CASE core.at \in {"second", "clear"}
      <4>1. Missed(id)
        BY <1>14, <2>1, <3>3 DEF Missed
      <4> QED BY <1>8, <1>9, <2>1, <3>1, <4>1 DEF Pends, Current
    <3> QED BY <1>14, <3>2, <3>3
  <2>2. CASE m # k
    <3>1. T[m] = S[m] /\ EntryOf(e, S[m]) /\ Current(core, abs, e, S[m])
      BY <1>9, <1>14, <2>2 DEF Pends
    <3>2. abs.late \subseteq abs'.late /\ abs.during \subseteq abs'.during
      BY <1>8 DEF TouchedBy
    <3>3. Current(core', abs', e, S[m])
      BY <1>11, <3>1, <3>2 DEF Current
    <3> QED BY <3>1, <3>3 DEF Pends
  <2> QED BY <2>1, <2>2
<1>15. PendInv(core', abs')
  <2>0. /\ core.entries \in Nat /\ Len(S) \in Nat /\ DOMAIN S = 1..Len(S) /\ core.buf \in Seq(Stream)
    BY <1>1, <1>3, CoreFields
  <2> HIDE DEF S, T, k
  <2>1. ASSUME core.at = "second" PROVE PendFirst(core', abs')
    <3>1. PendFirst(core, abs)
      BY <1>1, <2>1 DEF PendInv
    <3>2. ASSUME NEW m \in 1..core.entries PROVE Pends(core', abs', core.buf[m], T[m])
      <4>1. m \in DOMAIN S /\ Pends(core, abs, core.buf[m], S[m]) /\ m <= core.entries
        BY <2>0, <3>1 DEF PendFirst, S
      <4> QED BY <1>14, <2>1, <4>1
    <3> QED BY <1>9, <1>11, <3>1, <3>2 DEF PendFirst, T, S
  <2>2. ASSUME core.at \in {"clear", "last"}, Len(S) > core.entries PROVE PendSecond(core', abs')
    <3>1. PendSecond(core, abs)
      BY <1>1, <2>2 DEF PendInv, S
    <3>2. ASSUME NEW m \in 1..core.entries PROVE Pends(core', abs', core.header.first[m], T[m])
      <4>1. m \in DOMAIN S /\ Pends(core, abs, core.header.first[m], S[m]) /\ m <= core.entries
        BY <2>0, <2>2, <3>1 DEF PendSecond, S
      <4> QED BY <1>14, <2>2, <4>1
    <3>3. ASSUME NEW m \in 1..Len(core.buf) PROVE Pends(core', abs', core.buf[m], T[core.entries + m])
      <4>1. core.entries + m \in DOMAIN S /\ Pends(core, abs, core.buf[m], S[core.entries + m])
        BY <2>0, <2>2, <3>1 DEF PendSecond, S
      <4>2. core.at # "second" /\ core.at \notin {"out", "blocks"} /\ core.at \in {"second", "clear", "last"}
        BY <2>2
      <4> QED BY <1>14, <4>1, <4>2
    <3> QED BY <1>9, <1>11, <3>1, <3>2, <3>3 DEF PendSecond, T, S
  <2>3. ASSUME core.at \in {"clear", "last"}, ~(Len(S) > core.entries) PROVE PendOnly(core', abs')
    <3>1. PendOnly(core, abs)
      BY <1>1, <2>3 DEF PendInv, S
    <3>2. ASSUME NEW m \in 1..Len(core.buf) PROVE Pends(core', abs', core.buf[m], T[m])
      <4>1. m \in DOMAIN S /\ Pends(core, abs, core.buf[m], S[m])
        BY <2>0, <3>1 DEF PendOnly, S
      <4>2. core.at # "second" /\ core.at \notin {"out", "blocks"} /\ core.at \in {"second", "clear", "last"}
        BY <2>3
      <4> QED BY <1>14, <4>1, <4>2
    <3> QED BY <1>9, <1>11, <3>1, <3>2 DEF PendOnly, T, S
  <2> QED BY <1>9, <1>11, <2>1, <2>2, <2>3 DEF PendInv, T, S
<1> QED BY <1>5, <1>8, <1>11, <1>13, <1>15 DEF IInv, TypeOK
-----------------------------------------------------------------------------
LEMMA SequenceOf ==
  ASSUME NEW X, NEW m \in Nat, NEW f \in [1..m -> X]
  PROVE  f \in Seq(X) /\ Len(f) = m
<1>1. f \in Seq(X)
  BY SeqDef
<1>2. Len(f) \in Nat /\ DOMAIN f = 1..Len(f) /\ DOMAIN f = 1..m
  BY <1>1, LenProperties
<1>3. Len(f) = m
  BY <1>2
<1> QED BY <1>1, <1>3

(* Memory has nothing to do with the header.                               *)
LEMMA MemorySame ==
  ASSUME NEW c, NEW d, NEW file, Memory(c, file), d.aStreams = c.aStreams, d.lFreeBlocks = c.lFreeBlocks,
         d.pCurBlock = c.pCurBlock, d.sStore = c.sStore
  PROVE  Memory(d, file)
  BY DEF Memory

(* The blocks that hold the bytes of an entry are among those it has.      *)
LEMMA EntryBlocks ==
  ASSUME Parameters, NEW s \in Stream, s.iSize <= Len(s.aBlocks) * iBlockSize, NEW e, EntryOf(e, s)
  PROVE  /\ e.iSize \in Nat /\ e.aBlocks \in Seq(Nat) /\ Len(e.aBlocks) = blkDiv(e.iSize)
         /\ \A q \in DOMAIN e.aBlocks : q \in DOMAIN s.aBlocks /\ e.aBlocks[q] = s.aBlocks[q]
<1> DEFINE B == s.aBlocks
           m == blkDiv(e.iSize)
<1>1. B \in Seq(Nat) /\ s.iSize \in Nat /\ e.iSize \in 0..s.iSize /\ e.aBlocks = SubSeq(B, 1, m)
  BY DEF Stream, EntryOf
<1>2. Len(B) \in Nat /\ DOMAIN B = 1..Len(B)
  BY <1>1
<1>3. e.iSize <= Len(B) * iBlockSize
  <2> DEFINE x == Len(B) * iBlockSize
  <2>1. x \in Nat /\ s.iSize <= x
    BY <1>2, MulNat DEF Parameters
  <2> HIDE DEF x, B, m
  <2>2. e.iSize <= x
    BY <1>1, <2>1
  <2> QED BY <2>2 DEF x
<1>4. m \in Nat /\ m <= Len(B)
  BY <1>1, <1>2, <1>3, BlkDiv
<1> HIDE DEF B, m
<1>5. m \in 0..Len(B)
  BY <1>2, <1>4
<1>6. /\ SubSeq(B, 1, m) \in Seq(Nat) /\ Len(SubSeq(B, 1, m)) = m /\ DOMAIN SubSeq(B, 1, m) = 1..m
      /\ \A q \in 1..m : SubSeq(B, 1, m)[q] = B[q]
  BY <1>1, <1>5, Prefix
<1>7. 1..m \subseteq DOMAIN B
  BY <1>2, <1>5
<1> QED BY <1>1, <1>6, <1>7 DEF B, m

LEMMA TrimEntry ==
  ASSUME Parameters, NEW s \in Stream, s.iSize <= Len(s.aBlocks) * iBlockSize
  PROVE  Trim(s) \in Stream /\ EntryOf(Trim(s), s) /\ Trim(s).iSize = s.iSize
<1>1. s.iId \in Ids /\ s.iSize \in Nat /\ s.aBlocks \in Seq(Nat)
  BY DEF Stream
<1>2. Trim(s).iId = s.iId /\ Trim(s).iSize = s.iSize /\ Trim(s).aBlocks = SubSeq(s.aBlocks, 1, blkDiv(s.iSize))
  BY DEF Trim
<1>3. EntryOf(Trim(s), s)
  BY <1>1, <1>2 DEF EntryOf
<1>4. Trim(s).aBlocks \in Seq(Nat)
  BY <1>3, EntryBlocks
<1> QED BY <1>1, <1>2, <1>3, <1>4 DEF Trim, Stream

(* updateHeader makes the entries anew.                                    *)
LEMMA PartsMade ==
  ASSUME Parameters, NEW c \in CoreType, Room(c.aStreams), NEW m \in Nat, m = Min({Len(c.aStreams), c.entries})
  PROVE  /\ m <= Len(c.aStreams) /\ m <= c.entries /\ m \in {Len(c.aStreams), c.entries}
         /\ Parts(c).first \in Seq(Stream) /\ Len(Parts(c).first) = m
         /\ \A k \in 1..m : Parts(c).first[k] = Trim(c.aStreams[k])
         /\ Parts(c).second \in Seq(Stream) /\ Len(Parts(c).second) = Len(c.aStreams) - m
         /\ \A k \in 1..Len(c.aStreams) - m : Parts(c).second[k] = Trim(c.aStreams[c.entries + k])
<1> DEFINE S == c.aStreams
           n == Len(S)
           A == [k \in 1..m |-> Trim(S[k])]
           B == [k \in 1..n - m |-> Trim(S[c.entries + k])]
<1>1. S \in Seq(Stream) /\ n \in Nat /\ DOMAIN S = 1..n /\ c.entries \in Nat
  BY CoreFields
<1>2. m \in {n, c.entries} /\ m <= n /\ m <= c.entries
  BY <1>1, MinOfTwo
<1>3. Parts(c) = [first |-> A, second |-> B]
  BY DEF Parts, Trim
<1>4. ASSUME NEW k \in 1..n PROVE Trim(S[k]) \in Stream
  BY <1>1, TrimEntry DEF Room
<1> HIDE DEF S, n
<1>5. A \in [1..m -> Stream]
  BY <1>1, <1>2, <1>4
<1>6. n - m \in Nat
  BY <1>1, <1>2
<1>7. B \in [1..n - m -> Stream]
  <2>1. SUFFICES ASSUME NEW k \in 1..n - m PROVE Trim(S[c.entries + k]) \in Stream
    OBVIOUS
  <2>2. c.entries + k \in 1..n
    BY <1>1, <1>2
  <2> QED BY <1>4, <2>2
<1>8. \A k \in 1..m : A[k] = Trim(S[k])
  OBVIOUS
<1>9. \A k \in 1..n - m : B[k] = Trim(S[c.entries + k])
  OBVIOUS
<1> HIDE DEF A, B
<1>10. A \in Seq(Stream) /\ Len(A) = m
  BY <1>5, SequenceOf
<1>11. B \in Seq(Stream) /\ Len(B) = n - m
  BY <1>6, <1>7, SequenceOf
<1>12. Parts(c).first = A /\ Parts(c).second = B
  BY <1>3
<1> HIDE DEF A, B
<1>13. /\ m <= n /\ m <= c.entries /\ m \in {n, c.entries}
       /\ Parts(c).first \in Seq(Stream) /\ Len(Parts(c).first) = m
       /\ Parts(c).second \in Seq(Stream) /\ Len(Parts(c).second) = n - m
  BY <1>2, <1>10, <1>11, <1>12
<1>14. /\ \A k \in 1..m : Parts(c).first[k] = Trim(S[k])
       /\ \A k \in 1..n - m : Parts(c).second[k] = Trim(S[c.entries + k])
  BY <1>8, <1>9, <1>12
<1> QED BY <1>13, <1>14 DEF S, n

(* An entry made now is pending.                                           *)
LEMMA TrimPends ==
  ASSUME Parameters, NEW S \in Seq(Stream), Room(S), NEW k \in DOMAIN S, NEW d, NEW a
  PROVE  Pends(d, a, Trim(S[k]), S[k])
<1>1. S[k] \in Stream /\ S[k].iSize <= Len(S[k].aBlocks) * iBlockSize
  BY DEF Room
<1> QED BY <1>1, TrimEntry DEF Pends, Current
-----------------------------------------------------------------------------
LEMMA SyncBeginStep ==
  ASSUME Parameters, IInv, syncBegin
  PROVE  IInv'
<1> DEFINE p == IF core.bHeaderChanged THEN "first" ELSE "blocks"
<1>1. /\ core \in CoreType /\ abs \in AbsType /\ Memory(core, abs.file)
      /\ DiskInv(core) /\ SyncInv(core, abs) /\ core.at = "out"
  BY DEF IInv, TypeOK, syncBegin
<1>2. core' = [core EXCEPT !.at = p] /\ abs' = [abs EXCEPT !.during = {}] /\ p \in {"first", "blocks"}
  BY DEF syncBegin
<1>3. p = "blocks" => ~core.bHeaderChanged
  OBVIOUS
<1> HIDE DEF p
<1>4. /\ core' \in CoreType /\ core'.at = p /\ core'.entries = core.entries /\ core'.aStreams = core.aStreams
      /\ core'.lFreeBlocks = core.lFreeBlocks /\ core'.bHeaderChanged = core.bHeaderChanged
      /\ core'.pCurBlock = core.pCurBlock /\ core'.sStore = core.sStore /\ core'.header = core.header
  BY <1>1, <1>2 DEF CoreType, Places
<1>5. /\ abs' \in AbsType /\ abs'.file = abs.file /\ abs'.synced = abs.synced /\ abs'.touched = abs.touched
      /\ abs'.during = {} /\ abs'.missed = abs.missed
  BY <1>1, <1>2 DEF AbsType
<1>6. Memory(core', abs'.file)
  BY <1>1, <1>4, <1>5, MemorySame
<1>7. ~TornAt(core) /\ ~TornAt(core') /\ Disk(core') = Disk(core)
  BY <1>1, <1>2, <1>4 DEF TornAt, Disk
<1>8. DiskInv(core')
  BY <1>1, <1>4, <1>7 DEF DiskInv
<1>9. SyncInv(core', abs')
  BY <1>1, <1>2, <1>3, <1>4, <1>5, <1>7 DEF SyncInv
<1>10. PendInv(core', abs')
  BY <1>2, <1>4 DEF PendInv
<1> QED BY <1>4, <1>5, <1>6, <1>8, <1>9, <1>10 DEF IInv, TypeOK

LEMMA HeaderFirstStep ==
  ASSUME Parameters, IInv, HeaderFirst
  PROVE  IInv'
<1> DEFINE S == core.aStreams
           n == Len(S)
           m == Min({n, core.entries})
           b == Parts(core).first
           p == IF two THEN "second" ELSE "clear"
<1>1. /\ core \in CoreType /\ abs \in AbsType /\ Memory(core, abs.file)
      /\ DiskInv(core) /\ SyncInv(core, abs) /\ core.at = "first" /\ abs' = abs
  BY DEF IInv, TypeOK, HeaderFirst
<1>2. core' = [core EXCEPT !.buf = b, !.at = p]
  BY DEF HeaderFirst
<1>3. S \in Seq(Stream) /\ Room(S) /\ n \in Nat /\ DOMAIN S = 1..n /\ core.entries \in Nat
  BY <1>1, CoreFields DEF Memory, Entries
<1>4. p \in {"second", "clear"} /\ (p = "second" <=> n > core.entries)
  BY DEF two
<1>5. m \in Nat
  BY <1>3, MinOfTwo
<1>6. /\ m <= n /\ m <= core.entries /\ m \in {n, core.entries} /\ b \in Seq(Stream) /\ Len(b) = m
      /\ \A k \in 1..m : b[k] = Trim(S[k])
  <2> DEFINE c == core
  <2>1. c \in CoreType /\ Room(c.aStreams) /\ m = Min({Len(c.aStreams), c.entries})
    BY <1>1, <1>3
  <2> HIDE DEF c, m
  <2>2. /\ m <= Len(c.aStreams) /\ m <= c.entries /\ m \in {Len(c.aStreams), c.entries}
        /\ Parts(c).first \in Seq(Stream) /\ Len(Parts(c).first) = m
        /\ \A k \in 1..m : Parts(c).first[k] = Trim(c.aStreams[k])
    BY <1>5, <2>1, PartsMade
  <2> QED BY <2>2 DEF c
<1> HIDE DEF b, p, m, n, S
<1>7. /\ core' \in CoreType /\ core'.at = p /\ core'.buf = b /\ core'.entries = core.entries
      /\ core'.aStreams = S /\ core'.header = core.header /\ core'.bHeaderChanged = core.bHeaderChanged
      /\ core'.pCurBlock = core.pCurBlock /\ core'.sStore = core.sStore /\ core'.lFreeBlocks = core.lFreeBlocks
  BY <1>1, <1>2, <1>4, <1>6 DEF CoreType, Places, S
<1>8. Memory(core', abs'.file)
  BY <1>1, <1>7, MemorySame DEF S
<1>9. ~TornAt(core) /\ ~TornAt(core') /\ Disk(core') = Disk(core)
  BY <1>1, <1>4, <1>7 DEF TornAt, Disk, n
<1>10. DiskInv(core')
  BY <1>1, <1>7, <1>9 DEF DiskInv
<1>11. SyncInv(core', abs')
  BY <1>1, <1>4, <1>7, <1>9 DEF SyncInv, S
<1>12. ASSUME NEW k \in 1..m PROVE Pends(core', abs', b[k], S[k])
  <2>1. k \in DOMAIN S
    BY <1>3, <1>5, <1>6
  <2> QED BY <1>3, <1>6, <2>1, TrimPends
<1>13. PendInv(core', abs')
  <2>1. CASE n > core.entries
    <3>1. m = core.entries /\ p = "second"
      BY <1>3, <1>4, <1>6, <2>1
    <3> QED BY <1>6, <1>7, <1>12, <2>1, <3>1 DEF PendInv, PendFirst, n
  <2>2. CASE ~(n > core.entries)
    <3>1. m = n /\ p = "clear"
      BY <1>3, <1>4, <1>6, <2>2
    <3> QED BY <1>6, <1>7, <1>12, <2>2, <3>1 DEF PendInv, PendOnly, n
  <2> QED BY <2>1, <2>2
<1> QED BY <1>1, <1>7, <1>8, <1>10, <1>11, <1>13 DEF IInv, TypeOK

LEMMA HeaderSecondStep ==
  ASSUME Parameters, IInv, HeaderSecond
  PROVE  IInv'
<1> DEFINE S == core.aStreams
           n == Len(S)
           m == Min({n, core.entries})
           b == Parts(core).second
           h == [core.header EXCEPT !.first = core.buf, !.count = n]
<1>1. /\ core \in CoreType /\ abs \in AbsType /\ Memory(core, abs.file)
      /\ DiskInv(core) /\ SyncInv(core, abs) /\ core.at = "second" /\ abs' = abs /\ PendFirst(core, abs)
  BY DEF IInv, TypeOK, HeaderSecond, PendInv
<1>2. core' = [core EXCEPT !.header = h, !.buf = b, !.at = "clear"]
  BY <1>1 DEF HeaderSecond, CoreType
<1>3. S \in Seq(Stream) /\ Room(S) /\ n \in Nat /\ DOMAIN S = 1..n /\ core.entries \in Nat
  BY <1>1, CoreFields DEF Memory, Entries
<1>4. n > core.entries /\ Len(core.buf) = core.entries /\ \A k \in 1..core.entries : Pends(core, abs, core.buf[k], S[k])
  BY <1>1 DEF PendFirst
<1>5. m \in Nat
  BY <1>3, MinOfTwo
<1>6. /\ m <= n /\ m <= core.entries /\ m \in {n, core.entries} /\ b \in Seq(Stream) /\ Len(b) = n - m
      /\ \A k \in 1..n - m : b[k] = Trim(S[core.entries + k])
  <2> DEFINE c == core
  <2>1. c \in CoreType /\ Room(c.aStreams) /\ m = Min({Len(c.aStreams), c.entries})
    BY <1>1, <1>3
  <2> HIDE DEF c, m
  <2>2. /\ m <= Len(c.aStreams) /\ m <= c.entries /\ m \in {Len(c.aStreams), c.entries}
        /\ Parts(c).second \in Seq(Stream) /\ Len(Parts(c).second) = Len(c.aStreams) - m
        /\ \A k \in 1..Len(c.aStreams) - m : Parts(c).second[k] = Trim(c.aStreams[c.entries + k])
    BY <1>5, <2>1, PartsMade
  <2> QED BY <2>2 DEF c
<1> HIDE DEF b, m, n, S
<1>7. m = core.entries
  BY <1>3, <1>4, <1>6
<1>8. h \in Header /\ h.first = core.buf /\ h.count = n /\ core.buf \in Seq(Stream)
  <2>1. core.header \in Header /\ core.buf \in Seq(Stream)
    BY <1>1, CoreFields
  <2> QED BY <1>3, <2>1 DEF Header
<1> HIDE DEF h
<1>9. /\ core' \in CoreType /\ core'.at = "clear" /\ core'.buf = b /\ core'.entries = core.entries
      /\ core'.aStreams = S /\ core'.header = h /\ core'.bHeaderChanged = core.bHeaderChanged
      /\ core'.pCurBlock = core.pCurBlock /\ core'.sStore = core.sStore /\ core'.lFreeBlocks = core.lFreeBlocks
  BY <1>1, <1>2, <1>6, <1>8 DEF CoreType, Places, S
<1>10. Memory(core', abs'.file)
  BY <1>1, <1>9, MemorySame DEF S
<1>11. TornAt(core') /\ core'.at # "blocks" /\ core'.at # "out"
  BY <1>4, <1>9 DEF TornAt, n
<1>12. DiskInv(core') /\ SyncInv(core', abs')
  BY <1>1, <1>9, <1>11 DEF DiskInv, SyncInv
<1>13. ASSUME NEW k \in 1..core.entries PROVE Pends(core', abs', core.buf[k], S[k])
  BY <1>1, <1>4, <1>9 DEF Pends, Current
<1>14. ASSUME NEW k \in 1..n - m PROVE Pends(core', abs', b[k], S[core.entries + k])
  <2>1. core.entries + k \in DOMAIN S
    BY <1>3, <1>6, <1>7
  <2> QED BY <1>3, <1>6, <2>1, TrimPends
<1>15. PendSecond(core', abs')
  BY <1>4, <1>6, <1>7, <1>8, <1>9, <1>13, <1>14 DEF PendSecond, n
<1>16. PendInv(core', abs')
  BY <1>4, <1>9, <1>15 DEF PendInv, n
<1> QED BY <1>1, <1>9, <1>10, <1>12, <1>16 DEF IInv, TypeOK

LEMMA HeaderWrittenStep ==
  ASSUME Parameters, IInv, HeaderWritten
  PROVE  IInv'
<1>1. /\ core \in CoreType /\ abs \in AbsType /\ Memory(core, abs.file)
      /\ DiskInv(core) /\ SyncInv(core, abs) /\ PendInv(core, abs) /\ core.at = "clear" /\ abs' = abs
      /\ core' = [core EXCEPT !.bHeaderChanged = FALSE, !.at = "last"]
  BY DEF IInv, TypeOK, HeaderWritten
<1>2. /\ core' \in CoreType /\ core'.at = "last" /\ core'.buf = core.buf /\ core'.entries = core.entries
      /\ core'.aStreams = core.aStreams /\ core'.header = core.header /\ core'.bHeaderChanged = FALSE
      /\ core'.pCurBlock = core.pCurBlock /\ core'.sStore = core.sStore /\ core'.lFreeBlocks = core.lFreeBlocks
  BY <1>1 DEF CoreType, Places
<1>3. Memory(core', abs'.file)
  BY <1>1, <1>2, MemorySame
<1>4. (TornAt(core) <=> TornAt(core')) /\ Disk(core') = Disk(core)
  BY <1>1, <1>2 DEF TornAt, Disk
<1>5. DiskInv(core')
  BY <1>1, <1>2, <1>4 DEF DiskInv
<1>6. SyncInv(core', abs')
  BY <1>1, <1>2, <1>4 DEF SyncInv
<1>7. \A e, s : Pends(core, abs, e, s) => Pends(core', abs', e, s)
  BY <1>1 DEF Pends, Current
<1>8. PendInv(core', abs')
  <2>1. PendSecond(core, abs) => PendSecond(core', abs')
    BY <1>2, <1>7 DEF PendSecond
  <2>2. PendOnly(core, abs) => PendOnly(core', abs')
    BY <1>2, <1>7 DEF PendOnly
  <2> QED BY <1>1, <1>2, <2>1, <2>2 DEF PendInv
<1> QED BY <1>1, <1>2, <1>3, <1>5, <1>6, <1>8 DEF IInv, TypeOK
-----------------------------------------------------------------------------
(* A header whose entries are pending for the streams in memory.           *)
LEMMA PendingHeader ==
  ASSUME Parameters, NEW S \in Seq(Stream), NEW x, Entries(S, x), NEW D \in Seq(Stream), Len(D) = Len(S),
         \A m \in 1..Len(S) : EntryOf(D[m], S[m])
  PROVE  /\ Rising(D) /\ Apart(D, x) /\ \A j \in DOMAIN D : Len(D[j].aBlocks) = blkDiv(D[j].iSize)
         /\ \A id : (\A m \in DOMAIN S : S[m].iId = id => D[m].iSize = S[m].iSize) => Agrees(D, S, id)
<1>1. DOMAIN D = DOMAIN S /\ DOMAIN S = 1..Len(S) /\ Rising(S) /\ Room(S) /\ Apart(S, x)
  BY DEF Entries
<1>2. ASSUME NEW m \in DOMAIN S
      PROVE  /\ D[m].iId = S[m].iId /\ S[m] \in Stream /\ D[m] \in Stream /\ Len(D[m].aBlocks) = blkDiv(D[m].iSize)
             /\ \A q \in DOMAIN D[m].aBlocks : q \in DOMAIN S[m].aBlocks /\ D[m].aBlocks[q] = S[m].aBlocks[q]
             /\ D[m].aBlocks = SubSeq(S[m].aBlocks, 1, blkDiv(D[m].iSize))
  <2>1. S[m] \in Stream /\ D[m] \in Stream /\ EntryOf(D[m], S[m]) /\ S[m].iSize <= Len(S[m].aBlocks) * iBlockSize
    BY <1>1 DEF Room
  <2>2. /\ Len(D[m].aBlocks) = blkDiv(D[m].iSize)
        /\ \A q \in DOMAIN D[m].aBlocks : q \in DOMAIN S[m].aBlocks /\ D[m].aBlocks[q] = S[m].aBlocks[q]
    BY <2>1, EntryBlocks
  <2> QED BY <2>1, <2>2 DEF EntryOf
<1>3. Rising(D)
  BY <1>1, <1>2 DEF Rising
<1>4. Part(D, S)
  BY <1>1, <1>2 DEF Part
<1>5. Apart(D, x)
  BY <1>1, <1>3, <1>4, PartApart
<1>6. ASSUME NEW id, \A m \in DOMAIN S : S[m].iId = id => D[m].iSize = S[m].iSize PROVE Agrees(D, S, id)
  <2>1. ASSUME NEW j \in DOMAIN D, D[j].iId = id PROVE D[j] = Trim(S[j]) /\ j \in DOMAIN S
    <3>1. /\ j \in DOMAIN S /\ D[j] \in Stream /\ D[j].iId = S[j].iId
          /\ D[j].aBlocks = SubSeq(S[j].aBlocks, 1, blkDiv(D[j].iSize))
      BY <1>1, <1>2
    <3>2. D[j].iSize = S[j].iSize
      BY <1>6, <2>1, <3>1
    <3>3. D[j] = [iId |-> D[j].iId, iSize |-> D[j].iSize, aBlocks |-> D[j].aBlocks]
      BY <3>1 DEF Stream
    <3>4. Trim(S[j]) = [iId |-> S[j].iId, iSize |-> S[j].iSize, aBlocks |-> SubSeq(S[j].aBlocks, 1, blkDiv(S[j].iSize))]
      BY DEF Trim
    <3>5. D[j].aBlocks = SubSeq(S[j].aBlocks, 1, blkDiv(S[j].iSize))
      BY <3>1, <3>2
    <3> QED BY <3>1, <3>2, <3>3, <3>4, <3>5
  <2>2. ASSUME NEW k \in DOMAIN S, S[k].iId = id PROVE \E j \in DOMAIN D : D[j].iId = id
    BY <1>1, <1>2, <2>2
  <2> QED BY <2>1, <2>2 DEF Agrees
<1> QED BY <1>1, <1>2, <1>3, <1>5, <1>6

LEMMA HeaderLastStep ==
  ASSUME Parameters, IInv, HeaderLast
  PROVE  IInv'
<1> DEFINE S == core.aStreams
           n == Len(S)
           b == core.buf
           h == IF two THEN [core.header EXCEPT !.second = b] ELSE [core.header EXCEPT !.first = b, !.count = n]
           D == SubSeq(h.first \o h.second, 1, h.count)
<1>1. /\ core \in CoreType /\ abs \in AbsType /\ Memory(core, abs.file)
      /\ DiskInv(core) /\ SyncInv(core, abs) /\ PendInv(core, abs) /\ core.at = "last"
      /\ abs' = [abs EXCEPT !.missed = abs.late, !.late = {}]
  BY DEF IInv, TypeOK, HeaderLast
<1>2. /\ S \in Seq(Stream) /\ Room(S) /\ n \in Nat /\ DOMAIN S = 1..n /\ core.entries \in Nat /\ Entries(S, Len(core.sStore))
      /\ b \in Seq(Stream) /\ core.header \in Header
  BY <1>1, CoreFields DEF Memory, Entries
<1>3. core' = [core EXCEPT !.header = h, !.buf = <<>>, !.at = "blocks"]
  <2>1. CASE two
    BY <1>1, <2>1 DEF HeaderLast, CoreType
  <2>2. CASE ~two
    BY <1>1, <2>2 DEF HeaderLast, CoreType
  <2> QED BY <2>1, <2>2
<1>4. /\ h \in Header /\ D \in Seq(Stream) /\ Len(D) = n /\ h.count <= Len(h.first) + Len(h.second)
      /\ \A m \in 1..n : Pends(core, abs, D[m], S[m])
  <2>1. core.header.first \in Seq(Stream) /\ core.header.second \in Seq(Stream)
    BY <1>2 DEF Header
  <2>2. CASE two
    <3>1. n > core.entries /\ PendSecond(core, abs)
      BY <1>1, <2>2 DEF PendInv, two
    <3> DEFINE A == core.header.first
    <3>2. h \in Header /\ h.first = A /\ h.second = b /\ h.count = n
      BY <1>2, <2>2, <3>1 DEF Header, PendSecond
    <3>3. /\ A \in Seq(Stream) /\ Len(A) = core.entries /\ Len(b) = n - core.entries
          /\ \A k \in 1..core.entries : Pends(core, abs, A[k], S[k])
          /\ \A k \in 1..Len(b) : Pends(core, abs, b[k], S[core.entries + k])
      BY <2>1, <3>1 DEF PendSecond
    <3> HIDE DEF A, S, n, b, h
    <3>4. /\ A \o b \in Seq(Stream) /\ Len(A \o b) = n
          /\ \A i \in 1..n : (A \o b)[i] = IF i <= Len(A) THEN A[i] ELSE b[i - Len(A)]
      <4>1. /\ A \o b \in Seq(Stream) /\ Len(A \o b) = Len(A) + Len(b)
            /\ \A i \in 1..Len(A) + Len(b) : (A \o b)[i] = IF i <= Len(A) THEN A[i] ELSE b[i - Len(A)]
        BY <1>2, <3>3, ConcatProperties
      <4>2. Len(A) + Len(b) = n
        BY <1>2, <3>3
      <4> QED BY <4>1, <4>2
    <3>5. D = A \o b
      <4>1. D = SubSeq(A \o b, 1, Len(A \o b))
        BY <3>2, <3>4
      <4> HIDE DEF D
      <4> QED BY <3>4, <4>1, SubSeqFull
    <3> HIDE DEF D
    <3>6. ASSUME NEW m \in 1..n PROVE Pends(core, abs, D[m], S[m])
      <4>1. CASE m <= core.entries
        <5>1. m \in 1..core.entries /\ D[m] = A[m]
          BY <1>2, <3>3, <3>4, <3>5, <4>1
        <5> QED BY <3>3, <5>1
      <4>2. CASE m > core.entries
        <5> DEFINE k == m - core.entries
        <5>1. k \in 1..Len(b) /\ core.entries + k = m /\ ~(m <= Len(A))
          BY <1>2, <3>3, <4>2
        <5>2. D[m] = b[k]
          BY <3>3, <3>4, <3>5, <5>1
        <5> HIDE DEF k
        <5>3. Pends(core, abs, b[k], S[core.entries + k])
          BY <3>3, <5>1
        <5> QED BY <5>1, <5>2, <5>3
      <4> QED BY <1>2, <4>1, <4>2
    <3>7. h.count <= Len(h.first) + Len(h.second)
      BY <1>2, <3>2, <3>3
    <3> QED BY <3>2, <3>4, <3>5, <3>6, <3>7
  <2>3. CASE ~two
    <3>1. PendOnly(core, abs)
      BY <1>1, <2>3 DEF PendInv, two
    <3> DEFINE B == core.header.second
    <3>2. h \in Header /\ h.first = b /\ h.second = B /\ h.count = n
      BY <1>2, <2>3 DEF Header
    <3>3. Len(b) = n /\ \A k \in 1..n : Pends(core, abs, b[k], S[k])
      BY <3>1 DEF PendOnly
    <3> HIDE DEF B, S, n, b, h
    <3>4. /\ b \o B \in Seq(Stream) /\ Len(b \o B) = Len(b) + Len(B) /\ Len(B) \in Nat
          /\ \A i \in 1..Len(b) + Len(B) : (b \o B)[i] = IF i <= Len(b) THEN b[i] ELSE B[i - Len(b)]
      BY <1>2, <2>1, ConcatProperties DEF B
    <3>5. \A i \in 1..n : i \in 1..Len(b) + Len(B) /\ (b \o B)[i] = b[i]
      BY <1>2, <3>3, <3>4
    <3>6. D = SubSeq(b \o B, 1, n)
      BY <3>2
    <3> HIDE DEF D
    <3>7. \A i \in 1..n : (b \o B)[i] \in Stream
      BY <1>2, <3>3, <3>5
    <3>8. D \in Seq(Stream) /\ Len(D) = n /\ \A i \in 1..n : D[i] = b[i]
      <4> DEFINE C == b \o B
      <4>1. C \in Seq(Stream) /\ n \in 0..Len(C) /\ D = SubSeq(C, 1, n)
        BY <1>2, <3>3, <3>4, <3>6
      <4>2. \A i \in 1..n : C[i] = b[i]
        BY <3>5
      <4> HIDE DEF C
      <4>3. D \in Seq(Stream) /\ Len(D) = n /\ \A i \in 1..n : D[i] = C[i]
        BY <4>1
      <4> QED BY <4>2, <4>3
    <3>9. h.count <= Len(h.first) + Len(h.second)
      BY <1>2, <3>2, <3>3, <3>4
    <3> QED BY <3>2, <3>3, <3>8, <3>9
  <2> QED BY <2>2, <2>3
<1>5. /\ core' \in CoreType /\ core'.at = "blocks" /\ core'.entries = core.entries
      /\ core'.aStreams = S /\ core'.header = h /\ core'.bHeaderChanged = core.bHeaderChanged
      /\ core'.pCurBlock = core.pCurBlock /\ core'.sStore = core.sStore /\ core'.lFreeBlocks = core.lFreeBlocks
  <2> HIDE DEF h
  <2>1. <<>> \in Seq(Stream)
    OBVIOUS
  <2> QED BY <1>1, <1>3, <1>4, <2>1 DEF CoreType, Places
<1>6. Disk(core') = D
  BY <1>5 DEF Disk
<1> HIDE DEF h, D, b
<1>7. /\ abs' \in AbsType /\ abs'.file = abs.file /\ abs'.synced = abs.synced /\ abs'.touched = abs.touched
      /\ abs'.during = abs.during /\ abs'.missed = abs.late /\ abs'.late = {}
  BY <1>1 DEF AbsType
<1>8. /\ Rising(D) /\ Apart(D, Len(core.sStore)) /\ \A j \in DOMAIN D : Len(D[j].aBlocks) = blkDiv(D[j].iSize)
      /\ \A id : (\A m \in DOMAIN S : S[m].iId = id => D[m].iSize = S[m].iSize) => Agrees(D, S, id)
  <2>1. \A m \in 1..Len(S) : EntryOf(D[m], S[m])
    BY <1>4 DEF Pends
  <2> HIDE DEF S
  <2> QED BY <1>2, <1>4, <2>1, PendingHeader DEF n
<1>9. DiskInv(core')
  BY <1>4, <1>5, <1>6, <1>8 DEF DiskInv
<1>10. ASSUME NEW id \in Ids \ (abs.during \cup abs.late) PROVE Agrees(D, S, id)
  <2>1. ASSUME NEW m \in DOMAIN S, S[m].iId = id PROVE D[m].iSize = S[m].iSize
    BY <1>2, <1>4, <2>1 DEF Pends, Current
  <2> QED BY <1>8, <2>1
<1>11. ASSUME ~core.bHeaderChanged, NEW id \in Ids \ abs.late PROVE Agrees(D, S, id)
  <2>1. ASSUME NEW m \in DOMAIN S, S[m].iId = id PROVE D[m].iSize = S[m].iSize
    BY <1>2, <1>4, <1>11, <2>1 DEF Pends, Current
  <2> QED BY <1>8, <2>1
<1>12. SyncInv(core', abs')
  <2>1. abs.during \subseteq abs.touched /\ \A id \in Ids \ abs.touched : abs.synced[id] = abs.file[id] /\ ~core.pCurBlock[id].bChanged
    BY <1>1 DEF SyncInv
  <2> QED BY <1>5, <1>6, <1>7, <1>10, <1>11, <2>1 DEF SyncInv
<1>13. PendInv(core', abs')
  BY <1>5 DEF PendInv
<1>14. Memory(core', abs'.file)
  BY <1>1, <1>5, <1>7, MemorySame
<1> QED BY <1>5, <1>7, <1>9, <1>12, <1>13, <1>14 DEF IInv, TypeOK

(* A block goes to the store: it belongs to a stream that was touched.     *)
LEMMA SyncBlocksStep ==
  ASSUME Parameters, IInv, syncBlocks
  PROVE  IInv'
<1>1. /\ core \in CoreType /\ abs \in AbsType /\ Memory(core, abs.file)
      /\ DiskInv(core) /\ SyncInv(core, abs) /\ core.at = "blocks" /\ abs' = abs
  BY DEF IInv, TypeOK, syncBlocks
<1>2. PICK id \in Ids : core' = syncBlock(core, id) /\ core.pCurBlock[id].bChanged
  BY DEF syncBlocks, Changed
<1>3. Steady(core, core', id) /\ Memory(core', abs.file) /\ ~core'.pCurBlock[id].bChanged
  BY <1>1, <1>2, SyncBlockKeeps
<1>4. /\ core' \in CoreType /\ core'.at = "blocks" /\ core'.aStreams = core.aStreams /\ core'.header = core.header
      /\ core'.bHeaderChanged = core.bHeaderChanged /\ Len(core'.sStore) = Len(core.sStore)
      /\ \A j \in Ids \ {id} : core'.pCurBlock[j] = core.pCurBlock[j]
  BY <1>1, <1>3 DEF Steady
<1>5. Disk(core') = Disk(core) /\ ~TornAt(core) /\ ~TornAt(core')
  BY <1>1, <1>4 DEF Disk, TornAt
<1>6. DiskInv(core')
  BY <1>1, <1>4, <1>5 DEF DiskInv
<1>7. \A j \in Ids \ abs.touched : abs.synced[j] = abs.file[j] /\ ~core'.pCurBlock[j].bChanged
  BY <1>1, <1>3, <1>4 DEF SyncInv
<1>8. SyncInv(core', abs')
  BY <1>1, <1>4, <1>5, <1>7 DEF SyncInv
<1>9. PendInv(core', abs')
  BY <1>4 DEF PendInv
<1> QED BY <1>1, <1>3, <1>4, <1>6, <1>8, <1>9 DEF IInv, TypeOK

LEMMA SyncDoneStep ==
  ASSUME Parameters, IInv, syncDone
  PROVE  IInv'
<1>1. /\ core \in CoreType /\ abs \in AbsType /\ Memory(core, abs.file)
      /\ DiskInv(core) /\ SyncInv(core, abs) /\ core.at = "blocks"
      /\ core' = [core EXCEPT !.at = "out"] /\ abs' = [abs EXCEPT !.touched = abs.during, !.synced = abs.file]
      /\ \A id \in Ids : ~core.pCurBlock[id].bChanged
  BY DEF IInv, TypeOK, syncDone, Changed
<1>2. /\ core' \in CoreType /\ core'.at = "out" /\ core'.entries = core.entries /\ core'.aStreams = core.aStreams
      /\ core'.lFreeBlocks = core.lFreeBlocks /\ core'.bHeaderChanged = core.bHeaderChanged
      /\ core'.pCurBlock = core.pCurBlock /\ core'.sStore = core.sStore /\ core'.header = core.header
  BY <1>1 DEF CoreType, Places
<1>3. /\ abs' \in AbsType /\ abs'.file = abs.file /\ abs'.synced = abs.file /\ abs'.touched = abs.during
      /\ abs'.during = abs.during /\ abs'.missed = abs.missed
  BY <1>1 DEF AbsType
<1>4. Memory(core', abs'.file)
  BY <1>1, <1>2, <1>3, MemorySame
<1>5. ~TornAt(core) /\ ~TornAt(core') /\ Disk(core') = Disk(core)
  BY <1>1, <1>2 DEF TornAt, Disk
<1>6. DiskInv(core')
  BY <1>1, <1>2, <1>5 DEF DiskInv
<1>7. SyncInv(core', abs')
  BY <1>1, <1>2, <1>3, <1>5 DEF SyncInv
<1>8. PendInv(core', abs')
  BY <1>2 DEF PendInv
<1> QED BY <1>2, <1>3, <1>4, <1>6, <1>7, <1>8 DEF IInv, TypeOK
-----------------------------------------------------------------------------
(* The entries of a header that is not torn could be memory's.             *)
LEMMA DiskShape ==
  ASSUME Parameters, NEW c \in CoreType, DiskInv(c), ~TornAt(c)
  PROVE  /\ Disk(c) \in Seq(Stream) /\ Entries(Disk(c), Len(c.sStore))
         /\ \A j \in DOMAIN Disk(c) : Len(Disk(c)[j].aBlocks) = blkDiv(Disk(c)[j].iSize)
<1> DEFINE D == Disk(c)
           A == c.header.first
           B == c.header.second
           n == c.header.count
<1>1. /\ A \in Seq(Stream) /\ B \in Seq(Stream) /\ n \in Nat /\ n <= Len(A) + Len(B)
      /\ Rising(D) /\ Apart(D, Len(c.sStore)) /\ \A j \in DOMAIN D : Len(D[j].aBlocks) = blkDiv(D[j].iSize)
  BY CoreFields DEF DiskInv, Header
<1>2. D \in Seq(Stream)
  <2> DEFINE C == A \o B
  <2>1. C \in Seq(Stream) /\ Len(C) = Len(A) + Len(B) /\ D = SubSeq(C, 1, n)
    BY <1>1, ConcatProperties DEF Disk
  <2> HIDE DEF C, D, A, B, n
  <2>2. n \in 0..Len(C)
    BY <1>1, <2>1
  <2> QED BY <2>1, <2>2
<1> HIDE DEF D, A, B, n
<1>3. Room(D)
  <2>1. SUFFICES ASSUME NEW j \in DOMAIN D PROVE D[j].iSize <= Len(D[j].aBlocks) * iBlockSize
    BY DEF Room
  <2>2. D[j] \in Stream
    BY <1>2
  <2>3. D[j].iSize \in Nat
    BY <2>2 DEF Stream
  <2> QED BY <1>1, <2>3, BlkDiv
<1> QED BY <1>1, <1>2, <1>3 DEF Entries, D

(* The place of an id is the only one.                                     *)
LEMMA OnlyPlace ==
  ASSUME Parameters, NEW D \in Seq(Stream), Rising(D), NEW j \in DOMAIN D
  PROVE  LET at == {k \in DOMAIN D : D[k].iId = D[j].iId} IN at = {j} /\ Min(at) = j
<1>1. {k \in DOMAIN D : D[k].iId = D[j].iId} = {j}
  BY RisingApart
<1>2. j \in Nat
  OBVIOUS
<1>3. Min({j}) = j
  BY <1>2 DEF Min
<1> QED BY <1>1, <1>3

(* What the store holds of an entry is a file.                             *)
LEMMA BytesOf ==
  ASSUME Parameters, NEW D \in Seq(Stream), core.sStore \in Seq(Data), Entries(D, Len(core.sStore)), NEW k \in DOMAIN D
  PROVE  /\ Bytes(D[k]) \in Seq(Nat) /\ Len(Bytes(D[k])) = D[k].iSize
         /\ \A p \in 1..D[k].iSize : Bytes(D[k])[p] = core.sStore[D[k].aBlocks[At(p)]][Off(p)]
<1> DEFINE m == D[k].iSize
           f == [p \in 1..m |-> core.sStore[D[k].aBlocks[At(p)]][Off(p)]]
<1>1. Bytes(D[k]) = f
  BY DEF Bytes, At, Off
<1>2. m \in Nat
  <2>1. D[k] \in Stream
    OBVIOUS
  <2> QED BY <2>1 DEF Stream
<1>3. ASSUME NEW p \in 1..m PROVE core.sStore[D[k].aBlocks[At(p)]][Off(p)] \in Nat
  <2>1. At(p) \in DOMAIN D[k].aBlocks /\ Off(p) \in 1..iBlockSize
    BY ByteInBlock DEF Entries
  <2>2. D[k].aBlocks[At(p)] \in 1..Len(core.sStore)
    BY <2>1 DEF Entries, Apart
  <2>3. core.sStore[D[k].aBlocks[At(p)]] \in Data
    BY <2>2
  <2> QED BY <2>1, <2>3 DEF Data
<1>4. f \in [1..m -> Nat]
  BY <1>3
<1> HIDE DEF f
<1>5. f \in Seq(Nat) /\ Len(f) = m
  BY <1>2, <1>4, SequenceOf
<1> QED BY <1>1, <1>5 DEF f

LEMMA InitStep ==
  ASSUME Parameters, Init
  PROVE  IInv
<1>1. PICK n \in EntryCounts :
        /\ core = [entries |-> n, aStreams |-> <<>>, lFreeBlocks |-> {}, bHeaderChanged |-> FALSE, pCurBlock |-> [i \in Ids |-> NoBlock],
                   sStore |-> <<>>, header |-> [count |-> 0, first |-> <<>>, second |-> <<>>], buf |-> <<>>, at |-> "out"]
        /\ abs = [changes |-> 0, file |-> [i \in Ids |-> None], synced |-> [i \in Ids |-> None], touched |-> {}, during |-> {}, late |-> {}, missed |-> {}]
  BY DEF Init
<1>2. /\ n \in Nat /\ <<>> \in Seq(Stream) /\ <<>> \in Seq(Data) /\ NoBlock \in Handle
      /\ NoBlock.iBlockIndex = 0 /\ ~NoBlock.bChanged
  BY NoBlockIsHandle DEF Parameters
<1>3. /\ core.entries = n /\ core.aStreams = <<>> /\ core.lFreeBlocks = {} /\ core.bHeaderChanged = FALSE
      /\ core.pCurBlock = [i \in Ids |-> NoBlock] /\ core.sStore = <<>> /\ core.buf = <<>> /\ core.at = "out"
      /\ core.header = [count |-> 0, first |-> <<>>, second |-> <<>>]
  BY <1>1
<1>4. core \in CoreType
  <2>1. [i \in Ids |-> NoBlock] \in [Ids -> Handle]
    BY <1>2
  <2>2. [count |-> 0, first |-> <<>>, second |-> <<>>] \in Header
    BY <1>2 DEF Header
  <2> QED BY <1>1, <1>2, <2>1, <2>2 DEF CoreType, Places
<1>5. abs \in AbsType
  BY <1>1 DEF AbsType, Files
<1>6. Disk(core) = <<>>
  BY <1>3 DEF Disk
<1>7. Memory(core, abs.file)
  <2>1. Entries(core.aStreams, Len(core.sStore)) /\ FreeInv(core.aStreams, core.lFreeBlocks, Len(core.sStore))
    BY <1>3 DEF Entries, Rising, Room, Apart, FreeInv, Owned
  <2>2. HandleInv(core.aStreams, core.pCurBlock, core.sStore)
    BY <1>2, <1>3 DEF HandleInv
  <2>3. ContentInv(core.aStreams, core.pCurBlock, core.sStore, abs.file)
    BY <1>1, <1>3 DEF ContentInv
  <2> QED BY <2>1, <2>2, <2>3 DEF Memory
<1>8. DiskInv(core)
  BY <1>3, <1>6 DEF DiskInv, Rising, Apart
<1>9. SyncInv(core, abs)
  <2>1. \A id : Agrees(Disk(core), core.aStreams, id)
    BY <1>3, <1>6 DEF Agrees
  <2>2. \A id \in Ids : abs.synced[id] = abs.file[id] /\ ~core.pCurBlock[id].bChanged
    BY <1>1, <1>2, <1>3
  <2>3. abs.during \subseteq abs.touched
    BY <1>1
  <2> QED BY <2>1, <2>2, <2>3 DEF SyncInv
<1>10. PendInv(core, abs)
  BY <1>3 DEF PendInv
<1> QED BY <1>4, <1>5, <1>7, <1>8, <1>9, <1>10 DEF IInv, TypeOK

(* After a crash the streams in memory are those of the header, and their  *)
(* bytes those of the store.                                               *)
LEMMA CrashStep ==
  ASSUME Parameters, IInv, Crash
  PROVE  IInv'
<1> DEFINE D == Disk(core)
           n == Len(core.sStore)
           P == [i \in Ids |-> NoBlock]
           F == DOMAIN core.sStore \ UNION {Range(D[k].aBlocks) : k \in DOMAIN D}
           file == [id \in Ids |-> IF {k \in DOMAIN D : D[k].iId = id} = {} THEN None
                                   ELSE Bytes(D[Min({k \in DOMAIN D : D[k].iId = id})])]
<1>1. core \in CoreType /\ abs \in AbsType /\ DiskInv(core) /\ ~TornAt(core) /\ OnDisk = D
  BY DEF IInv, TypeOK, Crash, Torn, TornAt, two, OnDisk, Disk
<1>2. /\ core.sStore \in Seq(Data) /\ n \in Nat /\ DOMAIN core.sStore = 1..n
      /\ core.header \in Header
  BY <1>1, CoreFields
<1>3. /\ D \in Seq(Stream) /\ Entries(D, n) /\ Rising(D) /\ Room(D) /\ Apart(D, n)
      /\ \A j \in DOMAIN D : Len(D[j].aBlocks) = blkDiv(D[j].iSize)
  BY <1>1, DiskShape DEF Entries
<1>4. /\ core' = [core EXCEPT !.aStreams = D, !.lFreeBlocks = F, !.bHeaderChanged = FALSE, !.pCurBlock = P, !.at = "out", !.buf = <<>>]
      /\ abs' = [changes |-> abs.changes, file |-> file, synced |-> file, touched |-> {}, during |-> {}, late |-> {}, missed |-> {}]
  <2>1. core' = [Reopened(core, D) EXCEPT !.buf = <<>>]
    BY <1>1 DEF Crash
  <2>2. abs' = [changes |-> abs.changes, file |-> file, synced |-> file, touched |-> {}, during |-> {}, late |-> {}, missed |-> {}]
    BY <1>1 DEF Crash
  <2>3. Reopened(core, D) = [core EXCEPT !.aStreams = D, !.lFreeBlocks = F, !.bHeaderChanged = FALSE, !.pCurBlock = P, !.at = "out"]
    BY DEF Reopened
  <2> HIDE DEF D, F, P, file
  <2> QED BY <1>1, <2>1, <2>2, <2>3 DEF CoreType
<1>5. F \subseteq 1..n /\ F \in SUBSET Nat /\ FreeInv(D, F, n)
  <2>1. F \subseteq 1..n
    BY <1>2
  <2>2. ASSUME NEW b \in F, Owned(D, b) PROVE FALSE
    <3>1. PICK i \in DOMAIN D : \E p \in DOMAIN D[i].aBlocks : D[i].aBlocks[p] = b
      BY <2>2 DEF Owned
    <3>2. b \in Range(D[i].aBlocks)
      BY <3>1 DEF Range
    <3> HIDE DEF D
    <3> QED BY <3>2
  <2> HIDE DEF F, n
  <2>3. F \in SUBSET Nat
    BY <1>2, <2>1
  <2> QED BY <2>1, <2>2, <2>3 DEF FreeInv
<1>6. P \in [Ids -> Handle] /\ \A id \in Ids : P[id].iBlockIndex = 0 /\ ~P[id].bChanged
  BY NoBlockIsHandle
<1>7. ASSUME NEW k \in DOMAIN D
      PROVE  D[k].iId \in Ids /\ file[D[k].iId] = Bytes(D[k])
  <2>1. D[k] \in Stream
    BY <1>3
  <2>2. D[k].iId \in Ids
    BY <2>1 DEF Stream
  <2>3. /\ {i \in DOMAIN D : D[i].iId = D[k].iId} = {k}
        /\ Min({i \in DOMAIN D : D[i].iId = D[k].iId}) = k
    BY <1>3, OnlyPlace
  <2> HIDE DEF D
  <2> QED BY <2>2, <2>3
<1>8. ASSUME NEW id \in Ids, \A k \in DOMAIN D : D[k].iId # id PROVE file[id] = None
  <2> HIDE DEF D
  <2> QED BY <1>8
<1>9. ASSUME NEW k \in DOMAIN D
      PROVE  /\ Bytes(D[k]) \in Seq(Nat) /\ Len(Bytes(D[k])) = D[k].iSize
             /\ \A p \in 1..D[k].iSize : Bytes(D[k])[p] = core.sStore[D[k].aBlocks[At(p)]][Off(p)]
  BY <1>2, <1>3, BytesOf
<1>10. file \in [Ids -> Seq(Nat) \cup {None}]
  <2>1. \A id \in Ids : file[id] \in Seq(Nat) \cup {None}
    <3>1. SUFFICES ASSUME NEW id \in Ids PROVE file[id] \in Seq(Nat) \cup {None}
      OBVIOUS
    <3>2. CASE \A k \in DOMAIN D : D[k].iId # id
      BY <1>8, <3>2
    <3>3. CASE \E k \in DOMAIN D : D[k].iId = id
      <4>1. PICK k \in DOMAIN D : D[k].iId = id
        BY <3>3
      <4> HIDE DEF file, D
      <4> QED BY <1>7, <1>9, <4>1
    <3> QED BY <3>2, <3>3
  <2>2. file = [id \in Ids |-> file[id]]
    OBVIOUS
  <2> HIDE DEF file
  <2> QED BY <2>1, <2>2
<1>11. /\ core'.entries = core.entries /\ core'.aStreams = D /\ core'.lFreeBlocks = F
       /\ core'.bHeaderChanged = FALSE /\ core'.pCurBlock = P /\ core'.sStore = core.sStore
       /\ core'.header = core.header /\ core'.at = "out" /\ core'.buf = <<>>
  BY <1>1, <1>4 DEF CoreType
<1>12. abs'.file = file /\ abs'.synced = file /\ abs'.touched = {} /\ abs'.during = {} /\ abs'.late = {} /\ abs'.missed = {}
  BY <1>4
<1> HIDE DEF F, P, file
<1>13. core' \in CoreType
  <2>1. <<>> \in Seq(Stream)
    OBVIOUS
  <2> HIDE DEF D, n
  <2> QED BY <1>1, <1>3, <1>4, <1>5, <1>6, <2>1 DEF CoreType, Places
<1>14. abs' \in AbsType
  BY <1>1, <1>4, <1>10 DEF AbsType, Files
<1>15. Disk(core') = D
  BY <1>11 DEF Disk
<1> HIDE DEF D
<1>16. HandleInv(D, P, core.sStore)
  BY <1>6 DEF HandleInv
<1>17. ContentInv(D, P, core.sStore, file)
  <2>1. ASSUME NEW id \in Ids, file[id] # None PROVE \E k \in DOMAIN D : D[k].iId = id
    BY <1>8, <2>1
  <2>2. ASSUME NEW k \in DOMAIN D, NEW p \in 1..D[k].iSize
        PROVE  file[D[k].iId][p] = Held(P, core.sStore, D[k].iId, D[k].aBlocks[At(p)])[Off(p)]
    <3>1. At(p) \in DOMAIN D[k].aBlocks
      BY <1>3, ByteInBlock
    <3>2. D[k].aBlocks[At(p)] \in 1..n
      BY <1>3, <3>1 DEF Apart
    <3>3. P[D[k].iId].iBlockIndex # D[k].aBlocks[At(p)]
      BY <1>2, <1>6, <1>7, <3>2
    <3> QED BY <1>7, <1>9, <3>3 DEF Held
  <2> QED BY <1>7, <1>9, <2>1, <2>2 DEF ContentInv
<1>18. Memory(core', abs'.file)
  BY <1>3, <1>5, <1>11, <1>12, <1>16, <1>17 DEF Memory
<1>19. DiskInv(core')
  <2>1. core.header.count <= Len(core.header.first) + Len(core.header.second)
    BY <1>1 DEF DiskInv
  <2> QED BY <1>3, <1>11, <1>15, <2>1 DEF DiskInv
<1>20. ASSUME NEW id \in Ids PROVE Agrees(D, D, id)
  <2>1. ASSUME NEW j \in DOMAIN D PROVE D[j] = Trim(D[j])
    <3>1. D[j] \in Stream /\ Len(D[j].aBlocks) = blkDiv(D[j].iSize)
      BY <1>3
    <3>2. D[j].aBlocks \in Seq(Nat)
      BY <3>1 DEF Stream
    <3>3. SubSeq(D[j].aBlocks, 1, blkDiv(D[j].iSize)) = D[j].aBlocks
      BY <3>1, <3>2, SubSeqFull
    <3>4. D[j] = [iId |-> D[j].iId, iSize |-> D[j].iSize, aBlocks |-> D[j].aBlocks]
      BY <3>1 DEF Stream
    <3> QED BY <3>3, <3>4 DEF Trim
  <2> QED BY <2>1 DEF Agrees
<1>21. SyncInv(core', abs')
  BY <1>6, <1>11, <1>12, <1>15, <1>20 DEF SyncInv
<1>22. PendInv(core', abs')
  BY <1>11 DEF PendInv
<1> QED BY <1>13, <1>14, <1>18, <1>19, <1>21, <1>22 DEF IInv, TypeOK
-----------------------------------------------------------------------------
(* A file is not the mark of a stream that does not exist.                 *)
LEMMA NoneIsNoFile ==
  None \notin Seq(Nat)
<1>1. SUFFICES ASSUME None \in Seq(Nat) PROVE FALSE
  OBVIOUS
<1>2. Len(None) = 1 /\ None[1] = -1
  BY DEF None
<1>3. None[1] \in Nat
  BY <1>1, <1>2
<1> QED BY <1>2, <1>3

(* A stream whose entry in the header is memory's, and whose blocks are in *)
(* the store as they are in memory, is found by its bytes after a crash.   *)
LEMMA AgreeingSurvives ==
  ASSUME Parameters, IInv, ~Torn, NEW id \in Ids, Agrees(Disk(core), core.aStreams, id),
         abs.synced[id] = abs.file[id], ~core.pCurBlock[id].bChanged
  PROVE  LET at == {k \in DOMAIN OnDisk : OnDisk[k].iId = id}
         IN  IF abs.synced[id] = None THEN at = {}
             ELSE \E k \in at : at = {k} /\ Bytes(OnDisk[k]) = abs.synced[id]
<1> DEFINE D == Disk(core)
           S == core.aStreams
           n == Len(core.sStore)
           file == abs.file
<1>1. core \in CoreType /\ Memory(core, file) /\ DiskInv(core) /\ ~TornAt(core) /\ OnDisk = D
  BY DEF IInv, TypeOK, Torn, TornAt, two, OnDisk, Disk
<1>2. /\ core.sStore \in Seq(Data) /\ n \in Nat /\ S \in Seq(Stream) /\ Entries(S, n)
      /\ D \in Seq(Stream) /\ Entries(D, n) /\ Rising(D) /\ Room(S)
      /\ ContentInv(S, core.pCurBlock, core.sStore, file) /\ HandleInv(S, core.pCurBlock, core.sStore)
  BY <1>1, CoreFields, DiskShape DEF Memory, Entries
<1>3. /\ \A j \in DOMAIN D : D[j].iId = id => \E k \in DOMAIN S : D[j] = Trim(S[k])
      /\ \A k \in DOMAIN S : S[k].iId = id => \E j \in DOMAIN D : D[j].iId = id
  BY DEF Agrees
<1>4. CASE file[id] = None
  <2>1. ASSUME NEW j \in DOMAIN D, D[j].iId = id PROVE FALSE
    <3>1. PICK k \in DOMAIN S : D[j] = Trim(S[k])
      BY <1>3, <2>1
    <3>2. S[k].iId = id
      BY <2>1, <3>1 DEF Trim
    <3>3. file[id] \in Seq(Nat)
      BY <1>2, <3>2 DEF ContentInv
    <3> QED BY <1>4, <3>3, NoneIsNoFile
  <2> QED BY <1>1, <1>4, <2>1
<1>5. CASE file[id] # None
  <2>1. PICK j \in DOMAIN D : D[j].iId = id
    <3>1. \E k \in DOMAIN S : S[k].iId = id
      BY <1>2, <1>5 DEF ContentInv
    <3> QED BY <1>3, <3>1
  <2>2. PICK k \in DOMAIN S : D[j] = Trim(S[k])
    BY <1>3, <2>1
  <2>3. {i \in DOMAIN D : D[i].iId = id} = {j}
    BY <1>2, <2>1, OnlyPlace
  <2> DEFINE s == S[k]
             e == D[j]
  <2>4. s \in Stream /\ s.iId = id /\ s.iSize <= Len(s.aBlocks) * iBlockSize
    BY <1>2, <2>1, <2>2 DEF Trim, Room
  <2>5. EntryOf(e, s) /\ e.iSize = s.iSize /\ s.iSize \in Nat
    <3>1. s.iSize \in Nat /\ e = Trim(s)
      BY <2>2, <2>4 DEF Stream
    <3> HIDE DEF s, e
    <3> QED BY <2>4, <3>1, TrimEntry
  <2>6. \A q \in DOMAIN e.aBlocks : q \in DOMAIN s.aBlocks /\ e.aBlocks[q] = s.aBlocks[q]
    <3> HIDE DEF s, e
    <3> QED BY <2>4, <2>5, EntryBlocks
  <2>7. /\ Bytes(e) \in Seq(Nat) /\ Len(Bytes(e)) = e.iSize
        /\ \A p \in 1..e.iSize : Bytes(e)[p] = core.sStore[e.aBlocks[At(p)]][Off(p)]
    BY <1>2, BytesOf
  <2>8. /\ file[id] \in Seq(Nat) /\ Len(file[id]) = s.iSize
        /\ \A p \in 1..s.iSize : file[id][p] = Held(core.pCurBlock, core.sStore, id, s.aBlocks[At(p)])[Off(p)]
    BY <1>2, <2>4 DEF ContentInv
  <2>9. ASSUME NEW p \in 1..e.iSize PROVE Bytes(e)[p] = file[id][p]
    <3>1. At(p) \in DOMAIN e.aBlocks
      BY <1>2, ByteInBlock DEF Entries
    <3>2. e.aBlocks[At(p)] = s.aBlocks[At(p)]
      BY <2>6, <3>1
    <3>3. e.aBlocks[At(p)] \in 1..n
      BY <1>2, <3>1 DEF Entries, Apart
    <3>4. Held(core.pCurBlock, core.sStore, id, s.aBlocks[At(p)]) = core.sStore[e.aBlocks[At(p)]]
      <4>1. e.aBlocks[At(p)] # 0
        BY <1>2, <3>3
      <4> QED BY <1>2, <3>2, <4>1 DEF Held, HandleInv
    <3> QED BY <2>5, <2>7, <2>8, <3>4
  <2>10. Bytes(e) = file[id]
    <3> HIDE DEF s, e
    <3> QED BY <2>5, <2>7, <2>8, <2>9, SeqEqual
  <2> QED BY <1>1, <1>5, <2>3, <2>10
<1> QED BY <1>4, <1>5

LEMMA InvariantSurvives ==
  ASSUME Parameters, IInv
  PROVE  UntouchedSurvives
<1>1. SUFFICES ASSUME ~Torn, NEW id \in Ids \ (abs.touched \cup abs.missed)
      PROVE  LET at == {k \in DOMAIN OnDisk : OnDisk[k].iId = id}
             IN  IF abs.synced[id] = None THEN at = {}
                 ELSE \E k \in at : at = {k} /\ Bytes(OnDisk[k]) = abs.synced[id]
  BY DEF UntouchedSurvives
<1>2. Agrees(Disk(core), core.aStreams, id) /\ abs.synced[id] = abs.file[id] /\ ~core.pCurBlock[id].bChanged
  BY <1>1 DEF IInv, SyncInv, Torn, TornAt, two
<1> QED BY <1>1, <1>2, AgreeingSurvives

LEMMA NextKeepsInvariant ==
  ASSUME Parameters, IInv, [Next]_vars
  PROVE  IInv'
<1>1. CASE createStream
  BY <1>1, CreateStep
<1>2. CASE write
  BY <1>2, WriteStep
<1>3. CASE setSize
  BY <1>3, SetSizeStep
<1>4. CASE deleteStream
  BY <1>4, DeleteStep
<1>5. CASE syncBegin
  BY <1>5, SyncBeginStep
<1>6. CASE HeaderFirst
  BY <1>6, HeaderFirstStep
<1>7. CASE HeaderSecond
  BY <1>7, HeaderSecondStep
<1>8. CASE HeaderWritten
  BY <1>8, HeaderWrittenStep
<1>9. CASE HeaderLast
  BY <1>9, HeaderLastStep
<1>10. CASE syncBlocks
  BY <1>10, SyncBlocksStep
<1>11. CASE syncDone
  BY <1>11, SyncDoneStep
<1>12. CASE Crash
  BY <1>12, CrashStep
<1>13. CASE UNCHANGED vars
  BY <1>13 DEF vars, IInv, TypeOK, Memory, DiskInv, SyncInv, PendInv, Disk, TornAt,
               PendFirst, PendSecond, PendOnly, Pends, Current
<1> QED BY <1>1, <1>2, <1>3, <1>4, <1>5, <1>6, <1>7, <1>8, <1>9, <1>10, <1>11, <1>12, <1>13 DEF Next

(* Streams, the store and the header relate as IInv says whatever calls    *)
(* and crashes come, in every interleaving with the steps of sync.         *)
THEOREM StreamsStoreAndHeader ==
  ASSUME Parameters
  PROVE  Spec => []IInv
<1>1. Init => IInv
  BY InitStep
<1>2. IInv /\ [Next]_vars => IInv'
  BY NextKeepsInvariant
<1> QED BY <1>1, <1>2, PTL DEF Spec

(* A crash at any time of Myriad::sync or of the calls on streams leaves   *)
(* every stream that was not changed since the last sync as it was then.   *)
THEOREM UntouchedStreamsSurvive ==
  ASSUME Parameters
  PROVE  Spec => []UntouchedSurvives
<1>1. IInv => UntouchedSurvives
  BY InvariantSurvives
<1> QED BY <1>1, StreamsStoreAndHeader, PTL
=============================================================================
