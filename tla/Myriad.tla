------------------------------- MODULE Myriad -------------------------------
(***************************************************************************)
(* The block allocator and the header of Bu::Myriad (stable/myriad.cpp),   *)
(* the stream-multiplexing file format of libbu++.                         *)
(*                                                                         *)
(* The store is an array of blocks.  Stream zero holds the header: the     *)
(* list of all streams (stream zero too) with their ids, sizes and block   *)
(* lists.  In memory the same list is kept with more blocks than the       *)
(* header records, because blocks are allocated ahead of the data.  The    *)
(* header goes to the store only in updateHeader; until then a crash       *)
(* brings back the header written before.                                  *)
(*                                                                         *)
(* All operations below hold the mutex mHeader from start to end, so each  *)
(* is one step.  The data in the blocks is the subject of MyriadStream.    *)
(***************************************************************************)
EXTENDS Integers, SequencesExt

CONSTANTS
  BlockSize,    \* iBlockSize, in bytes
  PreAllocs,    \* the values of iPreAllocate callers use
  GivenIds,     \* the ids callers give to createStreamWithId
  ReuseIds,     \* whether callers give it ids that are in use
  Sizes,        \* the sizes given to setSize and the positions writers reach
  Chunks,       \* the byte counts of one pass of the loop of write
  MaxBlocks,    \* bound: blocks in the store
  MaxStreams,   \* bound: streams in the header
  MaxId         \* bound: ids of streams

VARIABLES
  aStreams,       \* sequence of [iId, iSize, aBlocks]; the first is the header
  lFreeBlocks,    \* the free list: taken at the head, freed at the tail
  iBlocks,        \* number of blocks
  iUsed,          \* the count behind getNumUsedBlocks
  bHeaderChanged, \* the header in memory is newer than the one in the store
  storeBlocks,    \* size of sStore, in blocks
  diskHeader      \* the streams as the header in the store describes them

vars == <<aStreams, lFreeBlocks, iBlocks, iUsed, bHeaderChanged,
          storeBlocks, diskHeader>>

(* Blocks needed for total bytes. *)
blkDiv(total, block) ==
  (total \div block) + (IF total % block = 0 THEN 0 ELSE 1)

(* The loop that sizes an empty header: a header of h blocks is 14 bytes,  *)
(* one stream header of 8 and h block numbers of 4.  It ends at the first  *)
(* h it reaches that holds itself.                                         *)
headerLoop[h \in Nat] ==
  IF 22 + 4 * h <= h * BlockSize
  THEN h
  ELSE headerLoop[blkDiv(22 + 4 * h + 4, BlockSize)]

FormatBlocks == headerLoop[blkDiv(14 + 8 + 4 + 4, BlockSize)]

ASSUME ConstantsAssumption ==
  /\ BlockSize \in Nat \ {0}
  /\ PreAllocs \subseteq Nat
  /\ GivenIds \subseteq Int
  /\ ReuseIds \in BOOLEAN
  /\ Sizes \subseteq Nat
  /\ Chunks \subseteq Nat \ {0}
  /\ MaxBlocks \in Nat
  /\ MaxStreams \in Nat
  /\ MaxId \in Nat

(* For this block size the sizing loop ends, and so with its exit          *)
(* condition.  The last block it added held what the header then needed,   *)
(* so no block of the header is more than its size needs.                  *)
ASSUME FormatAssumption ==
  /\ FormatBlocks \in Nat \ {0}
  /\ 22 + 4 * FormatBlocks <= FormatBlocks * BlockSize
  /\ FormatBlocks <= blkDiv(22 + 4 * FormatBlocks, BlockSize)

Stream == [iId : Int, iSize : Nat, aBlocks : Seq(Nat)]

-----------------------------------------------------------------------------
(* The places in the block lists of the streams; the header has one block  *)
(* number for each.                                                        *)
Entries(streams) ==
  UNION {{<<s, k>> : k \in DOMAIN streams[s].aBlocks} : s \in DOMAIN streams}

BlocksOf(streams) == UNION {Range(streams[s].aBlocks) : s \in DOMAIN streams}

Owned == BlocksOf(aStreams)
Free == Range(lFreeBlocks)

(* The members of a finite set of numbers in ascending order. *)
Ascending(S) ==
  [k \in 1..Cardinality(S) |->
     CHOOSE b \in S : Cardinality({c \in S : c < b}) = k - 1]

-----------------------------------------------------------------------------
(* findEmptyBlock, called n times: the free list is emptied from its head, *)
(* then the store grows.  setSize makes the store end with the new block.  *)

FromList(n) == IF n <= Len(lFreeBlocks) THEN n ELSE Len(lFreeBlocks)

Allocated(n) ==
  [k \in 1..n |-> IF k <= Len(lFreeBlocks)
                  THEN lFreeBlocks[k]
                  ELSE iBlocks + (k - Len(lFreeBlocks)) - 1]

(* Mutants of findEmptyBlocks: the free block is used but not taken off    *)
(* the list; the store ends before the new block.                          *)
findEmptyBlocks_notTaken(n) ==
  /\ iBlocks + (n - FromList(n)) <= MaxBlocks
  /\ UNCHANGED lFreeBlocks
  /\ iBlocks' = iBlocks + (n - FromList(n))
  /\ storeBlocks' = IF n > FromList(n) THEN iBlocks' ELSE storeBlocks
  /\ iUsed' = iUsed + n

findEmptyBlocks_storeShort(n) ==
  /\ iBlocks + (n - FromList(n)) <= MaxBlocks
  /\ lFreeBlocks' = SubSeq(lFreeBlocks, FromList(n) + 1, Len(lFreeBlocks))
  /\ iBlocks' = iBlocks + (n - FromList(n))
  /\ storeBlocks' = IF n > FromList(n) THEN iBlocks' - 1 ELSE storeBlocks
  /\ iUsed' = iUsed + n

findEmptyBlocks(n) ==
  /\ iBlocks + (n - FromList(n)) <= MaxBlocks
  /\ lFreeBlocks' = SubSeq(lFreeBlocks, FromList(n) + 1, Len(lFreeBlocks))
  /\ iBlocks' = iBlocks + (n - FromList(n))
  /\ storeBlocks' = IF n > FromList(n) THEN iBlocks' ELSE storeBlocks
  /\ iUsed' = iUsed + n

-----------------------------------------------------------------------------
(* initialize( iBlockSize, iPreAllocate ): format the store.  The empty    *)
(* blocks are written from the store's current position, at block pos; the *)
(* header goes to the start of the store.  iUsed is raised once before the *)
(* header's blocks are counted.                                            *)

EmptyHeader ==
  [iId |-> 0, iSize |-> 22 + 4 * FormatBlocks,
   aBlocks |-> [k \in 1..FormatBlocks |-> k - 1]]

FreshBlocks(pre) == [k \in 1..pre |-> FormatBlocks + k - 1]

Format(pre, pos) ==
  /\ aStreams' = <<EmptyHeader>>
  /\ lFreeBlocks' = FreshBlocks(pre)
  /\ iBlocks' = pre + FormatBlocks
  /\ iUsed' = FormatBlocks + 1
  /\ bHeaderChanged' = TRUE
  /\ diskHeader' = <<EmptyHeader>>
  /\ storeBlocks' = IF pos + pre + FormatBlocks > storeBlocks
                    THEN pos + pre + FormatBlocks
                    ELSE storeBlocks
  /\ storeBlocks' <= MaxBlocks

(* Mutant of createStream: the new id is the number of streams. *)
createStream_countAsId(iPreAllocate) ==
  /\ Len(aStreams) < MaxStreams /\ Len(aStreams) <= MaxId
  /\ findEmptyBlocks(iPreAllocate)
  /\ aStreams' = Append(aStreams, [iId |-> Len(aStreams), iSize |-> 0,
                                   aBlocks |-> Allocated(iPreAllocate)])
  /\ bHeaderChanged' = TRUE
  /\ UNCHANGED diskHeader

createStream(iPreAllocate) ==
  /\ Len(aStreams) < MaxStreams /\ Last(aStreams).iId < MaxId
  /\ findEmptyBlocks(iPreAllocate)
  /\ aStreams' = Append(aStreams, [iId |-> Last(aStreams).iId + 1, iSize |-> 0,
                                   aBlocks |-> Allocated(iPreAllocate)])
  /\ bHeaderChanged' = TRUE
  /\ UNCHANGED diskHeader

(* Mutant of FirstAbove: the comparison is the wrong way round. *)
FirstAbove_below(id) ==
  {i \in DOMAIN aStreams : /\ aStreams[i].iId < id
                           /\ \A k \in 1..(i - 1) : aStreams[k].iId >= id}

(* The streams whose id is the first in the list above id. *)
FirstAbove(id) ==
  {i \in DOMAIN aStreams : /\ aStreams[i].iId > id
                           /\ \A k \in 1..(i - 1) : aStreams[k].iId <= id}

(* The exception thrown for an id in use is caught by the handler meant    *)
(* for findStream's, so a second stream is made.  When that id is the last *)
(* one, the new stream finds no place in the list and its blocks are lost. *)
createStreamWithId(id, iPreAllocate) ==
  LET pStr == [iId |-> id, iSize |-> 0, aBlocks |-> Allocated(iPreAllocate)]
  IN  /\ Len(aStreams) < MaxStreams
      /\ ReuseIds \/ \A i \in DOMAIN aStreams : aStreams[i].iId # id
      /\ findEmptyBlocks(iPreAllocate)
      /\ \/ /\ Last(aStreams).iId < id
            /\ aStreams' = Append(aStreams, pStr)
         \/ /\ Last(aStreams).iId >= id
            /\ \E i \in FirstAbove(id) : aStreams' = InsertAt(aStreams, i, pStr)
         \/ /\ Last(aStreams).iId >= id
            /\ FirstAbove(id) = {}
            /\ UNCHANGED aStreams
      /\ bHeaderChanged' = TRUE
      /\ UNCHANGED diskHeader

(* Mutants of deleteStream: stream zero may be deleted; the header is not  *)
(* marked as changed; only one block is counted off.                       *)
deleteStream_zeroToo(i) ==
  /\ aStreams[i].iId >= 0
  /\ \A k \in 1..(i - 1) : aStreams[k].iId # aStreams[i].iId
  /\ lFreeBlocks' = lFreeBlocks \o aStreams[i].aBlocks
  /\ iUsed' = iUsed - Len(aStreams[i].aBlocks)
  /\ aStreams' = RemoveAt(aStreams, i)
  /\ bHeaderChanged' = TRUE
  /\ UNCHANGED <<iBlocks, storeBlocks, diskHeader>>

deleteStream_unmarked(i) ==
  /\ aStreams[i].iId > 0
  /\ \A k \in 1..(i - 1) : aStreams[k].iId # aStreams[i].iId
  /\ lFreeBlocks' = lFreeBlocks \o aStreams[i].aBlocks
  /\ iUsed' = iUsed - Len(aStreams[i].aBlocks)
  /\ aStreams' = RemoveAt(aStreams, i)
  /\ UNCHANGED <<iBlocks, bHeaderChanged, storeBlocks, diskHeader>>

deleteStream_countOne(i) ==
  /\ aStreams[i].iId > 0
  /\ \A k \in 1..(i - 1) : aStreams[k].iId # aStreams[i].iId
  /\ lFreeBlocks' = lFreeBlocks \o aStreams[i].aBlocks
  /\ iUsed' = iUsed - 1
  /\ aStreams' = RemoveAt(aStreams, i)
  /\ bHeaderChanged' = TRUE
  /\ UNCHANGED <<iBlocks, storeBlocks, diskHeader>>

(* deleteStream of the first stream with the id of stream i; ids below one *)
(* are refused, an unknown id is ignored.                                  *)
deleteStream(i) ==
  /\ aStreams[i].iId > 0
  /\ \A k \in 1..(i - 1) : aStreams[k].iId # aStreams[i].iId
  /\ lFreeBlocks' = lFreeBlocks \o aStreams[i].aBlocks
  /\ iUsed' = iUsed - Len(aStreams[i].aBlocks)
  /\ aStreams' = RemoveAt(aStreams, i)
  /\ bHeaderChanged' = TRUE
  /\ UNCHANGED <<iBlocks, storeBlocks, diskHeader>>

(* setStreamSize.  Shrinking keeps one block more than the size needs when *)
(* the size is a whole number of blocks, and frees from the end.           *)
KeptBlocks(s, iSize) == IF iSize \div BlockSize + 1 < Len(s.aBlocks)
                        THEN iSize \div BlockSize + 1
                        ELSE Len(s.aBlocks)

(* Mutant of Shrink: the blocks cut off are not put on the free list. *)
Shrink_notFreed(i, iSize) ==
  LET s == aStreams[i]
      kept == KeptBlocks(s, iSize)
  IN  /\ s.iSize > iSize
      /\ iUsed' = iUsed - (Len(s.aBlocks) - kept)
      /\ aStreams' = [aStreams EXCEPT ![i].iSize = iSize,
                                      ![i].aBlocks = SubSeq(@, 1, kept)]
      /\ bHeaderChanged' = TRUE
      /\ UNCHANGED <<lFreeBlocks, iBlocks, storeBlocks, diskHeader>>

Shrink(i, iSize) ==
  LET s == aStreams[i]
      kept == KeptBlocks(s, iSize)
      freed == Len(s.aBlocks) - kept
  IN  /\ s.iSize > iSize
      /\ lFreeBlocks' = lFreeBlocks \o
                          [k \in 1..freed |-> s.aBlocks[Len(s.aBlocks) - k + 1]]
      /\ iUsed' = iUsed - freed
      /\ aStreams' = [aStreams EXCEPT ![i].iSize = iSize,
                                      ![i].aBlocks = SubSeq(@, 1, kept)]
      /\ bHeaderChanged' = TRUE
      /\ UNCHANGED <<iBlocks, storeBlocks, diskHeader>>

(* Mutant of Grow: a last block that is not full gets no block. *)
Grow_roundedDown(i, iSize) ==
  LET s == aStreams[i]
      needed == iSize \div BlockSize
      added == IF needed > Len(s.aBlocks) THEN needed - Len(s.aBlocks) ELSE 0
  IN  /\ s.iSize < iSize
      /\ findEmptyBlocks(added)
      /\ aStreams' = [aStreams EXCEPT ![i].iSize = iSize,
                                      ![i].aBlocks = @ \o Allocated(added)]
      /\ bHeaderChanged' = TRUE
      /\ UNCHANGED diskHeader

Grow(i, iSize) ==
  LET s == aStreams[i]
      needed == blkDiv(iSize, BlockSize)
      added == IF needed > Len(s.aBlocks) THEN needed - Len(s.aBlocks) ELSE 0
  IN  /\ s.iSize < iSize
      /\ findEmptyBlocks(added)
      /\ aStreams' = [aStreams EXCEPT ![i].iSize = iSize,
                                      ![i].aBlocks = @ \o Allocated(added)]
      /\ bHeaderChanged' = TRUE
      /\ UNCHANGED diskHeader

setStreamSize(i, iSize) == Shrink(i, iSize) \/ Grow(i, iSize)

(* One pass of the loop of MyriadStream::write at or after the end of the  *)
(* stream: streamAddBlock when the position has no block yet, then the     *)
(* size grows by the bytes copied, wherever the position was.              *)
WriteChunk(i, iPos, iAmnt) ==
  LET s == aStreams[i]
      added == IF iPos \div BlockSize < Len(s.aBlocks) THEN 0 ELSE 1
  IN  /\ iPos >= s.iSize
      /\ iAmnt <= BlockSize - (iPos % BlockSize)
      /\ findEmptyBlocks(added)
      /\ aStreams' = [aStreams EXCEPT ![i].iSize = @ + iAmnt,
                                      ![i].aBlocks = @ \o Allocated(added)]
      /\ bHeaderChanged' = TRUE
      /\ UNCHANGED diskHeader

-----------------------------------------------------------------------------
(* updateHeader: the header's new size counts every allocated block; its   *)
(* stream then grows until it holds that and the new block numbers.  What  *)
(* is written for a stream is the blocks its size needs.                   *)

(* Mutant of HeaderBytes: the block numbers of stream zero are forgotten. *)
HeaderBytes_withoutZero ==
  14 + 8 * Len(aStreams) + 4 * Cardinality({e \in Entries(aStreams) : e[1] # 1})

HeaderBytes == 14 + 8 * Len(aStreams) + 4 * Cardinality(Entries(aStreams))

HeaderHolds(m) ==
  blkDiv(HeaderBytes + 4 * m, BlockSize) <= Len(aStreams[1].aBlocks) + m

HeaderImage(streams) ==
  [s \in DOMAIN streams |->
     [streams[s] EXCEPT !.aBlocks =
        SubSeq(@, 1, blkDiv(streams[s].iSize, BlockSize))]]

(* A later initialize reads the header from block zero on. *)
HeaderAtZero(streams) == Head(Head(streams).aBlocks) = 0

updateHeader ==
  /\ bHeaderChanged
  /\ \E m \in 0..MaxBlocks :
       /\ HeaderHolds(m)
       /\ \A k \in 0..(m - 1) : ~HeaderHolds(k)
       /\ findEmptyBlocks(m)
       /\ aStreams' = [aStreams EXCEPT ![1].iSize = HeaderBytes + 4 * m,
                                       ![1].aBlocks = @ \o Allocated(m)]
  /\ diskHeader' = IF HeaderAtZero(aStreams') THEN HeaderImage(aStreams')
                                              ELSE diskHeader
  /\ bHeaderChanged' = FALSE

(* initialize(): read the header back, after a clean close (updateHeader   *)
(* in the destructor) or after a crash at any point.                       *)
initialize ==
  /\ aStreams' = diskHeader
  /\ iBlocks' = storeBlocks
  /\ lFreeBlocks' = Ascending((0..(storeBlocks - 1)) \ BlocksOf(diskHeader))
  /\ iUsed' = Cardinality(Entries(diskHeader))
  /\ bHeaderChanged' = FALSE
  /\ UNCHANGED <<storeBlocks, diskHeader>>

-----------------------------------------------------------------------------
(* The constructor on an empty store, which it formats. *)
Init ==
  \E pre \in PreAllocs :
    /\ aStreams = <<EmptyHeader>>
    /\ lFreeBlocks = FreshBlocks(pre)
    /\ iBlocks = pre + FormatBlocks
    /\ iUsed = FormatBlocks + 1
    /\ bHeaderChanged = TRUE
    /\ diskHeader = <<EmptyHeader>>
    /\ storeBlocks = pre + FormatBlocks

(* Callers work on the streams they created, never on stream zero. *)
Handles == {i \in DOMAIN aStreams : aStreams[i].iId # 0}

Next ==
  \/ \E pre \in PreAllocs, pos \in 0..storeBlocks : Format(pre, pos)
  \/ \E n \in PreAllocs : createStream(n)
  \/ \E id \in GivenIds, n \in PreAllocs : createStreamWithId(id, n)
  \/ \E i \in DOMAIN aStreams : deleteStream(i)
  \/ \E i \in Handles, n \in Sizes : setStreamSize(i, n)
  \/ \E i \in Handles, pos \in Sizes, n \in Chunks : WriteChunk(i, pos, n)
  \/ updateHeader
  \/ initialize

Spec == Init /\ [][Next]_vars

-----------------------------------------------------------------------------
(* Properties.                                                             *)

(* The variables stay in their types; stream zero is always there. *)
TypeOK ==
  /\ aStreams \in Seq(Stream) /\ aStreams # << >>
  /\ lFreeBlocks \in Seq(Nat)
  /\ iBlocks \in Nat
  /\ iUsed \in Int
  /\ bHeaderChanged \in BOOLEAN
  /\ storeBlocks \in Nat
  /\ diskHeader \in Seq(Stream) /\ diskHeader # << >>

(* A list of streams uses every block at most once, and only blocks below  *)
(* the given number.                                                       *)
Disjoint(streams, blocks) ==
  /\ \A s, t \in DOMAIN streams :
       \A k \in DOMAIN streams[s].aBlocks, l \in DOMAIN streams[t].aBlocks :
         streams[s].aBlocks[k] = streams[t].aBlocks[l] => s = t /\ k = l
  /\ \A s \in DOMAIN streams : \A k \in DOMAIN streams[s].aBlocks :
       streams[s].aBlocks[k] < blocks

(* No two streams, and no stream and the free list, ever share a block, no *)
(* block is free twice, and every block exists: what keeps the data of one *)
(* stream from being overwritten through another, across allocation,       *)
(* truncation, deletion, header growth, formatting and crashes.            *)
NoSharedBlocks ==
  /\ Disjoint(aStreams, iBlocks)
  /\ IsInjective(lFreeBlocks)
  /\ \A k \in DOMAIN lFreeBlocks :
       lFreeBlocks[k] < iBlocks /\ lFreeBlocks[k] \notin Owned

(* The header a crash would bring back names no block twice and only       *)
(* blocks the store still has, although growing the store sets its size    *)
(* from iBlocks and so truncates one that was formatted to fewer blocks.   *)
DiskHeaderSound ==
  /\ Disjoint(diskHeader, iBlocks)
  /\ iBlocks <= storeBlocks

(* Every block is either in a stream or free: nothing leaks, unless a      *)
(* caller reuses an id.                                                    *)
NoLostBlocks == 0..(iBlocks - 1) \subseteq Owned \cup Free

(* The ids of the streams ascend, so that createStream's "last id plus     *)
(* one" is new and findStream can only mean one stream.                    *)
IdsAscend ==
  \A i, j \in DOMAIN aStreams : i < j => aStreams[i].iId < aStreams[j].iId

(* Every stream has blocks for all its bytes, also after seeking past the  *)
(* end and writing: aBlocks[j] in updateHeader is never out of range.      *)
Fit(streams) ==
  \A i \in DOMAIN streams :
    streams[i].iSize <= Len(streams[i].aBlocks) * BlockSize

StreamsFit == Fit(aStreams)

(* The bytes updateHeader writes end inside stream zero.  Past its end the *)
(* write would call streamAddBlock, which takes the mutex the caller holds *)
(* already: the thread would wait for itself.                              *)
HeaderWritten(streams) ==
  14 + 8 * Len(streams) + 4 * Cardinality(Entries(streams))

HeaderFits == HeaderWritten(diskHeader) <= diskHeader[1].iSize

(* When the header is marked as written, the store describes the streams   *)
(* as they are in memory: no operation changes the streams and forgets to  *)
(* set bHeaderChanged, so the next sync never skips a change.              *)
CleanHeaderOnDisk == ~bHeaderChanged => diskHeader = HeaderImage(aStreams)

(* getNumUsedBlocks is exact, or one too high in a Myriad that formatted   *)
(* its store itself.                                                       *)
UsedCountDrift == iUsed - Cardinality(Entries(aStreams)) \in {0, 1}

(* The header is stream zero and starts at block zero, as the file format  *)
(* in myriad.h says.                                                       *)
HeaderIsStreamZero ==
  aStreams[1].iId = 0 /\ Head(aStreams[1].aBlocks) = 0
=============================================================================
