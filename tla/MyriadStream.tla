---------------------------- MODULE MyriadStream ----------------------------
(***************************************************************************)
(* The data of the streams in a Myriad: Bu::MyriadStream                   *)
(* (stable/myriadstream.cpp) with the block cache of Bu::Myriad (getBlock, *)
(* releaseBlock, syncBlock, sync in stable/myriad.cpp).                    *)
(*                                                                         *)
(* A handle keeps one block in memory and writes it back when it moves to  *)
(* another block, when it is destroyed, or at Myriad::sync.  Which free    *)
(* block an allocation returns is the subject of Myriad: here it is any    *)
(* block no stream has.  A read or write of many bytes is a row of passes  *)
(* of the loop, each inside one block; a pass is a step.  Handles belong   *)
(* to one thread: MyriadStream has no locking of its own.                  *)
(***************************************************************************)
EXTENDS Integers, SequencesExt, FiniteSetsExt

CONSTANTS
  Streams,
  Handles,     \* the MyriadStream objects
  BlockSize,
  MaxBlocks,   \* bound: blocks in the store
  MaxSize,     \* bound: positions and sizes
  Bytes,       \* what callers write
  Old,         \* what the blocks hold in the beginning
  ANY,         \* a byte of a stream that was never written
  NONE,
  StaleCuts,   \* whether callers cut off the block a handle has in memory
  Gaps         \* whether callers write beyond the end

ASSUME SizesAssumption ==
  BlockSize \in Nat \ {0} /\ MaxBlocks \in Nat /\ MaxSize \in Nat
ASSUME FlagsAssumption == StaleCuts \in BOOLEAN /\ Gaps \in BOOLEAN

Blocks == 0..(MaxBlocks - 1)
Offsets == 0..(BlockSize - 1)
Data == [Offsets -> Bytes \cup {Old}]

(* A block in memory. *)
Block == [iBlockIndex : Blocks, pData : Data, bChanged : BOOLEAN]

(* NONE is the null pointer: no stream, no handle and no block. *)
ASSUME NoneAssumption == NONE \notin Streams \cup Handles \cup Block

VARIABLES
  aBlocks, iSize,   \* of each stream
  store,            \* the contents of the blocks in sStore
  on,               \* the stream of each handle, or NONE
  iPos,             \* of each handle
  pCurBlock,        \* of each handle: NONE or its Block in memory
  hActiveBlocks,    \* the handle whose block is registered, for each block
  file              \* history variable: what each stream should hold

vars == <<aBlocks, iSize, store, on, iPos, pCurBlock, hActiveBlocks, file>>

Init ==
  /\ aBlocks = [s \in Streams |-> << >>]
  /\ iSize = [s \in Streams |-> 0]
  /\ store = [b \in Blocks |-> [o \in Offsets |-> Old]]
  /\ on = [h \in Handles |-> NONE]
  /\ iPos = [h \in Handles |-> 0]
  /\ pCurBlock = [h \in Handles |-> NONE]
  /\ hActiveBlocks = [b \in Blocks |-> NONE]
  /\ file = [s \in Streams |-> << >>]

FreeBlocks == Blocks \ UNION {Range(aBlocks[s]) : s \in Streams}

-----------------------------------------------------------------------------
(* Mutant of syncBlock: the block is dropped. *)
syncBlock_dropped(p) == store

(* syncBlock: the contents of the store after a block is written back. *)
syncBlock(p) ==
  IF p # NONE /\ p.bChanged
  THEN [store EXCEPT ![p.iBlockIndex] = p.pData]
  ELSE store

(* Mutant of Unregistered: the entry stays. *)
Unregistered_kept(h) == hActiveBlocks

(* releaseBlock takes the entry for the block off hActiveBlocks, whoever's *)
(* it is.                                                                  *)
Unregistered(h) ==
  [b \in Blocks |-> IF pCurBlock[h] # NONE /\ b = pCurBlock[h].iBlockIndex
                    THEN NONE
                    ELSE hActiveBlocks[b]]

getBlock(contents, b) ==
  [iBlockIndex |-> b, pData |-> contents[b], bChanged |-> FALSE]

(* Mutant of Current: the block in memory is taken for the right one. *)
Current_unchecked(h, b) ==
  IF pCurBlock[h] # NONE
  THEN pCurBlock[h]
  ELSE getBlock(syncBlock(pCurBlock[h]), b)

(* The block a handle has once it has moved to block b: the one in memory  *)
(* when it is that block, else one read after the other is written back.   *)
Current(h, b) ==
  IF pCurBlock[h] # NONE /\ pCurBlock[h].iBlockIndex = b
  THEN pCurBlock[h]
  ELSE getBlock(syncBlock(pCurBlock[h]), b)

(* Mutant of MoveTo: the new block is not registered. *)
MoveTo_unregistered(h, b) ==
  IF pCurBlock[h] # NONE /\ pCurBlock[h].iBlockIndex = b
  THEN UNCHANGED <<store, hActiveBlocks>>
  ELSE /\ store' = syncBlock(pCurBlock[h])
       /\ hActiveBlocks' = Unregistered(h)

MoveTo(h, b) ==
  IF pCurBlock[h] # NONE /\ pCurBlock[h].iBlockIndex = b
  THEN UNCHANGED <<store, hActiveBlocks>>
  ELSE /\ store' = syncBlock(pCurBlock[h])
       /\ hActiveBlocks' = [Unregistered(h) EXCEPT ![b] = h]

-----------------------------------------------------------------------------
(* openStream, for a stream without a handle. *)
openStream(h, s) ==
  /\ on[h] = NONE
  /\ \A g \in Handles : on[g] # s
  /\ on' = [on EXCEPT ![h] = s]
  /\ iPos' = [iPos EXCEPT ![h] = 0]
  /\ UNCHANGED <<aBlocks, iSize, store, pCurBlock, hActiveBlocks, file>>

(* ~MyriadStream: releaseBlock. *)
Destroy(h) ==
  /\ on[h] # NONE
  /\ store' = syncBlock(pCurBlock[h])
  /\ hActiveBlocks' = Unregistered(h)
  /\ pCurBlock' = [pCurBlock EXCEPT ![h] = NONE]
  /\ on' = [on EXCEPT ![h] = NONE]
  /\ iPos' = [iPos EXCEPT ![h] = 0]
  /\ UNCHANGED <<aBlocks, iSize, file>>

(* seek, setPos, setPosEnd. *)
setPos(h, pos) ==
  /\ on[h] # NONE
  /\ Gaps \/ pos <= iSize[on[h]]
  /\ iPos' = [iPos EXCEPT ![h] = pos]
  /\ UNCHANGED <<aBlocks, iSize, store, on, pCurBlock, hActiveBlocks, file>>

(* A pass of the loop of read: to the end of the block, of the stream or   *)
(* of what was asked for.                                                  *)
read(h, iAmnt) ==
  LET s == on[h]
      b == aBlocks[s][iPos[h] \div BlockSize + 1]
  IN  /\ s # NONE
      /\ iPos[h] + iAmnt <= iSize[s]
      /\ iAmnt <= BlockSize - (iPos[h] % BlockSize)
      /\ pCurBlock' = [pCurBlock EXCEPT ![h] = Current(h, b)]
      /\ MoveTo(h, b)
      /\ iPos' = [iPos EXCEPT ![h] = @ + iAmnt]
      /\ UNCHANGED <<aBlocks, iSize, on, file>>

Filled(data, from, n, v) ==
  [o \in Offsets |-> IF o >= from /\ o < from + n THEN v ELSE data[o]]

(* A stream as a file: n bytes v at pos, and the bytes of a new size. *)
Overwritten(f, pos, n, v) ==
  [k \in 1..Max({Len(f), pos + n}) |->
     IF k > pos /\ k <= pos + n THEN v
     ELSE IF k <= Len(f) THEN f[k] ELSE ANY]

Resized(f, n) == [k \in 1..n |-> IF k <= Len(f) THEN f[k] ELSE ANY]

(* The position has a block, or streamAddBlock appends one. *)
BlockForWrite(s, pos, b) ==
  IF pos \div BlockSize < Len(aBlocks[s])
  THEN b = aBlocks[s][pos \div BlockSize + 1] /\ UNCHANGED aBlocks
  ELSE b \in FreeBlocks /\ aBlocks' = [aBlocks EXCEPT ![s] = Append(@, b)]

(* A pass of the loop of write.  Beyond the end the size grows by the      *)
(* bytes copied, wherever the position is.                                 *)
write(h, iAmnt, v) ==
  LET s == on[h]
      pos == iPos[h]
  IN  /\ s # NONE
      /\ pos + iAmnt <= MaxSize
      /\ iAmnt <= BlockSize - (pos % BlockSize)
      /\ pos < iSize[s] => iAmnt <= iSize[s] - pos
      /\ \E b \in Blocks :
           /\ BlockForWrite(s, pos, b)
           /\ MoveTo(h, b)
           /\ pCurBlock' = [pCurBlock EXCEPT ![h] =
                [Current(h, b) EXCEPT
                   !.bChanged = TRUE,
                   !.pData = Filled(@, pos % BlockSize, iAmnt, v)]]
      /\ iSize' = [iSize EXCEPT ![s] = IF pos < @ THEN @ ELSE @ + iAmnt]
      /\ iPos' = [iPos EXCEPT ![h] = pos + iAmnt]
      /\ file' = [file EXCEPT ![s] = Overwritten(@, pos, iAmnt, v)]
      /\ UNCHANGED on

(* Where setSize leaves the position, and a mutant that goes one too far. *)
Clipped_below(pos, n) == Min({pos, n - 1})

Clipped(pos, n) == Min({pos, n})

InMemory(h, blocks) == pCurBlock[h] # NONE /\ pCurBlock[h].iBlockIndex \in blocks

(* setSize with Myriad::setStreamSize; the position is pulled back.  The   *)
(* block in memory stays, also when it is one of those given up.           *)
setSize(h, n) ==
  LET s == on[h]
      have == Len(aBlocks[s])
      need == (n + BlockSize - 1) \div BlockSize
  IN  /\ s # NONE
      /\ \/ /\ n < iSize[s]
            /\ LET kept == SubSeq(aBlocks[s], 1, Min({have, n \div BlockSize + 1}))
               IN  /\ StaleCuts \/ ~InMemory(h, Range(aBlocks[s]) \ Range(kept))
                   /\ aBlocks' = [aBlocks EXCEPT ![s] = kept]
         \/ /\ n > iSize[s]
            /\ \E new \in [1..Max({0, need - have}) -> FreeBlocks] :
                 /\ IsInjective(new)
                 /\ aBlocks' = [aBlocks EXCEPT ![s] = @ \o new]
      /\ iSize' = [iSize EXCEPT ![s] = n]
      /\ iPos' = [iPos EXCEPT ![h] = Clipped(@, n)]
      /\ file' = [file EXCEPT ![s] = Resized(@, n)]
      /\ UNCHANGED <<store, on, pCurBlock, hActiveBlocks>>

(* deleteStream of a stream without a handle, and createStream of another  *)
(* with no blocks.                                                         *)
Recreate(s) ==
  /\ \A h \in Handles : on[h] # s
  /\ aBlocks' = [aBlocks EXCEPT ![s] = << >>]
  /\ iSize' = [iSize EXCEPT ![s] = 0]
  /\ file' = [file EXCEPT ![s] = << >>]
  /\ UNCHANGED <<store, on, iPos, pCurBlock, hActiveBlocks>>

(* Myriad::sync writes every registered block that was changed. *)
Registered(h) ==
  pCurBlock[h] # NONE /\ hActiveBlocks[pCurBlock[h].iBlockIndex] = h

(* What the store holds when it is done. *)
Synced ==
  [b \in Blocks |->
     LET h == hActiveBlocks[b]
     IN  IF h # NONE /\ pCurBlock[h].bChanged THEN pCurBlock[h].pData
                                              ELSE store[b]]

sync ==
  /\ store' = Synced
  /\ pCurBlock' = [h \in Handles |->
       IF Registered(h) THEN [pCurBlock[h] EXCEPT !.bChanged = FALSE]
                        ELSE pCurBlock[h]]
  /\ UNCHANGED <<aBlocks, iSize, on, iPos, hActiveBlocks, file>>

Next ==
  \/ \E h \in Handles :
       \/ \E s \in Streams : openStream(h, s)
       \/ Destroy(h)
       \/ \E pos \in 0..MaxSize : setPos(h, pos)
       \/ \E n \in 1..BlockSize : read(h, n)
       \/ \E n \in 1..BlockSize, v \in Bytes : write(h, n, v)
       \/ \E n \in 0..MaxSize : setSize(h, n)
  \/ \E s \in Streams : Recreate(s)
  \/ sync

Spec == Init /\ [][Next]_vars

-----------------------------------------------------------------------------
(* Properties. *)

(* The variables stay in their types. *)
TypeOK ==
  /\ aBlocks \in [Streams -> Seq(Blocks)]
  /\ iSize \in [Streams -> Nat]
  /\ store \in [Blocks -> Data]
  /\ on \in [Handles -> Streams \cup {NONE}]
  /\ iPos \in [Handles -> Nat]
  /\ pCurBlock \in [Handles -> Block \cup {NONE}]
  /\ hActiveBlocks \in [Blocks -> Handles \cup {NONE}]
  /\ file \in [Streams -> Seq(Bytes \cup {ANY})]

(* The byte of stream s at offset o, in the block a handle has in memory   *)
(* if that is the block, else in the store.                                *)
ByteAt(s, o) ==
  LET b == aBlocks[s][o \div BlockSize + 1]
      cached == {h \in Handles : /\ on[h] = s /\ pCurBlock[h] # NONE
                                 /\ pCurBlock[h].iBlockIndex = b}
  IN  IF cached = {} THEN store[b][o % BlockSize]
      ELSE pCurBlock[CHOOSE h \in cached : TRUE].pData[o % BlockSize]

(* Every stream reads back what was written to it, byte for byte, and has  *)
(* the size that follows from it, whatever happens to the other streams,   *)
(* to the block in memory and to the blocks as they are given up and used  *)
(* again.                                                                  *)
ReadsBack ==
  \A s \in Streams :
    /\ iSize[s] = Len(file[s])
    /\ \A o \in 0..(Len(file[s]) - 1) : file[s][o + 1] \in {ANY, ByteAt(s, o)}

(* A sync at any time leaves all that was written in the store: a changed  *)
(* block is never missing from hActiveBlocks, nor is an older copy of it   *)
(* there in its stead.                                                     *)
SyncReachesStore ==
  \A s \in Streams : \A o \in 0..(Len(file[s]) - 1) :
    file[s][o + 1] \in
      {ANY, Synced[aBlocks[s][o \div BlockSize + 1]][o % BlockSize]}

(* Every block a handle has in memory is registered, and nothing else is:  *)
(* the "unsynced blocks" the destructor of Myriad reports are those of     *)
(* handles that still exist.                                               *)
ActiveBlocksMatch ==
  \A b \in Blocks :
    hActiveBlocks[b] =
      LET holders == {h \in Handles : /\ pCurBlock[h] # NONE
                                      /\ pCurBlock[h].iBlockIndex = b}
      IN  IF holders = {} THEN NONE ELSE CHOOSE h \in holders : TRUE
=============================================================================
