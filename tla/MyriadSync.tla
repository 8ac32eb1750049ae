----------------------------- MODULE MyriadSync -----------------------------
(***************************************************************************)
(* Bu::Myriad::sync and crashes (src/stable/myriad.cpp, myriadstream.cpp): *)
(* the header is written block by block, then the blocks that streams have *)
(* in memory.  Meanwhile another thread appends to streams: that takes     *)
(* mHeader, which updateHeader holds, only when a block is added.  Each    *)
(* stream has one handle.  Its bytes are its id.                           *)
(* core is the Myriad with its store, apart from stream zero; abs what the *)
(* streams hold, and held when the last sync was done.  Moving the store   *)
(* to a block and reading or writing it is one step.  Which of the free    *)
(* blocks is taken is Myriad's subject: here any may be.                   *)
(***************************************************************************)
EXTENDS Integers, SequencesExt, FiniteSetsExt

CONSTANTS MaxId, MaxBlocks, MaxSize,  \* bounds: ids, blocks of the store, bytes of a stream
          MaxChanges,   \* bound: calls that change a stream
          iBlockSize, EntryCounts   \* entries that fit into the first block of the header

VARIABLES core, abs
vars == <<core, abs>>

Blank == [k \in 1..iBlockSize |-> 0]
NoBlock == [iBlockIndex |-> 0, pData |-> Blank, bChanged |-> FALSE]
Ids == 1..MaxId
None == <<-1>>   \* not a stream
Index(c, id) == CHOOSE k \in DOMAIN c.aStreams : c.aStreams[k].iId = id
Known(c) == {c.aStreams[k].iId : k \in DOMAIN c.aStreams}
blkDiv(total) == (total + iBlockSize - 1) \div iBlockSize
-----------------------------------------------------------------------------
\* The header: the entries of its first block and of its second one.
Parts(c) == LET n == Len(c.aStreams)
                entry(k) == [iId |-> c.aStreams[k].iId, iSize |-> c.aStreams[k].iSize,
                             aBlocks |-> SubSeq(c.aStreams[k].aBlocks, 1, blkDiv(c.aStreams[k].iSize))]
            IN  [first |-> [k \in 1..Min({n, c.entries}) |-> entry(k)], second |-> [k \in 1..n - Min({n, c.entries}) |-> entry(c.entries + k)]]

syncBlock(c, id) ==
  LET p == c.pCurBlock[id]
  IN  IF p.bChanged THEN [c EXCEPT !.sStore[p.iBlockIndex] = p.pData, !.pCurBlock[id].bChanged = FALSE] ELSE c

releaseBlock(c, id) == [syncBlock(c, id) EXCEPT !.pCurBlock[id] = NoBlock]

\* The block at place k of a stream is the one in memory.
Loaded(c, id, blk) ==
  IF c.pCurBlock[id].iBlockIndex = blk THEN c
  ELSE LET d == releaseBlock(c, id) IN [d EXCEPT !.pCurBlock[id] = [iBlockIndex |-> blk, pData |-> d.sStore[blk], bChanged |-> FALSE]]

\* What findEmptyBlock may return: a free block, or a new one behind the store.
EmptyBlocks(c) == IF c.lFreeBlocks = {} THEN {Len(c.sStore) + 1} ELSE c.lFreeBlocks

\* Stream id gets the block.
streamAddBlock(c, id, blk) ==
  [c EXCEPT !.bHeaderChanged = TRUE, !.aStreams[Index(c, id)].aBlocks = Append(@, blk), !.lFreeBlocks = @ \ {blk},
            !.sStore = IF blk \in DOMAIN @ THEN @ ELSE Append(@, Blank)]

\* The initialize that reads a store: the other blocks are free.
Reopened(c, streams) ==
  LET used == UNION {Range(streams[k].aBlocks) : k \in DOMAIN streams}
  IN  [c EXCEPT !.aStreams = streams, !.lFreeBlocks = DOMAIN c.sStore \ used, !.bHeaderChanged = FALSE,
                !.pCurBlock = [i \in Ids |-> NoBlock], !.at = "out"]
-----------------------------------------------------------------------------
Init ==
  \E n \in EntryCounts :
    /\ core = [entries |-> n, aStreams |-> <<>>, lFreeBlocks |-> {}, bHeaderChanged |-> FALSE, pCurBlock |-> [i \in Ids |-> NoBlock],
               sStore |-> <<>>, header |-> [count |-> 0, first |-> <<>>, second |-> <<>>], buf |-> <<>>, at |-> "out"]
    /\ abs = [changes |-> 0, file |-> [i \in Ids |-> None], synced |-> [i \in Ids |-> None], touched |-> {}, during |-> {}, late |-> {}, missed |-> {}]

mHeaderFree == core.at \in {"out", "blocks"}

\* The stream holds file now.
Touched(id, file) == [abs EXCEPT !.changes = @ + 1, !.file[id] = file, !.touched = @ \cup {id}, !.during = IF core.at = "out" THEN @ ELSE @ \cup {id}]

createStream ==
  /\ mHeaderFree /\ abs.changes < MaxChanges
  /\ LET id == IF core.aStreams = <<>> THEN 1 ELSE Last(core.aStreams).iId + 1
     IN  /\ id <= MaxId
         /\ core' = [core EXCEPT !.aStreams = Append(@, [iId |-> id, iSize |-> 0, aBlocks |-> <<>>]), !.bHeaderChanged = TRUE]
         /\ abs' = Touched(id, <<>>)

\* The entry of the stream has been written already, and headerChanged, which
\* takes no lock, comes before updateHeader clears its flag.
Missed(id) == core.at = "clear" \/ (core.at = "second" /\ Index(core, id) <= core.entries)

\* The last block of stream id is full.
full(id) == LET s == core.aStreams[Index(core, id)] IN s.iSize = Len(s.aBlocks) * iBlockSize

\* The byte behind the end is in memory.
Written(c, id) ==
  LET k == Index(c, id)
      s == c.aStreams[k]
      d == Loaded(c, id, s.aBlocks[(s.iSize \div iBlockSize) + 1])
  IN  [d EXCEPT !.pCurBlock[id] = [@ EXCEPT !.pData[(s.iSize % iBlockSize) + 1] = id, !.bChanged = TRUE],
                !.aStreams[k].iSize = @ + 1, !.bHeaderChanged = TRUE]

\* MyriadStream::write of a byte behind the end.
write ==
  /\ abs.changes < MaxChanges
  /\ \E id \in Known(core) :
       /\ core.aStreams[Index(core, id)].iSize < MaxSize
       /\ \/ ~full(id) /\ core' = Written(core, id)
          \/ /\ full(id) /\ mHeaderFree
             /\ core.lFreeBlocks # {} \/ Len(core.sStore) < MaxBlocks
             /\ \E blk \in EmptyBlocks(core) : core' = Written(streamAddBlock(core, id, blk), id)
       /\ abs' = [Touched(id, Append(abs.file[id], id)) EXCEPT !.late = IF Missed(id) THEN @ \cup {id} ELSE @]

\* Mutant: a block that is freed stays in its stream.
CutKeeps(c, k, iSize) ==
  LET s == c.aStreams[k]
      n == Min({Len(s.aBlocks), (iSize \div iBlockSize) + 1})
  IN  [c EXCEPT !.lFreeBlocks = @ \cup Range(SubSeq(s.aBlocks, n + 1, Len(s.aBlocks))), !.aStreams[k].iSize = iSize, !.bHeaderChanged = TRUE]

\* setStreamSize to less: the blocks behind the one the size ends in are freed.
Cut(c, k, iSize) ==
  LET s == c.aStreams[k]
      n == Min({Len(s.aBlocks), (iSize \div iBlockSize) + 1})
  IN  [c EXCEPT !.lFreeBlocks = @ \cup Range(SubSeq(s.aBlocks, n + 1, Len(s.aBlocks))), !.aStreams[k].aBlocks = SubSeq(@, 1, n),
                !.aStreams[k].iSize = iSize, !.bHeaderChanged = TRUE]

\* The handle is destroyed, and a new one used, which has no block in memory.
setSize ==
  /\ mHeaderFree /\ abs.changes < MaxChanges
  /\ \E id \in Known(core) :
       LET c == releaseBlock(core, id)
           k == Index(c, id)
       IN  \E iSize \in 0..c.aStreams[k].iSize - 1 :
             /\ core' = Cut(c, k, iSize)
             /\ abs' = Touched(id, SubSeq(abs.file[id], 1, iSize))

\* The handle is destroyed before its stream is deleted.
deleteStream ==
  /\ mHeaderFree /\ abs.changes < MaxChanges
  /\ \E id \in Known(core) :
       LET c == releaseBlock(core, id)
           k == Index(c, id)
       IN  /\ core' = [c EXCEPT !.lFreeBlocks = @ \cup Range(c.aStreams[k].aBlocks), !.aStreams = RemoveAt(@, k), !.bHeaderChanged = TRUE]
           /\ abs' = Touched(id, None)

syncBegin ==
  /\ core.at = "out"
  /\ core' = [core EXCEPT !.at = IF core.bHeaderChanged THEN "first" ELSE "blocks"]
  /\ abs' = [abs EXCEPT !.during = {}]

\* updateHeader has two blocks to write.  No stream comes or goes before it ends.
two == Len(core.aStreams) > core.entries

\* updateHeader: all entries are made anew.
HeaderFirst ==
  /\ core.at = "first"
  /\ core' = [core EXCEPT !.buf = Parts(core).first, !.at = IF two THEN "second" ELSE "clear"]
  /\ UNCHANGED abs

\* The first block goes to the store when the second one is loaded.
HeaderSecond ==
  /\ core.at = "second"
  /\ core' = [core EXCEPT !.header.first = core.buf, !.header.count = Len(core.aStreams), !.buf = Parts(core).second, !.at = "clear"]
  /\ UNCHANGED abs

HeaderWritten ==
  /\ core.at = "clear"
  /\ core' = [core EXCEPT !.bHeaderChanged = FALSE, !.at = "last"]
  /\ UNCHANGED abs

\* The handle of the header is destroyed, behind the end of the function.
HeaderLast ==
  /\ core.at = "last"
  /\ core' = IF two THEN [core EXCEPT !.header.second = core.buf, !.buf = <<>>, !.at = "blocks"]
                    ELSE [core EXCEPT !.header.first = core.buf, !.header.count = Len(core.aStreams), !.buf = <<>>, !.at = "blocks"]
  /\ abs' = [abs EXCEPT !.missed = abs.late, !.late = {}]

Changed == {id \in Ids : core.pCurBlock[id].bChanged}

syncBlocks ==
  /\ core.at = "blocks"
  /\ \E id \in Changed : core' = syncBlock(core, id)
  /\ UNCHANGED abs

\* What was touched before the sync began is as durable as the rest now.
syncDone ==
  /\ core.at = "blocks" /\ Changed = {}
  /\ core' = [core EXCEPT !.at = "out"]
  /\ abs' = [abs EXCEPT !.touched = abs.during, !.synced = abs.file]

\* The streams as the store has them.  When only the first of two blocks of
\* the header was written, the header is torn.
OnDisk == SubSeq(core.header.first \o core.header.second, 1, core.header.count)
Torn == core.at \in {"clear", "last"} /\ two

\* What the store holds of a stream.
Bytes(s) == [p \in 1..s.iSize |-> core.sStore[s.aBlocks[((p - 1) \div iBlockSize) + 1]][((p - 1) % iBlockSize) + 1]]

\* After a crash the streams hold what the store has of them.
Crash ==
  /\ ~Torn
  /\ core' = [Reopened(core, OnDisk) EXCEPT !.buf = <<>>]
  /\ LET at(id) == {k \in DOMAIN OnDisk : OnDisk[k].iId = id}
         file == [id \in Ids |-> IF at(id) = {} THEN None ELSE Bytes(OnDisk[Min(at(id))])]
     IN  abs' = [changes |-> abs.changes, file |-> file, synced |-> file, touched |-> {}, during |-> {}, late |-> {}, missed |-> {}]

Next == createStream \/ write \/ setSize \/ deleteStream \/ syncBegin \/ HeaderFirst \/ HeaderSecond \/ HeaderWritten \/ HeaderLast \/ syncBlocks \/ syncDone \/ Crash

Spec == Init /\ [][Next]_vars
-----------------------------------------------------------------------------
\* A crash at any time leaves every stream that was not changed since the last
\* sync as it was then, whatever was done to the others, unless the header is
\* torn, or the stream grew after updateHeader had made its entry.
UntouchedSurvives ==
  ~Torn =>
    \A id \in Ids \ (abs.touched \cup abs.missed) :
      LET at == {k \in DOMAIN OnDisk : OnDisk[k].iId = id}
      IN  IF abs.synced[id] = None THEN at = {}
          ELSE \E k \in at : at = {k} /\ Bytes(OnDisk[k]) = abs.synced[id]
=============================================================================
