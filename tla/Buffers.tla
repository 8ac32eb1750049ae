----------------------------- MODULE Buffers --------------------------------
(***************************************************************************)
(* Streams in memory: Bu::QueueBuf, Bu::MemBuf with a window on it, and    *)
(* Bu::Conduit between threads. They share no state: which says what a     *)
(* behaviour is about.                                                     *)
(***************************************************************************)
EXTENDS Integers, SequencesExt

VARIABLES which, core, abs
vars == <<which, core, abs>>
-----------------------------------------------------------------------------
(***************************************************************************)
(* Bu::QueueBuf (src/stable/queuebuf.cpp): a queue of bytes in a list of   *)
(* blocks of iBlockSize bytes.  core holds the blocks, the offsets and the *)
(* size as the members do, and what the last read or peek copied; a byte   *)
(* of a block that nothing was written to is Raw.  abs is the queue of     *)
(* bytes a program expects, and what it expects of the last call.          *)
(***************************************************************************)
CONSTANTS QueueBufBytes, Raw, iBlockSize,
          QueueBufMaxSize, MaxCall   \* bounds: the bytes in the queue, of one call

-----------------------------------------------------------------------------
QueueBufLeast(a, b) == IF a < b THEN a ELSE b

addBlock(c) == [c EXCEPT !.lBlocks = Append(@, [i \in 1..iBlockSize |-> Raw])]
removeBlock(c) == [c EXCEPT !.lBlocks = Tail(@)]
QueueBufClose(c) == [c EXCEPT !.lBlocks = <<>>, !.iReadOffset = 0, !.iWriteOffset = 0, !.iTotalSize = 0]

\* The loop of write: the rest of the last block, then new blocks.
RECURSIVE writeLoop(_, _)
writeLoop(c, d) ==
    IF d = <<>> THEN c
    ELSE LET e == IF c.iWriteOffset = iBlockSize THEN [addBlock(c) EXCEPT !.iWriteOffset = 0] ELSE c
             n == QueueBufLeast(Len(d), iBlockSize - e.iWriteOffset)
             b == [i \in 1..iBlockSize |->
                     IF i > e.iWriteOffset /\ i <= e.iWriteOffset + n THEN d[i - e.iWriteOffset] ELSE Last(e.lBlocks)[i]]
         IN  writeLoop([e EXCEPT !.lBlocks[Len(e.lBlocks)] = b, !.iWriteOffset = @ + n, !.iTotalSize = @ + n],
                       SubSeq(d, n + 1, Len(d)))

coreWrite(c, d) == writeLoop(IF c.lBlocks = <<>> THEN [addBlock(c) EXCEPT !.iWriteOffset = 0] ELSE c, d)

\* The loop of read.
RECURSIVE readLoop(_, _)
readLoop(c, left) ==
    IF left = 0 \/ c.iTotalSize = 0 THEN c
    ELSE LET e == IF c.iReadOffset = iBlockSize THEN [removeBlock(c) EXCEPT !.iReadOffset = 0] ELSE c
             n == QueueBufLeast(QueueBufLeast(left, iBlockSize - e.iReadOffset), e.iTotalSize)
         IN  IF e.lBlocks = <<>> THEN e
             ELSE readLoop([e EXCEPT !.got = @ \o SubSeq(Head(e.lBlocks), e.iReadOffset + 1, e.iReadOffset + n),
                                     !.iReadOffset = @ + n, !.iTotalSize = @ - n], left - n)

\* The loop of peek from offset off of block b; rem is iTmpRemSize.
RECURSIVE peekLoop(_, _, _, _, _)
peekLoop(c, b, off, rem, left) ==
    IF left = 0 \/ rem = 0 THEN <<>>
    ELSE LET bb == IF off = iBlockSize THEN b + 1 ELSE b
             oo == IF off = iBlockSize THEN 0 ELSE off
             n  == QueueBufLeast(QueueBufLeast(left, iBlockSize - oo), rem)
         IN  IF bb > Len(c.lBlocks) THEN <<>>
             ELSE SubSeq(c.lBlocks[bb], oo + 1, oo + n) \o peekLoop(c, bb, oo + n, rem - n, left - n)

\* Mutant: a skip of exactly one block ends in front of it.
PeekOneShort(c, n, skip) ==
    LET at == c.iReadOffset + skip
    IN  peekLoop(c, at \div iBlockSize + 1, at % iBlockSize, c.iTotalSize, IF at = iBlockSize THEN n - 1 ELSE n)

\* peek( pRawBuf, nBytes, nSkip ): the skipped bytes are not taken off iTmpRemSize.
corePeek(c, n, skip) ==
    LET at == c.iReadOffset + skip
        k  == IF at > iBlockSize THEN (at - 1) \div iBlockSize ELSE 0   \* the turns of the first loop
    IN  peekLoop(c, k + 1, at - k * iBlockSize, c.iTotalSize, n)

\* Mutant: seek leaves a block that was used up to its end.
RECURSIVE DropsLate(_)
DropsLate(c) == IF c.iReadOffset <= iBlockSize THEN c
                ELSE DropsLate([removeBlock(c) EXCEPT !.iReadOffset = IF @ = 2 * iBlockSize THEN 0 ELSE @ - iBlockSize])

\* The loop of seek: blocks that were skipped go.
RECURSIVE dropBlocks(_)
dropBlocks(c) == IF c.iReadOffset < iBlockSize THEN c
                 ELSE dropBlocks([removeBlock(c) EXCEPT !.iReadOffset = @ - iBlockSize])

coreSeek(c, n) ==
    IF n >= c.iTotalSize THEN QueueBufClose(c)
    ELSE dropBlocks([c EXCEPT !.iReadOffset = @ + n, !.iTotalSize = @ - n])
-----------------------------------------------------------------------------
QueueBufInit == /\ core = [lBlocks |-> <<>>, iReadOffset |-> 0, iWriteOffset |-> 0, iTotalSize |-> 0, got |-> <<>>]
                /\ abs = [queue |-> <<>>, got |-> <<>>]

First(n) == SubSeq(abs.queue, 1, QueueBufLeast(n, Len(abs.queue)))
After(n) == SubSeq(abs.queue, n + 1, Len(abs.queue))

QueueBufWrite(d) ==
    /\ Len(abs.queue) + Len(d) <= QueueBufMaxSize
    /\ core' = [coreWrite(core, d) EXCEPT !.got = <<>>]
    /\ abs' = [queue |-> abs.queue \o d, got |-> <<>>]

QueueBufRead(n) ==
            /\ core' = IF core.lBlocks = <<>> THEN [core EXCEPT !.got = <<>>] ELSE readLoop([core EXCEPT !.got = <<>>], n)
            /\ abs' = [queue |-> After(n), got |-> First(n)]

\* A peek for bytes that are there.
peek(n, skip) ==
    /\ n + skip <= Len(abs.queue)
    /\ core' = [core EXCEPT !.got = corePeek(core, n, skip)]
    /\ abs' = [abs EXCEPT !.got = SubSeq(abs.queue, skip + 1, skip + n)]

QueueBufSeek(n) == core' = [coreSeek(core, n) EXCEPT !.got = <<>>] /\ abs' = [queue |-> After(n), got |-> <<>>]

QueueBufNext == \/ \E n \in 1..MaxCall : QueueBufRead(n) \/ QueueBufSeek(n) \/ (\E s \in 0..QueueBufMaxSize : peek(n, s))
                \/ \E n \in 1..MaxCall : \E d \in [1..n -> QueueBufBytes] : QueueBufWrite(d)

-----------------------------------------------------------------------------
\* Every read and peek copies the bytes of the queue, in order, across the edges of the
\* blocks and after blocks were used up, dropped and added; a byte nobody wrote is never
\* among them.
ReadsTheQueue == core.got = abs.got

\* The blocks hold exactly the queue between the two offsets: no block is missing, none
\* is kept behind the read offset but the one it stands at the end of.
BlocksHoldTheQueue ==
    /\ core.iTotalSize = Len(abs.queue)
    /\ LET all == FlattenSeq(core.lBlocks)
       IN  IF core.lBlocks = <<>> THEN abs.queue = <<>>
           ELSE /\ core.iReadOffset + Len(abs.queue) = (Len(core.lBlocks) - 1) * iBlockSize + core.iWriteOffset
                /\ SubSeq(all, core.iReadOffset + 1, core.iReadOffset + Len(abs.queue)) = abs.queue
-----------------------------------------------------------------------------
(***************************************************************************)
(* Bu::MemBuf and Bu::StaticMemBuf (src/stable/membuf.cpp,                 *)
(* staticmembuf.cpp), streams over a string and over memory that is only   *)
(* read, and a Bu::SubStream (substream.cpp) that opens a window of iSize  *)
(* bytes at the position another stream is at.  core is the MemBuf with    *)
(* the window's members once it is open (sub); from then on all calls go   *)
(* through the window.  abs is a file with a position: what the same calls *)
(* mean without a buffer.  A byte of the file is Unset when nobody wrote   *)
(* it since the string was given its size anew.                            *)
(***************************************************************************)
CONSTANTS MemBufBytes, MemBufMaxSize, Windows   \* bound: the size of the buffer; the sizes of windows

-----------------------------------------------------------------------------
MemBufLeast(a, b) == IF a < b THEN a ELSE b
Most(a, b) == IF a < b THEN b ELSE a
Within(p, n) == Most(0, MemBufLeast(p, n))

setPos(c, p) == [c EXCEPT !.nPos = Within(p, Len(c.sBuf))]
MemBufSeek(c, o) == setPos(c, c.nPos + o)
setPosEnd(c, p) == setPos(c, Len(c.sBuf) - p)

MemBufRead(c, n) ==
          LET k == MemBufLeast(n, Len(c.sBuf) - c.nPos)
          IN  [c EXCEPT !.got = SubSeq(c.sBuf, c.nPos + 1, c.nPos + k), !.nPos = @ + k]

\* Mutant: the part behind the end starts with the first byte again.
WriteRepeats(c, d) ==
    LET over == MemBufLeast(Len(c.sBuf) - c.nPos, Len(d))
    IN  [c EXCEPT !.sBuf = SubSeq(@, 1, c.nPos) \o SubSeq(d, 1, over) \o SubSeq(@, c.nPos + over + 1, Len(@))
                             \o SubSeq(d, 1, Len(d) - over),
                  !.nPos = @ + Len(d)]

\* write: overwrite, then append.
MemBufWrite(c, d) ==
    IF c.static THEN c
    ELSE IF c.nPos = Len(c.sBuf) THEN [c EXCEPT !.sBuf = @ \o d, !.nPos = @ + Len(d)]
    ELSE LET over == MemBufLeast(Len(c.sBuf) - c.nPos, Len(d))
         IN  [c EXCEPT !.sBuf = SubSeq(@, 1, c.nPos) \o SubSeq(d, 1, over) \o SubSeq(@, c.nPos + over + 1, Len(@))
                                  \o SubSeq(d, over + 1, Len(d)),
                       !.nPos = @ + Len(d)]

\* What setSize may leave: String::setSize drops the text and appends n bytes of memory that
\* nobody initialised.
setSize(c, n) ==
    IF c.static THEN {c} ELSE {[c EXCEPT !.sBuf = t, !.nPos = MemBufLeast(@, n)] : t \in [1..n -> MemBufBytes]}

\* The window.
SubStream(c, n) == [c EXCEPT !.sub = TRUE, !.iStart = c.nPos, !.iPos = 0, !.iSize = n]
Moved(c, d) == [d EXCEPT !.iPos = @ + (d.nPos - c.nPos)]
subRead(c, n) == Moved(c, MemBufRead(c, MemBufLeast(n, c.iSize - c.iPos)))

\* Mutant: the window's size is forgotten.
SubWriteAll(c, d) == Moved(c, MemBufWrite(c, d))

subWrite(c, d) == Moved(c, MemBufWrite(c, SubSeq(d, 1, MemBufLeast(Len(d), c.iSize - c.iPos))))

subSetPos(c, p) == LET q == Within(p, c.iSize) IN setPos([c EXCEPT !.iPos = q], c.iStart + q)
subSetPosEnd(c, p) == subSetPos(c, c.iSize - p)

subSeek(c, o) ==
    LET k == CASE c.iPos + o < 0 -> -c.iPos
               [] c.iPos + o > c.iSize -> c.iSize - c.iPos
               [] OTHER -> o
    IN  [MemBufSeek(c, k) EXCEPT !.iPos = @ + k]
-----------------------------------------------------------------------------
Unset == -1   \* no byte
Texts == {<<>>} \cup UNION {[1..n -> MemBufBytes] : n \in 1..2}

MemBufInit == \E t \in [1..MemBufMaxSize -> MemBufBytes], s \in BOOLEAN :
                  /\ core = [sBuf |-> t, nPos |-> 0, static |-> s, got |-> <<>>, sub |-> FALSE, iStart |-> 0, iPos |-> 0, iSize |-> 0]
                  /\ abs = [file |-> t, pos |-> 0, lo |-> 0, hi |-> MemBufMaxSize, got |-> <<>>, last |-> t]

\* The same calls on a file whose bytes lo .. hi - 1 alone may be used.
fileRead(n) == LET k == MemBufLeast(n, MemBufLeast(abs.hi, Len(abs.file)) - abs.pos)
               IN  [abs EXCEPT !.got = SubSeq(abs.file, abs.pos + 1, abs.pos + k), !.pos = @ + k]
fileWrite(d) ==
    LET k == MemBufLeast(Len(d), abs.hi - abs.pos)
    IN  IF core.static THEN abs
        ELSE [abs EXCEPT !.file = [i \in 1..Most(Len(@), abs.pos + k) |->
                                     IF i > abs.pos /\ i <= abs.pos + k THEN d[i - abs.pos] ELSE @[i]],
                         !.pos = @ + k]
fileMove(p) == [abs EXCEPT !.pos = Most(abs.lo, MemBufLeast(p, MemBufLeast(abs.hi, Len(abs.file))))]

Either(direct, through) == core' = IF core.sub THEN through ELSE direct

MemBufNext == \/ \E n \in 1..2 : Either(MemBufRead(core, n), subRead(core, n)) /\ abs' = fileRead(n)
              \/ \E d \in Texts : /\ Len(d) > 0 /\ core.nPos + Len(d) <= MemBufMaxSize
                                  /\ Either(MemBufWrite(core, d), subWrite(core, d)) /\ abs' = fileWrite(d)
              \/ \E o \in -2..2 : Either(MemBufSeek(core, o), subSeek(core, o)) /\ abs' = fileMove(abs.pos + o)
              \/ \E p \in -1..MemBufMaxSize : Either(setPos(core, p), subSetPos(core, p)) /\ abs' = fileMove(abs.lo + p)
              \/ \E p \in -1..MemBufMaxSize : /\ Either(setPosEnd(core, p), subSetPosEnd(core, p))
                                              /\ abs' = fileMove((IF core.sub THEN abs.hi ELSE Len(abs.file)) - p)
              \/ \E n \in 0..MemBufMaxSize :
                    /\ ~core.sub /\ core' \in setSize(core, n)
                    /\ abs' = IF core.static THEN abs
                              ELSE [abs EXCEPT !.file = [i \in 1..n |-> Unset], !.pos = MemBufLeast(@, n)]
              \/ \E n \in Windows :   \* a window inside the buffer
                    /\ ~core.sub /\ core.nPos + n <= Len(core.sBuf)
                    /\ core' = SubStream(core, n)
                    /\ abs' = [abs EXCEPT !.lo = abs.pos, !.hi = abs.pos + n, !.last = core.sBuf]

-----------------------------------------------------------------------------
\* The bytes s are those of the file, where the file knows them.
Agree(s, t) == Len(s) = Len(t) /\ \A i \in DOMAIN t : s[i] = t[i] \/ (t[i] = Unset /\ s[i] \in MemBufBytes)

\* Buffer, position and what was read are those of the file, through a window as well: a
\* write that begins in the buffer and ends behind it, and a position moved beyond either
\* end, are where the edges are.  setSize leaves a size and a position, and no byte of
\* what was there: only what is written afterwards is the file's again.
AgreesWithFile ==
    /\ Agree(core.sBuf, abs.file) /\ core.nPos = abs.pos /\ Agree(core.got, abs.got)
    /\ core.sub => core.nPos = core.iStart + core.iPos

\* Through a window nothing outside of it is changed.
WindowIsClosed ==
    core.sub => \A i \in DOMAIN abs.last : i <= core.iStart \/ i > core.iStart + core.iSize => core.sBuf[i] = abs.last[i]
-----------------------------------------------------------------------------
(***************************************************************************)
(* Bu::Conduit (src/stable/conduit.cpp): a stream between threads.  The    *)
(* sections under the mutex im are single steps; the Condition cBlock is   *)
(* its mutex and the set of threads that wait, and a signal that nobody    *)
(* waits for is lost.  core is the Conduit; abs what each thread is doing, *)
(* the bytes written and taken, numbered, and whether a read came back     *)
(* empty before the end.                                                   *)
(***************************************************************************)
CONSTANTS Readers,         
          MaxBytes,         \* bound: bytes written
          Blocking          \* the modes to look at

Nobody == "nobody"
-----------------------------------------------------------------------------
ConduitInit == /\ \E b \in Blocking : core = [qb |-> <<>>, bBlocking |-> b, bOpen |-> TRUE, cBlock |-> Nobody, waiting |-> {}]
               /\ abs = [pc |-> [r \in Readers |-> "idle"], wrote |-> 0, took |-> <<>>, early |-> FALSE]

At(r, pc) == abs.pc[r] = pc
Goto(r, pc) == abs' = [abs EXCEPT !.pc[r] = pc]

\* pthread_cond_signal: one of the threads that wait goes on; it takes the mutex again first.
signalled(c) == IF c.waiting = {} THEN {c} ELSE {[c EXCEPT !.waiting = @ \ {r}] : r \in c.waiting}

isOpen == core.bOpen \/ Len(core.qb) > 0

\* The end of a read with n bytes; one of none says that there will be no more.
Took(r, n) == [abs EXCEPT !.pc[r] = "idle", !.took = @ \o SubSeq(core.qb, 1, n),
                          !.early = @ \/ (n = 0 /\ core.bBlocking /\ isOpen)]
Available(n) == IF n < Len(core.qb) THEN n ELSE Len(core.qb)

ReadStart(r) == /\ At(r, "idle")
                /\ IF ~isOpen THEN abs' = Took(r, 0) ELSE Goto(r, "open")
                /\ UNCHANGED core

\* One that does not block takes what there is.
ReadNow(r) == /\ At(r, "open") /\ ~core.bBlocking
              /\ \E n \in 1..2 : /\ core' = [core EXCEPT !.qb = SubSeq(@, Available(n) + 1, Len(@))]
                                 /\ abs' = Took(r, Available(n))

ReadLock(r) == /\ At(r, "open") /\ core.bBlocking /\ core.cBlock = Nobody
               /\ core' = [core EXCEPT !.cBlock = r] /\ Goto(r, "test")

\* Between this step and the wait a signal finds nobody waiting.
ReadTest(r) ==
    /\ At(r, "test")
    /\ CASE Len(core.qb) = 0 /\ ~core.bOpen -> core' = [core EXCEPT !.cBlock = Nobody] /\ abs' = Took(r, 0)
         [] Len(core.qb) > 0 -> Goto(r, "take") /\ UNCHANGED core
         [] OTHER -> Goto(r, "wait") /\ UNCHANGED core

ReadWait(r) == /\ At(r, "wait")
               /\ core' = [core EXCEPT !.cBlock = Nobody, !.waiting = @ \cup {r}] /\ Goto(r, "waiting")

\* Mutant: a reader that was woken takes what there is, without another look.
WokenTakes(r) == /\ At(r, "waiting") /\ r \notin core.waiting /\ core.cBlock = Nobody
                 /\ core' = [core EXCEPT !.cBlock = r] /\ Goto(r, "take")

ReadWoken(r) == /\ At(r, "waiting") /\ r \notin core.waiting /\ core.cBlock = Nobody
                /\ core' = [core EXCEPT !.cBlock = r] /\ Goto(r, "test")

ReadTake(r) == /\ At(r, "take")
               /\ \E n \in 1..2 : /\ core' = [core EXCEPT !.qb = SubSeq(@, Available(n) + 1, Len(@)), !.cBlock = Nobody]
                                  /\ abs' = Took(r, Available(n))

\* Mutant: the bytes go to the front of the queue.
WritesToFront(c, new) == [c EXCEPT !.qb = new \o @]

put(c, new) == [c EXCEPT !.qb = @ \o new]

ConduitWrite == \E n \in 1..2 :
    /\ abs.wrote + n <= MaxBytes
    /\ core.bOpen
    /\ core' \in signalled(put(core, [k \in 1..n |-> abs.wrote + k]))
    /\ abs' = [abs EXCEPT !.wrote = @ + n]

ConduitClose == core.bOpen /\ core' \in signalled([core EXCEPT !.bOpen = FALSE]) /\ UNCHANGED abs

ConduitNext == \/ \E r \in Readers : \/ ReadStart(r) \/ ReadNow(r) \/ ReadLock(r) \/ ReadTest(r) \/ ReadWait(r)
                                     \/ ReadWoken(r) \/ ReadTake(r)
               \/ ConduitWrite \/ ConduitClose

-----------------------------------------------------------------------------
\* The bytes are taken in the order they were written, each by one reader, and the rest is in the queue.
BytesInOrder == abs.took \o core.qb = [k \in 1..abs.wrote |-> k]

\* A read that may block comes back with nothing only at the end: the stream is closed and all that was
\* written has been taken, by whichever reader.
EmptyIsTheEnd == ~abs.early
-----------------------------------------------------------------------------
Init == \/ which = "QueueBuf" /\ QueueBufInit
        \/ which = "MemBuf" /\ MemBufInit
        \/ which = "Conduit" /\ ConduitInit

Next == /\ UNCHANGED which
        /\ \/ which = "QueueBuf" /\ QueueBufNext
           \/ which = "MemBuf" /\ MemBufNext
           \/ which = "Conduit" /\ ConduitNext

Spec == Init /\ [][Next]_vars
=============================================================================
