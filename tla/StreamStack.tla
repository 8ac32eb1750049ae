----------------------------- MODULE StreamStack ----------------------------
(***************************************************************************)
(* Filters over a stream: Bu::Buffer, and the stack that filters are       *)
(* pushed on. They share no state: which says what a behaviour is about.   *)
(***************************************************************************)
EXTENDS Integers, SequencesExt

VARIABLES which, core, abs
vars == <<which, core, abs>>
-----------------------------------------------------------------------------
(***************************************************************************)
(* Bu::Buffer (src/stable/buffer.cpp), a filter that reads ahead from the  *)
(* next stream and gathers what is written to it, over a next stream that  *)
(* may take or give fewer bytes than asked for, or none (a socket that     *)
(* does not block).  grants is what the next stream does in the calls that *)
(* one operation makes: the bytes it takes or gives in each, none when the *)
(* sequence has ended.  core holds the members of the Buffer; abs the      *)
(* bytes the program wrote and read, and the two directions of the next    *)
(* stream.                                                                 *)
(***************************************************************************)
CONSTANTS iBufSize, MaxCall, BufferMaxBytes   \* bounds: the bytes of a call, the bytes of a direction

-----------------------------------------------------------------------------
Least(a, b) == IF a < b THEN a ELSE b
Drop(s, n) == SubSeq(s, n + 1, Len(s))
Grant(g) == IF g = <<>> THEN 0 ELSE Head(g)
Rest(g) == IF g = <<>> THEN <<>> ELSE Tail(g)

\* The bytes between iWritePos and iWritePos + iWriteBufFill are kept as a sequence, and so
\* are those of the read buffer.
Full(c) == c.iWritePos + Len(c.sWriteBuf) = iBufSize

\* rNext.write( sWriteBuf+iWritePos, iWriteBufFill )
pushed(c, g) == Least(Grant(g), Len(c.sWriteBuf))

\* Mutant: the position is forgotten when a part was taken.
DrainKeepsPos(c, g) ==
    LET iWr == pushed(c, g)
    IN  <<[c EXCEPT !.sink = @ \o SubSeq(c.sWriteBuf, 1, iWr),
                    !.sWriteBuf = IF iWr = Len(@) THEN <<>> ELSE @,
                    !.iWritePos = IF iWr = Len(c.sWriteBuf) THEN 0 ELSE @], iWr>>

\* One turn of the inner loop of write.
drained(c, g) ==
    LET iWr == pushed(c, g)
    IN  <<[c EXCEPT !.sink = @ \o SubSeq(c.sWriteBuf, 1, iWr),
                    !.sWriteBuf = Drop(@, iWr),
                    !.iWritePos = IF iWr = Len(c.sWriteBuf) /\ iWr > 0 THEN 0 ELSE @ + iWr], iWr>>

\* write: <<core, bytes of d that were accepted>>.
RECURSIVE writeLoop(_, _, _, _)
RECURSIVE spill(_, _, _, _)
writeLoop(c, d, n, g) ==
    LET iAmnt == Least(Len(d) - n, iBufSize - c.iWritePos - Len(c.sWriteBuf))
        e == [c EXCEPT !.sWriteBuf = @ \o SubSeq(d, n + 1, n + iAmnt)]
    IN  spill(e, d, n + iAmnt, g)

spill(c, d, n, g) ==
    IF Full(c)
    THEN LET r == drained(c, g)
         IN  IF r[2] = 0 THEN <<c, n>> ELSE spill(r[1], d, n, Rest(g))
    ELSE IF n < Len(d) THEN writeLoop(c, d, n, g) ELSE <<c, n>>

BufferWrite(c, d, g) == writeLoop(c, d, 0, g)

\* flush: until the buffer is empty or the stream takes no more; iWritePos stays where it is.
RECURSIVE flush(_, _)
flush(c, g) ==
    LET iWr == pushed(c, g)
    IN  IF c.sWriteBuf = <<>> \/ iWr = 0 THEN c
        ELSE flush([c EXCEPT !.sink = @ \o SubSeq(c.sWriteBuf, 1, iWr), !.sWriteBuf = Drop(@, iWr), !.iWritePos = @ + iWr], Rest(g))

\* Mutant: the buffer is refilled while bytes are left in it.
FillOver(c, g) ==
    LET k == Least(Least(Grant(g), iBufSize), Len(c.source))
    IN  [c EXCEPT !.sReadBuf = SubSeq(c.source, 1, k), !.source = Drop(@, k)]

fillReadBuf(c, g) ==
    LET k == Least(Least(Grant(g), iBufSize - Len(c.sReadBuf) - c.iReadPos), Len(c.source))
    IN  [c EXCEPT !.sReadBuf = @ \o SubSeq(c.source, 1, k), !.source = Drop(@, k)]

\* read: <<core, the bytes returned>>; a call for no bytes only fills the buffer.
RECURSIVE readLoop(_, _, _, _)
readLoop(c, n, got, g) ==
    LET iAmnt == Least(n - Len(got), Len(c.sReadBuf))
        all == got \o SubSeq(c.sReadBuf, 1, iAmnt)
        e == [c EXCEPT !.sReadBuf = Drop(@, iAmnt), !.iReadPos = @ + iAmnt]
        f == IF e.sReadBuf = <<>> THEN fillReadBuf([e EXCEPT !.iReadPos = 0], g) ELSE e
        h == IF e.sReadBuf = <<>> THEN Rest(g) ELSE g
    IN  IF Len(all) < n /\ f.sReadBuf # <<>> THEN readLoop(f, n, all, h) ELSE <<f, all>>

read(c, n, g) == IF n = 0 THEN <<fillReadBuf(c, g), <<>>>> ELSE readLoop(c, n, <<>>, g)

isEos(c) == c.iReadPos >= Len(c.sReadBuf) - 1 /\ c.source = <<>>

\* stop: what flush could not push and what was read ahead are dropped.
stop(c, g) == [flush(c, g) EXCEPT !.sWriteBuf = <<>>, !.sReadBuf = <<>>, !.iReadPos = 0, !.iWritePos = 0]
-----------------------------------------------------------------------------
Grants == UNION {[1..n -> 1..iBufSize] : n \in 0..2}

BufferInit == /\ core = [sReadBuf |-> <<>>, iReadPos |-> 0, sWriteBuf |-> <<>>, iWritePos |-> 0,
                         source |-> [i \in 1..BufferMaxBytes |-> i], sink |-> <<>>]
              /\ abs = [wrote |-> <<>>, got |-> <<>>, lost |-> FALSE]

BufferNext == \/ \E n \in 1..MaxCall, g \in Grants :
                    LET d == [i \in 1..n |-> Len(abs.wrote) + i]   \* a program writes the rest again
                        r == BufferWrite(core, d, g)
                    IN  /\ Len(abs.wrote) + n <= BufferMaxBytes /\ ~abs.lost
                        /\ core' = r[1] /\ abs' = [abs EXCEPT !.wrote = @ \o SubSeq(d, 1, r[2])]
              \/ \E g \in Grants : /\ ~abs.lost /\ core' = flush(core, g) /\ UNCHANGED abs
              \/ \E n \in 0..MaxCall, g \in Grants :
                    LET r == read(core, n, g)
                    IN  ~abs.lost /\ core' = r[1] /\ abs' = [abs EXCEPT !.got = @ \o r[2]]
              \/ \E g \in Grants : ~abs.lost /\ core' = stop(core, g) /\ abs' = [abs EXCEPT !.lost = TRUE]

-----------------------------------------------------------------------------
\* Every byte write accepted is in the next stream or in the buffer, once and in order,
\* however the next stream cuts the transfers.
WritesAreKept == ~abs.lost => core.sink \o core.sWriteBuf = abs.wrote

\* What read returned, the read-ahead and the rest of the next stream are its bytes in order.
ReadsAreKept == ~abs.lost => abs.got \o core.sReadBuf \o core.source = [i \in 1..BufferMaxBytes |-> i]
-----------------------------------------------------------------------------
(***************************************************************************)
(* Bu::StreamStack (src/stable/streamstack.cpp, streamstack.h): a stream   *)
(* with the filters pushed on it; every call goes to the top, and a filter *)
(* is built over the one that was the top then.  A filter is modelled as   *)
(* one that keeps up to Hold bytes back until it is stopped, as Buffer and *)
(* Base64 do: deleting it writes them to the stream under it.              *)
(* core.lFilts lists objects from the top down, core.objects gives each    *)
(* object's rNext and what it holds back; the bottom stream writes to a    *)
(* file that outlives it.  abs is what was written through the stack.      *)
(***************************************************************************)
CONSTANTS MaxFilters, StreamStackMaxBytes, Hold   \* bounds: filters pushed, bytes written; bytes a filter holds back

-----------------------------------------------------------------------------
None == 0
checkStack(c) == c.lFilts # <<>>

\* What the top does with d: it passes on all but its last Hold bytes.
RECURSIVE written(_, _, _)
written(c, o, d) ==
    IF ~c.objects[o].live THEN [c EXCEPT !.dangling = TRUE]
    ELSE IF c.objects[o].rNext = None THEN [c EXCEPT !.file = @ \o d]
    ELSE LET all == c.objects[o].held \o d
             k == IF Len(all) > Hold THEN Len(all) - Hold ELSE 0
         IN  written([c EXCEPT !.objects[o].held = SubSeq(all, k + 1, Len(all))], c.objects[o].rNext, SubSeq(all, 1, k))

StreamStackWrite(c, d) == IF checkStack(c) THEN written(c, c.lFilts[1], d) ELSE c

setStream(c, o) == IF c.lFilts # <<>> THEN c
                   ELSE [c EXCEPT !.lFilts = <<o>>, !.objects = Append(@, [rNext |-> None, held |-> <<>>, live |-> TRUE])]

pushFilter(c) ==
    IF ~checkStack(c) THEN c
    ELSE [c EXCEPT !.lFilts = <<Len(c.objects) + 1>> \o @,
                   !.objects = Append(@, [rNext |-> c.lFilts[1], held |-> <<>>, live |-> TRUE])]

\* delete: the filter's destructor stops it, which writes what it holds to the stream below.
deleted(c, o) ==
    LET d == IF c.objects[o].rNext = None THEN c
             ELSE written([c EXCEPT !.objects[o].held = <<>>], c.objects[o].rNext, c.objects[o].held)
    IN  [d EXCEPT !.objects[o].live = FALSE]

\* Mutant: the stream is deleted before its filters.
ClearBottomUp(c) == [FoldLeft(deleted, c, Reverse(c.lFilts)) EXCEPT !.lFilts = <<>>]

clear(c) == [FoldLeft(deleted, c, c.lFilts) EXCEPT !.lFilts = <<>>]

\* Mutant: the filter is taken from the list and not stopped.
PopLeaks(c) == IF checkStack(c) THEN [c EXCEPT !.lFilts = Tail(@)] ELSE c

popFilter(c) == IF checkStack(c) THEN [deleted(c, c.lFilts[1]) EXCEPT !.lFilts = Tail(@)] ELSE c
-----------------------------------------------------------------------------
StreamStackInit == core = [lFilts |-> <<>>, objects |-> <<>>, file |-> <<>>, dangling |-> FALSE] /\ abs = <<>>

StreamStackNext == \/ core' = setStream(core, Len(core.objects) + 1) /\ Len(core.objects) <= MaxFilters /\ UNCHANGED abs
                   \/ core' = pushFilter(core) /\ Len(core.objects) <= MaxFilters /\ UNCHANGED abs
                   \/ core' = popFilter(core) /\ UNCHANGED abs
                   \/ core' = clear(core) /\ UNCHANGED abs
                   \/ \E n \in 1..2 :
                         LET d == [i \in 1..n |-> Len(abs) + i]
                         IN  /\ Len(abs) + n <= StreamStackMaxBytes /\ core' = StreamStackWrite(core, d)
                             /\ abs' = IF checkStack(core) THEN abs \o d ELSE abs

-----------------------------------------------------------------------------
HeldBelow(c) == FoldRight(LAMBDA o, acc : acc \o c.objects[o].held, c.lFilts, <<>>)

\* Every byte written through the stack is in the file or held back by a filter of the stack,
\* in order, while filters are pushed and popped between writes, and all of them are in the
\* file once the stack is empty: a filter must be stopped while the one below it is there.
StackKeepsData == core.file \o HeldBelow(core) = abs

\* No filter writes to an object that was deleted, and every object in the list is live.
NothingDangles == ~core.dangling /\ \A i \in DOMAIN core.lFilts : core.objects[core.lFilts[i]].live
-----------------------------------------------------------------------------
Init == \/ which = "Buffer" /\ BufferInit
        \/ which = "StreamStack" /\ StreamStackInit

Next == /\ UNCHANGED which
        /\ \/ which = "Buffer" /\ BufferNext
           \/ which = "StreamStack" /\ StreamStackNext

Spec == Init /\ [][Next]_vars
=============================================================================
