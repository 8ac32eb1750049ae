----------------------------- MODULE Filters --------------------------------
(***************************************************************************)
(* Filters over a stream: the encoders and Bu::NewLine, and the            *)
(* compressors. They share no state: which says what a behaviour is about. *)
(***************************************************************************)
EXTENDS Integers, SequencesExt

VARIABLES which, core, abs
vars == <<which, core, abs>>
-----------------------------------------------------------------------------
(***************************************************************************)
(* Bu::Base64 and Bu::Hex (src/stable/base64.cpp, hex.cpp): filters that   *)
(* encode what is written through them into the next stream and decode     *)
(* what is read from it, and Bu::NewLine (src/unstable/newline.cpp), which *)
(* turns the line ends of what is read into "\n".  A program writes bytes  *)
(* in calls of any size, stops the encoder once, and reads the result back *)
(* through a second filter.  core holds the members of the filter in use   *)
(* and the next stream; abs the bytes written and the bytes read.          *)
(* A digit of the encoding is its number; CR, LF, SP and '=' are Cr, Lf,   *)
(* Sp and Pad.                                                             *)
(***************************************************************************)
CONSTANTS Bytes, ChunkSizes, FiltersMaxBytes, FiltersMaxCall   \* bounds: bytes written, bytes of one call

Pad == 64
Cr == 65
Lf == 66
Sp == 67
White == {Cr, Lf, Sp}
-----------------------------------------------------------------------------
\* Base64.
digits(iBuf) == [k \in 1..4 |-> (iBuf \div (64 ^ (4 - k))) % 64]

\* Mutant: a line break is put behind the quantum it belongs into.
BreakBehind(c, q) ==
    LET n == c.iCurChunk + 4
    IN  IF c.iChunkSize > 0 /\ n >= c.iChunkSize
        THEN [c EXCEPT !.iCurChunk = n - c.iChunkSize, !.next = @ \o q \o <<Cr, Lf>>]
        ELSE [c EXCEPT !.iCurChunk = n, !.next = @ \o q]

\* A quantum of four goes to the next stream, with the line break where the chunk is full.
quantum(c, q) ==
    LET n == c.iCurChunk + 4
    IN  IF c.iChunkSize > 0 /\ n >= c.iChunkSize
        THEN LET over == n - c.iChunkSize
             IN  [c EXCEPT !.iCurChunk = over,
                           !.next = @ \o SubSeq(q, 1, 4 - over) \o <<Cr, Lf>> \o SubSeq(q, 5 - over, 4)]
        ELSE [c EXCEPT !.iCurChunk = n, !.next = @ \o q]

encodeByte(c, b) ==
    LET d == [c EXCEPT !.iBuf = @ + b * 256 ^ (2 - c.iBPos), !.iBPos = @ + 1]
    IN  IF d.iBPos = 3 THEN [quantum(d, digits(d.iBuf)) EXCEPT !.iBPos = 0, !.iBuf = 0] ELSE d

\* Mutant: one '=' too many.
StopShort(c) ==
    IF c.iBPos = 0 THEN c ELSE quantum(c, [k \in 1..4 |-> IF k > c.iBPos THEN Pad ELSE digits(c.iBuf)[k]])

\* stop pads what is left.
FiltersStop(c) == IF c.iBPos = 0 THEN c
                  ELSE quantum(c, [k \in 1..4 |-> IF k > c.iBPos + 1 THEN Pad ELSE digits(c.iBuf)[k]])

\* The bytes of the quantum in hand that fit into the caller's buffer.
drained(c, n) ==
    LET k == IF c.iChars - c.iRPos < n THEN c.iChars - c.iRPos ELSE n
    IN  [c EXCEPT !.got = @ \o [i \in 1..k |-> (c.iBuf \div (256 ^ (2 - (c.iRPos + i - 1)))) % 256], !.iRPos = @ + k]

\* read takes four characters that are not white from the next stream.
taken(c) ==
    LET dark == SelectSeq(c.next, LAMBDA x : x \notin White)
        pos(k) == CHOOSE p \in DOMAIN c.next :
                      c.next[p] \notin White /\ Len(SelectSeq(SubSeq(c.next, 1, p), LAMBDA x : x \notin White)) = k
    IN  IF Len(dark) < 4 THEN <<<<>>, <<>>>> ELSE <<SubSeq(dark, 1, 4), SubSeq(c.next, pos(4) + 1, Len(c.next))>>

quantumIn(c) ==
    LET t == taken(c)
        q == t[1]
        pads == Len(SelectSeq(q, LAMBDA x : x = Pad))
        digit(k) == IF q[k] = Pad THEN 0 ELSE q[k]
    IN  IF q = <<>> THEN [c EXCEPT !.next = <<>>, !.iRPos = IF @ = 0 THEN c.iChars ELSE @, !.bEosIn = TRUE]
        ELSE [c EXCEPT !.next = t[2], !.iChars = 3 - pads, !.bEosIn = @ \/ pads > 0,
                       !.iBuf = digit(1) * 262144 + digit(2) * 4096 + digit(3) * 64 + digit(4)]

RECURSIVE decode(_, _)
decode(c, n) ==
    IF n = 0 \/ (c.bEosIn /\ c.iRPos = c.iChars) THEN c
    ELSE LET d == drained(c, n)
             left == n - (Len(d.got) - Len(c.got))
         IN  IF d.iRPos # d.iChars \/ d.bEosIn THEN d
             ELSE decode(quantumIn([d EXCEPT !.iRPos = 0]), left)
-----------------------------------------------------------------------------
\* Hex.  iPos counts bytes; a space goes before each chunk but the first.
hexByte(c, b) ==
    LET gap == IF c.iChunkSize > 0 /\ c.iPos % c.iChunkSize = 0 /\ c.iPos > 0 THEN <<Sp>> ELSE <<>>
    IN  [c EXCEPT !.next = @ \o gap \o <<b \div 16, b % 16>>, !.iPos = @ + 1]

\* read, one character of the next stream at a time, until n bytes are there or the stream has
\* no more for now; a digit whose partner has not come stays in cIn.
RECURSIVE hexRead(_, _, _)
hexRead(c, n, avail) ==
    IF n = 0 THEN c
    ELSE IF Len(c.cIn) = 2 THEN hexRead([c EXCEPT !.got = Append(@, c.cIn[1] * 16 + c.cIn[2]), !.cIn = <<>>], n - 1, avail)
    ELSE IF avail = 0 \/ c.next = <<>> THEN c
    ELSE LET x == Head(c.next)
         IN  hexRead([c EXCEPT !.next = Tail(@), !.cIn = IF x \in White THEN @ ELSE Append(@, x)], n, avail - 1)

-----------------------------------------------------------------------------
\* Mutant: the pair is folded one position late.
RECURSIVE NormalSkips(_, _, _, _)
NormalSkips(b, i, o, size) ==
    IF i > size THEN SubSeq(b, 1, size + o)
    ELSE LET pair == b[i] = Cr /\ b[i + 1] = Lf
         IN  NormalSkips([b EXCEPT ![i + o] = b[i]], i + (IF pair THEN 2 ELSE 1), o - (IF pair THEN 1 ELSE 0), size)

\* NewLine: what read leaves of the bytes it got; stray is what lies behind them in the
\* caller's buffer, which the last position is compared with.
RECURSIVE normal(_, _, _, _)
normal(b, i, o, size) ==
    IF i > size THEN SubSeq(b, 1, size + o)
    ELSE LET less == \/ b[i] = Cr /\ b[i + 1] = Lf
                     \/ b[i] = Lf /\ b[i + 1] = Cr
         IN  normal([b EXCEPT ![i + o] = IF b[i] \in {Cr, Lf} THEN Lf ELSE b[i]], i + 1, o - (IF less THEN 1 ELSE 0), size)

newLineRead(b, stray) == normal(Append(b, stray), 1, 0, Len(b))
-----------------------------------------------------------------------------
FiltersFresh(k, n) == [kind |-> k, mode |-> "Encode", iChunkSize |-> n, iCurChunk |-> 0, iBuf |-> 0, iBPos |-> 0, iPos |-> 0,
                       cIn |-> <<>>, iRPos |-> 0, iChars |-> 0, bEosIn |-> FALSE, next |-> <<>>, got |-> <<>>]

LineTexts == UNION {[1..n -> {Cr, Lf, 1}] : n \in 0..4}

FiltersInit == \/ \E k \in {"base64", "hex"}, n \in ChunkSizes : core = FiltersFresh(k, n) /\ abs = <<>>
               \/ \E t \in LineTexts : core = [FiltersFresh("newline", 0) EXCEPT !.next = t] /\ abs = t

Call == UNION {[1..n -> Bytes] : n \in 1..FiltersMaxCall}

FiltersWrite(d) == /\ core.mode = "Encode" /\ core.kind # "newline"
                   /\ Len(abs) + Len(d) <= FiltersMaxBytes
                   /\ core' = FoldLeft(LAMBDA c, b : IF c.kind = "hex" THEN hexByte(c, b) ELSE encodeByte(c, b), core, d)
                   /\ abs' = abs \o d

\* The encoder is stopped and a decoder opened on what it wrote.
finish == /\ core.mode = "Encode" /\ core.kind # "newline"
          /\ LET c == IF core.kind = "hex" THEN core ELSE FiltersStop(core)
             IN  core' = [FiltersFresh(core.kind, core.iChunkSize) EXCEPT !.mode = "Decode", !.next = c.next]
          /\ UNCHANGED abs

\* The next stream of Hex may stall after any number of characters; that of Base64 blocks.
FiltersRead(n) == /\ core.mode = "Decode"
                  /\ \/ core.kind = "base64" /\ core' = decode(core, n)
                     \/ core.kind = "hex" /\ \E avail \in 0..(2 * n + 1) : core' = hexRead(core, n, avail)
                  /\ UNCHANGED abs

readLines == /\ core.kind = "newline" /\ core.mode = "Encode"
             /\ \E stray \in {Cr, Lf, 1} :
                    core' = [core EXCEPT !.mode = "Done", !.next = <<>>, !.got = newLineRead(core.next, stray)]
             /\ UNCHANGED abs

FiltersNext == \/ \E d \in Call : FiltersWrite(d)
               \/ finish
               \/ \E n \in 1..FiltersMaxCall : FiltersRead(n)
               \/ readLines

-----------------------------------------------------------------------------
\* What is read is the beginning of what was written, and all of it once the decoder has used
\* up its input, whatever the sizes of the calls, the chunks and the stalls of the stream.
RoundTrip ==
    core.mode = "Decode" =>
        /\ IsPrefix(core.got, abs)
        /\ core.bEosIn /\ core.iRPos = core.iChars => core.got = abs
        /\ core.kind = "hex" /\ core.next = <<>> => core.got = abs

\* No line of the encoded text is longer than the chunk size.
LinesAreBroken ==
    core.kind = "base64" /\ core.iChunkSize > 0 =>
        \A i \in 1..(Len(core.next) - core.iChunkSize) :
            \E j \in i..(i + core.iChunkSize) : core.next[j] \in {Cr, Lf}

\* NewLine leaves no carriage return and loses nothing but line ends.
NewLineKeepsText ==
    core.kind = "newline" /\ core.mode = "Done" =>
        /\ \A i \in DOMAIN core.got : core.got[i] # Cr
        /\ SelectSeq(core.got, LAMBDA x : x = 1) = SelectSeq(abs, LAMBDA x : x = 1)
-----------------------------------------------------------------------------
(***************************************************************************)
(* Bu::Deflate, Bu::BZip2 and Bu::Lzma (src/stable/deflate.cpp, bzip2.cpp, *)
(* lzma.cpp): the loops that drive a compression library between the       *)
(* program and the next stream.  The libraries are external: an encoder    *)
(* takes bytes and gives them out again at its own pace, holding at most   *)
(* MaxHeld of them, and ends its output with End when it is finished; a    *)
(* decoder gives the bytes up to End.  A program writes, stops the filter  *)
(* (perhaps twice: close and the destructor both do), then reads the       *)
(* stream back through a second filter, and what lies behind it directly.  *)
(***************************************************************************)
\* Word stands for 2^32, the range of zlib's avail_in; bounds: bytes written, bytes per call.
CONSTANTS nBufSize, MaxHeld, CompressionMaxBytes, CompressionMaxCall, Word

End == 0
Trailer == <<-1, -2, -3>>   \* what the program put behind the compressed stream
Null == "null"
-----------------------------------------------------------------------------
Least(a, b) == IF a < b THEN a ELSE b
Drop(s, n) == SubSeq(s, n + 1, Len(s))

\* The library's encoder: with bytes to take and room for output, it returns when one of the
\* two is used up.  The outcomes are <<held, bytes left, output>>.
encode(held, in, room) ==
    {<<SubSeq(Drop(held \o in, k), 1, Least(MaxHeld, Len(held \o in) - k)),
       Drop(Drop(held \o in, k), MaxHeld),
       SubSeq(held \o in, 1, k)>> :
        k \in {k \in 0..Least(room, Len(held \o in)) : k = room \/ Len(held \o in) - k <= MaxHeld}}

\* Mutant: one turn only.
WriteOnce(c, in) == {[c EXCEPT !.held = r[1], !.next = @ \o r[3]] : r \in encode(c.held, in, nBufSize)}

\* The loop of write: until the library has taken all of the data.
RECURSIVE writeLoop(_, _)
writeLoop(c, in) ==
    UNION {LET d == [c EXCEPT !.held = r[1], !.next = @ \o r[3]]
           IN  IF r[2] = <<>> THEN {d} ELSE writeLoop(d, r[2]) : r \in encode(c.held, in, nBufSize)}

\* write: the first call makes the library's encoder; a filter that has read throws.  Deflate
\* returns at once when there is nothing to write, where the others call the library, which
\* takes that for an error.
opened(c, reading) == IF c.state = "none" THEN [c EXCEPT !.state = "open", !.bReading = reading] ELSE c

deflateWrite(c, d) == IF d = <<>> THEN {c}
                      ELSE LET o == opened(c, FALSE) IN IF o.bReading THEN {[o EXCEPT !.thrown = "mode"]} ELSE writeLoop(o, d)
bzip2Write(c, d) == LET o == opened(c, FALSE)
                    IN  IF o.bReading THEN {[o EXCEPT !.thrown = "mode"]}
                        ELSE IF d = <<>> THEN {[o EXCEPT !.thrown = "param"]} ELSE writeLoop(o, d)
lzmaWrite(c, d) == LET o == opened(c, FALSE)
                   IN  IF o.bReading THEN {[o EXCEPT !.thrown = "mode"]} ELSE writeLoop(o, d)

CompressionWrite(c, d) == CASE c.kind = "deflate" -> deflateWrite(c, d)
                            [] c.kind = "bzip2" -> bzip2Write(c, d)
                            [] c.kind = "lzma" -> lzmaWrite(c, d)

\* stop of a writer: BufSize bytes at a time until the library says that the stream has ended.
RECURSIVE finishLoop(_)
finishLoop(c) ==
    LET all == Append(c.held, End)
        k == Least(nBufSize, Len(all))
        d == [c EXCEPT !.next = @ \o SubSeq(all, 1, k)]
    IN  IF k = Len(all) THEN [d EXCEPT !.held = <<>>, !.state = Null, !.pBuf = Null]
        ELSE finishLoop([d EXCEPT !.held = SubSeq(Drop(all, k), 1, Len(all) - k - 1)])

\* Mutant: the library's state is not forgotten.
StopKeepsState(c) == IF c.state # "open" THEN c ELSE [finishLoop(c) EXCEPT !.state = "open"]

\* A filter that was not used has no library state: its stop does nothing.
CompressionStop(c) == IF c.state # "open" THEN c ELSE IF c.bReading THEN [c EXCEPT !.state = Null, !.pBuf = Null] ELSE finishLoop(c)

\* seek of the next stream, which stops at its end and its beginning.
nextSeek(c, o) == [c EXCEPT !.pos = IF @ + o > Len(c.next) THEN Len(c.next) ELSE IF @ + o < 0 THEN 0 ELSE @ + o]

\* Mutant: what was read beyond the end of the compressed stream is kept.
NoSeekBack(c) == c

\* rNext.seek( -avail_in ): in Deflate avail_in is 32 bits wide and unsigned, and so is its
\* negation when it becomes a Bu::size.
seekBack(c) == IF c.in = <<>> THEN c
               ELSE nextSeek(c, IF c.kind = "deflate" THEN Word - Len(c.in) ELSE -Len(c.in))

\* read: turns of the library's decoder (bytes up to End, while there is room), refilled from
\* the next stream; the result is <<core, bytes>>.
RECURSIVE readLoop(_, _, _)
readLoop(c, n, got) ==
    LET end == SelectInSeq(c.in, LAMBDA x : x = End)
        data == IF end = 0 THEN Len(c.in) ELSE end - 1
        k == Least(n - Len(got), data)
        all == got \o SubSeq(c.in, 1, k)
        d == [c EXCEPT !.in = Drop(@, k)]
    IN  IF end > 0 /\ k = end - 1 /\ Len(all) < n
        THEN <<seekBack([d EXCEPT !.in = Tail(@), !.ended = TRUE, !.bEos = c.kind # "bzip2"]), all>>
        ELSE IF Len(all) = n THEN <<d, all>>
        ELSE LET r == Least(nBufSize, Len(c.next) - c.pos)
             IN  IF r = 0 THEN <<[d EXCEPT !.thrown = "premature"], all>>
                 ELSE readLoop([d EXCEPT !.in = SubSeq(c.next, c.pos + 1, c.pos + r), !.pos = @ + r], n, all)

\* A filter that has written throws; Deflate returns at once when nothing is asked for.
deflateRead(c, n) == IF n = 0 THEN <<c, <<>>>>
                     ELSE LET o == opened(c, TRUE) IN IF o.bReading THEN readLoop(o, n, <<>>) ELSE <<[o EXCEPT !.thrown = "mode"], <<>>>>
bzip2Read(c, n) == LET o == opened(c, TRUE) IN IF o.bReading THEN readLoop(o, n, <<>>) ELSE <<[o EXCEPT !.thrown = "mode"], <<>>>>
lzmaRead(c, n) == LET o == opened(c, TRUE) IN IF o.bReading THEN readLoop(o, n, <<>>) ELSE <<[o EXCEPT !.thrown = "mode"], <<>>>>

CompressionRead(c, n) == CASE c.kind = "deflate" -> deflateRead(c, n)
                           [] c.kind = "bzip2" -> bzip2Read(c, n)
                           [] c.kind = "lzma" -> lzmaRead(c, n)
-----------------------------------------------------------------------------
CompressionFresh(k, s) == [kind |-> k, state |-> "none", pBuf |-> "buffer", bReading |-> FALSE, bEos |-> FALSE, ended |-> FALSE, held |-> <<>>, in |-> <<>>,
                           next |-> s, pos |-> 0, thrown |-> ""]

CompressionInit == \E k \in {"deflate", "bzip2", "lzma"} :
                       /\ core = CompressionFresh(k, <<>>)
                       /\ abs = [phase |-> "write", wrote |-> <<>>, got |-> <<>>]

Write == \E n \in 1..CompressionMaxCall :
            LET d == [i \in 1..n |-> Len(abs.wrote) + i]
            IN  /\ abs.phase = "write" /\ core.state # Null /\ Len(abs.wrote) + n <= CompressionMaxBytes
                /\ core' \in CompressionWrite(core, d)
                /\ abs' = [abs EXCEPT !.wrote = @ \o d]

Stop == abs.phase = "write" /\ core' = CompressionStop(core) /\ UNCHANGED abs

\* The program puts its own data behind the stream and opens a second filter at its start.
Open == /\ abs.phase = "write" /\ core.state = Null
        /\ core' = CompressionFresh(core.kind, core.next \o Trailer)
        /\ abs' = [abs EXCEPT !.phase = "read"]

\* A program reads until it gets less than it asked for.
Read == \E n \in 1..CompressionMaxCall :
           /\ abs.phase = "read" /\ ~core.ended
           /\ LET r == CompressionRead(core, n) IN core' = r[1] /\ abs' = [abs EXCEPT !.got = @ \o r[2]]

CompressionNext == Write \/ Stop \/ Open \/ Read

-----------------------------------------------------------------------------
\* What is read back is what was written, all of it when the end is reported, and the end is
\* found: no call hits the end of the next stream first.
ReadsBack ==
    /\ IsPrefix(abs.got, abs.wrote) /\ core.thrown = ""
    /\ core.ended => abs.got = abs.wrote

\* A writer ends its stream once, however often it is stopped.
EndsOnce == abs.phase = "write" => Len(SelectSeq(core.next, LAMBDA x : x = End)) = (IF core.state = Null THEN 1 ELSE 0)

\* When the end has been read the next stream is positioned behind it, whatever was read
\* ahead (of BZip2 and Lzma; Deflate's seek goes the wrong way).
RestIsLeft == core.ended /\ core.kind # "deflate" => Drop(core.next, core.pos) = Trailer
-----------------------------------------------------------------------------
Init == \/ which = "Filters" /\ FiltersInit
        \/ which = "Compression" /\ CompressionInit

Next == /\ UNCHANGED which
        /\ \/ which = "Filters" /\ FiltersNext
           \/ which = "Compression" /\ CompressionNext

Spec == Init /\ [][Next]_vars
=============================================================================
