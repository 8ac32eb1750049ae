----------------------------- MODULE Crypto ---------------------------------
(***************************************************************************)
(* Block by block: the digests, and the ciphers with their modes. They     *)
(* share no state: which says what a behaviour is about.                   *)
(***************************************************************************)
EXTENDS Bitwise, Integers, SequencesExt

VARIABLES which, core, abs
vars == <<which, core, abs>>
-----------------------------------------------------------------------------
(***************************************************************************)
(* Bu::Md5 and Bu::Sha1 (src/stable/md5.cpp, sha1.cpp): a message is given *)
(* in pieces of any size, cut into blocks, padded and closed with its      *)
(* length.  What the compression of a block computes is left out: a sum is *)
(* the sequence of the blocks it was computed from.  A byte of the message *)
(* is its place, which no two bytes share.                                 *)
(* core holds the members of an Md5 and of a Sha1 that are given the same  *)
(* message; abs the message, and what the last getResult of each gave.     *)
(***************************************************************************)
CONSTANTS Block,        \* bytes of a block, 64 in the code
          Bits,         \* bits of a byte, 8
          Word,         \* values of a 32-bit number; Block * Bits divides it
          MaxMessage    \* bound on the bytes of a message

\* Bytes that are not the message's: of memory nobody set, of padding, 0x80.
Unset == -1
Zero  == 0
Mark  == -2
\* The length takes the last two cells of a block, one for each of its words.
Field == 2

DigestsZeros(n) == [k \in 1..n |-> Zero]
Garbage  == [k \in 1..Block |-> Unset]
\* memcpy to place at (from 0) of a buffer.
Copied(buf, at, s) == [k \in DOMAIN buf |-> IF k - at \in DOMAIN s THEN s[k - at] ELSE buf[k]]
-----------------------------------------------------------------------------
\* Md5
Md5Reset(c) == [c EXCEPT !.sum = <<>>, !.uBits = <<0, 0>>]

compBlock(sum, x) == Append(sum, x)

\* Mutant: the carry of the low word is lost.
CountNoCarry(u, n) == <<(u[1] + n * Bits) % Word, u[2] + (n * Bits) \div Word>>

\* A piece of n bytes counted; the low word carries into the high one.
Counted(u, n) ==
  LET low == (u[1] + n * Bits) % Word
  IN  <<low, u[2] + (IF low < u[1] THEN 1 ELSE 0) + (n * Bits) \div Word>>

Buffered(u) == (u[1] \div Bits) % Block

RECURSIVE Md5Blocks(_, _)
Md5Blocks(c, s) ==
  IF Len(s) >= Block
  THEN Md5Blocks([c EXCEPT !.inbuf = SubSeq(s, 1, Block), !.sum = compBlock(@, SubSeq(s, 1, Block))], SubSeq(s, Block + 1, Len(s)))
  ELSE [c EXCEPT !.inbuf = Copied(@, 0, s)]

Md5AddData(c, s) ==
  LET t    == Buffered(c.uBits)
      d    == [c EXCEPT !.uBits = Counted(@, Len(s))]
      full == Copied(c.inbuf, t, SubSeq(s, 1, Block - t))
  IN  IF t = 0 THEN Md5Blocks(d, s)
      ELSE IF Len(s) < Block - t THEN [d EXCEPT !.inbuf = Copied(@, t, s)]
      ELSE Md5Blocks([d EXCEPT !.inbuf = full, !.sum = compBlock(@, full)], SubSeq(s, Block - t + 1, Len(s)))

\* The padding, on copies of the sum and of the buffer.
compCap(c) ==
  LET at    == Buffered(c.uBits)
      p     == Copied(c.inbuf, at, <<Mark>>)
      count == Block - 1 - at
  IN  IF count < Field
      THEN compBlock(compBlock(c.sum, Copied(p, at + 1, DigestsZeros(count))), Copied(DigestsZeros(Block), Block - Field, c.uBits))
      ELSE compBlock(c.sum, Copied(Copied(p, at + 1, DigestsZeros(count - Field)), Block - Field, c.uBits))
-----------------------------------------------------------------------------
\* Sha1
Sha1Reset(c) == [c EXCEPT !.uH = <<>>, !.iUnprocessedBytes = 0, !.uTotalBytes = 0]

process(c) == [c EXCEPT !.uH = Append(@, c.uBytes), !.iUnprocessedBytes = 0]

RECURSIVE Sha1Bytes(_, _)
Sha1Bytes(c, s) ==
  LET n == IF Len(s) < Block - c.iUnprocessedBytes THEN Len(s) ELSE Block - c.iUnprocessedBytes
      d == [c EXCEPT !.uBytes = Copied(@, c.iUnprocessedBytes, SubSeq(s, 1, n)), !.iUnprocessedBytes = @ + n]
  IN  IF s = <<>> THEN c
      ELSE Sha1Bytes(IF d.iUnprocessedBytes = Block THEN process(d) ELSE d, SubSeq(s, n + 1, Len(s)))

Sha1AddData(c, s) == Sha1Bytes([c EXCEPT !.uTotalBytes = (@ + Len(s)) % Word], s)

\* Mutant: the size is taken after the first byte of padding.
ResultCountsMark(c) ==
  LET m == Sha1AddData(c, <<Mark>>)
      f == IF m.iUnprocessedBytes > Block - Field THEN Sha1AddData(m, DigestsZeros(Block - m.iUnprocessedBytes)) ELSE m
  IN  Sha1AddData(f, DigestsZeros(Block - Field - f.iUnprocessedBytes) \o <<(m.uTotalBytes * Bits) \div Word, (m.uTotalBytes * Bits) % Word>>)

\* The padding goes through addData, into the object itself.
Sha1GetResult(c) ==
  LET size == <<(c.uTotalBytes * Bits) \div Word, (c.uTotalBytes * Bits) % Word>>
      m == Sha1AddData(c, <<Mark>>)
      f == IF m.iUnprocessedBytes > Block - Field THEN Sha1AddData(m, DigestsZeros(Block - m.iUnprocessedBytes)) ELSE m
  IN  Sha1AddData(f, DigestsZeros(Block - Field - f.iUnprocessedBytes) \o size)
-----------------------------------------------------------------------------
DigestsInit ==
  /\ core = [md5 |-> Md5Reset([sum |-> <<>>, uBits |-> <<0, 0>>, inbuf |-> Garbage]),
             sha1 |-> Sha1Reset([uH |-> <<>>, iUnprocessedBytes |-> 0, uTotalBytes |-> 0, uBytes |-> Garbage])]
  /\ abs = [message |-> <<>>, md5 |-> <<>>, sha1 |-> <<>>, asked |-> FALSE]

addData ==
  \E n \in 0..MaxMessage - Len(abs.message) :
    LET s == [k \in 1..n |-> Len(abs.message) + k]
    IN  /\ core' = [md5 |-> Md5AddData(core.md5, s), sha1 |-> Sha1AddData(core.sha1, s)]
        /\ abs' = [abs EXCEPT !.message = @ \o s, !.md5 = <<>>, !.sha1 = <<>>]

\* A Sha1 is asked for its result once between two resets, an Md5 at any time.
getResult ==
  /\ core' = [core EXCEPT !.sha1 = IF abs.asked THEN @ ELSE Sha1GetResult(@)]
  /\ abs' = [abs EXCEPT !.md5 = compCap(core.md5), !.sha1 = IF abs.asked THEN @ ELSE Sha1GetResult(core.sha1).uH, !.asked = TRUE]

DigestsReset ==
  /\ core' = [md5 |-> Md5Reset(core.md5), sha1 |-> Sha1Reset(core.sha1)]
  /\ abs' = [message |-> <<>>, md5 |-> <<>>, sha1 |-> <<>>, asked |-> FALSE]

DigestsNext == addData \/ getResult \/ DigestsReset

-----------------------------------------------------------------------------
\* The message with its padding: the mark, as few zeros as end two cells
\* before the end of a block, and its length.
Padded(message, size) ==
  message \o <<Mark>> \o DigestsZeros((2 * Block - 1 - Field - (Len(message) % Block)) % Block) \o size

CutUp(s) == [b \in 1..Len(s) \div Block |-> SubSeq(s, (b - 1) * Block + 1, b * Block)]

\* However the message was cut into pieces, the digest is that of the blocks
\* of the padded message; the low word of the length comes first.
Md5DigestsTheMessage ==
  LET n == Len(abs.message) * Bits IN
  abs.md5 # <<>> => abs.md5 = CutUp(Padded(abs.message, <<n % Word, n \div Word>>))

\* The same, for a message of less than 2^32 bytes; the high word comes first.
Sha1DigestsTheMessage ==
  LET n == Len(abs.message) * Bits IN
  abs.sha1 # <<>> => abs.sha1 = CutUp(Padded(abs.message, <<n \div Word, n % Word>>))
-----------------------------------------------------------------------------
(***************************************************************************)
(* Bu::Cipher, its modes and Bu::Blowfish (src/unstable/cipher.h,          *)
(* ciphermodeecb.h, ...cbc.h, ...cfb.h, ...ofb.h, blowfish.h): a filter    *)
(* that enciphers whole blocks.  A block is two words, a word one byte     *)
(* here; there is one S-box, and fewer rounds.  core is a filter w that is *)
(* written to and a filter r that is read from, with the same password;    *)
(* abs the stream between them, and the bytes on either side.              *)
(***************************************************************************)
CONSTANTS Modes,        \* of "ecb", "cbc", "cfb", "ofb"
          Passwords, Ivs,
          Rounds,       \* an even number, 16 in the code
          Base,         \* values of a word
          Seeds,        \* the texts: the multiples of a seed
          MaxText       \* bound on the bytes written

iBlockSize == 2
Blank == <<0, 0>>
XorBlocks(a, b) == [k \in DOMAIN a |-> a[k] ^^ b[k]]
-----------------------------------------------------------------------------
\* Blowfish.  The tables that reset copies; any will do.
PA_Init == [i \in 0..Rounds + 1 |-> (3 * i + 1) % Base]
SB_Init == [x \in 0..Base - 1 |-> (x * x + 2) % Base]
CiphersReset == [PA |-> PA_Init, SB |-> SB_Init]

F(c, w) == c.SB[w]

\* The rounds change the two words in turn.
keyEncipher(c, b) ==
  LET w == FoldLeft(LAMBDA v, i : IF i % 2 = 1 THEN <<v[1], v[2] ^^ (F(c, v[1]) ^^ c.PA[i])>>
                                               ELSE <<v[1] ^^ (F(c, v[2]) ^^ c.PA[i]), v[2]>>,
                    <<b[1] ^^ c.PA[0], b[2]>>, [i \in 1..Rounds |-> i])
  IN  <<w[2] ^^ c.PA[Rounds + 1], w[1]>>

\* Mutant: the rounds are undone in the order they were done.
DecipherForward(c, b) ==
  LET w == FoldLeft(LAMBDA v, i : IF i % 2 = 1 THEN <<v[1], v[2] ^^ (F(c, v[1]) ^^ c.PA[i])>>
                                               ELSE <<v[1] ^^ (F(c, v[2]) ^^ c.PA[i]), v[2]>>,
                    <<b[1] ^^ c.PA[Rounds + 1], b[2]>>, [i \in 1..Rounds |-> i])
  IN  <<w[2] ^^ c.PA[0], w[1]>>

decipher(c, b) ==
  LET w == FoldLeft(LAMBDA v, i : IF i % 2 = 0 THEN <<v[1], v[2] ^^ (F(c, v[1]) ^^ c.PA[i])>>
                                               ELSE <<v[1] ^^ (F(c, v[2]) ^^ c.PA[i]), v[2]>>,
                    <<b[1] ^^ c.PA[Rounds + 1], b[2]>>, [i \in 1..Rounds |-> Rounds + 1 - i])
  IN  <<w[2] ^^ c.PA[0], w[1]>>

\* The tables are filled with what the cipher, as far as it is, makes of the
\* words it made before.
Filled(c, null, table, i) ==
  LET n == keyEncipher(c, null)
  IN  [c |-> IF table = "PA" THEN [c EXCEPT !.PA = (i :> n[1]) @@ (i + 1 :> n[2]) @@ @]
                             ELSE [c EXCEPT !.SB = (i :> n[1]) @@ (i + 1 :> n[2]) @@ @],
       null |-> n]

setPassword(sPass) ==
  LET mixed == [CiphersReset EXCEPT !.PA = [i \in DOMAIN @ |-> @[i] ^^ sPass[(i % Len(sPass)) + 1]]]
      pa == FoldLeft(LAMBDA s, k : Filled(s.c, s.null, "PA", 2 * (k - 1)), [c |-> mixed, null |-> Blank], [k \in 1..Rounds \div 2 + 1 |-> k])
      sb == FoldLeft(LAMBDA s, k : Filled(s.c, s.null, "SB", 2 * (k - 1)), pa, [k \in 1..Base \div 2 |-> k])
  IN  IF sPass = <<>> THEN CiphersReset ELSE sb.c
-----------------------------------------------------------------------------
\* The modes.  A call gives the block and the vector after it.

EcbEncipher(f, b) == [block |-> keyEncipher(f.key, b), aVector |-> f.aVector]
EcbDecipher(f, b) == [block |-> decipher(f.key, b), aVector |-> f.aVector]

CbcEncipher(f, b) == LET y == keyEncipher(f.key, XorBlocks(b, f.aVector)) IN [block |-> y, aVector |-> y]
CbcDecipher(f, b) == [block |-> XorBlocks(decipher(f.key, b), f.aVector), aVector |-> b]

CfbEncipher(f, b) == LET y == XorBlocks(b, keyEncipher(f.key, f.aVector)) IN [block |-> y, aVector |-> y]
CfbDecipher(f, b) == [block |-> XorBlocks(b, keyEncipher(f.key, f.aVector)), aVector |-> b]

\* The same in both directions.
OfbEncipher(f, b) == LET k == keyEncipher(f.key, f.aVector) IN [block |-> XorBlocks(b, k), aVector |-> k]

modeEncipher(f, b) ==
  CASE f.mode = "ecb" -> EcbEncipher(f, b)
    [] f.mode = "cbc" -> CbcEncipher(f, b)
    [] f.mode = "cfb" -> CfbEncipher(f, b)
    [] f.mode = "ofb" -> OfbEncipher(f, b)

modeDecipher(f, b) ==
  CASE f.mode = "ecb" -> EcbDecipher(f, b)
    [] f.mode = "cbc" -> CbcDecipher(f, b)
    [] f.mode = "cfb" -> CfbDecipher(f, b)
    [] f.mode = "ofb" -> OfbEncipher(f, b)
-----------------------------------------------------------------------------
\* Cipher

\* write: the stream gets each block that is full.
RECURSIVE write(_, _, _)
write(f, next, s) ==
  IF s = <<>> THEN [f |-> f, next |-> next]
  ELSE LET buf == Append(f.aWriteBuf, Head(s))
           e   == modeEncipher(f, buf)
       IN  IF Len(buf) < iBlockSize THEN write([f EXCEPT !.aWriteBuf = buf], next, Tail(s))
           ELSE write([f EXCEPT !.aWriteBuf = <<>>, !.aVector = e.aVector], next \o e.block, Tail(s))

CiphersZeros(f) == IF f.aWriteBuf = <<>> THEN <<>> ELSE [k \in 1..iBlockSize - Len(f.aWriteBuf) |-> 0]

\* Mutant: the block that is not full is given up.
FlushForgets(f, next) == [f |-> [f EXCEPT !.aWriteBuf = <<>>], next |-> next]

\* flush: the block is filled up with zeros.
flushed(f, next) == write(f, next, CiphersZeros(f))

\* read of n bytes: a block is deciphered when it is there as a whole.
RECURSIVE read(_, _, _, _)
read(f, next, n, out) ==
  IF Len(out) = n THEN [f |-> f, next |-> next, out |-> out]
  ELSE IF f.iReadBufPos < Len(f.aReadBuf) /\ Len(f.aReadBuf) = iBlockSize
       THEN LET p == f.iReadBufPos + 1
            IN  read(IF p = iBlockSize THEN [f EXCEPT !.aReadBuf = <<>>, !.iReadBufPos = 0] ELSE [f EXCEPT !.iReadBufPos = p],
                     next, n, Append(out, f.aReadBuf[p]))
  ELSE IF next = <<>> THEN [f |-> f, next |-> next, out |-> out]
  ELSE LET buf == Append(f.aReadBuf, Head(next))
           d   == modeDecipher(f, buf)
       IN  IF Len(buf) < iBlockSize THEN read([f EXCEPT !.aReadBuf = buf], Tail(next), n, out)
           ELSE read([f EXCEPT !.aReadBuf = d.block, !.aVector = d.aVector], Tail(next), n, out)
-----------------------------------------------------------------------------
New(mode, key, iv) == [mode |-> mode, key |-> key, aVector |-> iv, aReadBuf |-> <<>>, iReadBufPos |-> 0, aWriteBuf |-> <<>>]

\* Without a password the tables would be what is in memory.
CiphersInit ==
  \E mode \in Modes, iv \in Ivs, sPass \in Passwords, seed \in Seeds :
    /\ core = [w |-> New(mode, setPassword(sPass), iv), r |-> New(mode, setPassword(sPass), iv)]
    /\ abs = [seed |-> seed, next |-> <<>>, text |-> <<>>, out |-> <<>>, gone |-> FALSE, cut |-> FALSE]

Write ==
  /\ ~abs.gone /\ Len(abs.text) < MaxText
  /\ \E n \in 1..MaxText - Len(abs.text) :
       LET s == [k \in 1..n |-> (abs.seed * (Len(abs.text) + k)) % Base]
           x == write(core.w, abs.next, s)
       IN  core' = [core EXCEPT !.w = x.f] /\ abs' = [abs EXCEPT !.next = x.next, !.text = @ \o s]

\* flush, or stop.
Flush ==
  /\ ~abs.gone
  /\ LET x == flushed(core.w, abs.next)
     IN  core' = [core EXCEPT !.w = x.f] /\ abs' = [abs EXCEPT !.next = x.next, !.text = @ \o CiphersZeros(core.w)]

\* ~Blowfish stops the filter when the mode's part of it is gone already: the
\* rest is enciphered by Blowfish alone.
Destroy ==
  /\ ~abs.gone
  /\ LET rest == core.w.aWriteBuf \o CiphersZeros(core.w)
     IN  abs' = [abs EXCEPT !.gone = TRUE, !.cut = rest # <<>> /\ core.w.mode # "ecb", !.text = @ \o CiphersZeros(core.w),
                            !.next = IF rest = <<>> THEN @ ELSE @ \o keyEncipher(core.w.key, rest)]
  /\ core' = [core EXCEPT !.w.aWriteBuf = <<>>]

\* A read of n bytes when some of those sent have arrived.
Read ==
  \E n \in 1..iBlockSize + 1, there \in 1..Len(abs.next) :
    LET x == read(core.r, SubSeq(abs.next, 1, there), n, <<>>)
    IN  /\ core' = [core EXCEPT !.r = x.f]
        /\ abs' = [abs EXCEPT !.next = x.next \o SubSeq(@, there + 1, Len(@)), !.out = @ \o x.out]

CiphersNext == Write \/ Flush \/ Destroy \/ Read

-----------------------------------------------------------------------------
\* What is read is what was written, with zeros where it was flushed; only the
\* block that is written by the destructor, in a mode, is not.
BlocksComeBack ==
  LET n == IF abs.cut THEN Len(abs.text) - iBlockSize ELSE Len(abs.text)
  IN  \A k \in 1..Len(abs.out) : k <= n => abs.out[k] = abs.text[k]

\* No byte is dropped between the filters: those that were written are the
\* ones that were read and those on their way.
NothingIsDropped ==
  Len(abs.text) = Len(abs.out) + Len(core.r.aReadBuf) - core.r.iReadBufPos + Len(abs.next) + Len(core.w.aWriteBuf)
-----------------------------------------------------------------------------
Init == \/ which = "Digests" /\ DigestsInit
        \/ which = "Ciphers" /\ CiphersInit

Next == /\ UNCHANGED which
        /\ \/ which = "Digests" /\ DigestsNext
           \/ which = "Ciphers" /\ CiphersNext

Spec == Init /\ [][Next]_vars
=============================================================================
