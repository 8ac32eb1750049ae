----------------------------- MODULE Texts ----------------------------------
(***************************************************************************)
(* Representations: bits in bytes, code points in encodings, and integers  *)
(* in text. They share no state: which says what a behaviour is about.     *)
(***************************************************************************)
EXTENDS Integers, SequencesExt

VARIABLES which, core, abs
vars == <<which, core, abs>>
-----------------------------------------------------------------------------
(***************************************************************************)
(* Bu::BitString (src/unstable/bitstring.cpp): bits kept in bytes, here of *)
(* W bits, with a mask for the last one.  The methods work byte by byte;   *)
(* abs is the sequence of bits they stand for, bit 0 first.  Where the     *)
(* code reads the byte behind the array, or does not set the bytes it adds,*)
(* any value may be there (Stray).                                         *)
(***************************************************************************)
CONSTANTS BitStringW, MaxBits   \* bits of a byte; bound: bits of the string

Stray == 0..(2 ^ BitStringW - 1)
-----------------------------------------------------------------------------
bitsToBytes(n) == (n \div BitStringW) + (IF n % BitStringW = 0 THEN 0 ELSE 1)
Trunc(x) == x % 2 ^ BitStringW
shl(x, n) == Trunc(x * 2 ^ n)
shr(x, n) == x \div 2 ^ n
Flipped(x) == 2 ^ BitStringW - 1 - x
bitOf(x, i) == (x \div 2 ^ i) % 2

setMask(c) == [c EXCEPT !.cTopByteMask = IF c.iBits % BitStringW = 0 THEN 2 ^ BitStringW - 1 ELSE 2 ^ (c.iBits % BitStringW) - 1]

\* caData[iBytes-1] &= cTopByteMask; the mask is a run of low bits.
fixup(c) == [c EXCEPT !.caData[c.iBytes] = @ % (c.cTopByteMask + 1)]

\* caData[j], counted from 0 as the code does; behind the end, the stray byte s.
byte(c, j, s) == IF j < c.iBytes THEN c.caData[j + 1] ELSE s

new(n) == setMask([caData |-> [j \in 1..bitsToBytes(n) |-> 0], iBits |-> n, iBytes |-> bitsToBytes(n), cTopByteMask |-> 0, sub |-> <<>>])

getBit(c, i) == IF i < 0 \/ i >= c.iBits THEN 0 ELSE bitOf(c.caData[(i \div BitStringW) + 1], i % BitStringW)

setBit(c, i, b) ==
    [c EXCEPT !.caData[(i \div BitStringW) + 1] = @ + (b - bitOf(@, i % BitStringW)) * 2 ^ (i % BitStringW)]

flipBit(c, i) == setBit(c, i, 1 - bitOf(c.caData[(i \div BitStringW) + 1], i % BitStringW))

invert(c) == fixup([c EXCEPT !.caData = [j \in DOMAIN @ |-> Flipped(@[j])]])

\* Mutant: the bits carried from the byte below are lost.
ShiftLeftNoCarry(c, n) ==
    fixup([c EXCEPT !.caData = [k \in DOMAIN @ |-> IF k - 1 - (n \div BitStringW) < 0 THEN 0 ELSE shl(@[k - (n \div BitStringW)], n % BitStringW)]])

\* From the top byte down, so that every byte is read before it is changed.
shiftLeft(c, n) ==
    LET low(j) == IF j < 0 THEN 0 ELSE c.caData[j + 1]
    IN  fixup([c EXCEPT !.caData = [k \in DOMAIN @ |->
            shl(low(k - 1 - (n \div BitStringW)), n % BitStringW) + shr(low(k - 2 - (n \div BitStringW)), BitStringW - (n % BitStringW))]])

\* From the lowest byte up; an index of iBytes passes for one inside of the array.
shiftRight(c, n, s) ==
    LET high(j) == IF j > c.iBytes THEN 0 ELSE byte(c, j, s)
    IN  fixup([c EXCEPT !.caData = [k \in DOMAIN @ |->
            shr(high(k - 1 + (n \div BitStringW)), n % BitStringW) + shl(high(k + (n \div BitStringW)), BitStringW - (n % BitStringW))]])

\* Mutant: the next byte is not looked at.
SubStringOneByte(c, lo, up, s) ==
    LET n == new(up - lo + 1)
    IN  fixup([n EXCEPT !.caData = [k \in DOMAIN @ |-> shr(byte(c, (lo \div BitStringW) + k - 1, s), lo % BitStringW)]])

\* The bits lo .. up.
getSubString(c, lo, up, s) ==
    LET n == new(up - lo + 1)
    IN  fixup([n EXCEPT !.caData = [k \in DOMAIN @ |->
            shr(byte(c, (lo \div BitStringW) + k - 1, s), lo % BitStringW) + shl(byte(c, (lo \div BitStringW) + k, s), BitStringW - (lo % BitStringW))]])

\* Without bClear the bits that are added are those that happen to be there.
setSize(c, n, bClear, s) ==
    LET b == bitsToBytes(n)
        kept == [j \in 1..b |-> IF bClear /\ n # c.iBits THEN 0 ELSE IF j <= c.iBytes THEN c.caData[j] ELSE s]
    IN  IF n = c.iBits THEN IF bClear THEN [c EXCEPT !.caData = [j \in DOMAIN @ |-> 0]] ELSE c
        ELSE setMask([c EXCEPT !.iBits = n, !.iBytes = b, !.caData = kept])

toBits(c) == [i \in 1..c.iBits |-> getBit(c, i - 1)]
-----------------------------------------------------------------------------
BitStringInit == \E n \in 1..MaxBits : core = new(n) /\ abs = [bits |-> [i \in 1..n |-> 0], sub |-> <<>>]

Unset == 2

\* The bits that must be the same afterwards; what is not said is as it is in core'.
Become(f) == abs' = [bits |-> [i \in 1..core'.iBits |-> IF f[i] = Unset THEN toBits(core')[i] ELSE f[i]], sub |-> <<>>]
Plain(c) == [c EXCEPT !.sub = <<>>]

BitStringNext ==
             \/ \E i \in 0..(core.iBits - 1) : core' = Plain(setBit(core, i, 1)) /\ Become([abs.bits EXCEPT ![i + 1] = 1])
             \/ \E i \in 0..(core.iBits - 1) : core' = Plain(flipBit(core, i)) /\ Become([abs.bits EXCEPT ![i + 1] = 1 - @])
             \/ core' = Plain(invert(core)) /\ Become([i \in DOMAIN abs.bits |-> 1 - abs.bits[i]])
             \/ \E n \in 1..core.iBits : /\ core' = Plain(shiftLeft(core, n))
                                         /\ Become([i \in DOMAIN abs.bits |-> IF i <= n THEN 0 ELSE abs.bits[i - n]])
             \/ \E n \in 1..core.iBits, s \in Stray :
                   /\ core' = Plain(shiftRight(core, n, s))
                   /\ Become([i \in DOMAIN abs.bits |-> IF i + n > core.iBits THEN Unset ELSE abs.bits[i + n]])
             \/ \E n \in 1..MaxBits, b \in BOOLEAN, s \in Stray :
                   /\ core' = Plain(setSize(core, n, b, s))
                   /\ Become([i \in 1..n |-> IF b THEN 0 ELSE IF i <= core.iBits THEN abs.bits[i] ELSE Unset])
             \/ \E up \in 1..(core.iBits - 1), s \in Stray : \E lo \in 0..up :
                   /\ core' = [core EXCEPT !.sub = toBits(getSubString(core, lo, up, s))]
                   /\ abs' = [abs EXCEPT !.sub = SubSeq(abs.bits, lo + 1, up + 1)]

-----------------------------------------------------------------------------
\* The bits are those of the sequence after every series of shifts, inversions and changes of
\* size, across the bytes and the mask of the last one.
BitsAgree == toBits(core) = abs.bits

\* A part that is taken out has the bits lo .. up, though the byte behind the last is read.
SubStringAgrees == core.sub = abs.sub
-----------------------------------------------------------------------------
(***************************************************************************)
(* Bu::UtfString (src/unstable/utfstring.cpp, utfstring.h): text kept as   *)
(* 16 bit units and written and read in the encodings of Unicode, on a     *)
(* machine that keeps the low byte first; the operands of | are taken from *)
(* left to right.  core is aData, the encodings of the last way, whether   *)
(* it ended with an exception, and how often the string has gone through   *)
(* Utf32le; abs the code points the program appended.  A program appends   *)
(* code points and sends the string through an encoding (get, then set of  *)
(* a new string, which an exception leaves for the old one).               *)
(***************************************************************************)
CONSTANTS CodePoints, MaxChars   \* bound: the characters of a string, and the ways through Utf32le

-----------------------------------------------------------------------------
Lead(u) == u >= 55296 /\ u < 56320     \* 0xD800
Trail(u) == u >= 56320 /\ u < 57344    \* 0xDC00

append(a, ch) ==
    IF ch >= 65536 THEN a \o <<(((ch - 65536) \div 1024) % 1024) + 55296, ((ch - 65536) % 1024) + 56320>> ELSE Append(a, ch)

\* nextChar: <<code point, index behind it>>; the index counts from 0.
nextChar(a, i) ==
    LET u == a[i + 1]
    IN  CASE Lead(u) -> <<(u % 1024) * 1024 + (a[i + 2] % 1024) + 65536, i + 2>>
          [] Trail(u) -> <<(a[i] % 1024) * 1024 + (u % 1024) + 65536, i + 1>>
          [] OTHER -> <<u, i + 1>>

\* The iterator: begin, operator*, operator++ until operator bool fails.
RECURSIVE chars(_, _)
chars(a, i) == IF i >= Len(a) THEN <<>> ELSE <<nextChar(a, i)[1]>> \o chars(a, nextChar(a, i)[2])

\* Mutant: two bytes for what needs three.
Utf8Short(ch) == IF ch >= 128 THEN <<((ch \div 64) % 32) + 192, (ch % 64) + 128>> ELSE <<ch>>

utf8(ch) ==
    CASE ch >= 65536 -> <<(ch \div 262144) + 240, ((ch \div 4096) % 64) + 128, ((ch \div 64) % 64) + 128, (ch % 64) + 128>>
      [] ch >= 2048 /\ ch < 65536 -> <<(ch \div 4096) + 224, ((ch \div 64) % 64) + 128, (ch % 64) + 128>>
      [] ch >= 128 /\ ch < 2048 -> <<(ch \div 64) + 192, (ch % 64) + 128>>
      [] OTHER -> <<ch>>

writeUtf8(a) == FlattenSeq([k \in DOMAIN chars(a, 0) |-> utf8(chars(a, 0)[k])])

\* A byte with n high bits set begins n bytes: its low bits, then six of each that follows.
RECURSIVE setUtf8(_, _)
setUtf8(a, s) ==
    IF s = <<>> THEN a
    ELSE LET b == Head(s)
             n == CASE b < 128 -> 1 [] b >= 128 /\ b < 224 -> 2 [] b >= 224 /\ b < 240 -> 3 [] OTHER -> 4
             first == IF n = 1 THEN b ELSE b % 2 ^ (7 - n)
             pt == FoldLeft(LAMBDA x, y : x * 64 + (y % 64), first, SubSeq(s, 2, n))
         IN  setUtf8(append(a, pt), SubSeq(s, n + 1, Len(s)))

\* Two bytes of a unit, four of a code point; the byte order mark comes first.
Bom == 65279
be16(u) == <<u \div 256, u % 256>>
le16(u) == <<u % 256, u \div 256>>
be32(u) == <<u \div 16777216, (u \div 65536) % 256, (u \div 256) % 256, u % 256>>
le32(u) == Reverse(be32(u))

writeUtf16be(a) == FlattenSeq([k \in DOMAIN (<<Bom>> \o a) |-> be16((<<Bom>> \o a)[k])])
writeUtf16le(a) == FlattenSeq([k \in DOMAIN (<<Bom>> \o a) |-> le16((<<Bom>> \o a)[k])])
writeUtf32be(a) == LET s == <<Bom>> \o chars(a, 0) IN FlattenSeq([k \in DOMAIN s |-> be32(s[k])])
writeUtf32le(a) == LET s == <<Bom>> \o chars(a, 0) IN FlattenSeq([k \in DOMAIN s |-> le32(s[k])])

Starts(s, p) == Len(s) >= Len(p) /\ SubSeq(s, 1, Len(p)) = p
Unmarked(s, mark) == IF Starts(s, mark) THEN SubSeq(s, Len(mark) + 1, Len(s)) ELSE s

\* Mutant: one bit of the surrogates is looked at, which every high unit has.
OneBit(hi) == (hi \div 32768) % 2 = 1

\* ( hi&0xD800u ) == 0xD800u: the surrogates, and as well everything from U+F800 on.
two(hi) == \A bit \in {15, 14, 12, 11} : (hi \div 2 ^ bit) % 2 = 1

\* The units one after the other; one that passes for a surrogate brings the next with it,
\* and the iterator throws when there is none: then nothing is the result.
RECURSIVE units(_, _, _)
unit(x, y, order) == IF order = "be" THEN x * 256 + y ELSE x + y * 256
units(a, s, order) ==
    LET hi == unit(s[1], s[2], order)
    IN  CASE s = <<>> -> {a}
          [] s /= <<>> /\ ~two(hi) -> units(Append(a, hi), SubSeq(s, 3, Len(s)), order)
          [] s /= <<>> /\ two(hi) /\ Len(s) < 4 -> {}
          [] OTHER -> units(a \o <<hi, unit(s[3], s[4], order)>>, SubSeq(s, 5, Len(s)), order)

setUtf16be(a, s) == units(a, Unmarked(s, <<254, 255>>), "be")
setUtf16le(a, s) == units(a, Unmarked(s, <<255, 254>>), "le")
setUtf16(a, s) == IF Starts(s, <<255, 254>>) THEN setUtf16le(a, s) ELSE setUtf16be(a, s)

RECURSIVE points(_, _, _)
points(a, s, order) ==
    LET b == IF order = "be" THEN SubSeq(s, 1, 4) ELSE Reverse(SubSeq(s, 1, 4))
    IN  IF s = <<>> THEN a
        ELSE points(append(a, ((b[1] * 256 + b[2]) * 256 + b[3]) * 256 + b[4]), SubSeq(s, 5, Len(s)), order)

\* The mark of the low byte first is looked for as 00 00 FF FE, and written as FF FE 00 00.
setUtf32be(a, s) == points(a, Unmarked(s, <<0, 0, 254, 255>>), "be")
setUtf32le(a, s) == points(a, Unmarked(s, <<0, 0, 255, 254>>), "le")
setUtf32(a, s) == IF Starts(s, <<0, 0, 255, 254>>) THEN setUtf32le(a, s) ELSE setUtf32be(a, s)
-----------------------------------------------------------------------------
\* What write( e ) gives and what set( e ) makes of it: Utf16 and Utf32 are written with the
\* high byte first, and read by their mark.
written(a, e) ==
    CASE e = "Utf8" -> writeUtf8(a)
      [] e \in {"Utf16", "Utf16be"} -> writeUtf16be(a)
      [] e = "Utf16le" -> writeUtf16le(a)
      [] e \in {"Utf32", "Utf32be"} -> writeUtf32be(a)
      [] e = "Utf32le" -> writeUtf32le(a)

recoded(s, e) ==
    CASE e = "Utf8" -> {setUtf8(<<>>, s)}
      [] e = "Utf16" -> setUtf16(<<>>, s)
      [] e = "Utf16be" -> setUtf16be(<<>>, s)
      [] e = "Utf16le" -> setUtf16le(<<>>, s)
      [] e = "Utf32" -> {setUtf32(<<>>, s)}
      [] e = "Utf32be" -> {setUtf32be(<<>>, s)}
      [] e = "Utf32le" -> {setUtf32le(<<>>, s)}

\* A string is read in the encoding it was written in, or by the mark of its 16 bit units.
Encodings == {"Utf8", "Utf16", "Utf16be", "Utf16le", "Utf32", "Utf32be", "Utf32le"}
Ways == {<<e, e>> : e \in Encodings} \cup {<<"Utf16le", "Utf16">>}

UtfStringInit == core = [aData |-> <<>>, sent |-> <<>>, threw |-> FALSE, marks |-> 0] /\ abs = <<>>

UtfStringNext ==
    \/ \E ch \in CodePoints :
          /\ Len(abs) < MaxChars
          /\ core' = [core EXCEPT !.aData = append(@, ch), !.sent = <<>>, !.threw = FALSE] /\ abs' = Append(abs, ch)
    \/ \E w \in Ways :
          LET got == recoded(written(core.aData, w[1]), w[2])
              le == IF w[2] = "Utf32le" THEN 1 ELSE 0
          IN  /\ core.marks + le <= MaxChars
              /\ core' = [core EXCEPT !.aData = CHOOSE t \in got \cup {@} : got = {} \/ t \in got,
                                      !.sent = w, !.threw = (got = {}), !.marks = @ + le]
              /\ UNCHANGED abs

-----------------------------------------------------------------------------
\* The characters from U+F800 to U+FFFF among those at the end that are no lower are odd in
\* number.
OddTail(t) ==
    LET high == {i \in DOMAIN t : \A j \in i..Len(t) : t[j] >= 63488}
    IN  Cardinality({i \in high : t[i] < 65536}) % 2 = 1

\* A string sent through an encoding has the code points it had, at the ends of every range of
\* the encodings and beyond the first plane, but for two defects, and just where they bite:
\* each way through Utf32le puts a U+FEFF in front, and Utf16 in either order throws for a
\* text with an odd tail.
EncodingsKeepText ==
    LET text == [k \in 1..core.marks |-> Bom] \o abs
    IN  /\ chars(core.aData, 0) = text
        /\ core.sent /= <<>> => core.threw = (core.sent[1] \in {"Utf16", "Utf16be", "Utf16le"} /\ OddTail(text))
-----------------------------------------------------------------------------
(***************************************************************************)
(* Bu::Formatter and Bu::Fmt (src/stable/formatter.h, formatter.cpp,       *)
(* fmt.h): integers written into a stream as text in a format that is set  *)
(* for the next value, and read from it as tokens.  Signed integers are W  *)
(* bits wide.  A character of the stream is a digit's number (10 to 35 for *)
(* a small letter), or Minus, Plus, Blank.  core is the Formatter with its *)
(* stream; abs the values written, the fields they take and the values     *)
(* read.                                                                   *)
(***************************************************************************)
CONSTANTS FormatterW, Value, Unsigned, Radixes, FieldWidths, Aligns, MaxValues   \* bound: values written

Minus == -1
Plus == -2
Blank == -3

\* Two's complement of W bits.
Wrapped(x) == ((x + 2 ^ (FormatterW - 1)) % 2 ^ FormatterW) - 2 ^ (FormatterW - 1)
-----------------------------------------------------------------------------
Fmt == [uMinWidth |-> 0, uRadix |-> 10, uAlign |-> "Right", bPlus |-> FALSE]

setFormat(c, f) == [c EXCEPT !.fLast = f, !.bTempFmt = FALSE]
setTempFormat(c, f) == [c EXCEPT !.fLast = f, !.bTempFmt = TRUE]

\* Mutant: the format of one value is used for the next.
FormatStays(c) == c

usedFormat(c) == IF c.bTempFmt THEN [c EXCEPT !.fLast = Fmt] ELSE c

write(c, s) == [c EXCEPT !.stream = @ \o s]
Blanks(n) == [k \in 1..n |-> Blank]

writeAligned(c, s) ==
    LET rem == c.fLast.uMinWidth - Len(s)
        field == IF rem < 0 THEN s
                 ELSE CASE c.fLast.uAlign = "Right" -> Blanks(rem) \o s
                        [] c.fLast.uAlign = "Center" -> Blanks(rem \div 2) \o s \o Blanks(rem - (rem \div 2))
                        [] c.fLast.uAlign = "Left" -> s \o Blanks(rem)
    IN  usedFormat(write(c, field))

\* Mutant: the digits from the lowest to the highest.
RECURSIVE DigitsReversed(_, _)
DigitsReversed(i, r) == IF i < r THEN <<i>> ELSE <<i % r>> \o DigitsReversed(i \div r, r)

\* The buffer is filled from its end, the lowest digit first.
RECURSIVE digits(_, _)
digits(i, r) == IF i < r THEN <<i>> ELSE Append(digits(i \div r, r), i % r)

\* ifmt writes nothing in a radix it does not know.
ifmt(c, i) ==
    LET n == IF i < 0 THEN Wrapped(-i) ELSE i
        sign == IF i < 0 THEN <<Minus>> ELSE IF c.fLast.bPlus THEN <<Plus>> ELSE <<>>
    IN  IF c.fLast.uRadix \notin 2..36 THEN usedFormat(c)
        ELSE writeAligned(c, sign \o digits(n, c.fLast.uRadix))

\* An unsigned integer has no sign but the plus the format asks for.
ufmt(c, i) ==
    IF c.fLast.uRadix \notin 2..36 THEN usedFormat(c)
    ELSE writeAligned(c, (IF c.fLast.bPlus THEN <<Plus>> ELSE <<>>) \o digits(i, c.fLast.uRadix))

\* readToken: <<token, rest of the stream>>; white space before it and one behind it are taken.
readToken(s) ==
    LET dark == {k \in DOMAIN s : s[k] # Blank}
        b == CHOOSE k \in dark : \A m \in dark : k <= m
        e == CHOOSE k \in b..(Len(s) + 1) : (k > Len(s) \/ s[k] = Blank) /\ \A m \in b..(k - 1) : s[m] # Blank
    IN  IF dark = {} THEN <<<<>>, <<>>>> ELSE <<SubSeq(s, b, e - 1), SubSeq(s, e + 1, Len(s))>>

\* The characters that count: the first, whatever it is, and the digits 0 to 9 behind it. A
\* sign is skipped; a letter at the front counts what its code is beyond that of 0.
counted(s) == LET stop == {k \in 2..Len(s) : s[k] \notin 0..9}
              IN  SelectSeq(SubSeq(s, 1, Min(stop \cup {Len(s) + 1}) - 1), LAMBDA d : d \notin {Minus, Plus})
code(d) == IF d < 10 THEN d ELSE d + 39

\* iparse from the last digit up, in the type's own arithmetic.
iparse(s, r) ==
    LET n == FoldLeft(LAMBDA x, d : Wrapped(x * r + code(d)), 0, counted(s))
    IN  IF s[1] = Minus THEN Wrapped(-n) ELSE n

uparse(s, r) == FoldLeft(LAMBDA x, d : (x * r + code(d)) % 2 ^ FormatterW, 0, counted(s))
-----------------------------------------------------------------------------
Formats == {[uMinWidth |-> w, uRadix |-> r, uAlign |-> a, bPlus |-> p] : w \in FieldWidths, r \in Radixes, a \in Aligns, p \in BOOLEAN}

FormatterInit == /\ core = [stream |-> <<>>, fLast |-> Fmt, bTempFmt |-> FALSE]
                 /\ abs = [wrote |-> <<>>, signed |-> <<>>, radix |-> <<>>, fmt |-> Fmt, got |-> <<>>, short |-> FALSE]

\* f << Fmt(...)
SetFormat == \E f \in Formats : /\ Len(abs.wrote) < MaxValues
                                /\ core' = setTempFormat(core, f) /\ abs' = [abs EXCEPT !.fmt = f]

\* f << i << ' ': the blank is written as a char and takes no format.
WriteValue ==
    \E signed \in BOOLEAN : \E i \in IF signed THEN Value ELSE Unsigned :
        /\ Len(abs.wrote) < MaxValues
        /\ LET c == IF signed THEN ifmt(core, i) ELSE ufmt(core, i)
           IN  /\ core' = write(c, <<Blank>>)
               /\ abs' = [abs EXCEPT !.wrote = Append(@, i), !.signed = Append(@, signed), !.radix = Append(@, abs.fmt.uRadix), !.fmt = Fmt,
                              !.short = @ \/ LET f == Len(c.stream) - Len(core.stream)
                                                 plain == Len(digits(IF i < 0 THEN -i ELSE i, abs.fmt.uRadix)) + (IF i < 0 \/ abs.fmt.bPlus THEN 1 ELSE 0)
                                             IN  f # IF plain > abs.fmt.uMinWidth THEN plain ELSE abs.fmt.uMinWidth]

\* f >> Fmt().radix(r) >> i, when all values have been written.
ReadValue ==
    /\ Len(abs.wrote) = MaxValues /\ Len(abs.got) < MaxValues
    /\ LET t == readToken(core.stream)
           n == Len(abs.got) + 1
       IN  /\ t[1] # <<>>
           /\ core' = [core EXCEPT !.stream = t[2]]
           /\ abs' = [abs EXCEPT !.got = Append(@, IF abs.signed[n] THEN iparse(t[1], abs.radix[n]) ELSE uparse(t[1], abs.radix[n]))]

FormatterNext == SetFormat \/ WriteValue \/ ReadValue

-----------------------------------------------------------------------------
\* Values that are written and read in the same radix come back, whatever the widths, the
\* alignments and the signs, next to each other in one stream; of those whose digits are
\* letters only the place in the stream is kept.
ValuesComeBack ==
    \A n \in DOMAIN abs.got :
        LET i == abs.wrote[n]
        IN  abs.got[n] = i \/ \E k \in DOMAIN digits(IF i < 0 THEN -i ELSE i, abs.radix[n]) :
                                 digits(IF i < 0 THEN -i ELSE i, abs.radix[n])[k] >= 10

\* Every field has the width of the format given for its value, and of no other value.
FieldsHaveTheirWidth == ~abs.short
-----------------------------------------------------------------------------
Init == \/ which = "BitString" /\ BitStringInit
        \/ which = "UtfString" /\ UtfStringInit
        \/ which = "Formatter" /\ FormatterInit

Next == /\ UNCHANGED which
        /\ \/ which = "BitString" /\ BitStringNext
           \/ which = "UtfString" /\ UtfStringNext
           \/ which = "Formatter" /\ FormatterNext

Spec == Init /\ [][Next]_vars
=============================================================================
