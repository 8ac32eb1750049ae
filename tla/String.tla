----------------------------- MODULE String ---------------------------------
(***************************************************************************)
(* Bu::String: the calls that change strings, and the calls that look at   *)
(* one. They share no state: which says what a behaviour is about.         *)
(***************************************************************************)
EXTENDS Integers, SequencesExt

VARIABLES which, core, abs
vars == <<which, core, abs>>
-----------------------------------------------------------------------------
(***************************************************************************)
(* Bu::String (src/stable/string.cpp, string.h): text kept in a list of    *)
(* chunks that is flattened when contiguous text is needed, in a core that *)
(* copies share.  core.a is the core of the string the calls are made on,  *)
(* core.b that of another string; while core.shared both are core.a.  A    *)
(* core is its nLength and the texts of its chunks; abs.a and abs.b are    *)
(* the texts the two strings should have.  Characters are model values.    *)
(***************************************************************************)
CONSTANTS StringTexts,       \* the texts passed to the calls
          NUL, Space,  \* the terminator, the only white space
          nMinSize,    \* 256 in the source: the least size of a chunk's memory
          MaxLength,   \* bounds: the longest string of a run and the most
          MaxChunks    \* chunks, empty ones included, a call may leave

-----------------------------------------------------------------------------
StringCore == [nLength |-> 0, chunks |-> <<>>]

StringFlat(c) == FlattenSeq(c.chunks)

appendChunk(c, d) == [nLength |-> c.nLength + Len(d), chunks |-> Append(c.chunks, d)]

prependChunk(c, d) == [nLength |-> c.nLength + Len(d), chunks |-> <<d>> \o c.chunks]

\* The StringCore copy constructor, which is _copyCore: one chunk.
copyCore(c) == [c EXCEPT !.chunks = IF c.nLength = 0 THEN <<>> ELSE <<StringFlat(c)>>]

textFlatten(c) == IF Len(c.chunks) <= 1 \/ c.nLength = 0 THEN c ELSE [c EXCEPT !.chunks = <<StringFlat(c)>>]

\* append( pData, nStart, nLen ): the last chunk is filled up first.
appendData(c, d) ==
    LET room == IF c.chunks = <<>> \/ Len(Last(c.chunks)) >= nMinSize THEN 0
                ELSE nMinSize - Len(Last(c.chunks))
        n    == IF room < Len(d) THEN room ELSE Len(d)
        e    == IF n = 0 THEN c
                ELSE [nLength |-> c.nLength + n,
                      chunks |-> Front(c.chunks) \o <<Last(c.chunks) \o SubSeq(d, 1, n)>>]
    IN  IF n = Len(d) THEN e ELSE appendChunk(e, SubSeq(d, n + 1, Len(d)))

\* append( char ): the room is looked for before the core is copied.
appendOne(before, c, ch) ==
    IF before.chunks /= <<>> /\ Len(Last(before.chunks)) < nMinSize
    THEN [nLength |-> c.nLength + 1, chunks |-> Front(c.chunks) \o <<Append(Last(c.chunks), ch)>>]
    ELSE appendData(c, <<ch>>)

cut(c, from, to) == SubSeq(StringFlat(c), from, to)

\* Mutant: the change reaches the core both strings use.
HardCopySkipped(s) == s

hardCopy(s) ==
    IF s.shared THEN [a |-> copyCore(s.a), b |-> s.a, shared |-> FALSE] ELSE s
-----------------------------------------------------------------------------
(* Iterators: a chunk and a position in it; chunk 0 is the end.            *)
StringEND == [pChunk |-> 0, iPos |-> 0]

textBegin(c) == IF c.nLength = 0 THEN StringEND ELSE [pChunk |-> 1, iPos |-> 0]

textAfter(c, k) == IF k < Len(c.chunks) THEN k + 1 ELSE 0

\* Mutant: the step that forgets to go back to position 0 in the next chunk.
StringNextKeepsPosition(c, i) ==
    IF i.pChunk = 0 THEN i
    ELSE IF i.iPos + 1 >= Len(c.chunks[i.pChunk])
    THEN [pChunk |-> textAfter(c, i.pChunk),
          iPos |-> IF textAfter(c, i.pChunk) = 0 THEN 0 ELSE Len(c.chunks[textAfter(c, i.pChunk)]) - 1]
    ELSE [i EXCEPT !.iPos = @ + 1]

textNext(c, i) ==
        IF i.pChunk = 0 THEN i
        ELSE IF i.iPos + 1 >= Len(c.chunks[i.pChunk]) THEN [pChunk |-> textAfter(c, i.pChunk), iPos |-> 0]
        ELSE [i EXCEPT !.iPos = @ + 1]

\* operator+=, whose position past the end is not reset.
RECURSIVE advance(_, _)
advance(c, i) ==
    IF i.pChunk = 0 \/ i.iPos < Len(c.chunks[i.pChunk]) THEN i
    ELSE advance(c, [pChunk |-> textAfter(c, i.pChunk), iPos |-> i.iPos - Len(c.chunks[i.pChunk])])

textPlus(c, i, iAmnt) == IF i.pChunk = 0 THEN i ELSE advance(c, [i EXCEPT !.iPos = @ + iAmnt])

textDeref(c, i) == c.chunks[i.pChunk][i.iPos + 1]

\* const_iterator::compare( pStr, nLen ) against a whole text.
RECURSIVE textCompare(_, _, _)
textCompare(c, i, d) ==
    \/ d = <<>>
    \/ i.pChunk /= 0 /\ textDeref(c, i) = Head(d) /\ textCompare(c, textNext(c, i), Tail(d))

RECURSIVE textFind(_, _, _)
textFind(c, i, d) ==
        IF i.pChunk = 0 \/ textCompare(c, i, d) THEN i ELSE textFind(c, textNext(c, i), d)

\* append( s, e ) for iterators of core c: chunk by chunk.
slice(to, c, s, e) ==
    CASE s.pChunk = 0 -> to
      [] s.pChunk /= 0 /\ s.pChunk = e.pChunk ->
            appendChunk(to, SubSeq(c.chunks[s.pChunk], s.iPos + 1, e.iPos))
      [] OTHER ->
            LET head == SubSeq(c.chunks[s.pChunk], s.iPos + 1, Len(c.chunks[s.pChunk]))
                stop == IF e.pChunk = 0 THEN Len(c.chunks) ELSE e.pChunk - 1
                tail == IF e.pChunk = 0 THEN <<>> ELSE <<SubSeq(c.chunks[e.pChunk], 1, e.iPos)>>
            IN  FoldLeft(appendChunk, to,
                         <<head>> \o SubSeq(c.chunks, s.pChunk + 1, stop) \o tail)

RECURSIVE replaceFrom(_, _, _, _, _)
replaceFrom(out, c, o, fnd, rep) ==
    LET i == textFind(c, o, fnd)
    IN  IF i.pChunk = 0 THEN slice(out, c, o, StringEND)
        ELSE replaceFrom(appendData(slice(out, c, o, i), rep), c, textPlus(c, i, Len(fnd)), fnd, rep)

replace(c, fnd, rep) == replaceFrom(StringCore, c, textBegin(c), fnd, rep)

RECURSIVE splitFrom(_, _, _)
splitFrom(c, l, ch) ==
    IF l.pChunk = 0 THEN <<>>
    ELSE LET r == textFind(c, l, <<ch>>)
         IN  <<StringFlat(slice(StringCore, c, l, r))>> \o splitFrom(c, textNext(c, r), ch)

\* trimWhitespace: from the first character that is no space to the spaces that end it.
RECURSIVE skip(_, _)
skip(c, i) == IF i.pChunk /= 0 /\ textDeref(c, i) = Space THEN skip(c, textNext(c, i)) ELSE i

RECURSIVE textEnd(_, _)
textEnd(c, e) ==
    IF e.pChunk = 0 \/ skip(c, e).pChunk = 0 THEN e ELSE textEnd(c, textNext(c, skip(c, e)))

trimWhitespace(c) ==
    LET i == skip(c, textBegin(c))
    IN  IF i.pChunk = 0 THEN <<>> ELSE StringFlat(slice(StringCore, c, i, textEnd(c, i)))
-----------------------------------------------------------------------------
StringInit == /\ core = [a |-> StringCore, b |-> StringCore, shared |-> FALSE]
              /\ abs = [a |-> <<>>, b |-> <<>>]

append(d) ==
    /\ Len(abs.a) + Len(d) <= MaxLength
    /\ core' = IF d = <<>> THEN core ELSE [hardCopy(core) EXCEPT !.a = appendData(@, d)]
    /\ abs' = [abs EXCEPT !.a = @ \o d]

\* A shared core with one empty chunk is left out: its copy has no chunk to write to
\* (README).
appendChar(ch) ==
    /\ Len(abs.a) < MaxLength
    /\ ~(core.shared /\ core.a.nLength = 0 /\ core.a.chunks /= <<>>)
    /\ core' = [hardCopy(core) EXCEPT !.a = appendOne(core.a, @, ch)]
    /\ abs' = [abs EXCEPT !.a = Append(@, ch)]

\* append( String ): the other string is flattened (getStr) where it lies.
appendOther ==
    /\ Len(abs.a) + Len(abs.b) <= MaxLength
    /\ LET s == IF core.shared THEN [core EXCEPT !.a = textFlatten(@)] ELSE [core EXCEPT !.b = textFlatten(@)]
       IN  core' = IF abs.b = <<>> THEN s ELSE [hardCopy(s) EXCEPT !.a = appendData(@, abs.b)]
    /\ abs' = [abs EXCEPT !.a = @ \o abs.b]

\* prepend, also of nothing, which leaves an empty chunk.
prepend(d) ==
    /\ Len(abs.a) + Len(d) <= MaxLength /\ Len(core.a.chunks) < MaxChunks
    /\ core' = [hardCopy(core) EXCEPT !.a = prependChunk(@, d)]
    /\ abs' = [abs EXCEPT !.a = d \o @]

insert(nPos, d) ==
    /\ d /= <<>> /\ nPos \in 1..(core.a.nLength - 1)
    /\ Len(abs.a) + Len(d) <= MaxLength
    /\ LET s == hardCopy([core EXCEPT !.a = textFlatten(@)])
       IN  core' = [s EXCEPT !.a = [nLength |-> core.a.nLength + Len(d),
                                    chunks |-> <<cut(s.a, 1, nPos), d,
                                                 cut(s.a, nPos + 1, core.a.nLength)>>]]
    /\ abs' = [abs EXCEPT !.a = SubSeq(@, 1, nPos) \o d \o SubSeq(@, nPos + 1, Len(@))]

\* insert( nPos, String ): the chunks of the other string, one by one.
insertOther(nPos) ==
    /\ nPos \in 1..(core.a.nLength - 1) /\ Len(abs.a) + Len(abs.b) <= MaxLength
    /\ Len(core.b.chunks) < MaxChunks
    /\ LET s == hardCopy([core EXCEPT !.a = textFlatten(@)])
       IN  core' = [s EXCEPT !.a = [nLength |-> s.a.nLength + s.b.nLength,
                                    chunks |-> <<cut(s.a, 1, nPos)>> \o s.b.chunks
                                               \o <<cut(s.a, nPos + 1, s.a.nLength)>>]]
    /\ abs' = [abs EXCEPT !.a = SubSeq(@, 1, nPos) \o abs.b \o SubSeq(@, nPos + 1, Len(@))]

remove(nPos, nLen) ==
    /\ nPos \in 0..(core.a.nLength - 1) /\ nLen \in 1..MaxLength
    /\ LET s == hardCopy([core EXCEPT !.a = textFlatten(@)])
           n == IF nLen > s.a.nLength - nPos THEN s.a.nLength - nPos ELSE nLen
       IN  /\ core' = [s EXCEPT !.a = [nLength |-> @.nLength - n,
                         chunks |-> <<cut(@, 1, nPos) \o cut(@, nPos + n + 1, @.nLength)>>]]
           /\ abs' = [abs EXCEPT !.a = SubSeq(@, 1, nPos) \o SubSeq(@, nPos + n + 1, Len(@))]

clear ==
    /\ core' = [hardCopy(core) EXCEPT !.a = StringCore]
    /\ abs' = [abs EXCEPT !.a = <<>>]

textSet(d) ==
        /\ core' = [hardCopy(core) EXCEPT !.a = appendData(StringCore, d)]
        /\ abs' = [abs EXCEPT !.a = d]

\* resize: cut, or grown by a terminator (what lies behind it is not initialised).
resize(nNewSize) ==
    /\ nNewSize \in 0..(core.a.nLength + 1) \ {core.a.nLength} /\ nNewSize <= MaxLength
    /\ LET s == hardCopy([core EXCEPT !.a = textFlatten(@)])
           d == [i \in 1..nNewSize |-> IF i <= s.a.nLength THEN StringFlat(s.a)[i] ELSE NUL]
       IN  core' = [s EXCEPT !.a = [nLength |-> nNewSize, chunks |-> <<d>>]]
    /\ abs' = [abs EXCEPT !.a = [i \in 1..nNewSize |-> IF i <= Len(@) THEN @[i] ELSE NUL]]

\* The const getStr, the comparisons and findIdx: flattened for every string of the core.
getStr == core' = [core EXCEPT !.a = textFlatten(@)] /\ UNCHANGED abs

\* operator[] used to assign.
setAt(nIndex, ch) ==
    /\ nIndex \in 1..core.a.nLength
    /\ core' = [hardCopy([core EXCEPT !.a = textFlatten(@)]) EXCEPT !.a.chunks[1][nIndex] = ch]
    /\ abs' = [abs EXCEPT !.a[nIndex] = ch]

trimFront(nAmnt) ==
    /\ core.a.nLength > 0 /\ nAmnt \in 0..core.a.nLength
    /\ LET s == hardCopy([core EXCEPT !.a = textFlatten(@)])
       IN  core' = [s EXCEPT !.a = [nLength |-> @.nLength - nAmnt,
                                    chunks |-> <<cut(@, nAmnt + 1, @.nLength)>>]]
    /\ abs' = [abs EXCEPT !.a = SubSeq(@, nAmnt + 1, Len(@))]

\* trimBack copies nothing: it is only called on a string that shares its core with none
\* (README).
trimBack(iAmnt) ==
    /\ ~core.shared
    /\ core' = IF iAmnt > core.a.nLength THEN [core EXCEPT !.a = StringCore]
               ELSE IF core.a.nLength = 0 THEN core
               ELSE [core EXCEPT !.a = [nLength |-> @.nLength - iAmnt,
                                        chunks |-> <<cut(@, 1, @.nLength - iAmnt)>>]]
    /\ abs' = [abs EXCEPT !.a = SubSeq(@, 1, Len(@) - iAmnt)]

\* The other string becomes a copy of this one: the core is shared.
copy == core' = [a |-> core.a, b |-> core.a, shared |-> TRUE] /\ abs' = [abs EXCEPT !.b = abs.a]

Chars == UNION {Range(d) : d \in StringTexts}

StringNext == \/ \E d \in StringTexts : \/ append(d) \/ prepend(d) \/ textSet(d)
                                        \/ \E n \in 1..MaxLength : insert(n, d)
              \/ \E ch \in Chars : appendChar(ch) \/ \E n \in 1..MaxLength : setAt(n, ch)
              \/ \E n \in 0..MaxLength : \/ insertOther(n) \/ resize(n) \/ trimFront(n) \/ trimBack(n)
                                         \/ \E m \in 1..MaxLength : remove(n, m)
              \/ appendOther \/ clear \/ getStr \/ copy

-----------------------------------------------------------------------------
\* Both strings have the text their own calls gave them, whatever is done to the core
\* they share: every change copies first, and flattening for everyone changes no text.
TextsAreValues ==
    LET b == IF core.shared THEN core.a ELSE core.b
    IN  /\ StringFlat(core.a) = abs.a /\ core.a.nLength = Len(abs.a)
        /\ StringFlat(b) = abs.b /\ b.nLength = Len(abs.b)

RECURSIVE Iterated(_, _)
Iterated(c, i) == IF i.pChunk = 0 THEN <<>> ELSE <<textDeref(c, i)>> \o Iterated(c, textNext(c, i))

Matches(t, d) == {i \in 1..(Len(t) - Len(d) + 1) : SubSeq(t, i, i + Len(d) - 1) = d}

RECURSIVE Replaced(_, _, _)
Replaced(t, d, r) ==
    IF Matches(t, d) = {} THEN t
    ELSE LET m == Min(Matches(t, d))
         IN  SubSeq(t, 1, m - 1) \o r \o Replaced(SubSeq(t, m + Len(d), Len(t)), d, r)

\* As long as no chunk is empty, the chunks cannot be seen: an iterator reads the text,
\* find stops where the text has its first match, append( s, e ) takes the text between,
\* replace, split and trimWhitespace give what they give on one piece of text.
ChunksAreInvisible ==
    LET c == core.a  t == abs.a
        At(n) == textPlus(c, textBegin(c), n)
    IN  (\A k \in DOMAIN c.chunks : c.chunks[k] /= <<>>) =>
        /\ Iterated(c, textBegin(c)) = t
        /\ \A d \in StringTexts \ {<<>>} :
              /\ LET i == textFind(c, textBegin(c), d)
                 IN  IF Matches(t, d) = {} THEN i.pChunk = 0
                     ELSE i.pChunk /= 0 /\ i = At(Min(Matches(t, d)) - 1)
              /\ \A r \in StringTexts : StringFlat(replace(c, d, r)) = Replaced(t, d, r)
        /\ \A n, m \in 0..Len(t) : n < m =>
              StringFlat(slice(StringCore, c, At(n), At(m))) = SubSeq(t, n + 1, m)
        /\ \A ch \in Chars : FlattenSeq(splitFrom(c, textBegin(c), ch)) = SelectSeq(t, LAMBDA x : x /= ch)
        /\ LET solid == {n \in DOMAIN t : t[n] /= Space}
           IN  trimWhitespace(c) = IF solid = {} THEN <<>> ELSE SubSeq(t, Min(solid), Max(solid))
-----------------------------------------------------------------------------
(***************************************************************************)
(* The calls of Bu::String that look at a text (src/stable/string.cpp) and *)
(* the iterator they are made with (src/stable/string.h): comparison,      *)
(* substrings, search and case.  A text is a sequence of chunks, none of   *)
(* them empty; some calls walk over the chunks and others flatten them     *)
(* first.  Characters are numbers: Upper, and Lower that is Shift above.   *)
(* core is the chunks of the string the call is made on, a, and of its     *)
(* argument, b, and the last call with its result; abs their texts.        *)
(***************************************************************************)
CONSTANTS Upper, Shift,       \* the upper case letters, and 'a' - 'A'
          MaxA, MaxB          \* bounds: characters of the two strings

Lower == {c + Shift : c \in Upper}
Letters == Upper \cup Lower
-----------------------------------------------------------------------------
StringSearchTexts(n) == UNION {[1..k -> Letters] : k \in 0..n}

RECURSIVE Chunkings(_)
\* The ways to divide a text into chunks.
Chunkings(t) == IF t = <<>> THEN {<<>>}
                ELSE UNION {{<<SubSeq(t, 1, k)>> \o rest : rest \in Chunkings(SubSeq(t, k + 1, Len(t)))} : k \in 1..Len(t)}

StringSearchFlat(chunks) == FlattenSeq(chunks)
searchFlatten(chunks) == IF Len(chunks) <= 1 THEN chunks ELSE <<StringSearchFlat(chunks)>>

StringSearchEND == <<0, 0>>
searchBegin(s) == IF s = <<>> THEN StringSearchEND ELSE <<1, 0>>
Valid(i) == i[1] # 0
searchAfter(s, k) == IF k < Len(s) THEN k + 1 ELSE 0

\* Mutant: the step into the next chunk keeps the position.
StringSearchNextKeepsPosition(s, i) == IF ~Valid(i) THEN i
                                       ELSE IF i[2] + 1 >= Len(s[i[1]]) THEN IF searchAfter(s, i[1]) = 0 THEN StringSearchEND ELSE <<searchAfter(s, i[1]), Len(s[searchAfter(s, i[1])]) - 1>>
                                       ELSE <<i[1], i[2] + 1>>

searchNext(s, i) == IF ~Valid(i) THEN i
                    ELSE IF i[2] + 1 >= Len(s[i[1]]) THEN <<searchAfter(s, i[1]), 0>> ELSE <<i[1], i[2] + 1>>

RECURSIVE searchPlus(_, _, _)
\* A step of n characters; the position at the end is what is left of n.
searchPlus(s, i, n) == IF ~Valid(i) THEN i
                       ELSE IF i[2] + n < Len(s[i[1]]) THEN <<i[1], i[2] + n>>
                       ELSE IF searchAfter(s, i[1]) = 0 THEN StringSearchEND
                       ELSE searchPlus(s, <<searchAfter(s, i[1]), 0>>, i[2] + n - Len(s[i[1]]))

searchDeref(s, i) == s[i[1]][i[2] + 1]

RECURSIVE searchCompare(_, _, _, _), compareLen(_, _, _, _, _)
\* Both end together.
searchCompare(s, i, t, j) == IF Valid(i) /\ Valid(j) THEN searchDeref(s, i) = searchDeref(t, j) /\ searchCompare(s, searchNext(s, i), t, searchNext(t, j))
                             ELSE Valid(i) = Valid(j)

\* The next n characters.
compareLen(s, i, t, j, n) == \/ n = 0
                             \/ /\ Valid(i) /\ Valid(j) /\ searchDeref(s, i) = searchDeref(t, j)
                                /\ compareLen(s, searchNext(s, i), t, searchNext(t, j), n - 1)

RECURSIVE findChar(_, _, _), searchFind(_, _, _), findLen(_, _, _, _)
findChar(s, i, c) == IF ~Valid(i) \/ searchDeref(s, i) = c THEN i ELSE findChar(s, searchNext(s, i), c)
searchFind(s, i, t) == IF ~Valid(i) \/ searchCompare(s, i, t, searchBegin(t)) THEN i ELSE searchFind(s, searchNext(s, i), t)
findLen(s, i, t, n) == IF ~Valid(i) \/ compareLen(s, i, t, searchBegin(t), n) THEN i ELSE findLen(s, searchNext(s, i), t, n)
-----------------------------------------------------------------------------
\* The part between two iterators, chunk by chunk.
getSubStr(s, i, j) ==
    CASE ~Valid(i) -> <<>>
      [] Valid(i) /\ i[1] = j[1] -> SubSeq(s[i[1]], i[2] + 1, j[2])
      [] OTHER -> LET head == SubSeq(s[i[1]], i[2] + 1, Len(s[i[1]]))
                      last == IF Valid(j) THEN j[1] - 1 ELSE Len(s)
                      tail == IF Valid(j) THEN SubSeq(s[j[1]], 1, j[2]) ELSE <<>>
                  IN  head \o StringSearchFlat(SubSeq(s, i[1] + 1, last)) \o tail

getSubStrIdx(s, start, size) ==
    LET t == StringSearchFlat(s)
        from == IF start < 0 THEN 0 ELSE start
        n == IF size < 0 THEN Len(t) ELSE size
    IN  IF from >= Len(t) THEN <<>> ELSE SubSeq(t, from + 1, IF from + n > Len(t) THEN Len(t) ELSE from + n)

Equal(s, t) == Len(StringSearchFlat(s)) = Len(StringSearchFlat(t)) /\ \A k \in DOMAIN StringSearchFlat(s) : StringSearchFlat(s)[k] = StringSearchFlat(t)[k]

\* Of texts of which none is the beginning of the other; 0 for equal ones.
FirstDifference(s, t) == LET at == {k \in DOMAIN StringSearchFlat(s) \cap DOMAIN StringSearchFlat(t) : StringSearchFlat(s)[k] # StringSearchFlat(t)[k]}
                         IN  IF at = {} THEN 0 ELSE CHOOSE k \in at : \A m \in at : k <= m
Less(s, t) == LET k == FirstDifference(s, t) IN k # 0 /\ StringSearchFlat(s)[k] < StringSearchFlat(t)[k]
Greater(s, t) == LET k == FirstDifference(s, t) IN k # 0 /\ StringSearchFlat(s)[k] > StringSearchFlat(t)[k]
LessEqual(s, t) == LET k == FirstDifference(s, t) IN k = 0 \/ StringSearchFlat(s)[k] < StringSearchFlat(t)[k]
GreaterEqual(s, t) == LET k == FirstDifference(s, t) IN k = 0 \/ StringSearchFlat(s)[k] > StringSearchFlat(t)[k]

compareSub(s, t, index, len) ==
    LET n == IF len < 0 THEN Len(StringSearchFlat(t)) ELSE len
    IN  /\ s # <<>> /\ t # <<>>
        /\ index + n <= Len(StringSearchFlat(s))
        /\ \A k \in 1..n : StringSearchFlat(s)[index + k] = StringSearchFlat(t)[k]

toLower(s) == [k \in DOMAIN StringSearchFlat(s) |-> IF StringSearchFlat(s)[k] \in Upper THEN StringSearchFlat(s)[k] + Shift ELSE StringSearchFlat(s)[k]]
toUpper(s) == [k \in DOMAIN StringSearchFlat(s) |-> IF StringSearchFlat(s)[k] \in Lower THEN StringSearchFlat(s)[k] - Shift ELSE StringSearchFlat(s)[k]]

IsAt(s, t, j) == IsPrefix(StringSearchFlat(t), SubSeq(StringSearchFlat(s), j + 1, Len(StringSearchFlat(s))))
Or(set, choose) == IF set = {} THEN -1 ELSE choose

\* The search by index leaves out the last place.
findIdx(s, t, from) == LET at == {j \in from..(Len(StringSearchFlat(s)) - Len(StringSearchFlat(t)) - 1) : IsAt(s, t, j)}
                       IN  Or(at, CHOOSE j \in at : \A k \in at : j <= k)
rfindIdx(s, t) == LET at == {j \in 0..(Len(StringSearchFlat(s)) - Len(StringSearchFlat(t)) - 1) : IsAt(s, t, j)}
                  IN  Or(at, CHOOSE j \in at : \A k \in at : j >= k)
-----------------------------------------------------------------------------
None == [op |-> "none"]
StringSearchInit == \E a \in StringSearchTexts(MaxA), b \in StringSearchTexts(MaxB) : \E s \in Chunkings(a), t \in Chunkings(b) :
                        core = [a |-> s, b |-> t, last |-> None] /\ abs = [a |-> a, b |-> b]

Called(op, x, y, val) == /\ core.last = None
                         /\ core' = [core EXCEPT !.last = [op |-> op, x |-> x, y |-> y, val |-> val]]
                         /\ UNCHANGED abs
Flattened(op, x, y, val) == /\ core.last = None
                            /\ core' = [a |-> searchFlatten(core.a), b |-> searchFlatten(core.b), last |-> [op |-> op, x |-> x, y |-> y, val |-> val]]
                            /\ UNCHANGED abs
Places == 0..MaxA
It(k) == searchPlus(core.a, searchBegin(core.a), k)

SubStr == \E x, y \in Places : /\ x <= y /\ y <= Len(abs.a) /\ Called("sub", x, y, getSubStr(core.a, It(x), It(y)))
SubStrIdx == \E x \in Places, y \in -1..MaxA : Flattened("subIdx", x, y, getSubStrIdx(core.a, x, y))
Compare == Flattened("equal", 0, 0, Equal(core.a, core.b))

\* A first difference is within both texts, or they are equal.
Order == /\ core.a # <<>> /\ core.b # <<>>
         /\ abs.a = abs.b \/ \E k \in DOMAIN abs.a \cap DOMAIN abs.b : abs.a[k] # abs.b[k]
         /\ Flattened("order", 0, 0, <<Less(core.a, core.b), LessEqual(core.a, core.b), Greater(core.a, core.b), GreaterEqual(core.a, core.b)>>)
CompareSub == \E x \in Places, y \in -1..MaxB : y <= Len(abs.b) /\ Flattened("compareSub", x, y, compareSub(core.a, core.b, x, y))
Case == Flattened("case", 0, 0, <<toLower(core.a), toUpper(core.a)>>)
Find == \E x \in Places : /\ x < Len(abs.a)
                          /\ \/ \E c \in Letters : Called("findChar", x, c, findChar(core.a, It(x), c))
                             \/ Called("find", x, 0, searchFind(core.a, It(x), core.b))
                             \/ \E n \in 1..Len(abs.b) : Called("findLen", x, n, findLen(core.a, It(x), core.b, n))
FindIdx == \E x \in Places : core.a # <<>> /\ core.b # <<>> /\ Flattened("findIdx", x, 0, <<findIdx(core.a, core.b, x), rfindIdx(core.a, core.b)>>)

StringSearchNext == SubStr \/ SubStrIdx \/ Compare \/ Order \/ CompareSub \/ Case \/ Find \/ FindIdx
-----------------------------------------------------------------------------
Smaller(t, u) == \E k \in DOMAIN t \cap DOMAIN u : t[k] < u[k] /\ \A m \in 1..(k - 1) : t[m] = u[m]

\* Where an iterator stands in the text.
Index(i) == IF Valid(i) THEN Len(StringSearchFlat(SubSeq(core.a, 1, i[1] - 1))) + i[2] ELSE Len(abs.a)

\* An iterator that was found is at the first place with the property, or at the end if there is none.
FirstFrom(i, x, Match(_)) ==
    LET at == {j \in x..(Len(abs.a) - 1) : Match(j)}
    IN  IF at = {} THEN i = StringSearchEND ELSE Valid(i) /\ Index(i) \in at /\ \A k \in at : Index(i) <= k

From(j) == SubSeq(abs.a, j + 1, Len(abs.a))

\* However the texts are divided into chunks, each call gives what the texts say: comparisons and searches
\* agree with the texts, the four orders with each other; a search for a String of no given length finds it
\* only at the end of the text, and one by index only before it.
CallsAgreeWithTexts ==
    LET l == core.last IN
    /\ StringSearchFlat(core.a) = abs.a /\ StringSearchFlat(core.b) = abs.b
    /\ CASE l.op = "none" -> TRUE
         [] l.op = "sub" -> l.val = SubSeq(abs.a, l.x + 1, l.y)
         [] l.op = "subIdx" -> l.val = IF l.x >= Len(abs.a) THEN <<>> ELSE SubSeq(abs.a, l.x + 1, IF l.y < 0 \/ l.x + l.y > Len(abs.a) THEN Len(abs.a) ELSE l.x + l.y)
         [] l.op = "equal" -> l.val = (abs.a = abs.b)
         [] l.op = "order" -> l.val = <<Smaller(abs.a, abs.b), ~Smaller(abs.b, abs.a), Smaller(abs.b, abs.a), ~Smaller(abs.a, abs.b)>>
         [] l.op = "compareSub" -> LET n == IF l.y < 0 THEN Len(abs.b) ELSE l.y
                                   IN  l.val = (abs.a # <<>> /\ abs.b # <<>> /\ l.x + n <= Len(abs.a) /\ IsPrefix(SubSeq(abs.b, 1, n), From(l.x)))
         [] l.op = "case" -> /\ ToSet(l.val[1]) \subseteq Lower /\ ToSet(l.val[2]) \subseteq Upper
                             /\ \A k \in DOMAIN abs.a : abs.a[k] \in {l.val[1][k], l.val[2][k]} /\ l.val[1][k] - l.val[2][k] = Shift
         [] l.op = "findChar" -> FirstFrom(l.val, l.x, LAMBDA j : abs.a[j + 1] = l.y)
         [] l.op = "find" -> FirstFrom(l.val, l.x, LAMBDA j : From(j) = abs.b)
         [] l.op = "findLen" -> FirstFrom(l.val, l.x, LAMBDA j : IsPrefix(SubSeq(abs.b, 1, l.y), From(j)))
         [] l.op = "findIdx" ->
              LET at == {j \in 0..(Len(abs.a) - Len(abs.b) - 1) : IsPrefix(abs.b, From(j))}
              IN  /\ l.val[1] \in {-1} \cup at /\ l.val[2] \in {-1} \cup at
                  /\ \A j \in at : /\ j >= l.x => l.val[1] # -1 /\ l.val[1] <= j
                                   /\ l.val[2] >= j
-----------------------------------------------------------------------------
Init == \/ which = "String" /\ StringInit
        \/ which = "StringSearch" /\ StringSearchInit

Next == /\ UNCHANGED which
        /\ \/ which = "String" /\ StringNext
           \/ which = "StringSearch" /\ StringSearchNext

Spec == Init /\ [][Next]_vars
=============================================================================
