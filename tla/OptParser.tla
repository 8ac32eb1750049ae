----------------------------- MODULE OptParser ------------------------------
(***************************************************************************)
(* Bu::OptParser (src/stable/optparser.cpp, optparser.h): the command line *)
(* parser.  An option sets a variable through its proxy, to its override   *)
(* if it has one and to a value of the command line otherwise, or calls a  *)
(* signal that says how many words it used.  Values and groups of short    *)
(* options are sequences of letters; a word of the command line is         *)
(*     [k |-> "long", opt, extra], [k |-> "short", cs], [k |-> "plain", v].*)
(* abs is what the user means, a sequence of settings, from which argv is  *)
(* made by spelling each setting in any of the ways there are.             *)
(* The second kind of state is help text that format breaks into lines.    *)
(***************************************************************************)
EXTENDS Integers, SequencesExt

CONSTANTS Values, MaxSettings, Widths, MaxText   \* bounds: settings of a command line, letters of a text

VARIABLES core, abs
vars == <<core, abs>>
-----------------------------------------------------------------------------
\* The options: o sets a variable, v has an override, s is a signal that uses one word.
Opts == {"o", "v", "s"}
LongName == [o |-> "out", v |-> "verbose", s |-> "signal"]
ByLong(l) == IF \E c \in Opts : LongName[c] = l THEN CHOOSE c \in Opts : LongName[c] = l ELSE ""
Override == <<"1">>

set(c, o, v) == [c EXCEPT !.log = Append(@, <<o, v>>)]
optionError(c) == [c EXCEPT !.state = "error"]

\* The text of a word, as a value of an option.
Text(w) == CASE w.k = "plain" -> w.v
             [] w.k = "short" -> <<"-">> \o w.cs
             [] w.k = "long" -> <<"-", "-", w.opt>> \o w.extra

Word(c, j) == IF j <= Len(c.argv) THEN {Text(c.argv[j])} ELSE {}
At(c, j) == Text(c.argv[j])

\* A signal gets the words behind it and uses the first; it returns how many it used.
longOption(c) ==
    LET w == c.argv[c.j]
        o == ByLong(w.opt)
    IN  CASE o = "" -> optionError(c)
          [] o = "s" -> IF w.extra # <<>> THEN [set(c, o, w.extra) EXCEPT !.j = @ + 1]
                        ELSE IF Word(c, c.j + 1) = {} THEN set(c, o, <<>>)
                        ELSE [set(c, o, At(c, c.j + 1)) EXCEPT !.j = @ + 1]
          [] o = "v" -> set(c, o, Override)
          [] o = "o" -> IF w.extra # <<>> THEN set(c, o, w.extra)
                        ELSE IF Word(c, c.j + 1) = {} THEN c
                        ELSE [set(c, o, At(c, c.j + 1)) EXCEPT !.j = @ + 1]

\* Mutant: the rest of the word is read as options, too.
ShortGoesOn(c, i) == [set(c, c.argv[c.j].cs[i], SubSeq(c.argv[c.j].cs, i + 1, Len(c.argv[c.j].cs))) EXCEPT !.i = i + 1]

\* An option that takes the rest of its word or, when there is none, the next word.
shortValue(c, i) ==
    LET rest == SubSeq(c.argv[c.j].cs, i + 1, Len(c.argv[c.j].cs))
        o == c.argv[c.j].cs[i]
        end == Len(c.argv[c.j].cs) + 1
    IN  IF rest # <<>> THEN [set(c, o, rest) EXCEPT !.i = end]
        ELSE IF Word(c, c.j + 1) = {} THEN [(IF o = "s" THEN set(c, o, <<>>) ELSE c) EXCEPT !.i = end]
        ELSE [set(c, o, At(c, c.j + 1)) EXCEPT !.j = @ + 1, !.i = end]

RECURSIVE shortOptions(_, _)
shortOptions(c, cs) ==
    IF c.i > Len(cs) THEN [c EXCEPT !.i = 1]
    ELSE LET o == cs[c.i]
         IN  CASE o \notin Opts -> optionError(c)
               [] o = "v" -> shortOptions([set(c, o, Override) EXCEPT !.i = @ + 1], cs)
               [] o \in {"o", "s"} -> shortOptions(shortValue(c, c.i), cs)

\* sNonOption, here a signal that uses the word itself.
nonOption(c) == set(c, "", Text(c.argv[c.j]))

parse(c) ==
    LET w == c.argv[c.j]
        d == CASE w.k = "long" -> longOption(c)
               [] w.k = "short" -> shortOptions(c, w.cs)
               [] w.k = "plain" -> nonOption(c)
    IN  [d EXCEPT !.j = @ + 1]
-----------------------------------------------------------------------------
\* parse of a string: a first pass counts the words, a second one finds where each begins, in
\* an array of that size, and puts a Nul behind it.
Quote == "q"
Nul == "nul"
gapState(g, ch) ==
    IF ~g.bInQuote /\ ch = " " THEN [g EXCEPT !.bInGap = TRUE]
    ELSE IF ch = Quote THEN [g EXCEPT !.bInQuote = ~@]
    ELSE [g EXCEPT !.iParams = IF g.bInGap THEN @ + 1 ELSE @, !.bInGap = FALSE]

Gap == [bInQuote |-> FALSE, bInGap |-> TRUE, iParams |-> 0]
countParams(t) == FoldLeft(gapState, Gap, t).iParams

\* Mutant: the state of the first pass is not reset.
SplitTurnLate(a, i) ==
    LET g == gapState(a.g, a.t[i])
    IN  [a EXCEPT !.g = [g EXCEPT !.bInGap = FALSE], !.asParam = IF g.iParams > a.g.iParams THEN Append(@, i) ELSE @]

splitTurn(a, i) ==
    LET g == gapState(a.g, a.t[i])
    IN  [a EXCEPT !.g = g, !.asParam = IF g.iParams > a.g.iParams THEN Append(@, i) ELSE @,
                  !.t[i] = IF g.bInGap /\ ~a.g.bInGap THEN Nul ELSE @]

split(t) == FoldLeft(splitTurn, [g |-> Gap, t |-> t, asParam |-> <<>>], [i \in DOMAIN t |-> i])

Params(a) == [n \in DOMAIN a.asParam |->
    LET b == a.asParam[n]
        e == CHOOSE e \in b..(Len(a.t) + 1) : (e > Len(a.t) \/ a.t[e] = Nul) /\ \A m \in b..(e - 1) : a.t[m] # Nul
    IN  SubSeq(a.t, b, e - 1)]
-----------------------------------------------------------------------------
\* format: a text of letters and blanks broken at blanks into lines of at most iWidth; a line
\* that is broken is filled up to iWidth with more blanks.
Sp == " "
Nl == "nl"

\* The line iStart .. iLast - 1, whose gaps get iExtra more blanks: the k-th of n gets the
\* whole part of its share.
filled(t, iStart, iLast, iExtra, n) ==
    LET starts(k) == t[k] = Sp /\ (k = iStart \/ t[k - 1] # Sp)
        gap(k) == Len(SelectSeq([i \in 1..(k - iStart + 1) |-> starts(iStart + i - 1)], LAMBDA b : b))
        more(k) == IF starts(k) /\ iExtra > 0 /\ n > 0 THEN (gap(k) * iExtra) \div n - ((gap(k) - 1) * iExtra) \div n ELSE 0
    IN  FoldLeft(LAMBDA acc, k : acc \o <<t[k]>> \o [x \in 1..more(k) |-> Sp], <<>>, [k \in 1..(iLast - iStart) |-> iStart + k - 1])

\* Mutant: the letter at the break is lost.
BreakLoses(f) ==
    [f EXCEPT !.sOut = @ \o filled(f.t, f.iStart, f.iLast, 0, 1) \o <<Nl>>, !.i = f.iLast + 1, !.iStart = f.iLast + 2,
              !.iLast = f.iLast + 2, !.bSpace = FALSE, !.iLineLen = 1, !.iSpaces = 0]

broken(f) ==
    LET next == CHOOSE k \in f.iLast..(Len(f.t) + 1) : (k > Len(f.t) \/ f.t[k] # Sp) /\ \A m \in f.iLast..(k - 1) : f.t[m] = Sp
    IN  [f EXCEPT !.sOut = @ \o filled(f.t, f.iStart, f.iLast, f.iWidth - f.iPrev, f.iSpaces - 1) \o <<Nl>>,
                  !.i = next, !.iStart = next, !.iLast = next, !.bSpace = FALSE, !.iLineLen = 1, !.iSpaces = 0]

\* One turn of the loop; it ends behind the text, where the last line is added as it is.
formatTurn(f) ==
    IF f.i > Len(f.t) THEN [f EXCEPT !.sOut = @ \o SubSeq(f.t, f.iStart, Len(f.t)), !.state = "done"]
    ELSE LET first == f.t[f.i] = Sp /\ ~f.bSpace
             g == [f EXCEPT !.bSpace = f.t[f.i] = Sp, !.iLast = IF first THEN f.i ELSE @,
                            !.iSpaces = IF first THEN @ + 1 ELSE @, !.iPrev = IF first THEN f.iLineLen ELSE @,
                            !.iLineLen = @ + 1]
         IN  IF g.iLineLen >= f.iWidth THEN [broken(g) EXCEPT !.i = @ + 1] ELSE [g EXCEPT !.i = @ + 1]
-----------------------------------------------------------------------------
\* The ways to spell a setting (a signal has no --signal=value: parse would skip a word then).
Long(c, extra) == [k |-> "long", opt |-> LongName[c], extra |-> extra]
Short(cs) == [k |-> "short", cs |-> cs]
Plain(v) == [k |-> "plain", v |-> v]
Spellings(s) ==
    CASE s[1] = "" -> {<<Plain(s[2])>>}
      [] s[1] = "v" -> {<<Short(<<"v">>)>>, <<Long("v", <<>>)>>}
      [] s[1] = "o" -> {<<Short(<<"o">> \o s[2])>>, <<Short(<<"o">>), Plain(s[2])>>, <<Long("o", s[2])>>,
                        <<Long("o", <<>>), Plain(s[2])>>}
      [] s[1] = "s" -> {<<Short(<<"s">> \o s[2])>>, <<Short(<<"s">>), Plain(s[2])>>, <<Long("s", <<>>), Plain(s[2])>>}

\* A flag may stand before another short option in one word.
Grouped(a, b) == IF a[1].k = "short" /\ a[1].cs = <<"v">> /\ b[1].k = "short"
                 THEN {a \o b, <<Short(<<"v">> \o b[1].cs)>> \o Tail(b)} ELSE {a \o b}

Settings == {<<"v", Override>>} \cup ({"", "o", "s"} \X Values)
RECURSIVE Lines(_)
Lines(s) == IF s = <<>> THEN {<<>>}
            ELSE IF Len(s) = 1 THEN Spellings(s[1])
            ELSE UNION {Grouped(a, b) : a \in Spellings(s[1]), b \in Lines(Tail(s))}

\* Texts whose words are shorter than a line: format does not return from others.
Fitting(t, w) == \A i \in DOMAIN t : i + w - 2 <= Len(t) => \E k \in i..(i + w - 2) : t[k] = Sp

Init == \/ \E s \in UNION {[1..n -> Settings] : n \in 1..MaxSettings} : \E a \in Lines(s) :
              /\ abs = s
              /\ core = [kind |-> "parse", argv |-> a, j |-> 1, i |-> 1, log |-> <<>>, state |-> "run"]
        \/ \E t \in UNION {[1..n -> {"x", Sp}] : n \in 1..MaxText}, w \in Widths :
              /\ t[1] # Sp /\ Fitting(t, w)
              /\ abs = t
              /\ core = [kind |-> "format", t |-> t, iWidth |-> w, i |-> 1, iStart |-> 1, iLast |-> 1, bSpace |-> FALSE,
                         iSpaces |-> 0, iPrev |-> 0, iLineLen |-> 0, sOut |-> <<>>, state |-> "run"]

        \/ \E t \in UNION {[1..n -> {"x", Sp, Quote}] : n \in 1..5} :
              abs = t /\ core = [kind |-> "split", t |-> t, state |-> "run"]

Next == /\ core.state = "run"
        /\ \/ /\ core.kind = "parse"
              /\ core' = IF core.j > Len(core.argv) THEN [core EXCEPT !.state = "done"] ELSE parse(core)
           \/ core.kind = "format" /\ core' = formatTurn(core)
           \/ /\ core.kind = "split"
              /\ core' = [kind |-> "split", t |-> core.t, state |-> "done", iParams |-> countParams(core.t), asParam |-> Params(split(core.t))]
        /\ UNCHANGED abs

Spec == Init /\ [][Next]_vars
-----------------------------------------------------------------------------
\* Whatever the spelling of the settings and the grouping of short options, parse makes
\* exactly these settings, in their order, and takes every word once.
SpellingsAgree ==
    core.kind = "parse" => /\ IsPrefix(core.log, abs) /\ core.state # "error"
                           /\ core.state = "done" => core.log = abs

\* The lengths of the words of a text.
WordsOf(t) ==
    LET starts == {i \in DOMAIN t : t[i] = "x" /\ (i = 1 \/ t[i - 1] # "x")}
        end(i) == CHOOSE j \in i..Len(t) : (j = Len(t) \/ t[j + 1] # "x") /\ \A m \in i..j : t[m] = "x"
    IN  [n \in 1..Cardinality(starts) |->
            LET i == CHOOSE i \in starts : Cardinality({k \in starts : k <= i}) = n IN end(i) - i + 1]

\* Both passes over a command line given as a string find the same words, so that the array
\* holds them; they are what blanks outside of quotes separate.
SplitFitsArray ==
    core.kind = "split" /\ core.state = "done" =>
        /\ Len(core.asParam) = core.iParams
        /\ Quote \notin Range(core.t) => [n \in DOMAIN core.asParam |-> Len(core.asParam[n])] = WordsOf(core.t)

\* The lines format makes hold the words of the text, in order and whole, and none is longer
\* than the width.
LinesHoldTheWords ==
    core.kind = "format" /\ core.state = "done" =>
        /\ WordsOf(core.sOut) = WordsOf(abs)
        /\ \A i \in 1..(Len(core.sOut) - core.iWidth) : \E k \in i..(i + core.iWidth) : core.sOut[k] = Nl
=============================================================================
