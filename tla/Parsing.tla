----------------------------- MODULE Parsing --------------------------------
(***************************************************************************)
(* Three readers of text: Bu::Formula, Bu::Parser, and Bu::MiniMacro with  *)
(* the arguments of Bu::String. They share no state: which says what a     *)
(* behaviour is about.                                                     *)
(***************************************************************************)
EXTENDS Integers, SequencesExt

VARIABLES which, core, abs
vars == <<which, core, abs>>
-----------------------------------------------------------------------------
(***************************************************************************)
(* Bu::Formula::run (src/stable/formula.h): a calculator that evaluates a  *)
(* formula while it reads it, with a stack of operators and one of values. *)
(* One step is one token.  abs is the expression the formula was written   *)
(* from, as its tokens and its value.                                      *)
(***************************************************************************)
CONSTANTS Numbers, Depth   \* bound: the depth of the expression

F(x) == x * x + 1   \* the custom function of the formula
-----------------------------------------------------------------------------
Top(s) == s[Len(s)]
Pop(s) == Front(s)

\* Mutant: multiplication binds no tighter than addition.
FlatPrec(o) == CASE o \in {"+", "-", "*"} -> 1 [] o \in {"neg", "f"} -> 3 [] OTHER -> 0

getPrec(o) ==
    CASE o \in {"+", "-"} -> 1
      [] o = "*" -> 2
      [] o \in {"neg", "f"} -> 3
      [] OTHER -> 0

\* One operator applied to the top of the values.
applied(o, v) ==
    LET d == Top(v)
        w == Pop(v)
    IN  CASE o = "+" -> Append(Pop(w), Top(w) + d)
          [] o = "-" -> Append(Pop(w), Top(w) - d)
          [] o = "*" -> Append(Pop(w), Top(w) * d)
          [] o = "f" -> Append(w, F(d))
          [] o = "neg" -> Append(w, -d)

Operands(o) == IF o \in {"+", "-", "*"} THEN 2 ELSE 1

\* reduce applies every operator down to the last open parenthesis, and takes that one away
\* when a closing one has come.
RECURSIVE reduce(_, _)
reduce(c, bCloseParen) ==
    IF c.sOper = <<>> THEN IF bCloseParen THEN [c EXCEPT !.state = "thrown"] ELSE c
    ELSE LET o == Top(c.sOper)
         IN  IF o = "(" THEN IF bCloseParen THEN [c EXCEPT !.sOper = Pop(@)] ELSE c
             ELSE IF Len(c.sValue) < Operands(o) THEN [c EXCEPT !.state = "thrown"]
             ELSE reduce([c EXCEPT !.sOper = Pop(@), !.sValue = applied(o, c.sValue)], bCloseParen)

\* A token where an operand may stand: prefix operators are stacked, the end is an error.
operand(c, t) ==
    CASE t = "-" -> [c EXCEPT !.sOper = Append(@, "neg")]
      [] t \in {"(", "f"} -> [c EXCEPT !.sOper = Append(@, t)]
      [] t = "EOS" -> [c EXCEPT !.state = "thrown"]
      [] OTHER -> [c EXCEPT !.state = "operator"]

\* A token where an operator must stand.
operator(c, t) ==
    IF t = "EOS"
    THEN LET d == reduce(c, FALSE) IN [d EXCEPT !.state = IF d.sValue = <<>> \/ @ = "thrown" THEN "thrown" ELSE "done"]
    ELSE LET d == IF c.sOper # <<>> /\ getPrec(Top(c.sOper)) > getPrec(t) THEN reduce(c, FALSE) ELSE c
         IN  IF t = ")" THEN reduce(d, TRUE)
             ELSE [d EXCEPT !.sOper = Append(@, t), !.state = IF @ = "thrown" THEN @ ELSE "operand"]

\* A number that is read goes to the values (nextToken), wherever it stands.
FormulaNextToken(c, t) == IF t.n # "" THEN [c EXCEPT !.sValue = Append(@, t.v)] ELSE c

step(c, t) ==
    LET d == FormulaNextToken(c, t)
        o == IF t.n # "" THEN "number" ELSE t.o
    IN  IF c.state = "operand" THEN operand(d, o) ELSE operator(d, o)
-----------------------------------------------------------------------------
Num(v) == [n |-> "number", v |-> v, o |-> ""]
Sym(o) == [n |-> "", v |-> 0, o |-> o]
EOS == Sym("EOS")

\* The expressions of a depth, with their values: sums of products of signed numbers,
\* functions and parentheses.  run applies all stacked operators when one of lower precedence
\* comes, so that 2 + -2 * 2 is (2 + -2) * 2: a factor behind a sum that is not the last of
\* its product has no sign or function here.
Pair(e, v) == [toks |-> e, value |-> v]
Both(o, v(_, _), A, B) == {Pair(p[1].toks \o <<Sym(o)>> \o p[2].toks, v(p[1].value, p[2].value)) : p \in A \X B}
Plus(x, y) == x + y
Times(x, y) == x * y

RECURSIVE Sums(_)
RECURSIVE Plain(_)
RECURSIVE Unaries(_)
RECURSIVE Products(_)
RECURSIVE Later(_)
Plain(d) == {Pair(<<Num(v)>>, v) : v \in Numbers} \cup
            (IF d = 0 THEN {} ELSE {Pair(<<Sym("(")>> \o e.toks \o <<Sym(")")>>, e.value) : e \in Sums(d - 1)})
Unaries(d) == Plain(d) \cup
              (IF d = 0 THEN {}
               ELSE {Pair(<<Sym("-")>> \o e.toks, -e.value) : e \in Unaries(d - 1)} \cup
                    {Pair(<<Sym("f")>> \o e.toks, F(e.value)) : e \in Unaries(d - 1)})
Products(d) == Unaries(d) \cup (IF d = 0 THEN {} ELSE Both("*", Times, Unaries(d - 1), Products(d - 1)))
Later(d) == Unaries(d) \cup (IF d = 0 THEN {} ELSE Both("*", Times, Plain(d - 1), Later(d - 1)))
Sums(d) == Products(d) \cup (IF d = 0 THEN {} ELSE Both("+", Plus, Products(d - 1), Later(d - 1)))

FormulaInit == \E e \in Sums(Depth) :
                   /\ abs = e
                   /\ core = [toks |-> Append(e.toks, EOS), sOper |-> <<>>, sValue |-> <<>>, state |-> "operand"]

FormulaNext == /\ core.state \notin {"done", "thrown"}
               /\ core' = [step(core, Head(core.toks)) EXCEPT !.toks = Tail(@)]
               /\ UNCHANGED abs

-----------------------------------------------------------------------------
\* A formula is accepted and its value is that of the expression it was written from, with
\* signs, functions and parentheses at any depth, where the operators of one precedence are
\* associative (run groups equal precedences to the right, so that a - b - c is a - (b - c)).
ValueOfExpression ==
    /\ core.state # "thrown"
    /\ core.state = "done" => Top(core.sValue) = abs.value /\ Len(core.sValue) = 1 /\ core.sOper = <<>>
-----------------------------------------------------------------------------
(***************************************************************************)
(* Bu::Parser (src/experimental/parser.cpp): the table driven parser.  A   *)
(* grammar maps each non-terminal to its productions and says whether it   *)
(* may be skipped; a production is a sequence of states                    *)
(*     <<type, index>>, type one of "terminal", "push", "non", "reduce".   *)
(* A state stack entry <<nt, production, position>> is the list iterator   *)
(* of the code.  core is the parser with its lexer; abs the tokens that it *)
(* has consumed.                                                           *)
(***************************************************************************)
CONSTANT MaxTokens     \* bound: tokens of an input

End == "end"
-----------------------------------------------------------------------------
T(i) == <<"terminal", i>>
P(i) == <<"push", i>>
N(i) == <<"non", i>>
R(i) == <<"reduce", i>>
NonTerminal(canSkip, productions) == [bCanSkip |-> canSkip, lProduction |-> productions]

\* Grammars to parse with, each with one token of lookahead: sums and differences of literals with
\* parentheses, and statements whose first part may be left out.
Grammars ==
    {[expr |-> NonTerminal(FALSE, <<<<N("lit"), N("tail")>>>>),
      lit  |-> NonTerminal(FALSE, <<<<P("n")>>, <<T("("), N("expr"), T(")")>>>>),
      tail |-> NonTerminal(TRUE, <<<<T("+"), N("expr"), R("join")>>>>)],
     [expr |-> NonTerminal(FALSE, <<<<T("("), N("list")>>, <<N("lit"), N("lit"), T(")")>>>>),
      list |-> NonTerminal(FALSE, <<<<N("mark"), N("lit"), T(")")>>>>),
      mark |-> NonTerminal(TRUE, <<<<T("+"), N("mark")>>>>),
      lit  |-> NonTerminal(FALSE, <<<<P("n")>>>>)]}
Tokens == {"n", "+", "(", ")"}
-----------------------------------------------------------------------------
Production(c, s) == c.g[s[1]].lProduction[s[2]]
Peek(c) == Production(c, Last(c.sState))[Last(c.sState)[3]]

RECURSIVE advanceState(_)
\* The end of a production ends the non-terminal in the production below it, too.
advanceState(c) ==
    IF c.sState = <<>> THEN c
    ELSE LET s == Last(c.sState)
             rest == Front(c.sState)
         IN  IF s[3] < Len(Production(c, s)) THEN [c EXCEPT !.sState = Append(rest, <<s[1], s[2], s[3] + 1>>)]
             ELSE advanceState([c EXCEPT !.sState = rest])

Failed == [failed |-> TRUE]

RECURSIVE selectProduction(_, _), TryFrom(_, _, _)
selectProduction(c, nt) == TryFrom(c, nt, 1)

\* Production j of nt and those behind it; with none of them, a non-terminal that may be skipped is.
TryFrom(c, nt, j) ==
    IF j > Len(c.g[nt].lProduction) THEN IF c.g[nt].bCanSkip THEN advanceState(c) ELSE Failed
    ELSE LET first == c.g[nt].lProduction[j][1]
             pushed == [c EXCEPT !.sState = Append(@, <<nt, j, 1>>)]
             inner == selectProduction(pushed, first[2])
         IN  CASE first[1] \in {"terminal", "push"} -> IF first[2] = c.ptCur THEN pushed ELSE TryFrom(c, nt, j + 1)
               [] first[1] = "non" -> IF inner # Failed THEN inner ELSE TryFrom(c, nt, j + 1)
               [] OTHER -> TryFrom(c, nt, j + 1)
-----------------------------------------------------------------------------
ParserNextToken(c) == IF c.lexer = <<>> THEN [c EXCEPT !.ptCur = End]
                      ELSE [c EXCEPT !.ptCur = Head(c.lexer), !.lexer = Tail(@)]

Start(g, s) == ParserNextToken([g |-> g, sState |-> <<>>, sToken |-> <<>>, ptCur |-> End, lexer |-> s, error |-> FALSE])

\* An input that no production of the root begins with is taken for a whole one (parser.cpp:48).
ParserInit == \E g \in Grammars, n \in 1..MaxTokens : \E s \in [1..n -> Tokens] :
                  /\ selectProduction(Start(g, s), "expr") # Failed
                  /\ core = selectProduction(Start(g, s), "expr")
                  /\ abs = <<>>

ParserRunning == core.sState # <<>> /\ ~core.error

\* Mutant: a token is passed when its non-terminal is, without a look at the token.
PassesAny == /\ ParserRunning /\ Peek(core)[1] \in {"terminal", "push"}
             /\ LET push == Peek(core)[1] = "push"
                IN  core' = ParserNextToken([advanceState(core) EXCEPT !.sToken = IF push THEN Append(@, core.ptCur) ELSE @])
             /\ abs' = Append(abs, core.ptCur)

Terminal == /\ ParserRunning /\ Peek(core)[1] \in {"terminal", "push"}
            /\ LET push == Peek(core)[1] = "push"
               IN  IF Peek(core)[2] = core.ptCur
                   THEN /\ core' = ParserNextToken([advanceState(core) EXCEPT !.sToken = IF push THEN Append(@, core.ptCur) ELSE @])
                        /\ abs' = Append(abs, core.ptCur)
                   ELSE core' = [core EXCEPT !.error = TRUE] /\ UNCHANGED abs

NonTerminalStep == /\ ParserRunning /\ Peek(core)[1] = "non"
                   /\ LET c == selectProduction(core, Peek(core)[2])
                      IN  core' = IF c = Failed THEN [core EXCEPT !.error = TRUE] ELSE c
                   /\ UNCHANGED abs

\* A reduction joins the two tokens that were pushed last.
join(s) == Append(SubSeq(s, 1, Len(s) - 2), <<s[Len(s) - 1], s[Len(s)]>>)

Reduction == /\ ParserRunning /\ Peek(core)[1] = "reduce"
             /\ core' = advanceState([core EXCEPT !.sToken = join(@)])
             /\ UNCHANGED abs

ParserNext == Terminal \/ NonTerminalStep \/ Reduction
-----------------------------------------------------------------------------
\* The sentences of a production from position k, given those of the non-terminals.
RECURSIVE SentencesFrom(_, _, _)
SentencesFrom(lang, p, k) ==
    IF k > Len(p) THEN {<<>>}
    ELSE LET mine == CASE p[k][1] = "reduce" -> {<<>>} [] p[k][1] = "non" -> lang[p[k][2]] [] OTHER -> {<<p[k][2]>>}
         IN  {x \in {a \o b : a \in mine, b \in SentencesFrom(lang, p, k + 1)} : Len(x) <= MaxTokens + 2}

Grown(g, lang) == [nt \in DOMAIN g |-> (IF g[nt].bCanSkip THEN {<<>>} ELSE {})
                       \cup UNION {SentencesFrom(lang, g[nt].lProduction[j], 1) : j \in DOMAIN g[nt].lProduction}]

\* The sentences of at most MaxTokens + 2 tokens of each grammar.
Language == [g \in Grammars |->
    LET depth[d \in 0..9] == IF d = 0 THEN [nt \in DOMAIN g |-> {}] ELSE Grown(g, depth[d - 1])
    IN  depth[9]["expr"]]

\* Tokens are consumed as long as they begin a sentence of the grammar; what the parser has consumed when
\* it ends is a sentence, and it reports an error only when no sentence goes on with the token it sees.
ParsesTheLanguage ==
    LET begins(s) == \E x \in Language[core.g] : IsPrefix(s, x)
    IN  /\ core.sState = <<>> => abs \in Language[core.g]
        /\ core.error => ~begins(Append(abs, core.ptCur))
-----------------------------------------------------------------------------
(***************************************************************************)
(* Two expanders of text.  Bu::MiniMacro (src/unstable/minimacro.cpp)      *)
(* replaces macros: {=name:filter():...} by a variable passed through      *)
(* filters, and {:end} ends the text; Bu::String::FormatProxy              *)
(* (src/stable/string.cpp) replaces %n and %{n} by arguments and %% by %.  *)
(* A text is a sequence of characters, a name is one of them, and a filter *)
(* is the one character with its parentheses.                              *)
(* core is the expander: its kind, text, the place sCur in it, sOut, and   *)
(* bContinue; abs the parts the text was made of.                          *)
(***************************************************************************)
CONSTANTS Vars,        \* the variables: a name's character and its value
          Args,        \* the arguments of a format
          MaxParts     \* bound: parts of a text

-----------------------------------------------------------------------------
\* Case of the letters that occur.
Ups == "a" :> "A" @@ "b" :> "B" @@ "n" :> "N" @@ "A" :> "A" @@ "B" :> "B" @@ "N" :> "N"
Downs == "a" :> "a" @@ "b" :> "b" @@ "n" :> "n" @@ "A" :> "a" @@ "B" :> "b" @@ "N" :> "n"
toUpper(s) == [k \in DOMAIN s |-> Ups[s[k]]]
toLower(s) == [k \in DOMAIN s |-> Downs[s[k]]]
callFunc(s, f) == IF f = <<"U", "(", ")">> THEN toUpper(s) ELSE toLower(s)

At(s, k) == IF k <= Len(s) THEN s[k] ELSE "end"

\* The next character of stop, or the end of the text.
RECURSIVE Until(_, _, _)
Until(s, k, stop) == IF At(s, k) \in stop \cup {"end"} THEN k ELSE Until(s, k + 1, stop)

RECURSIVE LastFilterDropped(_, _, _, _)
\* Mutant: what the last filter made is dropped.
LastFilterDropped(s, k, first, out) ==
    LET e == Until(s, k, {":", "}"})
        name == SubSeq(s, k, e - 1)
        got == IF first THEN Vars[name[1]] ELSE callFunc(out, name)
    IN  IF At(s, e) = "end" THEN [sOut |-> out, sCur |-> k]
        ELSE IF s[e] = "}" THEN [sOut |-> IF first THEN got ELSE out, sCur |-> e] ELSE LastFilterDropped(s, e + 1, FALSE, got)

RECURSIVE parseRepl(_, _, _, _)
\* The variable, then its filters up to the brace; a macro without one is given up.
parseRepl(s, k, first, out) ==
    LET e == Until(s, k, {":", "}"})
        name == SubSeq(s, k, e - 1)
        got == IF first THEN Vars[name[1]] ELSE callFunc(out, name)
    IN  IF At(s, e) = "end" THEN [sOut |-> out, sCur |-> k]
        ELSE IF s[e] = "}" THEN [sOut |-> got, sCur |-> e] ELSE parseRepl(s, e + 1, FALSE, got)

\* The only command is end; parse throws for another one, which no text here has.
EndText == <<"e", "n", "d">>
parseCmd(s, k) == LET e == Until(s, k, {":", "}"})
                  IN  [end |-> At(s, e) # "end" /\ SubSeq(s, k, e - 1) = EndText, sCur |-> IF At(s, e) = "end" THEN k ELSE e]
-----------------------------------------------------------------------------
MiniMacroRunning == core.sCur <= Len(core.sIn) /\ core.bContinue
Cur == core.sIn[core.sCur]
Put(out, k) == core' = [core EXCEPT !.sOut = @ \o out, !.sCur = k]

MacroChar == /\ core.kind = "macro" /\ MiniMacroRunning
             /\ Cur # "{" \/ At(core.sIn, core.sCur + 1) \notin {"=", "?", ":"}
             /\ Put(<<Cur>>, core.sCur + 1)
             /\ UNCHANGED abs

MacroRepl == /\ core.kind = "macro" /\ MiniMacroRunning /\ Cur = "{" /\ At(core.sIn, core.sCur + 1) = "="
             /\ LET r == parseRepl(core.sIn, core.sCur + 2, TRUE, <<>>) IN Put(r.sOut, r.sCur + 1)
             /\ UNCHANGED abs

MacroCmd == /\ core.kind = "macro" /\ MiniMacroRunning /\ Cur = "{" /\ At(core.sIn, core.sCur + 1) = ":"
            /\ LET r == parseCmd(core.sIn, core.sCur + 2)
               IN  core' = [core EXCEPT !.sCur = r.sCur + 1, !.bContinue = ~r.end]
            /\ UNCHANGED abs

\* The digits from k on, as a number.
RECURSIVE number(_, _, _)
Digits == "1" :> 1 @@ "2" :> 2
number(s, k, n) == IF At(s, k) \in DOMAIN Digits THEN number(s, k + 1, 10 * n + Digits[s[k]]) ELSE [n |-> n, next |-> k]

FormatChar == /\ core.kind = "format" /\ MiniMacroRunning /\ Cur # "%"
              /\ Put(<<Cur>>, core.sCur + 1) /\ UNCHANGED abs

FormatPercent == /\ core.kind = "format" /\ MiniMacroRunning /\ Cur = "%" /\ At(core.sIn, core.sCur + 1) = "%"
                 /\ Put(<<"%">>, core.sCur + 2) /\ UNCHANGED abs

FormatArg == /\ core.kind = "format" /\ MiniMacroRunning /\ Cur = "%" /\ At(core.sIn, core.sCur + 1) # "%"
             /\ LET brace == At(core.sIn, core.sCur + 1) = "{"
                    r == number(core.sIn, core.sCur + (IF brace THEN 2 ELSE 1), 0)
                IN  Put(Args[r.n], IF brace THEN r.next + 1 ELSE r.next)
             /\ UNCHANGED abs

MiniMacroNext == MacroChar \/ MacroRepl \/ MacroCmd \/ FormatChar \/ FormatPercent \/ FormatArg
-----------------------------------------------------------------------------
Filters == {<<>>, <<"U">>, <<"L">>, <<"U", "L">>}
MacroParts == {[k |-> "lit", c |-> c] : c \in {"a", "B", "{", "}", ":"}} \cup {[k |-> "var", c |-> c, f |-> f] : c \in DOMAIN Vars, f \in Filters}
              \cup {[k |-> "end"]}
FormatParts == {[k |-> "lit", c |-> c] : c \in {"a", "1", "%", "{"}} \cup {[k |-> "arg", n |-> n] : n \in DOMAIN Args} \cup {[k |-> "braced", n |-> n] : n \in DOMAIN Args}

FilterText(f) == FlattenSeq([k \in DOMAIN f |-> <<":", f[k], "(", ")">>])
PartText(p) == CASE p.k = "lit" -> IF p.c = "%" THEN <<"%", "%">> ELSE <<p.c>>
                 [] p.k = "var" -> <<"{", "=", p.c>> \o FilterText(p.f) \o <<"}">>
                 [] p.k = "end" -> <<"{", ":">> \o EndText \o <<"}">>
                 [] p.k = "arg" -> <<"%", IF p.n = 1 THEN "1" ELSE "2">>
                 [] p.k = "braced" -> <<"%", "{", IF p.n = 1 THEN "1" ELSE "2", "}">>

\* What would be read in another way is not written: an open brace before a colon, and a digit behind an
\* argument without braces.
Clear(parts) == \A k \in 1..(Len(parts) - 1) :
    /\ parts[k].k = "lit" /\ parts[k].c = "{" => ~(parts[k + 1].k = "lit" /\ parts[k + 1].c = ":")
    /\ parts[k].k = "arg" => ~(parts[k + 1].k = "lit" /\ parts[k + 1].c = "1")

MiniMacroInit == \E kind \in {"macro", "format"}, n \in 1..MaxParts :
             \E parts \in [1..n -> IF kind = "macro" THEN MacroParts ELSE FormatParts] :
                 /\ Clear(parts)
                 /\ abs = parts
                 /\ core = [kind |-> kind, sIn |-> FlattenSeq([k \in 1..n |-> PartText(parts[k])]), sCur |-> 1, sOut |-> <<>>, bContinue |-> TRUE]

-----------------------------------------------------------------------------
Value(p) == CASE p.k = "lit" -> <<p.c>>
              [] p.k = "var" -> FoldLeft(LAMBDA s, f : IF f = "U" THEN toUpper(s) ELSE toLower(s), Vars[p.c], p.f)
              [] p.k = "end" -> <<>>
              [] OTHER -> Args[p.n]

Meant(parts) == FlattenSeq([k \in DOMAIN parts |-> Value(parts[k])])

\* The parts before the one that ends the text.
UntilEnd == LET ends == {k \in DOMAIN abs : abs[k].k = "end"}
            IN  IF ends = {} THEN abs ELSE SubSeq(abs, 1, CHOOSE k \in ends : \A m \in ends : k <= m)

\* The text comes out with each part replaced by what it stands for, up to the end of the text or its end
\* macro, and the place is then the first character that was not used.
ExpandsAllParts == ~MiniMacroRunning => /\ core.sOut = Meant(UntilEnd)
                                        /\ core.sCur = 1 + Len(FlattenSeq([k \in DOMAIN UntilEnd |-> PartText(UntilEnd[k])]))
-----------------------------------------------------------------------------
Init == \/ which = "Formula" /\ FormulaInit
        \/ which = "Parser" /\ ParserInit
        \/ which = "MiniMacro" /\ MiniMacroInit

Next == /\ UNCHANGED which
        /\ \/ which = "Formula" /\ FormulaNext
           \/ which = "Parser" /\ ParserNext
           \/ which = "MiniMacro" /\ MiniMacroNext

Spec == Init /\ [][Next]_vars
=============================================================================
