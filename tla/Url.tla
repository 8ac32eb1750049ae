-------------------------------- MODULE Url ---------------------------------
(***************************************************************************)
(* Bu::Url (src/unstable/url.cpp): a URL is taken apart into its protocol, *)
(* user, password, host, port, path and parameters.  A text is a sequence  *)
(* of characters; Plain stands for all the ones that encode leaves alone,  *)
(* and the protocol, the port's digits and the like are one character.     *)
(* core is the object; abs the parts of the URL that was parsed last, and  *)
(* the parameters of all that were parsed or added.                        *)
(***************************************************************************)
EXTENDS Integers, SequencesExt

CONSTANTS Plain,       \* characters that need no encoding
          Special,     \* the ones that do, but for the blank
          MaxParams    \* bound: parameters of a Url

VARIABLES core, abs
vars == <<core, abs>>
None == <<>>
-----------------------------------------------------------------------------
\* The two digits of a character behind a percent sign.
Hex == "&" :> <<"2", "6">> @@ "=" :> <<"3", "D">> @@ "?" :> <<"3", "F">> @@ "%" :> <<"2", "5">> @@ "+" :> <<"2", "B">>
Char(hi, lo) == CHOOSE c \in DOMAIN Hex : Hex[c] = <<hi, lo>>

encode(s) == FoldLeft(LAMBDA a, c : a \o (IF c = " " THEN <<"+">> ELSE IF c \in Plain THEN <<c>> ELSE <<"%">> \o Hex[c]), <<>>, s)

\* hex counts the digits that are still to come.
DecodeChar(d, c) ==
    CASE d.hex = 2 -> [d EXCEPT !.hex = 1, !.hi = c]
      [] d.hex = 1 -> [d EXCEPT !.hex = 0, !.out = Append(@, Char(d.hi, c))]
      [] OTHER -> IF c = "%" THEN [d EXCEPT !.hex = 2] ELSE [d EXCEPT !.out = Append(@, IF c = "+" THEN " " ELSE c)]
decode(s) == FoldLeft(DecodeChar, [out |-> <<>>, hex |-> 0, hi |-> ""], s).out
-----------------------------------------------------------------------------
\* Where a character is first; behind the end when there is none.
find(s, c) == IF Contains(s, c) THEN SelectInSeq(s, LAMBDA x : x = c) ELSE Len(s) + 1
Before(s, k) == SubSeq(s, 1, k - 1)
Behind(s, k) == SubSeq(s, k + 1, Len(s))

addParam(u, n, v) == [u EXCEPT !.lParam = Append(@, <<decode(n), decode(v)>>)]

\* p.from is the text from i to s.
ParamChar(p, c) ==
    CASE c = "&" /\ p.bName -> [p EXCEPT !.u = addParam(@, p.from, <<>>), !.sName = p.from, !.from = <<>>]
      [] c = "&" /\ ~p.bName -> [p EXCEPT !.u = addParam(@, p.sName, p.from), !.bName = TRUE, !.from = <<>>]
      [] c = "=" /\ p.bName -> [p EXCEPT !.sName = p.from, !.bName = FALSE, !.from = <<>>]
      [] OTHER -> [p EXCEPT !.from = Append(@, c)]

\* Mutant: the last parameter is added only when it has a value.
LastNeedsValue(u, s) ==
    LET p == FoldLeft(ParamChar, [u |-> u, bName |-> TRUE, sName |-> <<>>, from |-> <<>>], s)
    IN  IF p.from = <<>> \/ p.bName THEN p.u ELSE addParam(p.u, p.sName, p.from)

parseParams(u, s) ==
    LET p == FoldLeft(ParamChar, [u |-> u, bName |-> TRUE, sName |-> <<>>, from |-> <<>>], s)
    IN  IF p.from = <<>> THEN p.u
        ELSE IF p.bName THEN addParam(p.u, p.from, <<>>)
        ELSE addParam(p.u, p.sName, p.from)

parsePath(u, s) == IF s = <<>> THEN [u EXCEPT !.sPath = <<"/">>]
                   ELSE parseParams([u EXCEPT !.sPath = Before(s, find(s, "?"))], Behind(s, find(s, "?")))

\* What is left of a text goes along as u.rest.
parseProtocol(u, s) ==
    LET k == find(s, "://")
    IN  [u EXCEPT !.sProtocol = Before(s, k), !.iPort = IF Before(s, k) = <<"http">> THEN <<"80">> ELSE @, !.rest = Behind(s, k)]

\* Mutant: the password begins with its colon.
PassKeepsColon(u) ==
    LET s == find(u.rest, "@")
        p == find(u.rest, ":")
    IN  IF s > Len(u.rest) THEN u
        ELSE IF p <= Len(u.rest) THEN [u EXCEPT !.sUser = Before(u.rest, p), !.sPass = SubSeq(u.rest, p, s - 1), !.rest = Behind(@, s)]
        ELSE [u EXCEPT !.sUser = Before(u.rest, s), !.rest = Behind(@, s)]

parseUserPass(u) ==
    LET s == find(u.rest, "@")
        p == find(u.rest, ":")
    IN  IF s > Len(u.rest) THEN u
        ELSE IF p <= Len(u.rest) THEN [u EXCEPT !.sUser = Before(u.rest, p), !.sPass = SubSeq(u.rest, p + 1, s - 1), !.rest = Behind(@, s)]
        ELSE [u EXCEPT !.sUser = Before(u.rest, s), !.rest = Behind(@, s)]

parseHost(u) ==
    LET s == find(u.rest, "/")
        p == find(Before(u.rest, s), ":")
        rest == SubSeq(u.rest, s, Len(u.rest))
    IN  IF p < s THEN [u EXCEPT !.sHost = Before(u.rest, p), !.iPort = SubSeq(u.rest, p + 1, s - 1), !.rest = rest]
        ELSE [u EXCEPT !.sHost = Before(u.rest, s), !.rest = rest]

\* clear leaves the parameters.
clear(u) == [u EXCEPT !.sProtocol = <<>>, !.sUser = <<>>, !.sPass = <<>>, !.sHost = <<>>, !.sPath = <<>>, !.iPort = None]

Parsed(u, s) == LET v == parseHost(parseUserPass(parseProtocol(clear(u), s)))
                IN  [parsePath(v, v.rest) EXCEPT !.rest = <<>>]

ParamText(p) == encode(p[1]) \o (IF p[2] = <<>> THEN <<>> ELSE <<"=">> \o encode(p[2]))
getFullPath(u) == FoldLeftDomain(LAMBDA a, k : a \o (IF k = 1 THEN <<"?">> ELSE <<"&">>) \o ParamText(u.lParam[k]), u.sPath, u.lParam)

getUrl(u) == u.sProtocol \o <<"://">> \o u.sHost \o getFullPath(u)
-----------------------------------------------------------------------------
New == [sProtocol |-> <<>>, sUser |-> <<>>, sPass |-> <<>>, sHost |-> <<>>, sPath |-> <<>>, iPort |-> None,
        lParam |-> <<>>, rest |-> <<>>]
Init == core = New /\ abs = [parts |-> <<>>, params |-> <<>>]

\* URLs: a user comes with a password, since a later colon is taken for the user's (url.cpp:130); a name
\* is not empty; and a path has no "@" or ":".
Words == {<<c>> : c \in Plain}
Values == {<<>>} \cup {<<c, " ">> : c \in Special}
Names == {<<CHOOSE c \in Plain : TRUE, s>> : s \in Special}
Parts == [sProtocol : {<<"http">>, <<"x">>}, sUser : {<<>>} \cup Words, sPass : Words, sHost : Words,
          iPort : {None, <<"8">>}, sPath : {<<"/">>, <<"/", "p", "/">>}]
UserText(p) == IF p.sUser = <<>> THEN <<>> ELSE p.sUser \o <<":">> \o p.sPass \o <<"@">>
PortText(p) == IF p.iPort = None THEN <<>> ELSE <<":">> \o p.iPort
PathText(p, params) == getFullPath([New EXCEPT !.sPath = p.sPath, !.lParam = params])
UrlText(p, params) == p.sProtocol \o <<"://">> \o UserText(p) \o p.sHost \o PortText(p) \o PathText(p, params)

parseUrl == \E p \in Parts, n \in Names, v, w \in Values :
    \E params \in {<<>>, <<<<n, v>>>>, <<<<n, v>>, <<n, w>>>>} :
        /\ Len(abs.params) + Len(params) <= MaxParams
        /\ core' = Parsed(core, UrlText(p, params))
        /\ abs' = [parts |-> <<p>>, params |-> abs.params \o params]

AddParam == \E n \in Names, v \in Values :
    /\ Len(abs.params) < MaxParams
    /\ core' = [core EXCEPT !.lParam = Append(@, <<n, v>>)]
    /\ abs' = [abs EXCEPT !.params = Append(@, <<n, v>>)]

Next == parseUrl \/ AddParam
Spec == Init /\ [][Next]_vars
-----------------------------------------------------------------------------
\* The parts of the URL that was parsed last are the ones it was made of; the port is the protocol's when
\* the URL has none.
PartsComeApart ==
    \A k \in DOMAIN abs.parts :
        LET p == abs.parts[k]
        IN  /\ core.sProtocol = p.sProtocol /\ core.sHost = p.sHost /\ core.sPath = p.sPath
            /\ core.sUser = p.sUser /\ (p.sUser # <<>> => core.sPass = p.sPass)
            /\ core.iPort = IF p.iPort = None /\ p.sProtocol = <<"http">> THEN <<"80">> ELSE p.iPort

\* The parameters are all that were parsed and added, in order, and the path written with them is read
\* back as the same path and parameters, whatever characters are in them.
ParamsComeBack ==
    /\ core.lParam = abs.params
    /\ core.sPath # <<>> => LET back == parsePath(New, getFullPath(core))
                            IN  back.sPath = core.sPath /\ back.lParam = core.lParam
    /\ core.sPath # <<>> => LET back == Parsed(New, getUrl(core))
                            IN  back.sHost = core.sHost /\ back.sPath = core.sPath /\ back.lParam = core.lParam
=============================================================================
