----------------------------- MODULE Protocols ------------------------------
(***************************************************************************)
(* The protocols of a Bu::Client: telnet and HTTP. They share no state:    *)
(* which says what a behaviour is about.                                   *)
(***************************************************************************)
EXTENDS Integers, SequencesExt

VARIABLES which, core, abs
vars == <<which, core, abs>>
-----------------------------------------------------------------------------
(***************************************************************************)
(* Bu::ProtocolTelnet (src/stable/protocoltelnet.cpp) in canonical mode    *)
(* and in character mode.  Bytes are model values: the telnet codes, CR,   *)
(* LF, DEL, "a" for any printable character, the codes of two options it   *)
(* knows (control characters when they come as data).  core holds the      *)
(* input the client has buffered, the two buffers, bSubOpt and cSubOpt,    *)
(* the flags of the options, and what was handed on: the lines and         *)
(* suboptions (got) and the bytes written back (out).  throws counts the   *)
(* exceptions that left onNewData; whoever runs the server is taken to     *)
(* catch them and to call it again with the next data.  abs is everything  *)
(* the peer has sent, from the first byte on.                              *)
(***************************************************************************)
CONSTANTS Bytes, MaxBytes   \* bound: the bytes one peer sends

-----------------------------------------------------------------------------
Options == {"ECHO", "NAWS"}
Flags(local) == [fLocalCant |-> ~local, fLocalIs |-> FALSE, fRemoteCant |-> FALSE, fRemoteIs |-> FALSE]

\* A new connection; the program may have switched the mode, echo and one option's use.
ProtocolTelnetFresh(canonical, local) ==
    [in |-> <<>>, sDataBuf |-> <<>>, sSubBuf |-> <<>>, bSubOpt |-> FALSE, cSubOpt |-> "a",
     bCanonical |-> canonical, opt |-> [o \in Options |-> Flags(o = "NAWS" \/ local)], got |-> <<>>, out |-> <<>>, throws |-> 0]

answer(c, code, o) == [c EXCEPT !.out = @ \o <<"IAC", code, o>>]

\* Mutant: an option nobody knows is not refused.
WillUnanswered(c, o) ==
    IF o \in Options /\ ~c.opt[o].fRemoteCant
    THEN answer([c EXCEPT !.opt[o].fRemoteIs = TRUE], "DO", o) ELSE c

onWill(c, o) ==
    IF o \in Options /\ ~c.opt[o].fRemoteCant
    THEN answer([c EXCEPT !.opt[o].fRemoteIs = TRUE], "DO", o) ELSE answer(c, "DONT", o)

onWont(c, o) ==
    answer(IF o \in Options THEN [c EXCEPT !.opt[o].fRemoteIs = FALSE] ELSE c, "DONT", o)

onDo(c, o) ==
    IF o \in Options /\ ~c.opt[o].fLocalCant
    THEN answer([c EXCEPT !.opt[o].fLocalIs = TRUE], "WILL", o) ELSE answer(c, "WONT", o)

\* The answer to DONT is DONT, not WONT.
onDont(c, o) ==
    answer(IF o \in Options THEN [c EXCEPT !.opt[o].fLocalIs = FALSE] ELSE c, "DONT", o)

\* A window size is the first four bytes of its suboption; sSubBuf[ 3 ] throws when there
\* are fewer, and the buffer is not cleared.
onSubOpt(c) ==
    IF c.cSubOpt = "NAWS" /\ Len(c.sSubBuf) < 4 THEN [c EXCEPT !.throws = @ + 1]
    ELSE [c EXCEPT !.got = Append(@, <<c.cSubOpt>> \o IF c.cSubOpt = "NAWS" THEN SubSeq(c.sSubBuf, 1, 4) ELSE c.sSubBuf),
                   !.sSubBuf = <<>>]

onCtlChar(c, b) ==
    IF b = "DEL" /\ c.sDataBuf /= <<>>
    THEN [c EXCEPT !.sDataBuf = Front(@), !.out = @ \o <<"BS", "SP", "BS">>] ELSE c

echoed(c, b) == IF c.opt["ECHO"].fLocalIs THEN [c EXCEPT !.out = Append(@, b)] ELSE c

seek(c, n) == [c EXCEPT !.in = SubSeq(@, n + 1, Len(@))]

\* What one turn of the loop in onNewData needs before it takes anything away.
Needs(c) ==
    LET b == c.in[1]
    IN  CASE b = "IAC" -> IF Len(c.in) > 1 /\ ~c.bSubOpt /\ c.in[2] \in {"WILL", "WONT", "DO", "DONT", "SB"} THEN 3 ELSE 2
          [] b = "CR" /\ ~c.bSubOpt /\ c.bCanonical -> 2
          [] OTHER -> 1

subOption(c) ==
    CASE c.in[1] /= "IAC" -> [c EXCEPT !.sSubBuf = Append(@, c.in[1])]
      [] c.in[2] = "SE"   -> onSubOpt([c EXCEPT !.bSubOpt = FALSE])
      [] c.in[2] = "IAC"  -> [c EXCEPT !.sSubBuf = Append(@, "IAC")]
      [] OTHER -> c

command(c) ==
    CASE c.in[2] = "WILL" -> onWill(c, c.in[3])
      [] c.in[2] = "WONT" -> onWont(c, c.in[3])
      [] c.in[2] = "DO"   -> onDo(c, c.in[3])
      [] c.in[2] = "DONT" -> onDont(c, c.in[3])
      [] c.in[2] = "SB"   -> [c EXCEPT !.cSubOpt = c.in[3], !.bSubOpt = TRUE]
      [] c.in[2] = "IAC"  -> [c EXCEPT !.sDataBuf = Append(@, "IAC")]
      [] OTHER -> c

\* Everything that is not printable is a control character; the byte behind a CR is taken
\* away whether it completes the line or not.
character(c) ==
    LET b == c.in[1]
    IN  CASE ~c.bCanonical \/ b = "a" -> echoed([c EXCEPT !.sDataBuf = Append(@, b)], b)
          [] b = "CR" /\ c.bCanonical ->
                IF c.in[2] = "LF" THEN [c EXCEPT !.got = Append(@, c.sDataBuf), !.sDataBuf = <<>>] ELSE c
          [] OTHER -> onCtlChar(c, b)

ProtocolTelnetTurn(c) == CASE c.bSubOpt -> subOption(c)
                           [] ~c.bSubOpt /\ c.in[1] = "IAC" -> command(c)
                           [] ~c.bSubOpt /\ c.in[1] = "SB" -> c
                           [] OTHER -> character(c)

\* Mutant: the option code is taken when it is there and not waited for.
RECURSIVE EatsEarly(_)
EatsEarly(c) == IF c.in = <<>> \/ (Len(c.in) < 2 /\ c.in[1] \in {"IAC", "CR"}) THEN c
                ELSE IF Len(c.in) < Needs(c) THEN EatsEarly(seek(c, 2)) ELSE EatsEarly(seek(ProtocolTelnetTurn(c), Needs(c)))

\* onNewData: turns while there is enough input; an exception leaves before the turn's bytes
\* are taken away.
RECURSIVE ProtocolTelnetOnNewData(_)
ProtocolTelnetOnNewData(c) ==
    LET d == ProtocolTelnetTurn(c)
    IN  IF c.in = <<>> \/ Len(c.in) < Needs(c) THEN c
        ELSE IF d.throws > c.throws THEN d ELSE ProtocolTelnetOnNewData(seek(d, Needs(c)))
-----------------------------------------------------------------------------
\* Mutant: a LF at the very end is sent as it is.
RECURSIVE LfAtEndKept(_)
LfAtEndKept(d) ==
    CASE d = <<>> -> <<>>
      [] d = <<"LF">> -> d
      [] Len(d) > 1 /\ Head(d) = "LF" /\ d[2] \notin {"CR", "NUL"} -> <<"LF", "CR">> \o LfAtEndKept(Tail(d))
      [] OTHER -> <<Head(d)>> \o LfAtEndKept(Tail(d))

\* write( pData, iSize ): a LF that nobody completed is sent as LF CR.
RECURSIVE translated(_)
translated(d) ==
    CASE d = <<>> -> <<>>
      [] d /= <<>> /\ Head(d) /= "LF" -> <<Head(d)>> \o translated(Tail(d))
      [] d /= <<>> /\ Head(d) = "LF" /\ Len(d) > 1 /\ d[2] \in {"CR", "NUL"} ->
            SubSeq(d, 1, 2) \o translated(SubSeq(d, 3, Len(d)))
      [] OTHER -> <<"LF", "CR">> \o translated(Tail(d))
-----------------------------------------------------------------------------
\* The input starts with nothing or in the middle of a suboption, of a window size that
\* has or has not two of its bytes, or of another option.
Started(c, prefix) == ProtocolTelnetOnNewData([c EXCEPT !.in = prefix])

InSubOption(o) == <<"IAC", "SB", o>>

ProtocolTelnetInit == \E canonical, local \in BOOLEAN,
                         prefix \in {<<>>, InSubOption("ECHO"), InSubOption("NAWS"), InSubOption("NAWS") \o <<"a", "a">>} :
                          /\ core = Started(ProtocolTelnetFresh(canonical, local), prefix)
                          /\ abs = [start |-> ProtocolTelnetFresh(canonical, local), sent |-> prefix, max |-> Len(prefix) + MaxBytes]

ProtocolTelnetReceive(chunk) ==
    /\ Len(abs.sent) + Len(chunk) <= abs.max
    /\ core' = ProtocolTelnetOnNewData([core EXCEPT !.in = @ \o chunk])
    /\ abs' = [abs EXCEPT !.sent = @ \o chunk]

ProtocolTelnetNext == \E a \in Bytes : ProtocolTelnetReceive(<<a>>) \/ (\E b \in Bytes : ProtocolTelnetReceive(<<a, b>>))

-----------------------------------------------------------------------------
\* The peer's stream cut into its units by the grammar of the protocol, from the left: a
\* command of two or three bytes, a CR with its next byte, or a single byte.  What is
\* left over at the end is an unfinished unit.
RECURSIVE Units(_, _)
Units(s, sub) ==
    LET three == {"WILL", "WONT", "DO", "DONT", "SB"}
        n == CASE s[1] = "IAC" -> IF ~sub /\ Len(s) > 1 /\ s[2] \in three THEN 3 ELSE 2
               [] s[1] = "CR" /\ ~sub /\ abs.start.bCanonical -> 2
               [] OTHER -> 1
        now == IF n = 3 /\ s[2] = "SB" THEN TRUE ELSE sub /\ ~(n = 2 /\ Len(s) > 1 /\ s[2] = "SE")
    IN  IF s = <<>> THEN <<>> ELSE IF Len(s) < n THEN <<s>>
        ELSE <<SubSeq(s, 1, n)>> \o Units(SubSeq(s, n + 1, Len(s)), now)

\* The number of commands of a kind among the peer's units outside of suboptions.
RECURSIVE Answers(_, _)
Answers(us, sub) ==
    IF us = <<>> THEN 0
    ELSE LET u == Head(us)
             verb == Len(u) = 3 /\ u[2] /= "SB"
             now == IF Len(u) = 3 /\ u[2] = "SB" THEN TRUE ELSE sub /\ u /= <<"IAC", "SE">>
         IN  (IF verb THEN 1 ELSE 0) + Answers(Tail(us), now)

\* Some window size among the units is ended before its fourth byte.
ShortNAWS(us) ==
    \E i \in DOMAIN us : \E j \in (i + 1)..Len(us) :
        /\ us[i] = InSubOption("NAWS") /\ us[j] = <<"IAC", "SE">>
        /\ \A k \in (i + 1)..(j - 1) : us[k] /= <<"IAC", "SE">>
        /\ Cardinality({k \in (i + 1)..(j - 1) : Len(us[k]) = 1 \/ us[k] = <<"IAC", "IAC">>}) < 4

\* However the network cuts the peer's bytes into chunks, the lines, suboptions, options
\* and answers are those of the whole stream in one piece, and nothing is kept back but
\* an unfinished command, or a CR whose next byte has not come: unless an exception left
\* onNewData, which a window size with fewer than four bytes causes and nothing else.
ChunksAreInvisible ==
    LET us == Units(abs.sent, FALSE)
    IN  /\ (core.throws = 0) = ~ShortNAWS(us)
        /\ core.throws = 0 =>
              /\ core = ProtocolTelnetOnNewData([abs.start EXCEPT !.in = abs.sent])
              /\ core.in = IF us /= <<>> /\ Len(core.in) > 0 THEN Last(us) ELSE <<>>

\* Every request of the peer for an option that is no longer in the input was answered,
\* once, after an exception too.
EveryRequestIsAnswered ==
    LET whole == Units(SubSeq(abs.sent, 1, Len(abs.sent) - Len(core.in)), FALSE)
    IN  Cardinality({i \in DOMAIN core.out : core.out[i] \in {"WILL", "WONT", "DO", "DONT"} /\ i > 1 /\ core.out[i - 1] = "IAC"})
            = Answers(whole, FALSE)

\* In what write sends, every LF is completed by a CR or a NUL, and what was completed
\* already is sent as it is.
LinesAreCompleted ==
    LET d == translated(abs.sent)
    IN  /\ \A i \in DOMAIN d : d[i] = "LF" => i < Len(d) /\ d[i + 1] \in {"CR", "NUL"}
        /\ SelectSeq(d, LAMBDA b : b /= "CR") = SelectSeq(abs.sent, LAMBDA b : b /= "CR")
-----------------------------------------------------------------------------
(***************************************************************************)
(* Bu::ProtocolHttp (src/stable/protocolhttp.cpp): the token reader over   *)
(* the client's input and the state machine of a request.  Bytes are       *)
(* strings: CR, LF, SP, ":" for any separator, letters for the rest; the   *)
(* words "GET", "POST" and "HTTP/1.1" are short sequences of letters.      *)
(* getToken looks at three bytes behind a CR as soon as the input holds    *)
(* four bytes in all; bytes that have not come are whatever the            *)
(* uninitialised array holds, and torn remembers that this happened.  abs  *)
(* is the peer's stream and how much of it has arrived.                    *)
(***************************************************************************)
CONSTANTS Requests   \* sequences of bytes, each one request

-----------------------------------------------------------------------------
GET  == <<"g", "e", "t">>
HTTP == <<"h", "t", "t", "p">>

isWS(b) == b = "SP"
isSeperator(b) == b = ":"

Token(type, line, n) == [type |-> type, line |-> line, seek |-> n, torn |-> FALSE]

\* Mutant: a word is taken when the input ends in the middle of it.
TakesHalf(in, line) == IF line = <<>> THEN Token("OutOfData", <<>>, 0) ELSE Token("String", line, Len(in))

\* The end of the input: nothing is taken away, the token is read again from its start.
outOfData(in, line) == Token("OutOfData", <<>>, 0)

\* getToken from position j (0-based) with what line holds; raw stands for the bytes of
\* ss that peek did not fill.  bNonWS is line /= <<>>.
RECURSIVE getToken(_, _, _, _, _)
getToken(in, iState, j, line, raw) ==
    LET s == in[j + 1]
        ss(k) == IF j + 1 + k < Len(in) THEN in[j + 2 + k] ELSE raw
    IN  CASE j >= Len(in) -> outOfData(in, line)
          [] j < Len(in) /\ iState > 2 /\ isSeperator(s) ->
                IF j = 0 THEN Token("Seperator", <<s>>, 1) ELSE Token("String", line, j)
          [] j < Len(in) /\ isWS(s) ->
                IF line /= <<>> THEN Token("String", line, j) ELSE getToken(in, iState, j + 1, line, raw)
          [] j < Len(in) /\ s = "CR" ->
                LET t == CASE Len(in) < 4 -> Token("OutOfData", <<>>, 0)
                           [] Len(in) >= 4 /\ ss(0) = "LF" /\ ss(1) /= "SP" ->
                                 IF line /= <<>> THEN Token("String", line, j)
                                 ELSE IF ss(1) = "CR" /\ ss(2) = "LF" THEN Token("DoubleNewline", <<>>, 4)
                                 ELSE Token("Newline", <<>>, 2)
                           [] OTHER -> IF line /= <<>> THEN Token("String", line, j + 2)
                                       ELSE getToken(in, iState, j + 3, line, raw)
                IN  [t EXCEPT !.torn = @ \/ (Len(in) >= 4 /\ j + 3 >= Len(in))]
          [] OTHER -> getToken(in, iState, j + 1, Append(line, s), raw)

earlyResponse(c) ==
    IF c.sMethod = GET THEN [c EXCEPT !.got = Append(@, c.sPath), !.iState = 0] ELSE [c EXCEPT !.iState = 20]

disconnect(c) == [c EXCEPT !.closing = TRUE]

\* One turn of the switch; TRUE in the second place when it returns from onNewData.
ProtocolHttpTurn(c, t) ==
                CASE c.iState = 0 -> <<[c EXCEPT !.sMethod = t.line, !.iState = 1], FALSE>>
                  [] c.iState = 1 -> <<[c EXCEPT !.sPath = t.line, !.iState = 2], FALSE>>
                  [] c.iState = 2 -> IF t.line /= HTTP THEN <<disconnect(c), TRUE>> ELSE <<[c EXCEPT !.iState = 3], FALSE>>
                  [] c.iState = 3 -> IF t.type = "Newline" THEN <<[c EXCEPT !.iState = 10], FALSE>>
                                     ELSE IF t.type = "DoubleNewline" THEN <<earlyResponse(c), FALSE>> ELSE <<disconnect(c), TRUE>>
                  [] c.iState = 10 -> <<IF t.type = "String" THEN [c EXCEPT !.iState = 11] ELSE disconnect(c), FALSE>>
                  [] c.iState = 11 -> <<IF t.type = "Seperator" THEN [c EXCEPT !.iState = 12] ELSE disconnect(c), FALSE>>
                  [] c.iState = 12 -> <<IF t.type = "Newline" THEN [c EXCEPT !.iState = 10]
                                        ELSE IF t.type = "DoubleNewline" THEN earlyResponse(c) ELSE c, FALSE>>
                  [] OTHER -> <<c, FALSE>>

RECURSIVE ProtocolHttpOnNewData(_, _)
ProtocolHttpOnNewData(c, raw) ==
    LET t == getToken(c.in, c.iState, 0, <<>>, raw)
        d == [c EXCEPT !.in = SubSeq(@, t.seek + 1, Len(@)), !.torn = @ \/ t.torn]
    IN  IF t.type = "OutOfData" THEN d
        ELSE LET r == ProtocolHttpTurn(d, t) IN IF r[2] THEN r[1] ELSE ProtocolHttpOnNewData(r[1], raw)
-----------------------------------------------------------------------------
ProtocolHttpFresh == [in |-> <<>>, iState |-> 0, sMethod |-> <<>>, sPath |-> <<>>, got |-> <<>>, closing |-> FALSE, torn |-> FALSE]

\* The peer sends two requests, one after the other.
ProtocolHttpInit == /\ core = ProtocolHttpFresh
                    /\ \E r, q \in Requests : abs = [sent |-> r \o q, seen |-> 0]

ProtocolHttpReceive(n, raw) ==
    /\ abs.seen + n <= Len(abs.sent) /\ ~core.closing
    /\ core' = ProtocolHttpOnNewData([core EXCEPT !.in = @ \o SubSeq(abs.sent, abs.seen + 1, abs.seen + n)], raw)
    /\ abs' = [abs EXCEPT !.seen = @ + n]

ProtocolHttpNext == \E n \in 1..Len(abs.sent), raw \in {"LF", "CR", "SP", "x"} : ProtocolHttpReceive(n, raw)

-----------------------------------------------------------------------------
Arrived == SubSeq(abs.sent, 1, abs.seen)

\* The paths of the requests before position n, read off the stream: the second word of
\* every request that begins with GET.
Ends == {0} \cup {i \in DOMAIN Arrived : i >= 4 /\ SubSeq(Arrived, i - 3, i) = <<"CR", "LF", "CR", "LF">>}
IsGet(i) == SubSeq(Arrived, i + 1, i + 4) = GET \o <<"SP">>
PathAt(i) == LET n == Min({k \in (i + 5)..Len(Arrived) : Arrived[k] = "SP"}) IN SubSeq(Arrived, i + 5, n - 1)

\* Each GET whose empty line has arrived was handed to onRequest, with its path, once and
\* in order, and the connection of a peer that sends proper requests is not cut: however
\* the network cuts the stream, unless a CR came without the three bytes behind it (the
\* read of the uninitialised array at line 188).  Nothing is said of what follows a
\* request that is no GET, whose body nobody skips.
RequestsAreDelivered ==
    LET starts == SetToSortSeq({i \in Ends : i /= Max(Ends) /\ (\A k \in {0} \cup {e \in Ends : e <= i} : IsGet(k))}, <)
    IN  ~core.torn => ~core.closing /\ core.got = [n \in DOMAIN starts |-> PathAt(starts[n])]
-----------------------------------------------------------------------------
Init == \/ which = "ProtocolTelnet" /\ ProtocolTelnetInit
        \/ which = "ProtocolHttp" /\ ProtocolHttpInit

Next == /\ UNCHANGED which
        /\ \/ which = "ProtocolTelnet" /\ ProtocolTelnetNext
           \/ which = "ProtocolHttp" /\ ProtocolHttpNext

Spec == Init /\ [][Next]_vars
=============================================================================
