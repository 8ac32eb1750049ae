------------------------------ MODULE FastCgi -------------------------------
(***************************************************************************)
(* Bu::FastCgi (src/experimental/fastcgi.cpp): the application's side of   *)
(* FastCGI.  The web server interleaves the records of several requests on *)
(* one connection; each request collects in a channel until its parameters *)
(* and its input are complete, and is then answered in one piece.  A byte  *)
(* has the values 0..Base-1, so that the two forms of a length both occur. *)
(* core is the object; abs what the web server has sent for each request,  *)
(* and the last call of onRequest with its answer.                         *)
(* A record has wholly arrived when it is read, but for the parts of an    *)
(* input; records come without padding.                                    *)
(***************************************************************************)
EXTENDS Integers, SequencesExt

CONSTANTS Ids,          \* request ids, from 1
          Base,         \* values of a byte; the upper half mark a long length
          Chunk,        \* most bytes of a record of the answer (65528)
          Pairs,        \* parameters, <<name, value>>
          MaxInput,     \* bound: bytes of an input
          Outputs       \* lengths of the outputs of onRequest

VARIABLES core, abs
vars == <<core, abs>>
Null == [none |-> TRUE]
ParamsDone == "params"
StdInDone == "stdin"
DataDone == "data"
AllDone == {ParamsDone, StdInDone}
NewChannel == [hParams |-> {}, sStdIn |-> <<>>, sData |-> <<>>, uFlags |-> {}]
Fresh == [began |-> FALSE, params |-> {}, stdin |-> <<>>, ended |-> {}]
-----------------------------------------------------------------------------
Init == /\ core = [aChannel |-> <<>>, running |-> TRUE]
        /\ abs = [sent |-> [i \in Ids |-> Fresh], asked |-> <<>>, answer |-> <<>>]

hasChannel(i) == Len(core.aChannel) >= i /\ core.aChannel[i] # Null

\* The array grows to the id of every record.
Grown(i) == core.aChannel \o [k \in 1..(IF i > Len(core.aChannel) THEN i - Len(core.aChannel) ELSE 0) |-> Null]
-----------------------------------------------------------------------------
\* The web server's side: a length below half a byte takes one byte, others four.
Half == Base \div 2
LenBytes(n) == IF n < Half THEN <<n>>
               ELSE <<Half + ((n \div (Base * Base * Base)) % Half), (n \div (Base * Base)) % Base, (n \div Base) % Base, n % Base>>
PairBytes(p) == LenBytes(Len(p[1])) \o LenBytes(Len(p[2])) \o p[1] \o p[2]

\* u is uRead: the bytes of the record that were used.
readLen(s, u) ==
    IF s[u + 1] < Half THEN [n |-> s[u + 1], used |-> u + 1]
    ELSE [n |-> (((s[u + 1] - Half) * Base + s[u + 2]) * Base + s[u + 3]) * Base + s[u + 4], used |-> u + 4]

readPair(s, h, u) ==
    LET nm == readLen(s, u)
        val == readLen(s, nm.used)
        name == SubSeq(s, val.used + 1, val.used + nm.n)
        value == SubSeq(s, val.used + nm.n + 1, val.used + nm.n + val.n)
    IN  [h |-> {e \in h : e[1] # name} \cup {<<name, value>>}, used |-> val.used + nm.n + val.n]

RECURSIVE readPairs(_, _, _)
readPairs(s, h, u) == IF u >= Len(s) THEN h ELSE LET r == readPair(s, h, u) IN readPairs(s, r.h, r.used)
-----------------------------------------------------------------------------
\* Mutant: the last part of an output is left out when it is not a full one.
FullChunksOnly(s) == [k \in 1..(Len(s) \div Chunk) |-> SubSeq(s, (k - 1) * Chunk + 1, k * Chunk)]

chunks(s) == [k \in 1..((Len(s) + Chunk - 1) \div Chunk) |->
                 SubSeq(s, (k - 1) * Chunk + 1, IF k * Chunk < Len(s) THEN k * Chunk ELSE Len(s))]

\* The records of one output: its parts, then an empty one.
Stream(i, type, s) == [k \in 1..(Len(chunks(s)) + 1) |->
                          [type |-> type, id |-> i, content |-> IF k <= Len(chunks(s)) THEN chunks(s)[k] ELSE <<>>]]

Answer(i, out, err, ret) == Stream(i, "StdOut", out) \o Stream(i, "StdErr", err)
                            \o <<[type |-> "EndRequest", id |-> i, content |-> <<ret>>]>>

\* What follows every record: a channel that is complete is answered and deleted.
Handled(i, chan, sent) ==
    IF chan.uFlags # AllDone
    THEN /\ core' = [core EXCEPT !.aChannel = [Grown(i) EXCEPT ![i] = chan]]
         /\ abs' = [sent |-> sent, asked |-> <<>>, answer |-> <<>>]
    ELSE /\ core' = [core EXCEPT !.aChannel = [Grown(i) EXCEPT ![i] = Null]]
         /\ \E n, m \in Outputs :
               LET out == [k \in 1..n |-> k]
                   err == [k \in 1..m |-> k]
               IN  abs' = [sent |-> [sent EXCEPT ![i] = Fresh],
                           asked |-> <<chan.hParams, chan.sStdIn, sent[i].params, sent[i].stdin, i, out, err>>,
                           answer |-> Answer(i, out, err, 0)]

Chan(i) == core.aChannel[i]

\* Mutant: a request that begins on a used channel goes on with it.
BeginGoesOn(i) ==
    /\ core.running /\ ~abs.sent[i].began
    /\ core' = [core EXCEPT !.aChannel = [Grown(i) EXCEPT ![i] = IF @ # Null THEN @ ELSE NewChannel]]
    /\ abs' = [abs EXCEPT !.sent[i].began = TRUE]

\* A request that begins on a used channel makes run return.
BeginRequest(i) ==
    /\ core.running /\ ~abs.sent[i].began
    /\ core' = IF hasChannel(i) THEN [core EXCEPT !.running = FALSE]
               ELSE [core EXCEPT !.aChannel = [Grown(i) EXCEPT ![i] = NewChannel]]
    /\ abs' = [abs EXCEPT !.sent[i].began = TRUE]

\* The web server sends what a request has not ended yet.
May(i, part) == core.running /\ abs.sent[i].began /\ hasChannel(i) /\ part \notin abs.sent[i].ended

\* A record of one or two whole pairs; the names of a request differ.
Params(i) ==
    /\ May(i, ParamsDone) /\ abs.sent[i].params = {}
    /\ \E p, q \in Pairs :
          /\ p[1] # q[1] \/ p = q
          /\ Handled(i, [Chan(i) EXCEPT !.hParams = readPairs(IF p = q THEN PairBytes(p) ELSE PairBytes(p) \o PairBytes(q), @, 0)],
                     [abs.sent EXCEPT ![i].params = @ \cup {p, q}])

ParamsEnd(i) == /\ May(i, ParamsDone)
                /\ Handled(i, [Chan(i) EXCEPT !.uFlags = @ \cup {ParamsDone}], [abs.sent EXCEPT ![i].ended = @ \cup {ParamsDone}])

\* A part of the input, read in pieces as they arrive: buf holds the piece that was read last.
Pieces(s) == {<<s>>} \cup {<<SubSeq(s, 1, k), SubSeq(s, k + 1, Len(s))>> : k \in 1..(Len(s) - 1)}
readStdIn(had, pieces) == FoldLeft(LAMBDA a, p : a \o p, had, pieces)

StdIn(i) ==
    /\ May(i, StdInDone)
    /\ LET s == [k \in 1..2 |-> <<i, Len(abs.sent[i].stdin) + k>>] IN
          /\ Len(abs.sent[i].stdin) + 2 <= MaxInput
          /\ \E pieces \in Pieces(s) :
                Handled(i, [Chan(i) EXCEPT !.sStdIn = readStdIn(@, pieces)], [abs.sent EXCEPT ![i].stdin = @ \o s])

StdInEnd(i) == /\ May(i, StdInDone)
               /\ Handled(i, [Chan(i) EXCEPT !.uFlags = @ \cup {StdInDone}], [abs.sent EXCEPT ![i].ended = @ \cup {StdInDone}])

\* The data of a filter; its end is a flag that is no part of AllDone.
Data(i) == /\ May(i, DataDone) /\ Chan(i).sData = <<>>
           /\ Handled(i, [Chan(i) EXCEPT !.sData = @ \o <<i>>], abs.sent)

DataEnd(i) == /\ May(i, DataDone)
              /\ Handled(i, [Chan(i) EXCEPT !.uFlags = @ \cup {DataDone}], [abs.sent EXCEPT ![i].ended = @ \cup {DataDone}])

\* The connection is lost, or a record comes in part, which throws: the channels stay.
Lost == /\ core.running
        /\ abs' = [abs EXCEPT !.sent = [i \in Ids |-> Fresh]]
        /\ UNCHANGED core

Next == \/ \E i \in Ids : BeginRequest(i) \/ Params(i) \/ ParamsEnd(i) \/ StdIn(i) \/ StdInEnd(i) \/ Data(i) \/ DataEnd(i)
        \/ Lost

Spec == Init /\ [][Next]_vars
-----------------------------------------------------------------------------
\* onRequest is called with the parameters and the input that were sent for its request, whatever the
\* other requests of the connection, and requests cut off by a lost connection, have sent.
RequestIsItsOwn == abs.asked = <<>> \/ (abs.asked[1] = abs.asked[3] /\ abs.asked[2] = abs.asked[4])

Joined(recs, type) == FoldLeft(LAMBDA a, r : IF r.type = type THEN a \o r.content ELSE a, <<>>, recs)

\* The records of an answer hold all of the output in order, in parts that are not too large, each output
\* ended by its one empty record, and end with the end of the request.
AnswerIsComplete ==
    abs.asked = <<>> \/
    LET a == abs.answer
        ends(type) == {k \in DOMAIN a : a[k].type = type /\ a[k].content = <<>>}
    IN  /\ Joined(a, "StdOut") = abs.asked[6] /\ Joined(a, "StdErr") = abs.asked[7]
        /\ \A k \in DOMAIN a : Len(a[k].content) <= Chunk /\ a[k].id = abs.asked[5]
        /\ \A type \in {"StdOut", "StdErr"} : \E e \in DOMAIN a :
              ends(type) = {e} /\ \A k \in DOMAIN a : a[k].type = type => k <= e
        /\ Last(a).type = "EndRequest"
=============================================================================
