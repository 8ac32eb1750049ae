----------------------------- MODULE MCServices -----------------------------
(***************************************************************************)
(* The streams, filters, protocols and services on small instances. They   *)
(* do not interact: which says, from the first state on, which of them a   *)
(* behaviour is about.                                                     *)
(***************************************************************************)
EXTENDS Integers, Sequences

VARIABLES which, core, abs
vars == <<which, core, abs>>

F == INSTANCE MyriadFs WITH Names <- {"a", "b"}, Data <- {<<1>>}, MaxNodes <- 3, MaxEntries <- 2, MaxStream <- 6
K == INSTANCE Cache WITH Keys <- {5, 6}, Values <- {1, 2}, Handles <- {"p", "q"},
                         Addresses <- {1, 2}, NULL <- -1, Blank <- 0, MaxStream <- 4
B == INSTANCE MiniCron WITH SecsPerMin <- 2, MinsPerHour <- 2, HoursPerDay <- 3, DaysPerWeek <- 3, Weeks <- 2,
                            Timers <- {<<0, 1>>, <<1, 2>>}, NoJob <- [jid |-> 0], MaxTime <- 3, MaxJobs <- 2, MaxRuns <- 2
\* A GET without headers, one with a continued header, and a request that is not answered
\* early.
TN == INSTANCE Protocols WITH Bytes <- {"IAC", "WILL", "DONT", "SB", "SE", "CR", "LF", "DEL", "a", "ECHO"}, MaxBytes <- 4,
                              Requests <- {
    <<"g", "e", "t", "SP", "x", "SP", "h", "t", "t", "p", "CR", "LF", "CR", "LF">>,
    <<"g", "e", "t", "SP", ":", "y", "SP", "h", "t", "t", "p", "CR", "LF", "x", ":", "SP", "y", "CR", "LF", "SP", "x", "CR", "LF", "CR", "LF">>,
    <<"p", "u", "t", "SP", "x", "SP", "h", "t", "t", "p", "CR", "LF", "x", ":", "CR", "LF", "CR", "LF">>}
Q == INSTANCE Buffers WITH QueueBufBytes <- {1, 2}, Raw <- 0, iBlockSize <- 2, QueueBufMaxSize <- 5, MaxCall <- 3,
                           MemBufBytes <- {1, 2}, MemBufMaxSize <- 3, Windows <- {1, 2},
                           Readers <- {"r", "s"}, MaxBytes <- 3, Blocking <- {TRUE, FALSE}
FL == INSTANCE Filters WITH Bytes <- {0, 97, 255}, ChunkSizes <- {0, 4, 5}, FiltersMaxBytes <- 4, FiltersMaxCall <- 4,
                            nBufSize <- 2, MaxHeld <- 1, CompressionMaxBytes <- 5, CompressionMaxCall <- 3, Word <- 100
BF == INSTANCE StreamStack WITH iBufSize <- 3, MaxCall <- 4, BufferMaxBytes <- 6,
                                MaxFilters <- 3, StreamStackMaxBytes <- 5, Hold <- 1
PR == INSTANCE Descriptors WITH Capacity <- 2, MaxOut <- 3, Statuses <- {1},
                                Space <- 2, MaxBytes <- 3
FI == INSTANCE File WITH Names <- {"a", "b"}, MaxSize <- 2
IT == INSTANCE ItoServer WITH Sockets <- {"s", "t"}, Clients <- {"c", "d"}, Senders <- {"m", "n"}
FC == INSTANCE FastCgi WITH Ids <- 1..2, Base <- 4, Chunk <- 2, Pairs <- {<<<<0>>, <<>>>>, <<<<0, 2>>, <<3, 1>>>>}, MaxInput <- 2, Outputs <- {0, 5}
CL == INSTANCE Client WITH MaxIn <- 4, MaxOut <- 4, MaxFilters <- 2, RBS <- 2
SE == INSTANCE Settings WITH Keys <- {<<"a">>, <<"g", "a">>, <<"g", "h", "b">>}, Values <- {"v", "w"}, Drivers <- {"ini", "taf"}, MaxSets <- 3
MY == INSTANCE MyriadSync WITH MaxId <- 2, MaxBlocks <- 2, MaxSize <- 2, MaxChanges <- 8, iBlockSize <- 1, EntryCounts <- {1}

Init == \/ which = "MyriadFs" /\ F!Init
        \/ which = "Cache" /\ K!Init
        \/ B!Init
        \/ TN!Init
        \/ Q!Init
        \/ FL!Init
        \/ BF!Init
        \/ PR!Init
        \/ which = "File" /\ FI!Init
        \/ which = "ItoServer" /\ IT!Init
        \/ which = "FastCgi" /\ FC!Init
        \/ which = "Client" /\ CL!Init
        \/ which = "Settings" /\ SE!Init
        \/ which = "MyriadSync" /\ MY!Init

Next == /\ UNCHANGED which
        /\ \/ which = "MyriadFs" /\ F!Next
           \/ which = "Cache" /\ K!Next
           \/ B!Next
           \/ TN!Next
           \/ Q!Next
           \/ FL!Next
           \/ BF!Next
           \/ PR!Next
           \/ which = "File" /\ FI!Next
           \/ which = "ItoServer" /\ IT!Next
           \/ which = "FastCgi" /\ FC!Next
           \/ which = "Client" /\ CL!Next
           \/ which = "Settings" /\ SE!Next
           \/ which = "MyriadSync" /\ MY!Next

\* The fairness that ItoServer states, for the behaviours that are about it.
ito == IF which = "ItoServer" THEN core ELSE <<>>
Fairness ==
    /\ \A m \in {"m", "n"} : WF_ito(which = "ItoServer" /\ UNCHANGED which /\ IT!SenderStep(m))
    /\ \A c \in {"c", "d"} : WF_ito(which = "ItoServer" /\ UNCHANGED which /\ IT!ClientStep(c))

Spec == Init /\ [][Next]_vars /\ Fairness
-----------------------------------------------------------------------------
\* Bytes come out of each stream and filter as they went in, in order and once,
\* however the calls are cut and wherever the stream below stalls: queues and
\* buffers in memory, windows, files, sockets with timeouts, pipes of a child,
\* conduits between threads, encoders, compressors and stacks of filters; an
\* end is reported only at the end, and closing leaves no descriptor, block,
\* child or dangling filter.
BytesPassInOrder ==
    /\ which = "QueueBuf" => Q!ReadsTheQueue /\ Q!BlocksHoldTheQueue
    /\ which = "MemBuf" => Q!AgreesWithFile /\ Q!WindowIsClosed
    /\ which = "Filters" => FL!RoundTrip /\ FL!LinesAreBroken /\ FL!NewLineKeepsText
    /\ which = "Buffer" => BF!WritesAreKept /\ BF!ReadsAreKept
    /\ which = "StreamStack" => BF!StackKeepsData /\ BF!NothingDangles
    /\ which = "Compression" => FL!ReadsBack /\ FL!EndsOnce /\ FL!RestIsLeft
    /\ which = "Process" => PR!OutputIsComplete /\ PR!ClosedLeavesNothing
    /\ which = "TcpSocket" => PR!BytesPassOnce /\ PR!ShortMeansLate /\ PR!NoDescriptorLeaks
    /\ which = "File" => FI!EosIsTheEnd /\ FI!TempIsNew
    /\ which = "Conduit" => Q!BytesInOrder /\ Q!EmptyIsTheEnd

\* A store gives back what was put in it: MyriadFs has a dense table, counted
\* links and every node's contents whichever node was destroyed; Cache's
\* handles point to live, counted objects and what was synced survives an
\* unload and a crash; Settings gives what was set last, and after a crash what
\* was saved; and a crash in Myriad's sync leaves each untouched stream as it
\* was.
StoresKeepWhatTheyPromise ==
    /\ which = "MyriadFs" => F!TableIsDense /\ F!LinksAreCounted /\ F!ContentsAreKept
    /\ which = "Cache" => K!HandlesAreLive /\ K!RefsAreCounted /\ K!StoreKeepsSynced
    /\ which = "Settings" => SE!GetIsLastSet /\ SE!FileKeepsTheSaved
    /\ which = "MyriadSync" => MY!UntouchedSurvives

\* However the network cuts the bytes, each protocol sees the stream: telnet
\* finds the same lines, options and answers unless a window size is too short,
\* HTTP hands on each GET once and in order, FastCgi answers each request from
\* its own records and in full, and a Client passes input and output in order,
\* all of it before a disconnect, and closes only for a reason.
ProtocolsSeeTheWholeStream ==
    /\ which = "ProtocolTelnet" => TN!ChunksAreInvisible /\ TN!EveryRequestIsAnswered /\ TN!LinesAreCompleted
    /\ which = "ProtocolHttp" => TN!RequestsAreDelivered
    /\ which = "FastCgi" => FC!RequestIsItsOwn /\ FC!AnswerIsComplete
    /\ which = "Client" => CL!InputIsKept /\ CL!OutputIsKept /\ CL!ClosedForAReason

\* MiniCron: the next time of a job is the first that its timer names, a job is
\* kept, once, until it is removed or ends whatever its slot does meanwhile, no
\* time of an interval is skipped however late poll is called, and one poll
\* runs the jobs in the order of their times.
JobsRunWhenTheyAreDue ==
    /\ which = "TimerBasic" => B!NextIsFirstMatch
    /\ which = "MiniCron" => B!JobsAreKept /\ B!NoTimeIsSkipped /\ B!PollIsInOrder

\* ItoServer: one thread at a time is in the protocol of a connection, a
\* message that was sent is handled once or waits, and a client is deleted only
\* after its thread has ended, and once unless its socket was reused too early,
\* whichever way the threads of clients, senders and the server interleave.
ItoServerKeepsMessages ==
    /\ which = "ItoServer" => IT!ItoServerKeepsMessages

\* ItoServer: a message that waits for the lock of its connection is handled, unless the
\* connection closes or the process is aborted.
ItoWaitingIsAnswered == \A m \in {"m", "n"} : (which = "ItoServer" /\ IT!Waits(m)) ~> (which = "ItoServer" => IT!Answered(m))
=============================================================================
