----------------------------- MODULE MiniCron -------------------------------
(***************************************************************************)
(* Bu::MiniCron: its timer TimerBasic, and its jobs. They share no state:  *)
(* which says what a behaviour is about.                                   *)
(***************************************************************************)
EXTENDS FiniteSets, Integers, Sequences, TLC

VARIABLES which, core, abs
vars == <<which, core, abs>>
-----------------------------------------------------------------------------
(***************************************************************************)
(* Bu::MiniCron::TimerBasic (src/stable/minicron.cpp): the time after      *)
(* tLast at which a job with a specification "daily 1 2", "hourly 2" or    *)
(* "weekly mon 1 2" runs.  A specification is its first word and the       *)
(* sequence of the others, each the name of a day or a number.             *)
(* The calendar is parameterised so that all of a week can be enumerated;  *)
(* localtime and mktime are the change of base between a time and          *)
(* its fields, mktime accepting a day beyond the week (no daylight saving).*)
(***************************************************************************)
CONSTANTS SecsPerMin, MinsPerHour, HoursPerDay, DaysPerWeek, Weeks

-----------------------------------------------------------------------------
Hour == SecsPerMin * MinsPerHour
Day  == Hour * HoursPerDay
Week == Day * DaysPerWeek

localtime(t) == [sec |-> t % SecsPerMin, min |-> (t \div SecsPerMin) % MinsPerHour,
                 hour |-> (t \div Hour) % HoursPerDay, mday |-> t \div Day,
                 wday |-> (t \div Day) % DaysPerWeek]
mktime(f) == f.mday * Day + f.hour * Hour + f.min * SecsPerMin + f.sec

\* lex: the names of the days count from Sunday.
Names == <<"sun", "mon", "tue", "wed", "thu", "fri", "sat">>
Digits(n) == [name |-> "", value |-> n]
Named(d) == [name |-> Names[d + 1], value |-> 0]
Number(w) == IF w.name = "" THEN w.value ELSE (CHOOSE d \in DOMAIN Names : Names[d] = w.name) - 1

\* lexInt: what is missing at the end of the specification is 0.
lexInt(spec, n) == IF Len(spec.args) < n THEN 0 ELSE Number(spec.args[n])

daily(t, h, m) ==
    LET f == localtime(t)
        passed == h < f.hour \/ (h = f.hour /\ m <= f.min)
    IN  mktime([f EXCEPT !.mday = IF passed THEN @ + 1 ELSE @, !.hour = h, !.min = m, !.sec = 0])

\* Mutant: the minute that has begun is not yet over.
HourlySame(t, m) ==
    LET f == localtime(t)
    IN  mktime([f EXCEPT !.hour = IF m < f.min THEN @ + 1 ELSE @, !.min = m, !.sec = 0])

hourly(t, m) ==
    LET f == localtime(t)
    IN  mktime([f EXCEPT !.hour = IF m <= f.min THEN @ + 1 ELSE @, !.min = m, !.sec = 0])

weekly(t, d, h, m) ==
    LET f == localtime(t)
        passed == \/ d < f.wday
                  \/ d = f.wday /\ h < f.hour
                  \/ d = f.wday /\ h = f.hour /\ m <= f.min
    IN  mktime([f EXCEPT !.mday = IF passed THEN @ + DaysPerWeek - (f.wday - d) ELSE @ + (d - f.wday),
                         !.hour = h, !.min = m, !.sec = 0])

\* nextTime; the words "monthly" and "yearly" are known and do nothing yet.
TimerBasicNextTime(t, spec) ==
    CASE spec.word = "daily"  -> daily(t, lexInt(spec, 1), lexInt(spec, 2))
      [] spec.word = "hourly" -> hourly(t, lexInt(spec, 1))
      [] spec.word = "weekly" -> weekly(t, lexInt(spec, 1), lexInt(spec, 2), lexInt(spec, 3))
      [] OTHER -> t
-----------------------------------------------------------------------------
Minutes == 0..(MinsPerHour - 1)
Hours   == 0..(HoursPerDay - 1)
Days    == 0..(DaysPerWeek - 1)

Call(w, args) == [word |-> w, args |-> args]

Specs == {Call(w, <<>>) : w \in {"hourly", "daily", "weekly"}}
    \cup {Call("hourly", <<Digits(m)>>) : m \in Minutes}
    \cup {Call("daily", <<Digits(h), Digits(m)>>) : h \in Hours, m \in Minutes}
    \cup {Call("weekly", <<d, Digits(h), Digits(m)>>) :
              d \in {Digits(n) : n \in Days} \cup {Named(n) : n \in Days}, h \in Hours, m \in Minutes}

\* A timer is asked for the first time at any moment of the first week.
TimerBasicInit == /\ core \in [sSpec : Specs, tLast : 0..(Week - 1)]
                  /\ abs = -1

TimerBasicNext == /\ core.tLast < Weeks * Week
                  /\ core' = [core EXCEPT !.tLast = TimerBasicNextTime(core.tLast, core.sSpec)]
                  /\ abs' = core.tLast

-----------------------------------------------------------------------------
\* What a specification asks for, without any arithmetic on fields.
Matches(t, spec) ==
    LET f == localtime(t) IN
    /\ f.sec = 0
    /\ CASE spec.word = "hourly" -> f.min = lexInt(spec, 1)
         [] spec.word = "daily"  -> f.hour = lexInt(spec, 1) /\ f.min = lexInt(spec, 2)
         [] OTHER -> f.wday = lexInt(spec, 1) /\ f.hour = lexInt(spec, 2) /\ f.min = lexInt(spec, 3)

\* The time nextTime returns is the first one after the last that the specification
\* names: no occurrence is skipped or repeated, at the end of an hour, of a day and of
\* a week, and when the timer is asked within the very minute it names.
NextIsFirstMatch ==
    abs >= 0 => /\ core.tLast > abs /\ Matches(core.tLast, core.sSpec)
                /\ \A t \in (abs + 1)..(core.tLast - 1) : ~Matches(t, core.sSpec)
-----------------------------------------------------------------------------
(***************************************************************************)
(* Bu::MiniCron (src/stable/minicron.cpp) with TimerInterval.  core holds  *)
(* the clock, the jobs in the heap (a set: the heap hands out one with the *)
(* least time, see Heap), the jobs runJob has set aside while it looks for *)
(* its job, the job whose slot is being called and who called it, and      *)
(* jidNext.  While a slot runs it may stop or resume its job, add jobs and *)
(* remove jobs: those calls are steps of their own between Job::run and    *)
(* the return to poll or runJob.  Slots that poll or run jobs themselves   *)
(* are not modelled.  abs counts what happened to every id: how many of    *)
(* its times came up, were run, and whether a call ended the job.          *)
(***************************************************************************)
CONSTANTS Timers,            \* pairs <<tFirst, tInterval>>, tInterval > 0
          NoJob, MaxTime, MaxJobs, MaxRuns   \* bounds: the clock, the jobs ever added, runs of one by runJob

-----------------------------------------------------------------------------
\* Job with its timer: tNext and tInterval are TimerInterval's.
Job(jid, t, repeat) == [jid |-> jid, bContinue |-> repeat, tNextRun |-> t[1],
                        tNext |-> t[1] + t[2], tInterval |-> t[2]]

\* Mutant: the timer counts from the clock.
NextTimeFromNow(j) == [j EXCEPT !.tNextRun = core.tNow + j.tInterval, !.tNext = @ + j.tInterval]

\* Job::calcNextRun with TimerInterval::nextTime
MiniCronNextTime(j) == [j EXCEPT !.tNextRun = j.tNext, !.tNext = @ + j.tInterval]

MiniCronInit == /\ core = [tNow |-> 0, hJobs |-> {}, aside |-> {}, running |-> NoJob, caller |-> "none", jidNext |-> 1]
                /\ abs = [x \in {} |-> 0]

InSlot == core.running /= NoJob
Times(j) == [first |-> j.tNextRun, resched |-> 0, ended |-> FALSE, once |-> ~j.bContinue]

\* addJob and addJobOnce, by the program or by a slot.
addJob(t, repeat) ==
    /\ core.jidNext <= MaxJobs
    /\ LET j == Job(core.jidNext, <<core.tNow + t[1], t[2]>>, repeat)
       IN  /\ core' = [core EXCEPT !.hJobs = @ \cup {j}, !.jidNext = @ + 1]
           /\ abs' = (j.jid :> Times(j)) @@ abs

\* removeJob takes the whole heap apart; a job that is not in it is not found.
removeJob(id) ==
    /\ id \in DOMAIN abs
    /\ core' = [core EXCEPT !.hJobs = {j \in @ : j.jid /= id}]
    /\ abs' = [abs EXCEPT ![id].ended = @ \/ (\E j \in core.hJobs : j.jid = id)]

\* Mutant: poll takes any job.
PollAny(j) == j.tNextRun <= core.tNow

\* The job at the top of the heap, when its time has come.
due(j) == j.tNextRun <= core.tNow /\ (\A k \in core.hJobs : j.tNextRun <= k.tNextRun)

\* Job::run up to the call of the slot.
Called(j, who, resched, before) ==
    /\ core' = [core EXCEPT !.hJobs = @ \ (before \cup {j}), !.aside = before, !.caller = who,
                            !.running = IF resched THEN MiniCronNextTime(j) ELSE j]
    /\ abs' = IF resched THEN [abs EXCEPT ![j.jid].resched = @ + 1] ELSE abs

\* poll, by a program that is not in a slot: the first due job.
poll == /\ ~InSlot
        /\ \E j \in core.hJobs : due(j) /\ Called(j, "poll", TRUE, {})

\* runJob: the jobs that the heap hands out before the one looked for go aside.
runJob(id, resched) ==
    /\ ~InSlot /\ core.caller = "none"
    /\ id \in DOMAIN abs /\ abs[id].resched < MaxRuns
    /\ \E j \in core.hJobs :
          /\ j.jid = id
          /\ \E B \in SUBSET (core.hJobs \ {j}) :
                /\ {k \in core.hJobs : k.tNextRun < j.tNextRun} \subseteq B
                /\ \A k \in B : k.tNextRun <= j.tNextRun
                /\ Called(j, "runJob", resched, B)

\* What a slot does to its own job.
stop   == InSlot /\ core' = [core EXCEPT !.running.bContinue = FALSE] /\ UNCHANGED abs
resume == InSlot /\ core' = [core EXCEPT !.running.bContinue = TRUE] /\ UNCHANGED abs

\* Mutant: what was set aside is only put back when the job goes on.
Lost(j) == IF j.bContinue THEN core.aside \cup {j} ELSE {}

\* What goes back into the heap when the slot has returned.
requeued(j) == core.aside \cup (IF j.bContinue THEN {j} ELSE {})

return ==
    /\ InSlot
    /\ core' = [core EXCEPT !.hJobs = @ \cup requeued(core.running), !.aside = {}, !.running = NoJob,
                            !.caller = IF @ = "runJob" THEN "none" ELSE @]
    /\ abs' = [abs EXCEPT ![core.running.jid].ended = @ \/ ~core.running.bContinue]

\* poll ends when nothing is due any more; then time passes.
pollReturns ==
    /\ core.caller = "poll" /\ ~InSlot /\ ~(\E j \in core.hJobs : due(j))
    /\ core' = [core EXCEPT !.caller = "none"] /\ UNCHANGED abs

tick == /\ core.caller = "none" /\ core.tNow < MaxTime
        /\ core' = [core EXCEPT !.tNow = @ + 1] /\ UNCHANGED abs

MiniCronNext == \/ poll \/ return \/ pollReturns \/ stop \/ resume \/ tick
                \/ \E t \in Timers, r \in BOOLEAN : (InSlot \/ core.caller = "none") /\ addJob(t, r)
                \/ \E id \in 1..MaxJobs : \/ (InSlot \/ core.caller = "none") /\ removeJob(id)
                                          \/ \E r \in BOOLEAN : runJob(id, r)

-----------------------------------------------------------------------------
All == core.hJobs \cup core.aside \cup (IF InSlot THEN {core.running} ELSE {})

\* Every job that was added is still there, once, until a removeJob found it or a run
\* ended with bContinue false: also when a slot adds and removes jobs while runJob holds
\* others aside.
JobsAreKept ==
    /\ {j.jid : j \in All} = {id \in DOMAIN abs : ~abs[id].ended}
    /\ Cardinality(All) = Cardinality({j.jid : j \in All})
    /\ Cardinality(All) = Cardinality(core.hJobs) + Cardinality(core.aside) + (IF InSlot THEN 1 ELSE 0)

\* The next time of a job is its first time plus as many intervals as it was rescheduled,
\* however late poll was called and whatever ran in between: no time is skipped, and two
\* missed times are two runs.
NoTimeIsSkipped ==
    \A j \in All : j.tNextRun = abs[j.jid].first + abs[j.jid].resched * j.tInterval

\* poll runs the job that has waited longest, so that when it is at a job's slot no other
\* job has an earlier time left (one that its slots have added apart).
PollIsInOrder ==
    core.caller = "poll" /\ InSlot =>
        LET t == core.running.tNextRun - core.running.tInterval
        IN  t <= core.tNow /\ (\A j \in core.hJobs : t <= j.tNextRun)
-----------------------------------------------------------------------------
Init == \/ which = "TimerBasic" /\ TimerBasicInit
        \/ which = "MiniCron" /\ MiniCronInit

Next == /\ UNCHANGED which
        /\ \/ which = "TimerBasic" /\ TimerBasicNext
           \/ which = "MiniCron" /\ MiniCronNext

Spec == Init /\ [][Next]_vars
=============================================================================
