---------------------------- MODULE WaterWarning ----------------------------
(***************************************************************************)
(* Pollution readings of water sources, and the scheduled check that warns  *)
(* of the sources with too many readings over the standard (AutoMaticJob,   *)
(* AutoMakePollution, PollutionController, PollutionTypeController,         *)
(* WaterSourceController, ConstantFactory.isOverStandard).                  *)
(*                                                                          *)
(* Spring runs both jobs on one scheduler thread: job is what it is doing.  *)
(* The check loads the sources, scans one after the other, and only then    *)
(* reports; its statements commit one by one, and the servlet threads       *)
(* (Requests) change readings, types and sources between any two of them.   *)
(* The verdicts of isOverStandard are cached under value + type, a sum, so  *)
(* types and values are numbers here.  Time is in ticks of which Interval   *)
(* make the 20 minutes; a verdict may leave the cache at any time (60 s     *)
(* without use, or 1000 newer ones) and stays while pages keep asking.      *)
(***************************************************************************)
EXTENDS Integers, FiniteSets, Tables

CONSTANTS
    Readings,       \* ids of t_pollution
    Sources,        \* ids of t_water_source
    Types,          \* ids of t_pollution_type
    Values,         \* what a reading may say, and what a limit may be
    Seed,           \* the limits of the types the installation starts with
    Requests,       \* threads that serve requests
    LIMIT_COUNT,    \* more readings of a type than this are a warning: 2
    PageLimit,      \* the newest readings a scan loads: 1000
    PerRun,         \* readings one run of the generator makes: 10
    Interval,       \* ticks between two checks, and the window of one
    InitialDelay,   \* ticks from the start of the server to its first check
    MaxDelay,       \* bound: ticks by which a check may end late
    MaxTime,        \* bound on the clock
    MaxRestarts     \* bound on restarts

ASSUME NumbersOK ==
    /\ Types \subseteq Nat /\ Values \subseteq Nat
    /\ LIMIT_COUNT \in Nat /\ PageLimit \in Nat \ {0} /\ PerRun \in Nat
    /\ Interval \in Nat \ {0} /\ InitialDelay \in 0..Interval
    /\ MaxDelay \in Nat /\ MaxTime \in Nat /\ MaxRestarts \in Nat
ASSUME SeedOK == /\ DOMAIN Seed \subseteq Types
                 /\ Seed \in [DOMAIN Seed -> Values]

VARIABLES
    reading,        \* t_pollution
    usedReadings,
    source,         \* ids stored in t_water_source
    usedSources,
    limit,          \* t_pollution_type: the limits of the types stored
    usedTypes,
    verdict,        \* the overStandard entries of the Caffeine cache
    check,          \* the scheduler thread's check
    making,         \* readings its run of the generator has still to make
    request,        \* what each servlet thread is doing
    now, nextCheck, \* the clock, and when the next check is due
    noticed,        \* warnings written to sys_notice, per source
    warned,         \* rows of t_warn_water, per source
    filed,          \* history: what readings have said, and when
    owed,           \* history: readings that a check has still to scan
    restarts

readingVars == <<reading, usedReadings, filed>>
sourceVars == <<source, usedSources>>
typeVars == <<limit, usedTypes>>
clockVars == <<now, restarts>>
reportVars == <<noticed, warned>>
checkVars == <<check, nextCheck, owed>>
vars == <<readingVars, sourceVars, typeVars, verdict, checkVars, making,
          request, clockVars, reportVars>>

-----------------------------------------------------------------------------
Time == 0..MaxTime
ReadingRow == [type: Types, source: Sources, value: Values, time: Time]
Filed == [id: Readings, type: Types, source: Sources, time: Time]
Loaded == [id: Readings, type: Types, value: Values, time: Time]
NoSource == "none"

\* began: when the check loaded its sources; left: those still to scan; warn:
\* those to report; at: the source it is at, with the rows left to judge,
\* those judged over, and the types whose names it has still to look up.
Check == [pc: {"idle", "scan", "judge", "name", "record"},
          began: Time, left: SUBSET Sources, warn: SUBSET Sources,
          at: Sources \cup {NoSource}, rows: SUBSET Loaded,
          over: SUBSET Loaded, names: SUBSET Types]
NoCheck == [pc |-> "idle", began |-> 0, left |-> {}, warn |-> {},
            at |-> NoSource, rows |-> {}, over |-> {}, names |-> {}]

\* #value + #pollutionTypeId + 'overStandard': the numbers are added first.
Key(value, type) == value + type
Keys == {Key(v, t) : v \in Values, t \in Types}

Idle == [pc |-> "idle"]
Form == [type: Types, source: Sources, value: Values]
Request == {Idle} \cup [pc: {"typed", "add"}, form: Form]
                  \cup [pc: {"view"}, key: Keys, answer: BOOLEAN]

Init ==
    /\ reading = EmptyTable /\ usedReadings = {} /\ filed = {}
    /\ source = {} /\ usedSources = {}
    /\ limit = Seed
    /\ usedTypes = DOMAIN Seed
    /\ verdict = EmptyTable
    /\ check = NoCheck /\ owed = {}
    /\ nextCheck = InitialDelay
    /\ making = 0
    /\ request = [r \in Requests |-> Idle]
    /\ now = 0 /\ restarts = 0
    /\ noticed = [s \in Sources |-> 0] /\ warned = [s \in Sources |-> 0]

Continue(r, q) == request' = [request EXCEPT ![r] = q]
-----------------------------------------------------------------------------
(* Sources and types: one statement each, without a look at the readings. *)

AddSource(s) ==
    /\ s \notin usedSources
    /\ source' = source \cup {s}
    /\ usedSources' = usedSources \cup {s}
    /\ UNCHANGED <<readingVars, typeVars, verdict, checkVars, making, request,
                   clockVars, reportVars>>

DeleteSource(s) ==
    /\ s \in source
    /\ source' = source \ {s}
    /\ UNCHANGED <<readingVars, usedSources, typeVars, verdict, checkVars,
                   making, request, clockVars, reportVars>>

SetLimit(t, v) ==
    /\ limit' = Insert(limit, t, v)
    /\ UNCHANGED <<readingVars, sourceVars, verdict, checkVars, making,
                   request, clockVars, reportVars>>

AddType(t, v) ==
    /\ t \notin usedTypes
    /\ usedTypes' = usedTypes \cup {t}
    /\ SetLimit(t, v)

\* updateByPrimaryKey; the verdicts in the cache are left as they are.
UpdateType(t, v) ==
    /\ t \in DOMAIN limit
    /\ SetLimit(t, v)
    /\ UNCHANGED usedTypes

DeleteType(t) ==
    /\ t \in DOMAIN limit
    /\ limit' = Delete(limit, t)
    /\ UNCHANGED <<readingVars, sourceVars, usedTypes, verdict, checkVars,
                   making, request, clockVars, reportVars>>
-----------------------------------------------------------------------------
(* Readings *)

\* No check that was due is still under way: the last has had MaxDelay ticks.
Quiet == now >= MaxDelay + IF now >= nextCheck THEN nextCheck
                           ELSE nextCheck - Interval

\* A reading of a source there has been, filed while it is quiet, is owed a scan;
\* what was owed to the row it replaces is not.
Owe(id, s) == owed' = IF s \in usedSources /\ Quiet THEN owed \cup {id}
                      ELSE owed \ {id}

\* Bug: the reading is stamped with the end of its interval.
FileAhead(id, form) ==
    /\ reading' = Insert(reading, id,
            [type |-> form.type, source |-> form.source, value |-> form.value,
             time |-> now + Interval])
    /\ filed' = filed \cup {[id |-> id, type |-> form.type,
                             source |-> form.source, time |-> now]}
    /\ Owe(id, form.source)

\* A reading is stored under id with the form's columns and the time.
File(id, form) ==
    /\ reading' = Insert(reading, id,
            [type |-> form.type, source |-> form.source, value |-> form.value,
             time |-> now])
    /\ filed' = filed \cup {[id |-> id, type |-> form.type,
                             source |-> form.source, time |-> now]}
    /\ Owe(id, form.source)

\* Ids no run of the generator is about to take.
SpareReadings == {id \in Readings \ usedReadings :
                    Cardinality(Readings \ usedReadings) > making}

CheckType(r, form) ==
    /\ request[r] = Idle
    /\ form.type \in DOMAIN limit
    /\ Continue(r, [pc |-> "typed", form |-> form])
    /\ UNCHANGED <<readingVars, sourceVars, typeVars, verdict, checkVars,
                   making, clockVars, reportVars>>

CheckSource(r) ==
    /\ request[r].pc = "typed"
    /\ Continue(r, IF request[r].form.source \in source
                   THEN [request[r] EXCEPT !.pc = "add"] ELSE Idle)
    /\ UNCHANGED <<readingVars, sourceVars, typeVars, verdict, checkVars,
                   making, clockVars, reportVars>>

AddReading(r, id) ==
    /\ request[r].pc = "add"
    /\ id \in SpareReadings
    /\ File(id, request[r].form)
    /\ usedReadings' = usedReadings \cup {id}
    /\ Continue(r, Idle)
    /\ UNCHANGED <<sourceVars, typeVars, verdict, check, nextCheck, making,
                   clockVars, reportVars>>

\* Every column is written, and neither the type nor the source looked up: a
\* form may name any id, one that is not handed out yet included.
UpdateReading(id, form) ==
    /\ id \in DOMAIN reading
    /\ File(id, form)
    /\ UNCHANGED <<usedReadings, sourceVars, typeVars, verdict, check,
                   nextCheck, making, request, clockVars, reportVars>>

DeleteReading(id) ==
    /\ id \in DOMAIN reading
    /\ reading' = Delete(reading, id)
    /\ UNCHANGED <<usedReadings, filed, sourceVars, typeVars, verdict,
                   checkVars, making, request, clockVars, reportVars>>
-----------------------------------------------------------------------------
(* The generator: on the scheduler thread, so never during a check. *)

StartMaking ==
    /\ check.pc = "idle" /\ making = 0
    /\ Cardinality(Readings \ usedReadings) >= PerRun
    /\ making' = PerRun
    /\ UNCHANGED <<readingVars, sourceVars, typeVars, verdict, checkVars,
                   request, clockVars, reportVars>>

\* Types and sources come from fixed arrays of ids, of which nothing says that
\* they are stored.  Without the type there is no limit to draw a value from:
\* the exception ends the run.
MakeReading(id, form) ==
    /\ making > 0
    /\ id \notin usedReadings
    /\ IF form.type \in DOMAIN limit
       THEN /\ File(id, form)
            /\ usedReadings' = usedReadings \cup {id}
            /\ making' = making - 1
       ELSE making' = 0 /\ UNCHANGED <<readingVars, owed>>
    /\ UNCHANGED <<sourceVars, typeVars, verdict, check, nextCheck, request,
                   clockVars, reportVars>>
-----------------------------------------------------------------------------
(* isOverStandard, and the pages that ask it *)

\* Nothing is over the standard of a type that is gone.
IsOver(value, type) == type \in DOMAIN limit /\ value > limit[type]

\* PollutionWrapper asks of every reading it lists.  A hit changes nothing; on
\* a miss the verdict is computed in one step and cached in the next.
View(r, id) ==
    /\ request[r] = Idle
    /\ id \in DOMAIN reading
    /\ LET row == reading[id]
           key == Key(row.value, row.type)
       IN  /\ key \notin DOMAIN verdict
           /\ Continue(r, [pc |-> "view", key |-> key,
                           answer |-> IsOver(row.value, row.type)])
    /\ UNCHANGED <<readingVars, sourceVars, typeVars, verdict, checkVars,
                   making, clockVars, reportVars>>

ViewPut(r) ==
    /\ request[r].pc = "view"
    /\ verdict' = Insert(verdict, request[r].key, request[r].answer)
    /\ Continue(r, Idle)
    /\ UNCHANGED <<readingVars, sourceVars, typeVars, checkVars, making,
                   clockVars, reportVars>>

Expire(key) ==
    /\ key \in DOMAIN verdict
    /\ verdict' = Delete(verdict, key)
    /\ UNCHANGED <<readingVars, sourceVars, typeVars, checkVars, making,
                   request, clockVars, reportVars>>
-----------------------------------------------------------------------------
(* The check *)

\* An exception or the last report ends the check; the next comes when due.
EndCheck ==
    /\ check' = NoCheck
    /\ nextCheck' = nextCheck + Interval

MayCheck == check.pc = "idle" /\ making = 0 /\ now >= nextCheck

StartCheck ==
    /\ MayCheck
    /\ check' = [NoCheck EXCEPT !.pc = "scan", !.began = now, !.left = source]
    /\ UNCHANGED <<readingVars, owed, nextCheck, sourceVars, typeVars, verdict,
                   making, request, clockVars, reportVars>>

\* The account that signs the warnings is looked up first, and the users can
\* be without it: there is nothing then but an exception.
FailToStart ==
    /\ MayCheck
    /\ EndCheck
    /\ owed' = {}
    /\ UNCHANGED <<readingVars, sourceVars, typeVars, verdict, making, request,
                   clockVars, reportVars>>

\* Bug: the window is left out.
InWindowOfAnyTime(s) == {id \in DOMAIN reading : reading[id].source = s}

\* Bug: the first instant of the window is left out.
InWindowButItsStart(s) == {id \in DOMAIN reading :
                             /\ reading[id].source = s
                             /\ reading[id].time > now - Interval}

\* The readings of s that are in the window.
InWindow(s) == {id \in DOMAIN reading :
                    /\ reading[id].source = s
                    /\ reading[id].time >= now - Interval}

\* Bug: limit 1, 1000, without the newest.
NewestSkipped(ids, page) ==
    \/ ids = {} /\ page = {}
    \/ \E first \in ids :
          /\ \A other \in ids : reading[other].time <= reading[first].time
          /\ page = ids \ {first}

\* order by updatetime desc limit 0, 1000.
Newest(ids, page) ==
    /\ page \subseteq ids
    /\ \/ page = ids
       \/ /\ Cardinality(page) = PageLimit
          /\ \A i \in page, j \in ids \ page :
                reading[i].time >= reading[j].time

Load(ids) == {[id |-> i, type |-> reading[i].type, value |-> reading[i].value,
               time |-> reading[i].time] : i \in ids}

Scan(s) ==
    /\ check.pc = "scan" /\ s \in check.left
    /\ \E page \in SUBSET InWindow(s) :
          /\ Newest(InWindow(s), page)
          /\ Cardinality(page) <= PageLimit
          /\ check' = [check EXCEPT !.pc = "judge", !.left = @ \ {s}, !.at = s,
                                    !.rows = Load(page), !.over = {}]
          /\ owed' = owed \ page
    /\ UNCHANGED <<readingVars, nextCheck, sourceVars, typeVars, verdict,
                   making, request, clockVars, reportVars>>

\* The rows in the order the query returned them, newest first.
Judge(row) ==
    /\ check.pc = "judge" /\ row \in check.rows
    /\ \A other \in check.rows : other.time <= row.time
    /\ LET key == Key(row.value, row.type)
           answer == IF key \in DOMAIN verdict THEN verdict[key]
                     ELSE IsOver(row.value, row.type)
       IN  /\ verdict' = Insert(verdict, key, answer)
           /\ check' = [check EXCEPT !.rows = @ \ {row},
                            !.over = IF answer THEN @ \cup {row} ELSE @]
    /\ UNCHANGED <<readingVars, owed, nextCheck, sourceVars, typeVars, making,
                   request, clockVars, reportVars>>

\* The types with more than LIMIT_COUNT readings over the standard.
Excessive(over) ==
    {t \in Types : Cardinality({row \in over : row.type = t}) > LIMIT_COUNT}

Count ==
    /\ check.pc = "judge" /\ check.rows = {}
    /\ check' = [check EXCEPT !.pc = "name", !.names = Excessive(check.over)]
    /\ UNCHANGED <<readingVars, owed, nextCheck, sourceVars, typeVars, verdict,
                   making, request, clockVars, reportVars>>

\* Bug: the name of a type that is gone is waited for.
LookUpNameWaiting(t) ==
    /\ check.pc = "name" /\ t \in check.names
    /\ t \in DOMAIN limit
    /\ check' = [check EXCEPT !.names = @ \ {t}, !.warn = @ \cup {check.at}]
    /\ UNCHANGED <<readingVars, owed, nextCheck, sourceVars, typeVars, verdict,
                   making, request, clockVars, reportVars>>

\* The name of a type that is gone since it was judged: the exception ends the
\* whole check, what it has found in other sources included.
LookUpName(t) ==
    /\ check.pc = "name" /\ t \in check.names
    /\ IF t \in DOMAIN limit
       THEN /\ check' = [check EXCEPT !.names = @ \ {t},
                                      !.warn = @ \cup {check.at}]
            /\ UNCHANGED <<nextCheck, owed>>
       ELSE EndCheck /\ owed' = {}
    /\ UNCHANGED <<readingVars, sourceVars, typeVars, verdict, making, request,
                   clockVars, reportVars>>

\* On to the next source.
Proceed ==
    /\ check.pc = "name" /\ check.names = {}
    /\ check' = [check EXCEPT !.at = NoSource, !.over = {}, !.pc = "scan"]
    /\ UNCHANGED <<readingVars, owed, nextCheck, sourceVars, typeVars, verdict,
                   making, request, clockVars, reportVars>>

\* Bug: only the notice is written.
WriteNoticeUncounted(s) ==
    /\ check.pc = "scan" /\ check.left = {} /\ s \in check.warn
    /\ noticed' = [noticed EXCEPT ![s] = @ + 1]
    /\ check' = [check EXCEPT !.warn = @ \ {s}]
    /\ UNCHANGED <<readingVars, owed, nextCheck, sourceVars, typeVars, verdict,
                   making, request, clockVars, warned>>

\* All sources are scanned: for each that warns, the notice first, then the
\* row that counts the warning.
WriteNotice(s) ==
    /\ check.pc = "scan" /\ check.left = {} /\ s \in check.warn
    /\ noticed' = [noticed EXCEPT ![s] = @ + 1]
    /\ check' = [check EXCEPT !.pc = "record", !.at = s]
    /\ UNCHANGED <<readingVars, owed, nextCheck, sourceVars, typeVars, verdict,
                   making, request, clockVars, warned>>

WriteWarnWater ==
    /\ check.pc = "record"
    /\ warned' = [warned EXCEPT ![check.at] = @ + 1]
    /\ check' = [check EXCEPT !.pc = "scan", !.at = NoSource,
                              !.warn = @ \ {check.at}]
    /\ UNCHANGED <<readingVars, owed, nextCheck, sourceVars, typeVars, verdict,
                   making, request, clockVars, noticed>>

FinishCheck ==
    /\ check.pc = "scan" /\ check.left = {} /\ check.warn = {}
    /\ EndCheck
    /\ UNCHANGED <<readingVars, owed, sourceVars, typeVars, verdict, making,
                   request, clockVars, reportVars>>
-----------------------------------------------------------------------------
\* A check that is due ends within MaxDelay ticks.
Tick ==
    /\ now < MaxTime
    /\ now < nextCheck + MaxDelay
    /\ now' = now + 1
    /\ UNCHANGED <<readingVars, sourceVars, typeVars, verdict, checkVars,
                   making, request, restarts, reportVars>>

\* The cache, the requests and the jobs are gone, the tables are not.
Restart ==
    /\ restarts < MaxRestarts
    /\ restarts' = restarts + 1
    /\ check' = NoCheck /\ making' = 0
    /\ nextCheck' = now + InitialDelay
    /\ owed' = {}
    /\ verdict' = EmptyTable
    /\ request' = [r \in Requests |-> Idle]
    /\ UNCHANGED <<readingVars, sourceVars, typeVars, now, reportVars>>

CheckStep ==
    \/ StartCheck \/ FailToStart \/ Count \/ Proceed \/ WriteWarnWater \/ FinishCheck
    \/ \E s \in Sources : Scan(s) \/ WriteNotice(s)
    \/ \E row \in check.rows : Judge(row)
    \/ \E t \in Types : LookUpName(t)

Serve(r) ==
    \/ CheckSource(r) \/ ViewPut(r)
    \/ \E form \in Form : CheckType(r, form)
    \/ \E id \in Readings : AddReading(r, id) \/ View(r, id)

Administer ==
    \/ \E s \in Sources : AddSource(s) \/ DeleteSource(s)
    \/ \E t \in Types : \/ DeleteType(t)
                        \/ \E v \in Values : AddType(t, v) \/ UpdateType(t, v)
    \/ \E id \in Readings : \/ DeleteReading(id)
                            \/ \E form \in Form : UpdateReading(id, form)

Generate ==
    \/ StartMaking
    \/ \E id \in Readings, form \in Form : MakeReading(id, form)

Next ==
    \/ CheckStep \/ Generate \/ Administer
    \/ \E r \in Requests : Serve(r)
    \/ \E key \in Keys : Expire(key)
    \/ Tick \/ Restart

Spec == Init /\ [][Next]_vars

\* The scheduler thread runs what it has begun, and a check that is due.
FairSpec == Spec /\ WF_vars(CheckStep) /\ WF_vars(Generate)
-----------------------------------------------------------------------------
(* Properties *)

\* Every table, the cache, the check and the requests hold what their types
\* allow.
TypeOK ==
    /\ usedReadings \subseteq Readings /\ usedSources \subseteq Sources
    /\ IsTable(reading, usedReadings, ReadingRow)
    /\ filed \subseteq Filed /\ owed \subseteq Readings
    /\ source \subseteq usedSources
    /\ usedTypes \subseteq Types /\ IsTable(limit, usedTypes, Values)
    /\ IsTable(verdict, Keys, BOOLEAN)
    /\ check \in Check /\ making \in 0..PerRun
    /\ request \in [Requests -> Request]
    /\ now \in Time /\ nextCheck \in Nat
    /\ restarts \in 0..MaxRestarts
    /\ noticed \in [Sources -> Nat] /\ warned \in [Sources -> Nat]

\* A source that is going to be warned of had more than LIMIT_COUNT readings
\* of one type filed for it within the window of the check, whatever is
\* edited, deleted, cached or removed while the check runs
\* (AutoMaticJob.getWarnList).
FiledFor(s, t) == {f.id : f \in {g \in filed : /\ g.source = s /\ g.type = t
                                     /\ g.time >= check.began - Interval}}
WarnedOnEvidence ==
    \A s \in check.warn :
        \E t \in Types : Cardinality(FiledFor(s, t)) > LIMIT_COUNT

\* INTERVAL_TIME is both the period and the window of AutoMaticJob, and checks
\* may be late by up to MaxDelay: still a reading of a stored source is scanned
\* within the interval after it is filed, however the clock, the pages and the
\* checks interleave.  The exceptions are what Owe and the ends of a check say:
\* a reading filed while a check that was due may still be under way, as the
\* next can be later than this one; a reading filed under the id of a source
\* that is added only afterwards; and what a check that fails (FailToStart,
\* LookUpName) or that the server's stop cuts off leaves unscanned.
ReadingsScannedInTime ==
    \A id \in owed \cap DOMAIN reading :
        reading[id].source \in source => now <= reading[id].time + Interval

\* No warning is counted without its notice, and a notice is not counted only
\* when the server stopped between the two, or is about to be counted
\* (AutoMaticJob.checkAllWaterSource).
NoticesAndWarningsAgree ==
    \A s \in Sources :
        /\ warned[s] <= noticed[s]
        /\ noticed[s] <= warned[s] + restarts
                + IF check.pc = "record" /\ check.at = s THEN 1 ELSE 0

\* A reading is never judged over the standard when it is over no limit that
\* any type can have (ConstantFactory.isOverStandard).
JudgedOverSomeLimit ==
    \A row \in check.over : \E v \in Values : row.value > v

\* A check that has begun ends, whatever is deleted under it.
ChecksEnd == check.pc # "idle" ~> check.pc = "idle"
=============================================================================
