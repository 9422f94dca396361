------------------------- MODULE WaterWarningProofs -------------------------
(* Theorems about WaterWarning, for every value of its constants.           *)
EXTENDS WaterWarning, TableTheorems, FiniteSetTheorems

-----------------------------------------------------------------------------
(* Types *)

\* TypeOK, by what the actions write together.
ReadingsOK ==
    /\ usedReadings \subseteq Readings
    /\ IsTable(reading, usedReadings, ReadingRow)
    /\ filed \subseteq Filed /\ owed \subseteq Readings
SourcesOK == usedSources \subseteq Sources /\ source \subseteq usedSources
LimitsOK == usedTypes \subseteq Types /\ IsTable(limit, usedTypes, Values)
VerdictsOK == IsTable(verdict, Keys, BOOLEAN)
CheckOK == check \in Check /\ nextCheck \in Nat
RequestsOK == request \in [Requests -> Request]
ClockOK == now \in Time /\ restarts \in 0..MaxRestarts
ReportsOK == noticed \in [Sources -> Nat] /\ warned \in [Sources -> Nat]

\* A check past the scan of a source knows which one it is at.
CheckIsAtSource ==
    check.pc \in {"judge", "name", "record"} => check.at \in Sources

TypeInv ==
    /\ ReadingsOK /\ SourcesOK /\ LimitsOK /\ VerdictsOK
    /\ CheckOK /\ CheckIsAtSource /\ making \in 0..PerRun
    /\ RequestsOK /\ ClockOK /\ ReportsOK

LEMMA TypeInvIsType == TypeInv => TypeOK
  BY DEF TypeInv, TypeOK, ReadingsOK, SourcesOK, LimitsOK, VerdictsOK, CheckOK,
         RequestsOK, ClockOK, ReportsOK

\* What a step leaves alone keeps its type.
LEMMA Untouched ==
    /\ ReadingsOK /\ UNCHANGED <<readingVars, owed>> => ReadingsOK'
    /\ SourcesOK /\ UNCHANGED sourceVars => SourcesOK'
    /\ LimitsOK /\ UNCHANGED typeVars => LimitsOK'
    /\ VerdictsOK /\ UNCHANGED verdict => VerdictsOK'
    /\ CheckOK /\ UNCHANGED <<check, nextCheck>> => CheckOK'
    /\ CheckIsAtSource /\ UNCHANGED check => CheckIsAtSource'
    /\ RequestsOK /\ UNCHANGED request => RequestsOK'
    /\ ClockOK /\ UNCHANGED clockVars => ClockOK'
    /\ ReportsOK /\ UNCHANGED reportVars => ReportsOK'
  BY DEF ReadingsOK, SourcesOK, LimitsOK, VerdictsOK, CheckOK, RequestsOK,
         ClockOK, ReportsOK, readingVars, sourceVars, typeVars, clockVars,
         reportVars, CheckIsAtSource

LEMMA RowOfReading ==
    ASSUME ReadingsOK, NEW id \in DOMAIN reading
    PROVE  id \in Readings /\ id \in usedReadings /\ reading[id] \in ReadingRow
  BY DEF ReadingsOK, IsTable

LEMMA RequestKinds ==
    ASSUME RequestsOK, NEW r \in Requests
    PROVE  /\ request[r].pc \in {"typed", "add"} => request[r].form \in Form
           /\ request[r].pc = "view" =>
                 request[r].key \in Keys /\ request[r].answer \in BOOLEAN
  BY DEF RequestsOK, Request, Idle

LEMMA ContinueRequests ==
    ASSUME RequestsOK, NEW r \in Requests, NEW q \in Request, Continue(r, q)
    PROVE  RequestsOK'
  BY DEF RequestsOK, Continue

LEMMA IdleRequest == Idle \in Request
  BY DEF Request

\* A reading is filed under an id that is handed out.
LEMMA FileType ==
    ASSUME ReadingsOK, now \in Time, NEW id \in Readings, NEW form \in Form,
           File(id, form), usedReadings' \subseteq Readings,
           usedReadings \subseteq usedReadings', id \in usedReadings'
    PROVE  ReadingsOK'
  <1> DEFINE row == [type |-> form.type, source |-> form.source,
                     value |-> form.value, time |-> now]
  <1>1. row \in ReadingRow
    BY DEF Form, ReadingRow
  <1>2. reading' = Insert(reading, id, row)
    BY DEF File
  <1>3. IsTable(reading, usedReadings, ReadingRow)
    BY DEF ReadingsOK
  <1>4. IsTable(reading', usedReadings', ReadingRow)
    <2>. HIDE DEF row
    <2>. QED
      BY <1>1, <1>2, <1>3, InsertIsTable
  <1>5. filed' \subseteq Filed /\ owed' \subseteq Readings
    BY DEF File, Owe, ReadingsOK, Filed, Form
  <1>. QED
    BY <1>4, <1>5 DEF ReadingsOK

LEMMA KeyIsKey ==
    ASSUME NEW v \in Values, NEW t \in Types
    PROVE  Key(v, t) \in Keys
  BY DEF Keys

LEMMA AnswerIsBoolean == \A v, t : IsOver(v, t) \in BOOLEAN
  BY DEF IsOver

\* The check that ends leaves its types behind.
LEMMA NoCheckType == NoCheck \in Check
  <1>1. 0 \in Time
    BY NumbersOK DEF Time
  <1>. QED
    BY <1>1 DEF NoCheck, Check, NoSource

LEMMA EndCheckType ==
    ASSUME CheckOK, EndCheck
    PROVE  CheckOK' /\ CheckIsAtSource'
  <1>1. nextCheck' \in Nat
    BY NumbersOK DEF CheckOK, EndCheck
  <1>. QED
    BY <1>1, NoCheckType DEF CheckOK, EndCheck, CheckIsAtSource, NoCheck

LEMMA InitType == Init => TypeInv
  <1> SUFFICES ASSUME Init PROVE TypeInv
    OBVIOUS
  <1>1. ReadingsOK
    BY EmptyIsTable DEF Init, ReadingsOK
  <1>2. LimitsOK
    BY SeedOK DEF Init, LimitsOK, IsTable
  <1>3. VerdictsOK
    BY EmptyIsTable DEF Init, VerdictsOK
  <1>4. CheckOK /\ CheckIsAtSource
    BY NumbersOK, NoCheckType DEF Init, CheckOK, CheckIsAtSource, NoCheck, Time
  <1>5. RequestsOK
    BY IdleRequest DEF Init, RequestsOK
  <1>6. SourcesOK /\ ClockOK /\ ReportsOK /\ making \in 0..PerRun
    BY NumbersOK DEF Init, SourcesOK, ClockOK, ReportsOK, Time
  <1>. QED
    BY <1>1, <1>2, <1>3, <1>4, <1>5, <1>6 DEF TypeInv

\* Sources and types: one table each.
LEMMA AdministerType == ASSUME TypeInv, Administer PROVE TypeInv'
  <1>. USE DEF TypeInv
  <1>1. ASSUME NEW s \in Sources, AddSource(s) PROVE TypeInv'
    <2>1. SourcesOK'
      BY <1>1 DEF AddSource, SourcesOK
    <2>. QED
      BY <1>1, <2>1, Untouched DEF AddSource, checkVars
  <1>2. ASSUME NEW s \in Sources, DeleteSource(s) PROVE TypeInv'
    <2>1. SourcesOK'
      BY <1>2 DEF DeleteSource, SourcesOK
    <2>. QED
      BY <1>2, <2>1, Untouched DEF DeleteSource, checkVars
  <1>3. ASSUME NEW t \in Types, NEW v \in Values, AddType(t, v) PROVE TypeInv'
    <2>1. LimitsOK'
      BY <1>3, InsertIsTable DEF AddType, SetLimit, LimitsOK
    <2>. QED
      BY <1>3, <2>1, Untouched DEF AddType, SetLimit, checkVars
  <1>4. ASSUME NEW t \in Types, NEW v \in Values, UpdateType(t, v) PROVE TypeInv'
    <2>1. t \in usedTypes
      BY <1>4 DEF UpdateType, LimitsOK, IsTable
    <2>2. LimitsOK'
      BY <1>4, <2>1, InsertIsTable DEF UpdateType, SetLimit, LimitsOK
    <2>. QED
      BY <1>4, <2>2, Untouched DEF UpdateType, SetLimit, checkVars
  <1>5. ASSUME NEW t \in Types, DeleteType(t) PROVE TypeInv'
    <2>1. LimitsOK'
      BY <1>5, DeleteIsTable DEF DeleteType, LimitsOK
    <2>. QED
      BY <1>5, <2>1, Untouched DEF DeleteType, checkVars
  <1>6. ASSUME NEW id \in Readings, DeleteReading(id) PROVE TypeInv'
    <2>1. ReadingsOK'
      BY <1>6, DeleteIsTable DEF DeleteReading, ReadingsOK, checkVars
    <2>. QED
      BY <1>6, <2>1, Untouched DEF DeleteReading, checkVars
  <1>7. ASSUME NEW id \in Readings, NEW form \in Form, UpdateReading(id, form)
        PROVE  TypeInv'
    <2>1. ReadingsOK'
      BY <1>7, RowOfReading, FileType DEF UpdateReading, ReadingsOK, ClockOK
    <2>. QED
      BY <1>7, <2>1, Untouched DEF UpdateReading
  <1>. QED
    BY <1>1, <1>2, <1>3, <1>4, <1>5, <1>6, <1>7 DEF Administer

LEMMA ServeType == ASSUME TypeInv, NEW r \in Requests, Serve(r) PROVE TypeInv'
  <1>. USE DEF TypeInv
  <1>1. ASSUME NEW form \in Form, CheckType(r, form) PROVE TypeInv'
    <2>1. [pc |-> "typed", form |-> form] \in Request
      BY DEF Request
    <2>2. RequestsOK'
      BY <1>1, <2>1, ContinueRequests DEF CheckType
    <2>. QED
      BY <1>1, <2>2, Untouched DEF CheckType, checkVars
  <1>2. ASSUME CheckSource(r) PROVE TypeInv'
    <2>1. request[r] \in Request /\ request[r].pc = "typed"
      BY <1>2 DEF CheckSource, RequestsOK
    <2>2. [request[r] EXCEPT !.pc = "add"] \in Request
      BY <2>1 DEF Request, Idle
    <2>3. RequestsOK'
      BY <1>2, <2>2, ContinueRequests, IdleRequest DEF CheckSource
    <2>. QED
      BY <1>2, <2>3, Untouched DEF CheckSource, checkVars
  <1>3. ASSUME NEW id \in Readings, AddReading(r, id) PROVE TypeInv'
    <2>1. request[r].form \in Form
      BY <1>3, RequestKinds DEF AddReading
    <2>2. ReadingsOK'
      BY <1>3, <2>1, FileType DEF AddReading, ReadingsOK, ClockOK
    <2>3. RequestsOK'
      BY <1>3, ContinueRequests, IdleRequest DEF AddReading
    <2>. QED
      BY <1>3, <2>2, <2>3, Untouched DEF AddReading
  <1>4. ASSUME NEW id \in Readings, View(r, id) PROVE TypeInv'
    <2> DEFINE key == Key(reading[id].value, reading[id].type)
               answer == IsOver(reading[id].value, reading[id].type)
    <2>1. key \in Keys /\ answer \in BOOLEAN
      BY <1>4, RowOfReading, KeyIsKey, AnswerIsBoolean DEF View, ReadingRow
    <2>2. Continue(r, [pc |-> "view", key |-> key, answer |-> answer])
      BY <1>4 DEF View
    <2>. HIDE DEF key, answer
    <2>3. [pc |-> "view", key |-> key, answer |-> answer] \in Request
      BY <2>1 DEF Request
    <2>4. RequestsOK'
      BY <2>2, <2>3, ContinueRequests
    <2>. QED
      BY <1>4, <2>4, Untouched DEF View, checkVars
  <1>5. ASSUME ViewPut(r) PROVE TypeInv'
    <2>1. request[r].key \in Keys /\ request[r].answer \in BOOLEAN
      BY <1>5, RequestKinds DEF ViewPut
    <2>2. VerdictsOK'
      BY <1>5, <2>1, InsertIsTable DEF ViewPut, VerdictsOK
    <2>3. RequestsOK'
      BY <1>5, ContinueRequests, IdleRequest DEF ViewPut
    <2>. QED
      BY <1>5, <2>2, <2>3, Untouched DEF ViewPut, checkVars
  <1>. QED
    BY <1>1, <1>2, <1>3, <1>4, <1>5 DEF Serve

LEMMA GenerateType == ASSUME TypeInv, Generate PROVE TypeInv'
  <1>. USE DEF TypeInv
  <1>0. PerRun \in Nat
    BY NumbersOK
  <1>1. ASSUME StartMaking PROVE TypeInv'
    <2>1. making' \in 0..PerRun
      BY <1>0, <1>1 DEF StartMaking
    <2>. QED
      BY <1>1, <2>1, Untouched DEF StartMaking, checkVars
  <1>2. ASSUME NEW id \in Readings, NEW form \in Form, MakeReading(id, form)
        PROVE  TypeInv'
    <2>1. ReadingsOK' /\ making' \in 0..PerRun
      <3>1. CASE form.type \in DOMAIN limit
        BY <1>0, <1>2, <3>1, FileType DEF MakeReading, ReadingsOK, ClockOK
      <3>2. CASE form.type \notin DOMAIN limit
        BY <1>0, <1>2, <3>2, Untouched DEF MakeReading
      <3>. QED
        BY <3>1, <3>2
    <2>. QED
      BY <1>2, <2>1, Untouched DEF MakeReading
  <1>. QED
    BY <1>1, <1>2 DEF Generate

\* Rows are loaded with the columns they are stored with.
LEMMA LoadType ==
    ASSUME ReadingsOK, NEW page, page \subseteq DOMAIN reading
    PROVE  Load(page) \subseteq Loaded
  BY RowOfReading DEF Load, Loaded, ReadingRow

LEMMA CheckStepType == ASSUME TypeInv, CheckStep PROVE TypeInv'
  <1>. USE DEF TypeInv
  <1>0. check \in Check
    BY DEF CheckOK
  <1>1. ASSUME StartCheck PROVE TypeInv'
    <2>1. CheckOK' /\ CheckIsAtSource'
      BY <1>1, NoCheckType DEF StartCheck, CheckOK, CheckIsAtSource, Check,
         SourcesOK, ClockOK, NoCheck
    <2>. QED
      BY <1>1, <2>1, Untouched DEF StartCheck
  <1>2. ASSUME FailToStart PROVE TypeInv'
    <2>1. CheckOK' /\ CheckIsAtSource'
      BY <1>2, EndCheckType DEF FailToStart
    <2>2. ReadingsOK'
      BY <1>2 DEF FailToStart, ReadingsOK, readingVars
    <2>. QED
      BY <1>2, <2>1, <2>2, Untouched DEF FailToStart
  <1>3. ASSUME NEW s \in Sources, Scan(s) PROVE TypeInv'
    <2>1. PICK page \in SUBSET InWindow(s) :
             /\ check' = [check EXCEPT !.pc = "judge", !.left = @ \ {s}, !.at = s,
                                       !.rows = Load(page), !.over = {}]
             /\ owed' = owed \ page
      BY <1>3 DEF Scan
    <2>2. page \subseteq DOMAIN reading
      BY DEF InWindow
    <2>3. page \subseteq Readings
      BY <2>2, RowOfReading
    <2>4. Load(page) \subseteq Loaded
      BY <2>2, LoadType
    <2>5. check' \in Check
      BY <1>0, <2>1, <2>4 DEF Check
    <2>6. CheckIsAtSource'
      BY <1>0, <2>1 DEF Check, CheckIsAtSource
    <2>7. CheckOK' /\ ReadingsOK'
      BY <1>3, <2>1, <2>3, <2>5 DEF Scan, CheckOK, ReadingsOK, readingVars
    <2>. QED
      BY <1>3, <2>6, <2>7, Untouched DEF Scan
  <1>4. ASSUME NEW row \in check.rows, Judge(row) PROVE TypeInv'
    <2> DEFINE key == Key(row.value, row.type)
               answer == IF key \in DOMAIN verdict THEN verdict[key]
                         ELSE IsOver(row.value, row.type)
    <2>1. row \in Loaded
      BY <1>0 DEF Check
    <2>2. key \in Keys
      BY <2>1, KeyIsKey DEF Loaded
    <2>3. answer \in BOOLEAN
      <3>1. key \in DOMAIN verdict => verdict[key] \in BOOLEAN
        BY DEF VerdictsOK, IsTable
      <3>. QED
        BY <3>1, AnswerIsBoolean
    <2>4. /\ verdict' = Insert(verdict, key, answer)
          /\ check' = [check EXCEPT !.rows = @ \ {row},
                           !.over = IF answer THEN @ \cup {row} ELSE @]
      BY <1>4 DEF Judge
    <2>. HIDE DEF key, answer
    <2>5. VerdictsOK'
      BY <2>2, <2>3, <2>4, InsertIsTable DEF VerdictsOK
    <2>6. check' \in Check /\ check'.pc = check.pc /\ check'.at = check.at
      BY <1>0, <2>1, <2>4 DEF Check
    <2>7. CheckOK' /\ CheckIsAtSource'
      BY <1>4, <2>6 DEF Judge, CheckOK, CheckIsAtSource
    <2>. QED
      BY <1>4, <2>5, <2>7, Untouched DEF Judge
  <1>5. ASSUME Count PROVE TypeInv'
    <2>1. CheckOK' /\ CheckIsAtSource'
      BY <1>0, <1>5 DEF Count, CheckOK, CheckIsAtSource, Check, Excessive
    <2>. QED
      BY <1>5, <2>1, Untouched DEF Count
  <1>6. ASSUME NEW t \in Types, LookUpName(t) PROVE TypeInv'
    <2>1. CASE t \in DOMAIN limit
      <3>1. /\ check.pc = "name" /\ check.at \in Sources
            /\ check' = [check EXCEPT !.names = @ \ {t},
                                      !.warn = @ \cup {check.at}]
            /\ UNCHANGED <<nextCheck, owed>>
        BY <1>6, <2>1 DEF LookUpName, CheckIsAtSource
      <3>2. check' \in Check /\ check'.at = check.at
        BY <1>0, <3>1 DEF Check
      <3>3. CheckOK' /\ CheckIsAtSource'
        BY <3>1, <3>2 DEF CheckOK, CheckIsAtSource
      <3>. QED
        BY <1>6, <2>1, <3>3, Untouched DEF LookUpName
    <2>2. CASE t \notin DOMAIN limit
      <3>1. CheckOK' /\ CheckIsAtSource'
        BY <1>6, <2>2, EndCheckType DEF LookUpName
      <3>2. ReadingsOK'
        BY <1>6, <2>2 DEF LookUpName, ReadingsOK, readingVars
      <3>. QED
        BY <1>6, <3>1, <3>2, Untouched DEF LookUpName
    <2>. QED
      BY <2>1, <2>2
  <1>7. ASSUME Proceed PROVE TypeInv'
    <2>1. CheckOK' /\ CheckIsAtSource'
      BY <1>0, <1>7 DEF Proceed, CheckOK, CheckIsAtSource, Check
    <2>. QED
      BY <1>7, <2>1, Untouched DEF Proceed
  <1>8. ASSUME NEW s \in Sources, WriteNotice(s) PROVE TypeInv'
    <2>1. CheckOK' /\ CheckIsAtSource'
      BY <1>0, <1>8 DEF WriteNotice, CheckOK, CheckIsAtSource, Check
    <2>2. ReportsOK'
      BY <1>8 DEF WriteNotice, ReportsOK
    <2>. QED
      BY <1>8, <2>1, <2>2, Untouched DEF WriteNotice
  <1>9. ASSUME WriteWarnWater PROVE TypeInv'
    <2>1. CheckOK' /\ CheckIsAtSource'
      BY <1>0, <1>9 DEF WriteWarnWater, CheckOK, CheckIsAtSource, Check
    <2>2. ReportsOK'
      <3>1. check.at \in Sources
        BY <1>9 DEF WriteWarnWater, CheckIsAtSource
      <3>. QED
        BY <1>9, <3>1 DEF WriteWarnWater, ReportsOK
    <2>. QED
      BY <1>9, <2>1, <2>2, Untouched DEF WriteWarnWater
  <1>10. ASSUME FinishCheck PROVE TypeInv'
    <2>1. CheckOK' /\ CheckIsAtSource'
      BY <1>10, EndCheckType DEF FinishCheck, CheckOK
    <2>. QED
      BY <1>10, <2>1, Untouched DEF FinishCheck
  <1>. QED
    BY <1>1, <1>2, <1>3, <1>4, <1>5, <1>6, <1>7, <1>8, <1>9, <1>10 DEF CheckStep

LEMMA EnvironmentType ==
    ASSUME TypeInv
    PROVE  /\ Tick => TypeInv'
           /\ Restart => TypeInv'
           /\ \A key \in Keys : Expire(key) => TypeInv'
  <1>. USE DEF TypeInv
  <1>1. ASSUME Tick PROVE TypeInv'
    <2>1. ClockOK'
      BY <1>1, NumbersOK DEF Tick, ClockOK, Time
    <2>. QED
      BY <1>1, <2>1, Untouched DEF Tick, checkVars
  <1>2. ASSUME Restart PROVE TypeInv'
    <2>1. making' \in 0..PerRun /\ ClockOK'
      BY <1>2, NumbersOK DEF Restart, ClockOK
    <2>2. nextCheck' \in Nat
      BY <1>2, NumbersOK DEF Restart, ClockOK, Time
    <2>3. CheckOK' /\ CheckIsAtSource'
      BY <1>2, <2>2, NoCheckType
      DEF Restart, CheckOK, CheckIsAtSource, NoCheck, ClockOK
    <2>4. VerdictsOK'
      BY <1>2, EmptyIsTable DEF Restart, VerdictsOK
    <2>5. RequestsOK'
      BY <1>2, IdleRequest DEF Restart, RequestsOK
    <2>6. ReadingsOK'
      BY <1>2 DEF Restart, ReadingsOK, readingVars
    <2>. QED
      BY <1>2, <2>1, <2>3, <2>4, <2>5, <2>6, Untouched DEF Restart
  <1>3. ASSUME NEW key \in Keys, Expire(key) PROVE TypeInv'
    <2>1. VerdictsOK'
      BY <1>3, DeleteIsTable DEF Expire, VerdictsOK
    <2>. QED
      BY <1>3, <2>1, Untouched DEF Expire, checkVars
  <1>. QED
    BY <1>1, <1>2, <1>3

LEMMA NextType == ASSUME TypeInv, [Next]_vars PROVE TypeInv'
  <1>1. ASSUME UNCHANGED vars PROVE TypeInv'
    BY <1>1, Untouched DEF TypeInv, vars, checkVars
  <1>. QED
    BY <1>1, AdministerType, ServeType, GenerateType, CheckStepType,
       EnvironmentType DEF Next

LEMMA AlwaysTyped == Spec => []TypeInv
  BY InitType, NextType, PTL DEF Spec

\* Whatever the jobs, the pages and the administrators do, and whenever the
\* server stops: tables, cache, check and requests hold what their types allow.
THEOREM WarningTypeCorrect == Spec => []TypeOK
  BY AlwaysTyped, TypeInvIsType, PTL

-----------------------------------------------------------------------------
(* Notices and warnings *)

\* A warning whose notice is written and which is about to be counted.
Uncounted(s) == IF check.pc = "record" /\ check.at = s THEN 1 ELSE 0

\* Each notice is one counted warning, one about to be counted, or one that a
\* restart has cut off.
ReportsAgree ==
    \A s \in Sources : /\ warned[s] + Uncounted(s) <= noticed[s]
                       /\ noticed[s] <= warned[s] + restarts + Uncounted(s)

LEMMA AgreeImplies == TypeOK /\ ReportsAgree => NoticesAndWarningsAgree
  BY DEF TypeOK, ReportsAgree, NoticesAndWarningsAgree, Uncounted

LEMMA InitAgrees == Init => ReportsAgree
  BY DEF Init, ReportsAgree, Uncounted, NoCheck

\* Steps that neither report nor stop: a check that records is left alone.
LEMMA NoReportAgrees ==
    ASSUME ReportsAgree, UNCHANGED <<noticed, warned, restarts>>,
           \/ UNCHANGED check
           \/ check.pc # "record" /\ check'.pc # "record"
    PROVE  ReportsAgree'
  BY DEF ReportsAgree, Uncounted

LEMMA NextAgrees ==
    ASSUME TypeInv, ReportsAgree, [Next]_vars
    PROVE  ReportsAgree'
  <1>. USE DEF reportVars, clockVars, checkVars
  <1>0. /\ noticed \in [Sources -> Nat] /\ warned \in [Sources -> Nat]
        /\ check \in Check /\ restarts \in Nat
    BY DEF TypeInv, ReportsOK, CheckOK, ClockOK
  <1>1. ASSUME NEW s \in Sources, WriteNotice(s) PROVE ReportsAgree'
    <2>1. /\ check.pc = "scan" /\ check'.pc = "record" /\ check'.at = s
          /\ noticed' = [noticed EXCEPT ![s] = @ + 1]
          /\ UNCHANGED <<warned, restarts>>
      BY <1>0, <1>1 DEF WriteNotice, Check
    <2>. QED
      BY <1>0, <2>1 DEF ReportsAgree, Uncounted
  <1>2. ASSUME WriteWarnWater PROVE ReportsAgree'
    <2>1. /\ check.pc = "record" /\ check'.pc = "scan"
          /\ warned' = [warned EXCEPT ![check.at] = @ + 1]
          /\ UNCHANGED <<noticed, restarts>>
      BY <1>0, <1>2 DEF WriteWarnWater, Check
    <2>. QED
      BY <1>0, <2>1 DEF ReportsAgree, Uncounted
  <1>3. ASSUME Restart PROVE ReportsAgree'
    <2>1. /\ check'.pc = "idle" /\ restarts' = restarts + 1
          /\ UNCHANGED <<noticed, warned>>
      BY <1>3 DEF Restart, NoCheck
    <2>. QED
      BY <1>0, <2>1 DEF ReportsAgree, Uncounted
  <1>4. ASSUME CheckStep,
               ~WriteWarnWater, \A s \in Sources : ~WriteNotice(s)
        PROVE  ReportsAgree'
    <2>1. ASSUME StartCheck \/ FailToStart \/ FinishCheck
          PROVE  /\ check.pc # "record" /\ check'.pc # "record"
                 /\ UNCHANGED <<noticed, warned, restarts>>
      <3>1. CASE StartCheck
        BY <3>1 DEF StartCheck, MayCheck, NoCheck
      <3>2. CASE FailToStart
        BY <3>2 DEF FailToStart, MayCheck, EndCheck, NoCheck
      <3>3. CASE FinishCheck
        BY <3>3 DEF FinishCheck, EndCheck, NoCheck
      <3>. QED
        BY <2>1, <3>1, <3>2, <3>3
    <2>2. ASSUME NEW s \in Sources, Scan(s)
          PROVE  /\ check.pc # "record" /\ check'.pc # "record"
                 /\ UNCHANGED <<noticed, warned, restarts>>
      BY <1>0, <2>2 DEF Scan, Check
    <2>3. ASSUME NEW row \in check.rows, Judge(row)
          PROVE  /\ check.pc # "record" /\ check'.pc # "record"
                 /\ UNCHANGED <<noticed, warned, restarts>>
      BY <1>0, <2>3 DEF Judge, Check
    <2>4. ASSUME Count \/ Proceed
          PROVE  /\ check.pc # "record" /\ check'.pc # "record"
                 /\ UNCHANGED <<noticed, warned, restarts>>
      BY <1>0, <2>4 DEF Count, Proceed, Check
    <2>5. ASSUME NEW t \in Types, LookUpName(t)
          PROVE  /\ check.pc # "record" /\ check'.pc # "record"
                 /\ UNCHANGED <<noticed, warned, restarts>>
      <3>1. check'.pc \in {"name", "idle"}
        <4>1. CASE t \in DOMAIN limit
          BY <1>0, <2>5, <4>1 DEF LookUpName, Check
        <4>2. CASE t \notin DOMAIN limit
          BY <2>5, <4>2 DEF LookUpName, EndCheck, NoCheck
        <4>. QED
          BY <4>1, <4>2
      <3>. QED
        BY <2>5, <3>1 DEF LookUpName
    <2>. QED
      BY <1>4, <2>1, <2>2, <2>3, <2>4, <2>5, NoReportAgrees DEF CheckStep
  <1>5. ASSUME Administer PROVE ReportsAgree'
    BY <1>5, NoReportAgrees
    DEF Administer, AddSource, DeleteSource, AddType, SetLimit, UpdateType,
        DeleteType, DeleteReading, UpdateReading
  <1>6. ASSUME Generate PROVE ReportsAgree'
    BY <1>6, NoReportAgrees DEF Generate, StartMaking, MakeReading
  <1>7. ASSUME NEW r \in Requests, Serve(r) PROVE ReportsAgree'
    BY <1>7, NoReportAgrees
    DEF Serve, CheckType, CheckSource, AddReading, View, ViewPut
  <1>8. ASSUME \/ Tick \/ UNCHANGED vars
               \/ \E key \in Keys : Expire(key)
        PROVE  ReportsAgree'
    BY <1>8, NoReportAgrees DEF Tick, Expire, vars
  <1>. QED
    BY <1>1, <1>2, <1>3, <1>4, <1>5, <1>6, <1>7, <1>8 DEF Next, CheckStep

\* Notice and warning are two statements without a transaction, and still
\* they never differ by more than the restarts, for any number of sources,
\* checks and restarts (AutoMaticJob.checkAllWaterSource).
THEOREM ReportsAlwaysAgree == Spec => []NoticesAndWarningsAgree
  <1>1. Spec => []ReportsAgree
    BY InitAgrees, NextAgrees, AlwaysTyped, PTL DEF Spec
  <1>. QED
    BY <1>1, AlwaysTyped, TypeInvIsType, AgreeImplies, PTL

-----------------------------------------------------------------------------
(* Readings are scanned in time *)

\* What the code counts on: the readings of any window fit a page (1000).
WindowsFitAPage ==
    \A s \in Sources : /\ IsFiniteSet(InWindow(s))
                       /\ Cardinality(InWindow(s)) <= PageLimit

\* Ticks do not run ahead of a check by more than it may be late, and a check
\* does not begin before it is due.
OnTime ==
    /\ now <= nextCheck + MaxDelay
    /\ check.pc # "idle" => now >= nextCheck

\* What is owed was filed for a source there was.
OwedKnown == \A id \in owed \cap DOMAIN reading : reading[id].source \in usedSources

\* When the check that is still to scan s is due: this one, or the next when
\* this one is done with s.
DueFor(s) == IF check.pc = "idle" \/ s \in check.left THEN nextCheck
             ELSE nextCheck + Interval

\* Even if that check is late, what is owed is in the window of it.
NothingMissed ==
    \A id \in owed \cap DOMAIN reading :
        reading[id].source \in source =>
            DueFor(reading[id].source) + MaxDelay <= reading[id].time + Interval

TimelyInv == OnTime /\ OwedKnown /\ NothingMissed

\* Ticks, sources and readings as numbers and members.
LEMMA TimelyTypes ==
    ASSUME TypeInv
    PROVE  /\ now \in Nat /\ nextCheck \in Nat /\ MaxDelay \in Nat
           /\ Interval \in Nat \ {0} /\ InitialDelay \in 0..Interval
           /\ check \in Check
           /\ source \subseteq usedSources
           /\ \A id \in DOMAIN reading : /\ id \in Readings
                                         /\ reading[id].time \in Nat
                                         /\ reading[id].source \in Sources
  BY RowOfReading, NumbersOK
  DEF TypeInv, CheckOK, ClockOK, SourcesOK, ReadingRow, Time

LEMMA InitTimely == Init => TimelyInv
  <1> SUFFICES ASSUME Init PROVE TimelyInv
    OBVIOUS
  <1>1. OnTime
    BY NumbersOK DEF Init, OnTime, NoCheck
  <1>. QED
    BY <1>1 DEF Init, TimelyInv, OwedKnown, NothingMissed

\* Steps that file nothing, and leave the clock and the check as they are.
LEMMA QuietStep ==
    ASSUME TypeInv, TimelyInv,
           UNCHANGED <<now, nextCheck, check, owed>>,
           DOMAIN reading' \subseteq DOMAIN reading,
           \A id \in DOMAIN reading' : reading'[id] = reading[id],
           usedSources \subseteq usedSources',
           source' \cap usedSources \subseteq source
    PROVE  TimelyInv'
  <1>1. OnTime' /\ OwedKnown'
    BY DEF TimelyInv, OnTime, OwedKnown
  <1>2. \A s : DueFor(s)' = DueFor(s)
    BY DEF DueFor
  <1>3. NothingMissed'
    BY <1>2 DEF TimelyInv, OwedKnown, NothingMissed
  <1>. QED
    BY <1>1, <1>3 DEF TimelyInv

\* A reading filed when no check can be under way is in the window of the next
\* check, however late it is; one filed at the last instant of a check is in
\* the window of the check after.
LEMMA FilingStep ==
    ASSUME TypeInv, TimelyInv, NEW id \in Readings, NEW form \in Form,
           File(id, form),
           UNCHANGED <<now, nextCheck, check, source, usedSources>>
    PROVE  TimelyInv'
  <1>. USE TimelyTypes
  <1>1. OnTime'
    BY DEF TimelyInv, OnTime
  <1>2. /\ DOMAIN reading' = DOMAIN reading \cup {id}
        /\ reading'[id].source = form.source /\ reading'[id].time = now
        /\ \A k \in DOMAIN reading \ {id} : reading'[k] = reading[k]
    BY DEF File, Insert
  <1>3. /\ owed' \subseteq owed \cup {id}
        /\ id \in owed' => form.source \in usedSources /\ Quiet
    BY DEF File, Owe
  <1>4. OwedKnown'
    BY <1>2, <1>3 DEF TimelyInv, OwedKnown
  <1>5. Quiet => \A s : DueFor(s) + MaxDelay <= now + Interval
    <2>1. Quiet /\ check.pc # "idle" => now >= MaxDelay + nextCheck
      BY DEF Quiet, TimelyInv, OnTime
    <2>2. Quiet => now >= MaxDelay + nextCheck - Interval
      BY DEF Quiet
    <2>. QED
      BY <2>1, <2>2 DEF DueFor
  <1>6. \A s : DueFor(s)' = DueFor(s)
    BY DEF DueFor
  <1>7. ASSUME NEW k \in owed' \cap DOMAIN reading',
               reading'[k].source \in source'
        PROVE  DueFor(reading'[k].source) + MaxDelay
                  <= reading'[k].time + Interval
    <2>1. CASE k = id
      BY <1>2, <1>3, <1>5, <2>1
    <2>2. CASE k # id
      BY <1>2, <1>3, <1>7, <2>2 DEF TimelyInv, NothingMissed
    <2>. QED
      BY <2>1, <2>2
  <1>8. NothingMissed'
    BY <1>6, <1>7 DEF NothingMissed
  <1>. QED
    BY <1>1, <1>4, <1>8 DEF TimelyInv

\* A step of the check that neither loads, nor scans, nor ends it.
LEMMA InnerStep ==
    ASSUME TypeInv, TimelyInv,
           UNCHANGED <<now, nextCheck, owed, readingVars, sourceVars>>,
           check.pc # "idle", check'.pc # "idle", check'.left = check.left
    PROVE  TimelyInv'
  BY DEF TimelyInv, OnTime, OwedKnown, NothingMissed, DueFor, readingVars,
         sourceVars

\* A check that fails owes nothing more; one that has scanned all its sources
\* leaves the rest to the next, an interval later.
LEMMA EndStep ==
    ASSUME TypeInv, TimelyInv,
           UNCHANGED <<now, readingVars, sourceVars>>, EndCheck,
           \/ owed' = {}
           \/ owed' = owed /\ check.pc # "idle" /\ check.left = {}
    PROVE  TimelyInv'
  <1>. USE TimelyTypes
  <1>1. check'.pc = "idle" /\ nextCheck' = nextCheck + Interval
    BY DEF EndCheck, NoCheck
  <1>2. OnTime'
    BY <1>1 DEF TimelyInv, OnTime
  <1>3. OwedKnown'
    BY DEF TimelyInv, OwedKnown, readingVars, sourceVars
  <1>4. \A s : DueFor(s)' = nextCheck + Interval
    BY <1>1 DEF DueFor
  <1>5. NothingMissed'
    <2>1. CASE owed' = {}
      BY <2>1 DEF NothingMissed
    <2>2. CASE owed' = owed /\ check.pc # "idle" /\ check.left = {}
      BY <1>4, <2>2
      DEF TimelyInv, NothingMissed, DueFor, readingVars, sourceVars
    <2>. QED
      BY <2>1, <2>2
  <1>. QED
    BY <1>2, <1>3, <1>5 DEF TimelyInv

\* A page of a window that fits is the window.
LEMMA WholeWindow ==
    ASSUME WindowsFitAPage, NEW s \in Sources, NEW page \in SUBSET InWindow(s),
           Newest(InWindow(s), page)
    PROVE  page = InWindow(s)
  <1>1. CASE Cardinality(page) = PageLimit
    BY <1>1, FS_Subset, FS_CardinalityType, NumbersOK DEF WindowsFitAPage
  <1>. QED
    BY <1>1 DEF Newest

LEMMA ScanTimely ==
    ASSUME TypeInv, TimelyInv, WindowsFitAPage, NEW s \in Sources, Scan(s)
    PROVE  TimelyInv'
  <1>. USE TimelyTypes
  <1>1. PICK page \in SUBSET InWindow(s) :
           /\ Newest(InWindow(s), page)
           /\ check' = [check EXCEPT !.pc = "judge", !.left = @ \ {s}, !.at = s,
                                     !.rows = Load(page), !.over = {}]
           /\ owed' = owed \ page
    BY DEF Scan
  <1>2. page = InWindow(s)
    BY <1>1, WholeWindow
  <1>3. /\ check.pc = "scan" /\ check'.pc = "judge" /\ s \in check.left
        /\ check'.left = check.left \ {s}
        /\ UNCHANGED <<reading, source, usedSources, now, nextCheck>>
    BY <1>1 DEF Scan, Check, readingVars, sourceVars, clockVars
  <1>4. OnTime' /\ OwedKnown'
    BY <1>1, <1>3 DEF TimelyInv, OnTime, OwedKnown
  <1>5. ASSUME NEW id \in owed' \cap DOMAIN reading, reading[id].source \in source
        PROVE  DueFor(reading[id].source)' + MaxDelay <= reading[id].time + Interval
    <2>1. DueFor(reading[id].source) + MaxDelay <= reading[id].time + Interval
      BY <1>1, <1>5 DEF TimelyInv, NothingMissed
    <2>2. CASE reading[id].source # s
      BY <1>3, <2>1, <2>2 DEF DueFor
    <2>3. CASE reading[id].source = s
      <3>1. reading[id].time < now - Interval
        BY <1>1, <1>2, <1>5, <2>3 DEF InWindow
      <3>2. nextCheck + MaxDelay <= reading[id].time + Interval
        BY <1>3, <2>1, <2>3 DEF DueFor
      <3>. QED
        BY <3>1, <3>2 DEF TimelyInv, OnTime
    <2>. QED
      BY <2>2, <2>3
  <1>6. NothingMissed'
    BY <1>3, <1>5 DEF NothingMissed
  <1>. QED
    BY <1>4, <1>6 DEF TimelyInv

LEMMA CheckStepTimely ==
    ASSUME TypeInv, TimelyInv, WindowsFitAPage, CheckStep
    PROVE  TimelyInv'
  <1>. USE TimelyTypes DEF clockVars
  <1>1. ASSUME StartCheck PROVE TimelyInv'
    <2>1. /\ check.pc = "idle" /\ check'.pc = "scan" /\ check'.left = source
          /\ now >= nextCheck
          /\ UNCHANGED <<reading, owed, nextCheck, source, usedSources, now>>
      BY <1>1 DEF StartCheck, MayCheck, NoCheck, readingVars, sourceVars
    <2>2. OnTime' /\ OwedKnown'
      BY <2>1 DEF TimelyInv, OnTime, OwedKnown
    <2>3. \A s \in source : DueFor(s)' = DueFor(s)
      BY <2>1 DEF DueFor
    <2>4. NothingMissed'
      BY <2>1, <2>3 DEF TimelyInv, NothingMissed
    <2>. QED
      BY <2>2, <2>4 DEF TimelyInv
  <1>2. ASSUME FailToStart PROVE TimelyInv'
    BY <1>2, EndStep DEF FailToStart
  <1>3. ASSUME FinishCheck PROVE TimelyInv'
    <2>1. check.pc # "idle" /\ check.left = {}
      BY <1>3 DEF FinishCheck
    <2>. QED
      BY <1>3, <2>1, EndStep DEF FinishCheck
  <1>4. ASSUME NEW s \in Sources, Scan(s) PROVE TimelyInv'
    BY <1>4, ScanTimely
  <1>5. ASSUME NEW row \in check.rows, Judge(row) PROVE TimelyInv'
    <2>1. /\ check.pc = "judge" /\ check'.pc = "judge"
          /\ check'.left = check.left
      BY <1>5 DEF Judge, Check
    <2>. QED
      BY <1>5, <2>1, InnerStep DEF Judge
  <1>6. ASSUME Count \/ Proceed PROVE TimelyInv'
    <2>1. /\ check.pc # "idle" /\ check'.pc # "idle" /\ check'.left = check.left
      BY <1>6 DEF Count, Proceed, Check
    <2>. QED
      BY <1>6, <2>1, InnerStep DEF Count, Proceed
  <1>7. ASSUME NEW t \in Types, LookUpName(t) PROVE TimelyInv'
    <2>1. CASE t \in DOMAIN limit
      <3>1. /\ check.pc = "name" /\ check'.pc = "name"
            /\ check'.left = check.left
        BY <1>7, <2>1 DEF LookUpName, Check
      <3>. QED
        BY <1>7, <2>1, <3>1, InnerStep DEF LookUpName
    <2>2. CASE t \notin DOMAIN limit
      BY <1>7, <2>2, EndStep DEF LookUpName
    <2>. QED
      BY <2>1, <2>2
  <1>8. ASSUME NEW s \in Sources, WriteNotice(s) PROVE TimelyInv'
    <2>1. /\ check.pc # "idle" /\ check'.pc # "idle" /\ check'.left = check.left
      BY <1>8 DEF WriteNotice, Check
    <2>. QED
      BY <1>8, <2>1, InnerStep DEF WriteNotice
  <1>9. ASSUME WriteWarnWater PROVE TimelyInv'
    <2>1. /\ check.pc # "idle" /\ check'.pc # "idle" /\ check'.left = check.left
      BY <1>9 DEF WriteWarnWater, Check
    <2>. QED
      BY <1>9, <2>1, InnerStep DEF WriteWarnWater
  <1>. QED
    BY <1>1, <1>2, <1>3, <1>4, <1>5, <1>6, <1>7, <1>8, <1>9
    DEF CheckStep

LEMMA PagesTimely ==
    ASSUME TypeInv, TimelyInv
    PROVE  /\ Administer => TimelyInv'
           /\ Generate => TimelyInv'
           /\ \A r \in Requests : Serve(r) => TimelyInv'
  <1>. USE TimelyTypes DEF clockVars, checkVars, readingVars, sourceVars, typeVars
  <1>1. ASSUME NEW s \in Sources, AddSource(s) PROVE TimelyInv'
    BY <1>1, QuietStep DEF AddSource
  <1>2. ASSUME NEW s \in Sources, DeleteSource(s) PROVE TimelyInv'
    BY <1>2, QuietStep DEF DeleteSource
  <1>3. ASSUME NEW t \in Types,
               \/ DeleteType(t)
               \/ \E v \in Values : AddType(t, v) \/ UpdateType(t, v)
        PROVE  TimelyInv'
    BY <1>3, QuietStep DEF DeleteType, AddType, UpdateType, SetLimit
  <1>4. ASSUME NEW id \in Readings, DeleteReading(id) PROVE TimelyInv'
    BY <1>4, QuietStep, DeleteRows DEF DeleteReading
  <1>5. ASSUME NEW id \in Readings, NEW form \in Form, UpdateReading(id, form)
        PROVE  TimelyInv'
    BY <1>5, FilingStep DEF UpdateReading
  <1>6. ASSUME StartMaking PROVE TimelyInv'
    BY <1>6, QuietStep DEF StartMaking
  <1>7. ASSUME NEW id \in Readings, NEW form \in Form, MakeReading(id, form)
        PROVE  TimelyInv'
    <2>1. CASE form.type \in DOMAIN limit
      BY <1>7, <2>1, FilingStep DEF MakeReading
    <2>2. CASE form.type \notin DOMAIN limit
      BY <1>7, <2>2, QuietStep DEF MakeReading
    <2>. QED
      BY <2>1, <2>2
  <1>8. ASSUME NEW r \in Requests, Serve(r) PROVE TimelyInv'
    <2>1. ASSUME NEW id \in Readings, AddReading(r, id) PROVE TimelyInv'
      <3>1. request[r].form \in Form
        BY <2>1, RequestKinds DEF AddReading, TypeInv
      <3>. QED
        BY <2>1, <3>1, FilingStep DEF AddReading
    <2>2. ASSUME NEW form \in Form, CheckType(r, form) PROVE TimelyInv'
      BY <2>2, QuietStep DEF CheckType
    <2>3. ASSUME NEW id \in Readings, View(r, id) PROVE TimelyInv'
      BY <2>3, QuietStep DEF View
    <2>4. ASSUME CheckSource(r) \/ ViewPut(r) PROVE TimelyInv'
      BY <2>4, QuietStep DEF CheckSource, ViewPut
    <2>. QED
      BY <1>8, <2>1, <2>2, <2>3, <2>4 DEF Serve
  <1>. QED
    BY <1>1, <1>2, <1>3, <1>4, <1>5, <1>6, <1>7, <1>8 DEF Administer, Generate

LEMMA NextTimely ==
    ASSUME TypeInv, TimelyInv, WindowsFitAPage, [Next]_vars
    PROVE  TimelyInv'
  <1>. USE TimelyTypes DEF clockVars, checkVars, readingVars, sourceVars
  <1>1. ASSUME Tick PROVE TimelyInv'
    <2>1. /\ now < nextCheck + MaxDelay /\ now' = now + 1
          /\ UNCHANGED <<reading, source, usedSources, check, nextCheck, owed>>
      BY <1>1 DEF Tick
    <2>. QED
      BY <2>1 DEF TimelyInv, OnTime, OwedKnown, NothingMissed, DueFor
  <1>2. ASSUME Restart PROVE TimelyInv'
    BY <1>2
    DEF Restart, NoCheck, TimelyInv, OnTime, OwedKnown, NothingMissed
  <1>3. ASSUME UNCHANGED vars \/ \E key \in Keys : Expire(key) PROVE TimelyInv'
    BY <1>3, QuietStep DEF vars, Expire
  <1>. QED
    BY <1>1, <1>2, <1>3, CheckStepTimely, PagesTimely DEF Next

LEMMA TimelyImplies ==
    ASSUME TypeInv, TimelyInv
    PROVE  ReadingsScannedInTime
  <1> SUFFICES ASSUME NEW id \in owed \cap DOMAIN reading,
                      reading[id].source \in source
               PROVE  now <= reading[id].time + Interval
    BY DEF ReadingsScannedInTime
  <1>1. DueFor(reading[id].source) + MaxDelay <= reading[id].time + Interval
    BY DEF TimelyInv, NothingMissed
  <1>2. nextCheck <= DueFor(reading[id].source)
    BY TimelyTypes DEF DueFor
  <1>. QED
    BY <1>1, <1>2, TimelyTypes DEF TimelyInv, OnTime, DueFor

\* However late checks may be, and with the clock running while they do: as
\* long as the readings of a window fit a page, no reading of a known source
\* falls between two checks that was filed when no check that was due could still
\* be under way, MaxDelay being how late one can be,
\* whatever is filed, corrected, deleted or moved to another source, and
\* whenever a check fails or the server stops
\* (INTERVAL_TIME of AutoMaticJob, limit 1000 of selectPollutionsInDays).
THEOREM NoReadingMissed ==
    Spec /\ []WindowsFitAPage => []ReadingsScannedInTime
  <1>1. TypeInv /\ TimelyInv /\ WindowsFitAPage /\ [Next]_vars => TimelyInv'
    BY NextTimely
  <1>2. TypeInv /\ TimelyInv => ReadingsScannedInTime
    BY TimelyImplies
  <1>. QED
    BY <1>1, <1>2, InitTimely, AlwaysTyped, PTL DEF Spec

-----------------------------------------------------------------------------
(* Warnings rest on evidence *)

\* What t_pollution holds, and what a check has loaded of the source it is at,
\* has been filed; the rows loaded are of different readings, and are let go
\* with the source.
Filing(id, type, s, time) == [id |-> id, type |-> type, source |-> s, time |-> time]
FiledIdsKnown == IsFiniteSet(usedReadings) /\ \A f \in filed : f.id \in usedReadings
ReadingsFiled ==
    \A id \in DOMAIN reading :
        Filing(id, reading[id].type, reading[id].source, reading[id].time) \in filed
Rows == check.rows \cup check.over
RowsFiled ==
    \A row \in Rows : /\ Filing(row.id, row.type, check.at, row.time) \in filed
                      /\ row.time >= check.began - Interval
RowsDiffer == \A a, b \in Rows : a.id = b.id => a = b
RowsLetGo ==
    /\ check.pc # "judge" => check.rows = {}
    /\ check.pc \notin {"judge", "name"} => check.over = {}

\* There are enough readings for s to be warned of because of t, and there are
\* for each type that a name is looked up of.
Enough(s, t) == Cardinality(FiledFor(s, t)) > LIMIT_COUNT
NamesOnEvidence == check.pc = "name" => \A t \in check.names : Enough(check.at, t)

EvidenceInv ==
    /\ FiledIdsKnown /\ ReadingsFiled
    /\ check.began <= now
    /\ RowsFiled /\ RowsDiffer /\ RowsLetGo
    /\ NamesOnEvidence /\ WarnedOnEvidence

LEMMA InitEvidence == Init => EvidenceInv
  BY FS_EmptySet
  DEF Init, EvidenceInv, FiledIdsKnown, ReadingsFiled, RowsFiled, RowsDiffer,
      RowsLetGo, Rows, NamesOnEvidence, WarnedOnEvidence, NoCheck, EmptyTable

LEMMA FiledForKnown ==
    ASSUME FiledIdsKnown, NEW s, NEW t
    PROVE  /\ IsFiniteSet(FiledFor(s, t))
           /\ Cardinality(FiledFor(s, t)) \in Nat
  <1>1. FiledFor(s, t) \subseteq usedReadings
    BY DEF FiledIdsKnown, FiledFor
  <1>. QED
    BY <1>1, FS_Subset, FS_CardinalityType DEF FiledIdsKnown

\* Evidence only grows while a check goes on.
LEMMA EvidenceStays ==
    ASSUME FiledIdsKnown, FiledIdsKnown', filed \subseteq filed',
           check'.began = check.began, NEW s, NEW t, Enough(s, t)
    PROVE  Enough(s, t)'
  <1> DEFINE more == {f.id : f \in {g \in filed' : /\ g.source = s /\ g.type = t
                                        /\ g.time >= check'.began - Interval}}
  <1>1. FiledFor(s, t)' = more
    BY DEF FiledFor
  <1>2. FiledFor(s, t) \subseteq more /\ more \subseteq usedReadings'
    BY DEF FiledFor, FiledIdsKnown
  <1>3. IsFiniteSet(more)
    BY <1>2, FS_Subset DEF FiledIdsKnown
  <1>4. /\ Cardinality(FiledFor(s, t)) \in Nat /\ Cardinality(more) \in Nat
        /\ Cardinality(FiledFor(s, t)) <= Cardinality(more)
    BY <1>2, <1>3, FiledForKnown, FS_Subset, FS_CardinalityType
  <1>. QED
    BY <1>1, <1>4, NumbersOK DEF Enough

\* Rows over the standard of one type are as many readings filed of that type.
LEMMA ExcessIsEvidence ==
    ASSUME EvidenceInv, NEW t \in Excessive(check.over)
    PROVE  Enough(check.at, t)
  <1> DEFINE R == {row \in check.over : row.type = t}
             f == [row \in R |-> row.id]
             T == FiledFor(check.at, t)
  <1>1. ASSUME NEW row \in R PROVE row.id \in T
    <2> DEFINE g == Filing(row.id, t, check.at, row.time)
    <2>1. g \in filed /\ row.time >= check.began - Interval
      BY DEF EvidenceInv, RowsFiled, Rows
    <2>2. /\ g.id = row.id /\ g.source = check.at /\ g.type = t
          /\ g.time = row.time
      BY DEF Filing
    <2>. QED
      BY <2>1, <2>2 DEF FiledFor
  <1>2. \A a, b \in R : f[a] = f[b] => a = b
    BY DEF EvidenceInv, RowsDiffer, Rows
  <1>3. f \in Injection(R, T)
    BY <1>1, <1>2 DEF Injection, IsInjective
  <1>4. IsFiniteSet(T) /\ Cardinality(T) \in Nat
    BY FiledForKnown DEF EvidenceInv
  <1>. HIDE DEF f, T
  <1>5. IsFiniteSet(R) /\ Cardinality(R) <= Cardinality(T)
    BY <1>3, <1>4, FS_Injection
  <1>6. Cardinality(R) > LIMIT_COUNT /\ Cardinality(R) \in Nat
    BY <1>5, FS_CardinalityType DEF Excessive
  <1>. QED
    BY <1>4, <1>5, <1>6, NumbersOK DEF Enough, T

\* Steps that leave the check alone: what is filed may grow.
LEMMA EvidenceKept ==
    ASSUME EvidenceInv, UNCHANGED check, filed \subseteq filed',
           FiledIdsKnown', ReadingsFiled', now <= now', now \in Nat, now' \in Nat,
           check \in Check
    PROVE  EvidenceInv'
  <1>1. /\ check'.began <= now'
        /\ RowsFiled' /\ RowsDiffer' /\ RowsLetGo'
    BY DEF EvidenceInv, RowsFiled, RowsDiffer, RowsLetGo, Rows, Check, Time
  <1>2. NamesOnEvidence'
    BY EvidenceStays DEF EvidenceInv, NamesOnEvidence
  <1>3. WarnedOnEvidence'
    <2>1. \A s \in check.warn : \E t \in Types : Enough(s, t)
      BY DEF EvidenceInv, WarnedOnEvidence, Enough
    <2>2. \A s \in check.warn : \E t \in Types : Enough(s, t)'
      BY <2>1, EvidenceStays DEF EvidenceInv
    <2>. QED
      BY <2>2 DEF WarnedOnEvidence, Enough
  <1>. QED
    BY <1>1, <1>2, <1>3 DEF EvidenceInv

LEMMA FileEvidence ==
    ASSUME EvidenceInv, NEW id, NEW form, File(id, form),
           \/ UNCHANGED usedReadings /\ id \in usedReadings
           \/ usedReadings' = usedReadings \cup {id}
    PROVE  filed \subseteq filed' /\ FiledIdsKnown' /\ ReadingsFiled'
  <1>1. filed' = filed \cup {Filing(id, form.type, form.source, now)}
    BY DEF File, Filing
  <1>2. FiledIdsKnown'
    BY <1>1, FS_AddElement DEF EvidenceInv, FiledIdsKnown, Filing
  <1>3. ReadingsFiled'
    BY <1>1 DEF EvidenceInv, ReadingsFiled, File, Insert, Filing
  <1>. QED
    BY <1>1, <1>2, <1>3

\* Steps that leave readings and time alone.
LEMMA FiledAlone ==
    ASSUME EvidenceInv, UNCHANGED readingVars
    PROVE  filed \subseteq filed' /\ FiledIdsKnown' /\ ReadingsFiled'
  BY DEF EvidenceInv, FiledIdsKnown, ReadingsFiled, readingVars

\* Steps after which the check has nothing in its hands.
LEMMA EvidenceGone ==
    ASSUME EvidenceInv, UNCHANGED readingVars, now' \in Nat,
           check'.rows = {}, check'.over = {}, check'.warn = {},
           check'.names = {}, check'.began \in 0..now'
    PROVE  EvidenceInv'
  BY FiledAlone
  DEF EvidenceInv, RowsFiled, RowsDiffer, RowsLetGo, Rows, NamesOnEvidence,
      WarnedOnEvidence

\* Steps of a check that goes on, and files nothing.
LEMMA EvidenceCarried ==
    ASSUME EvidenceInv, UNCHANGED <<readingVars, now>>,
           check'.began = check.began,
           RowsFiled', RowsDiffer', RowsLetGo', NamesOnEvidence',
           \A s \in check'.warn : s \in check.warn \/ \E t \in Types : Enough(s, t)
    PROVE  EvidenceInv'
  <1>1. \A s, t : Enough(s, t)' <=> Enough(s, t)
    BY DEF Enough, FiledFor, readingVars
  <1>2. \A s \in check'.warn : \E t \in Types : Enough(s, t)'
    BY <1>1 DEF EvidenceInv, WarnedOnEvidence, Enough
  <1>3. WarnedOnEvidence'
    BY <1>2 DEF WarnedOnEvidence, Enough
  <1>. QED
    BY <1>3, FiledAlone DEF EvidenceInv

LEMMA ScanEvidence ==
    ASSUME TypeInv, EvidenceInv, NEW s \in Sources, Scan(s)
    PROVE  EvidenceInv'
  <1>0. check \in Check /\ now \in Nat /\ Interval \in Nat
    BY NumbersOK DEF TypeInv, CheckOK, ClockOK, Time
  <1>1. PICK page \in SUBSET InWindow(s) :
           check' = [check EXCEPT !.pc = "judge", !.left = @ \ {s}, !.at = s,
                                  !.rows = Load(page), !.over = {}]
    BY DEF Scan
  <1>2. /\ check'.pc = "judge" /\ check'.at = s /\ check'.rows = Load(page)
        /\ check'.over = {} /\ check'.warn = check.warn
        /\ check'.began = check.began
    BY <1>0, <1>1 DEF Check
  <1>3. RowsFiled'
    <2>1. ASSUME NEW id \in page
          PROVE  /\ Filing(id, reading[id].type, s, reading[id].time) \in filed
                 /\ reading[id].time >= check.began - Interval
      <3>1. /\ id \in DOMAIN reading /\ reading[id].source = s
            /\ reading[id].time >= now - Interval
        BY DEF InWindow
      <3>2. check.began \in Nat /\ reading[id].time \in Nat
        BY <1>0, <3>1, RowOfReading DEF Check, Time, TypeInv, ReadingRow
      <3>. QED
        BY <1>0, <3>1, <3>2 DEF EvidenceInv, ReadingsFiled
    <2>2. UNCHANGED filed
      BY DEF Scan, readingVars
    <2>. QED
      BY <1>2, <2>1, <2>2 DEF RowsFiled, Rows, Load, Filing
  <1>4. RowsDiffer'
    BY <1>2 DEF RowsDiffer, Rows, Load
  <1>5. RowsLetGo' /\ NamesOnEvidence'
    BY <1>2 DEF RowsLetGo, NamesOnEvidence
  <1>. QED
    BY <1>2, <1>3, <1>4, <1>5, EvidenceCarried DEF Scan, clockVars

LEMMA CheckStepEvidence ==
    ASSUME TypeInv, EvidenceInv, CheckStep
    PROVE  EvidenceInv'
  <1>. USE DEF clockVars
  <1>0. check \in Check /\ now \in Nat
    BY DEF TypeInv, CheckOK, ClockOK, Time
  <1>1. ASSUME StartCheck PROVE EvidenceInv'
    BY <1>0, <1>1, EvidenceGone DEF StartCheck, NoCheck
  <1>2. ASSUME FailToStart \/ FinishCheck PROVE EvidenceInv'
    BY <1>0, <1>2, EvidenceGone DEF FailToStart, FinishCheck, EndCheck, NoCheck
  <1>3. ASSUME NEW s \in Sources, Scan(s) PROVE EvidenceInv'
    BY <1>3, ScanEvidence
  <1>4. ASSUME NEW row \in check.rows, Judge(row) PROVE EvidenceInv'
    <2>1. /\ check.pc = "judge" /\ check'.pc = "judge"
          /\ check'.rows \cup check'.over \subseteq Rows
          /\ check'.at = check.at /\ check'.warn = check.warn
          /\ check'.began = check.began /\ UNCHANGED filed
      BY <1>0, <1>4 DEF Judge, Check, Rows, readingVars
    <2>2. RowsFiled' /\ RowsDiffer' /\ RowsLetGo' /\ NamesOnEvidence'
      BY <2>1
      DEF EvidenceInv, RowsFiled, RowsDiffer, RowsLetGo, NamesOnEvidence, Rows
    <2>. QED
      BY <1>4, <2>1, <2>2, EvidenceCarried DEF Judge
  <1>5. ASSUME Count PROVE EvidenceInv'
    <2>1. /\ check.pc = "judge" /\ check'.pc = "name"
          /\ check'.names = Excessive(check.over) /\ check.rows = {}
          /\ check'.rows = check.rows /\ check'.over = check.over
          /\ check'.at = check.at /\ check'.warn = check.warn
          /\ check'.began = check.began /\ UNCHANGED <<filed, readingVars, now>>
      BY <1>0, <1>5 DEF Count, Check, readingVars
    <2>2. RowsFiled' /\ RowsDiffer' /\ RowsLetGo'
      BY <2>1 DEF EvidenceInv, RowsFiled, RowsDiffer, RowsLetGo, Rows
    <2>3. \A t \in check'.names : Enough(check.at, t)
      BY <2>1, ExcessIsEvidence
    <2>4. NamesOnEvidence'
      BY <2>1, <2>3 DEF NamesOnEvidence, Enough, FiledFor
    <2>. QED
      BY <2>1, <2>2, <2>4, EvidenceCarried
  <1>6. ASSUME NEW t \in Types, LookUpName(t) PROVE EvidenceInv'
    <2>1. CASE t \in DOMAIN limit
      <3>1. /\ check.pc = "name" /\ t \in check.names
            /\ check' = [check EXCEPT !.names = @ \ {t},
                                      !.warn = @ \cup {check.at}]
        BY <1>6, <2>1 DEF LookUpName
      <3>2. /\ check'.pc = "name" /\ check'.names \subseteq check.names
            /\ check'.rows = check.rows /\ check'.over = check.over
            /\ check'.at = check.at /\ check'.warn = check.warn \cup {check.at}
            /\ check'.began = check.began /\ UNCHANGED <<filed, readingVars, now>>
        BY <1>0, <1>6, <3>1 DEF LookUpName, Check, readingVars
      <3>3. RowsFiled' /\ RowsDiffer' /\ RowsLetGo'
        BY <3>1, <3>2 DEF EvidenceInv, RowsFiled, RowsDiffer, RowsLetGo, Rows
      <3>4. \A u \in check.names : Enough(check.at, u)
        BY <3>1 DEF EvidenceInv, NamesOnEvidence
      <3>5. NamesOnEvidence'
        BY <3>2, <3>4 DEF NamesOnEvidence, Enough, FiledFor
      <3>. QED
        BY <3>1, <3>2, <3>3, <3>4, <3>5, EvidenceCarried
    <2>2. CASE t \notin DOMAIN limit
      BY <1>0, <1>6, <2>2, EvidenceGone DEF LookUpName, EndCheck, NoCheck
    <2>. QED
      BY <2>1, <2>2
  <1>7. ASSUME Proceed PROVE EvidenceInv'
    <2>1. /\ check.pc = "name" /\ check'.pc = "scan"
          /\ check'.rows = check.rows /\ check'.over = {}
          /\ check'.warn = check.warn
          /\ check'.began = check.began /\ UNCHANGED <<filed, readingVars, now>>
      BY <1>0, <1>7 DEF Proceed, Check, readingVars
    <2>2. check.rows = {}
      BY <2>1 DEF EvidenceInv, RowsLetGo
    <2>3. RowsFiled' /\ RowsDiffer' /\ RowsLetGo' /\ NamesOnEvidence'
      BY <2>1, <2>2 DEF RowsFiled, RowsDiffer, RowsLetGo, Rows, NamesOnEvidence
    <2>. QED
      BY <2>1, <2>3, EvidenceCarried
  <1>8. ASSUME WriteWarnWater \/ \E s \in Sources : WriteNotice(s)
        PROVE  EvidenceInv'
    <2>1. /\ check.pc \in {"scan", "record"} /\ check'.pc \in {"scan", "record"}
          /\ check'.rows = check.rows /\ check'.over = check.over
          /\ check'.warn \subseteq check.warn
          /\ check'.began = check.began /\ UNCHANGED <<filed, readingVars, now>>
      <3>1. CASE WriteWarnWater
        BY <1>0, <3>1 DEF WriteWarnWater, Check, readingVars
      <3>2. CASE \E s \in Sources : WriteNotice(s)
        BY <1>0, <3>2 DEF WriteNotice, Check, readingVars
      <3>. QED
        BY <1>8, <3>1, <3>2
    <2>2. check.rows = {} /\ check.over = {}
      BY <2>1 DEF EvidenceInv, RowsLetGo
    <2>3. RowsFiled' /\ RowsDiffer' /\ RowsLetGo' /\ NamesOnEvidence'
      BY <2>1, <2>2 DEF RowsFiled, RowsDiffer, RowsLetGo, Rows, NamesOnEvidence
    <2>. QED
      BY <2>1, <2>3, EvidenceCarried
  <1>. QED
    BY <1>1, <1>2, <1>3, <1>4, <1>5, <1>6, <1>7, <1>8 DEF CheckStep

LEMMA OthersEvidence ==
    ASSUME TypeInv, EvidenceInv,
           \/ Administer \/ Generate \/ Tick \/ Restart \/ UNCHANGED vars
           \/ \E r \in Requests : Serve(r)
           \/ \E key \in Keys : Expire(key)
    PROVE  EvidenceInv'
  <1>. USE DEF clockVars, checkVars, typeVars, sourceVars
  <1>0. check \in Check /\ now \in Nat
    BY DEF TypeInv, CheckOK, ClockOK, Time
  <1>1. ASSUME NEW id \in Readings, NEW form, File(id, form),
               UNCHANGED <<check, now>>,
               \/ UNCHANGED usedReadings /\ id \in usedReadings
               \/ usedReadings' = usedReadings \cup {id}
        PROVE  EvidenceInv'
    BY <1>0, <1>1, FileEvidence, EvidenceKept
  <1>2. ASSUME UNCHANGED <<readingVars, check>>, now' \in Nat, now <= now'
        PROVE  EvidenceInv'
    BY <1>0, <1>2, FiledAlone, EvidenceKept
  <1>3. ASSUME NEW id \in Readings, DeleteReading(id) PROVE EvidenceInv'
    <2>1. FiledIdsKnown'
      BY <1>3 DEF DeleteReading, EvidenceInv, FiledIdsKnown
    <2>2. /\ DOMAIN reading' \subseteq DOMAIN reading
          /\ \A k \in DOMAIN reading' : reading'[k] = reading[k]
          /\ UNCHANGED filed
      BY <1>3, DeleteRows DEF DeleteReading
    <2>3. ReadingsFiled'
      BY <2>2 DEF EvidenceInv, ReadingsFiled
    <2>. QED
      BY <1>0, <1>3, <2>1, <2>2, <2>3, EvidenceKept DEF DeleteReading
  <1>4. ASSUME NEW id \in Readings, NEW form \in Form, UpdateReading(id, form)
        PROVE  EvidenceInv'
    <2>1. id \in usedReadings
      BY <1>4, RowOfReading DEF UpdateReading, TypeInv
    <2>. QED
      BY <1>1, <1>4, <2>1 DEF UpdateReading
  <1>5. ASSUME NEW id \in Readings, NEW form \in Form, MakeReading(id, form)
        PROVE  EvidenceInv'
    <2>1. CASE form.type \in DOMAIN limit
      BY <1>1, <1>5, <2>1 DEF MakeReading
    <2>2. CASE form.type \notin DOMAIN limit
      BY <1>0, <1>2, <1>5, <2>2 DEF MakeReading
    <2>. QED
      BY <2>1, <2>2
  <1>6. ASSUME NEW r \in Requests, Serve(r) PROVE EvidenceInv'
    <2>1. ASSUME NEW id \in Readings, AddReading(r, id) PROVE EvidenceInv'
      BY <1>1, <2>1 DEF AddReading
    <2>2. ASSUME CheckSource(r) PROVE EvidenceInv'
      BY <1>0, <1>2, <2>2 DEF CheckSource
    <2>3. ASSUME ViewPut(r) PROVE EvidenceInv'
      BY <1>0, <1>2, <2>3 DEF ViewPut
    <2>4. ASSUME NEW form \in Form, CheckType(r, form) PROVE EvidenceInv'
      BY <1>0, <1>2, <2>4 DEF CheckType
    <2>5. ASSUME NEW id \in Readings, View(r, id) PROVE EvidenceInv'
      BY <1>0, <1>2, <2>5 DEF View
    <2>. QED
      BY <1>6, <2>1, <2>2, <2>3, <2>4, <2>5 DEF Serve
  <1>7. ASSUME StartMaking PROVE EvidenceInv'
    BY <1>0, <1>2, <1>7 DEF StartMaking
  <1>8. ASSUME \/ \E s \in Sources : AddSource(s) \/ DeleteSource(s)
               \/ \E t \in Types : \/ DeleteType(t)
                                   \/ \E v \in Values : AddType(t, v) \/ UpdateType(t, v)
        PROVE  EvidenceInv'
    BY <1>0, <1>2, <1>8
    DEF AddSource, DeleteSource, DeleteType, AddType, UpdateType, SetLimit
  <1>9. ASSUME Tick PROVE EvidenceInv'
    BY <1>0, <1>2, <1>9 DEF Tick
  <1>10. ASSUME Restart PROVE EvidenceInv'
    BY <1>0, <1>10, EvidenceGone DEF Restart, NoCheck
  <1>11. ASSUME UNCHANGED vars \/ \E key \in Keys : Expire(key)
         PROVE  EvidenceInv'
    BY <1>0, <1>2, <1>11 DEF vars, Expire
  <1>. QED
    BY <1>3, <1>4, <1>5, <1>6, <1>7, <1>8, <1>9, <1>10, <1>11
    DEF Administer, Generate

\* A source that is about to be warned of had more than LIMIT_COUNT readings of
\* one type filed for it within the window of the check, for any number of
\* readings, sources and types, whatever the cached verdicts say, and whatever
\* is corrected, deleted or cached under the check (AutoMaticJob.getWarnList).
THEOREM WarnedOnlyOnEvidence == Spec => []WarnedOnEvidence
  <1>1. TypeInv /\ EvidenceInv /\ [Next]_vars => EvidenceInv'
    BY CheckStepEvidence, OthersEvidence DEF Next
  <1>2. EvidenceInv => WarnedOnEvidence
    BY DEF EvidenceInv
  <1>. QED
    BY <1>1, <1>2, InitEvidence, AlwaysTyped, PTL DEF Spec
=============================================================================
