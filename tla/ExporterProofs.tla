--------------------------- MODULE ExporterProofs ---------------------------
(***************************************************************************)
(* What TLAPS proves of the exporter, for any days, months and faults.     *)
(*                                                                         *)
(* A period is decided on, loaded, uploaded and marked in different steps, *)
(* between which business goes on, days pass and the process dies.  What   *)
(* holds it together is that the goroutine only ever handles periods that  *)
(* are past and not marked yet: a past period gets no more business, so    *)
(* the workbook it loaded is still the workbook of that period when the    *)
(* upload is marked, and ever after.                                       *)
(***************************************************************************)
EXTENDS Exporter, SumProofs

Past(p) == IF p.kind = "daily" THEN p.key < today ELSE p.key < MonthOf[today]

Busy == pc \in {"upload", "mark", "markExport"}

\* The periods to come to are past and not marked, each is listed once.
TodoInv ==
  /\ \A p \in todo : Past(p) /\ ~Successful(p)
  /\ pc = "asleep" => todo = {}

\* So is the one worked on, and its workbook is still the right one.
JobInv ==
  Busy => /\ Past(job.period) /\ job.period \notin todo
          /\ pc # "markExport" => ~Successful(job.period)
          /\ pc = "upload" => job.held = Workbook(job.period)
          /\ pc = "markExport" => /\ job.period.kind = "daily"
                                  /\ job.outcome = "uploaded" <=> Successful(job.period)
          /\ (pc = "mark" /\ job.outcome = "uploaded") =>
               drive[job.period].files > 0 /\ drive[job.period].held = Workbook(job.period)

\* No marked period can get new rows.
MarkedArePast == \A p \in Period : Successful(p) => Past(p)

\* Files are there of marked periods, of the one about to be marked, and of doubted ones.
FilesKnown ==
  \A p \in Period \ doubted :
    drive[p].files > 0 =>
      \/ Successful(p)
      \/ pc = "mark" /\ job.outcome = "uploaded" /\ job.period = p

IInv ==
  /\ TypeOK /\ TodoInv /\ JobInv /\ MarkedArePast /\ FilesKnown
  /\ UploadedIsComplete /\ UploadedOnce /\ ExportRunsFollow

-----------------------------------------------------------------------------
\* A period's key says which day or month it is.
LEMMA Periods ==
  ASSUME NEW p \in Period
  PROVE  /\ p.key \in Nat /\ p.kind \in {"daily", "monthly"}
         /\ p.kind = "daily" => p.key \in Day /\ p = Daily(p.key)
         /\ p.kind = "monthly" => p.key \in Month /\ p = Monthly(p.key)
BY ExporterAssumption DEF Period, Daily, Monthly, Month

\* The goroutine at rest has a job of the right type, for there is a day.
LEMMA NoJobIsJob == NoJob \in Job
<1>1. Period # {}
  BY ExporterAssumption DEF Period
<1>2. QED
  BY <1>1 DEF NoJob, Job, Outcome

\* A set of numbers that is not empty has a least one.
LEMMA LeastExists ==
  ASSUME NEW K \in SUBSET Nat, K # {} PROVE \E k \in K : \A l \in K : k <= l
<1> DEFINE Less == OpToRel(<, Nat)
<1>1. IsWellFoundedOn(Less, Nat)
  BY NatLessThanWellFounded, Zenon
<1>2. \A l, k \in Nat : l < k => <<l, k>> \in Less
  BY DEF OpToRel
<1> HIDE DEF Less
<1>3. PICK k \in K : \A l \in K : <<l, k>> \notin Less
  BY <1>1, WFMin
<1>4. ASSUME NEW l \in K PROVE k <= l
  <2>1. k \in Nat /\ l \in Nat
    OBVIOUS
  <2>2. ~(l < k)
    BY <1>2, <1>3, <2>1
  <2>3. QED
    BY <2>1, <2>2
<1>5. QED
  BY <1>4

\* The first of the periods to come to.
LEMMA FirstExists ==
  ASSUME NEW P \in SUBSET Period, P # {}
  PROVE  \E p \in P : \A q \in P : p.key <= q.key
<1> DEFINE Keys == {p.key : p \in P}
<1>1. Keys \in SUBSET Nat /\ Keys # {}
  BY Periods
<1>2. PICK k \in Keys : \A l \in Keys : k <= l
  <2> HIDE DEF Keys
  <2>1. QED
    BY <1>1, LeastExists
<1>3. QED
  BY <1>2

\* A workbook only holds rows of its days.
LEMMA WorkbookDays ==
  ASSUME NEW p \in Period
  PROVE  /\ IsFiniteSet(DaysOf(p)) /\ DaysOf(p) \subseteq Day
         /\ Past(p) => \A d \in DaysOf(p) : today \in Day => d # today
<1>1. DaysOf(p) \subseteq Day
  BY Periods DEF DaysOf
<1>2. IsFiniteSet(DaysOf(p))
  BY <1>1, ExporterAssumption, FS_Subset
<1>3. ASSUME Past(p), NEW d \in DaysOf(p), today \in Day, d = today PROVE FALSE
  <2>1. p.kind = "daily" => p.key = d /\ p.key < today
    BY <1>3 DEF DaysOf, Past
  <2>2. p.kind # "daily" => p.key = MonthOf[d] /\ p.key < MonthOf[today]
    BY <1>3 DEF DaysOf, Past
  <2>3. MonthOf[today] \in Nat /\ today \in Nat
    BY <1>3, ExporterAssumption
  <2>4. QED
    BY <1>3, <2>1, <2>2, <2>3
<1>4. QED
  BY <1>1, <1>2, <1>3

\* The rows of a period are a number.
LEMMA WorkbookType ==
  ASSUME TypeOK, NEW p \in Period PROVE Workbook(p) \in Nat
<1>1. IsFiniteSet(DaysOf(p)) /\ \A d \in DaysOf(p) : rows[d] \in Nat
  <2>1. MaxRows \in Nat /\ \A d \in Day : rows[d] \in 0 .. MaxRows
    BY ExporterAssumption DEF TypeOK
  <2>2. \A d \in Day : rows[d] \in Nat
    BY <2>1
  <2>3. QED
    BY <2>2, WorkbookDays
<1>2. 0 \in Nat /\ \A a, b \in Nat : a + b \in Nat
  OBVIOUS
<1>3. Total(rows, DaysOf(p)) \in Nat
  BY <1>1, <1>2, TotalType
<1>4. QED
  BY <1>3 DEF Workbook, Total

\* Business of today does not change the workbook of a past period.
LEMMA WorkbookStands ==
  ASSUME TypeOK, Business, NEW p \in Period, Past(p) PROVE Workbook(p)' = Workbook(p)
<1>1. \A d \in DaysOf(p) : rows'[d] = rows[d]
  BY WorkbookDays DEF Business, TypeOK
<1>2. Total(rows', DaysOf(p)) = Total(rows, DaysOf(p))
  BY <1>1, WorkbookDays, TotalAgrees
<1>3. QED
  BY <1>2 DEF Workbook, Total, DaysOf

\* What is past stays past.
LEMMA PastStays ==
  ASSUME TypeOK, [Next]_vars, NEW p \in Period, Past(p) PROVE Past(p)'
<1>1. today' = today \/ NextDay
  BY DEF Next, vars, Business, Configure, Wake, WakeFails, LookForMonths, Sleep, Load, Upload,
         UploadFails, MarkReport, MarkExport, MarkFails, Restart
<1>2. CASE today' = today
  BY <1>2 DEF Past
<1>3. CASE NextDay
  <2>1. /\ today \in Day \cup {End} /\ today' \in Day \cup {End}
        /\ today \in Nat /\ today' \in Nat
    BY <1>3, ExporterAssumption DEF NextDay, TypeOK
  <2>2. today < today' \/ today = today'
    BY <1>3, <2>1, ExporterAssumption DEF NextDay
  <2>3. MonthOf[today] <= MonthOf[today'] /\ MonthOf[today] \in Nat /\ MonthOf[today'] \in Nat
    BY <2>1, <2>2, ExporterAssumption
  <2>4. p.key \in Nat
    BY Periods
  <2>5. QED
    BY <2>1, <2>2, <2>3, <2>4 DEF Past
<1>4. QED
  BY <1>1, <1>2, <1>3

\* The candidates are past and not marked.
LEMMA Candidates ==
  ASSUME TypeOK
  PROVE  /\ DailyCandidates \subseteq Period /\ MonthlyCandidates \subseteq Period
         /\ \A p \in DailyCandidates \cup MonthlyCandidates : Past(p) /\ ~Successful(p)
<1>1. ASSUME NEW p \in DailyCandidates
      PROVE  p \in Period /\ Past(p) /\ ~Successful(p) /\ p.key \in Day
  <2>1. PICK d \in Day : d < today /\ ~Successful(Daily(d)) /\ p = Daily(d)
    BY <1>1 DEF DailyCandidates
  <2>2. QED
    BY <2>1 DEF Daily, Period, Past
<1>2. ASSUME NEW p \in MonthlyCandidates PROVE p \in Period /\ Past(p) /\ ~Successful(p)
  <2>1. PICK m : /\ m \in {MonthOf[q.key] : q \in DailyCandidates}
                 /\ m < MonthOf[today] /\ ~Successful(Monthly(m)) /\ p = Monthly(m)
    BY <1>2 DEF MonthlyCandidates
  <2>2. m \in Month
    BY <1>1, <2>1 DEF Month
  <2>3. QED
    BY <2>1, <2>2 DEF Monthly, Period, Past
<1>3. QED
  BY <1>1, <1>2
-----------------------------------------------------------------------------
\* Nothing is reported, uploaded or under way at first.
LEMMA InitHolds == Init => IInv
<1> SUFFICES ASSUME Init PROVE IInv
  OBVIOUS
<1>1. today \in Day
  <2>1. \E k \in Day : \A l \in Day : k <= l
    BY ExporterAssumption, LeastExists
  <2>2. QED
    BY <2>1 DEF Init
<1>2. TypeOK
  BY <1>1, NoJobIsJob, ExporterAssumption DEF Init, TypeOK
<1>3. QED
  BY <1>2, NoJobIsJob DEF Init, IInv, TodoInv, JobInv, Busy, MarkedArePast, FilesKnown, Successful,
    UploadedIsComplete, UploadedOnce, ExportRunsFollow

\* Every action keeps the variables in their types.
LEMMA StepTypes == IInv /\ [Next]_vars => TypeOK'
<1> SUFFICES ASSUME IInv, [Next]_vars PROVE TypeOK'
  OBVIOUS
<1> USE ExporterAssumption
<1>0. TypeOK
  BY DEF IInv
<1>1. CASE Business
  BY <1>0, <1>1 DEF Business, TypeOK
<1>2. CASE NextDay
  BY <1>0, <1>2 DEF NextDay, TypeOK
<1>3. CASE Configure
  BY <1>0, <1>3 DEF Configure, TypeOK
<1>4. CASE Wake
  BY <1>0, <1>4, Candidates DEF Wake, TypeOK
<1>5. CASE WakeFails
  BY <1>0, <1>5 DEF WakeFails, TypeOK
<1>6. CASE LookForMonths
  BY <1>0, <1>6, Candidates DEF LookForMonths, TypeOK
<1>7. CASE Sleep
  BY <1>0, <1>7 DEF Sleep, TypeOK
<1>8. CASE Load
  <2>1. PICK p \in todo : 
           /\ todo' = todo \ {p}
           /\ \/ pc' \in {"upload", "mark"} /\ \E h \in {Workbook(p), 0} : \E o \in Outcome :
                    job' = [period |-> p, held |-> h, outcome |-> o]
              \/ UNCHANGED <<pc, job>>
    BY <1>0, <1>8, FirstExists DEF Load, TypeOK, Outcome
  <2>2. Workbook(p) \in Nat /\ p \in Period
    BY <1>0, <2>1, WorkbookType DEF TypeOK
  <2>3. job' \in Job
    BY <1>0, <2>1, <2>2 DEF Job, TypeOK
  <2>4. pc' \in {"asleep", "days", "months", "upload", "mark", "markExport"}
    BY <1>0, <2>1 DEF TypeOK
  <2>5. QED
    BY <1>0, <1>8, <2>1, <2>3, <2>4 DEF Load, TypeOK
<1>9. CASE Upload
  BY <1>0, <1>9 DEF Upload, Stored, TypeOK, Job, Outcome
<1>10. CASE UploadFails
  BY <1>0, <1>10 DEF UploadFails, Stored, TypeOK, Job, Outcome
<1>11. CASE MarkReport
  BY <1>0, <1>11, NoJobIsJob DEF MarkReport, Upsert, Return, TypeOK, Job
<1>12. CASE MarkExport
  <2>1. job.period.key \in Day
    BY <1>0, <1>12, Periods DEF MarkExport, IInv, JobInv, Busy, TypeOK, Job
  <2>2. QED
    BY <1>0, <1>12, <2>1, NoJobIsJob DEF MarkExport, Upsert, Return, TypeOK
<1>13. CASE MarkFails
  BY <1>0, <1>13, NoJobIsJob DEF MarkFails, Unmarked, Return, TypeOK, Job
<1>14. CASE Restart
  BY <1>0, <1>14, NoJobIsJob DEF Restart, Unmarked, TypeOK, Job
<1>15. CASE UNCHANGED vars
  BY <1>0, <1>15 DEF vars, TypeOK
<1>16. QED
  BY <1>1, <1>2, <1>3, <1>4, <1>5, <1>6, <1>7, <1>8, <1>9, <1>10, <1>11, <1>12, <1>13, <1>14,
     <1>15 DEF Next

\* Of a past period, neither the workbook nor its being past changes.
LEMMA PastStands ==
  IInv /\ [Next]_vars => \A p \in Period : Past(p) => Past(p)' /\ Workbook(p)' = Workbook(p)
<1> SUFFICES ASSUME IInv, [Next]_vars, NEW p \in Period, Past(p)
             PROVE  Past(p)' /\ Workbook(p)' = Workbook(p)
  OBVIOUS
<1>1. TypeOK
  BY DEF IInv
<1>2. CASE Business
  BY <1>1, <1>2, PastStays, WorkbookStands
<1>3. CASE rows' = rows
  BY <1>1, <1>3, PastStays DEF Workbook, DaysOf
<1>4. QED
  BY <1>2, <1>3 DEF Next, vars, NextDay, Configure, Wake, WakeFails, LookForMonths, Sleep, Load,
     Upload, UploadFails, MarkReport, MarkExport, MarkFails, Restart

\* Steps that leave the tables and the Drive alone, and with them what is said of the two.
Quiet == UNCHANGED <<reports, exports, drive, doubted>>

\* Steps that touch neither the goroutine's job nor tables and Drive keep what is said of those.
LEMMA QuietSteps ==
  IInv /\ [Next]_vars /\ Quiet => MarkedArePast' /\ UploadedIsComplete' /\ UploadedOnce' /\ ExportRunsFollow'
<1> SUFFICES ASSUME IInv, [Next]_vars, Quiet
             PROVE  MarkedArePast' /\ UploadedIsComplete' /\ UploadedOnce' /\ ExportRunsFollow'
  OBVIOUS
<1>1. MarkedArePast' /\ UploadedIsComplete'
  BY PastStands DEF IInv, Quiet, MarkedArePast, UploadedIsComplete, Successful
<1>2. UploadedOnce' /\ ExportRunsFollow'
  BY DEF IInv, Quiet, UploadedOnce, ExportRunsFollow, Successful
<1>3. QED
  BY <1>1, <1>2

\* Todo shrinks, except when Wake or LookForMonths fills it with periods that are over and due.
LEMMA StepTodo == IInv /\ [Next]_vars => TodoInv'
<1> SUFFICES ASSUME IInv, [Next]_vars PROVE TodoInv'
  OBVIOUS
<1> USE DEF TodoInv, Successful
<1>1. TypeOK /\ TodoInv /\ JobInv /\ \A p \in todo : p \in Period /\ Past(p)'
  BY PastStands DEF IInv, TypeOK
<1>2. CASE UNCHANGED <<todo, reports>> /\ (pc' = "asleep" => pc = "asleep" \/ todo = {})
  BY <1>1, <1>2
<1>3. CASE Wake \/ LookForMonths
  <2>1. todo' \subseteq DailyCandidates \cup MonthlyCandidates
    BY <1>1, <1>3 DEF Wake, LookForMonths
  <2>2. \A p \in todo' : p \in Period /\ Past(p)' /\ ~Successful(p)
    BY <1>1, <2>1, Candidates, PastStands
  <2>3. reports' = reports /\ (pc' = "asleep" => todo' = {})
    BY <1>1, <1>3 DEF Wake, LookForMonths
  <2>4. QED
    BY <2>2, <2>3
<1>4. CASE Load
  <2>1. todo' \subseteq todo /\ reports' = reports /\ pc' # "asleep"
    BY <1>4 DEF Load
  <2>2. QED
    BY <1>1, <2>1
<1>5. CASE MarkReport
  <2>1. todo' = todo /\ pc' # "asleep" /\ reports' \subseteq reports \cup {job.period}
    BY <1>5 DEF MarkReport, Upsert, Return
  <2>2. job.period \notin todo
    BY <1>1, <1>5 DEF MarkReport, JobInv, Busy
  <2>3. QED
    BY <1>1, <2>1, <2>2
<1>6. CASE Restart
  BY <1>6 DEF Restart
<1>7. QED
  <2>1. Business \/ NextDay \/ Configure \/ UNCHANGED vars =>
          UNCHANGED <<todo, reports>> /\ pc' = pc
    BY DEF Business, NextDay, Configure, vars
  <2>2. WakeFails \/ Sleep \/ Upload \/ UploadFails \/ MarkExport \/ MarkFails =>
          UNCHANGED <<todo, reports>> /\ (pc' = "asleep" => todo = {})
    BY DEF WakeFails, Sleep, Upload, UploadFails, MarkExport, MarkFails, Return
  <2>3. QED
    BY <1>2, <1>3, <1>4, <1>5, <1>6, <2>1, <2>2 DEF Next

\* Steps between which the goroutine is at rest, or on which it comes to rest.
LEMMA StepJob == IInv /\ [Next]_vars => JobInv'
<1> SUFFICES ASSUME IInv, [Next]_vars PROVE JobInv'
  OBVIOUS
<1> USE DEF JobInv, Successful
<1>1. TypeOK /\ TodoInv /\ JobInv /\ job.period \in Period
  BY DEF IInv, TypeOK, Job
<1>2. CASE ~Busy'
  BY <1>2
<1>3. CASE Busy' /\ UNCHANGED <<pc, job, todo, reports, drive>>
  <2>1. Busy
    BY <1>3 DEF Busy
  <2>2. Past(job.period)' /\ Workbook(job.period)' = Workbook(job.period)
    <3>1. \A p \in Period : Past(p) => Past(p)' /\ Workbook(p)' = Workbook(p)
      BY PastStands
    <3>2. PICK p \in Period : p = job.period /\ Past(p)
      BY <1>1, <2>1
    <3>3. Past(p)' /\ Workbook(p)' = Workbook(p)
      BY <3>1, <3>2
    <3>4. job'.period = p
      BY <1>3, <3>2
    <3>5. QED
      BY <3>2, <3>3, <3>4 DEF Past, Workbook, DaysOf
  <2>3. QED
    BY <1>1, <1>3, <2>1, <2>2
<1>4. CASE Busy' /\ Load
  <2>1. PICK p \in todo :
           /\ todo' = todo \ {p}
           /\ \/ pc' = "upload" /\ job' = [period |-> p, held |-> Workbook(p), outcome |-> "none"]
              \/ pc' = "mark" /\ job'.period = p /\ job'.outcome # "uploaded"
    <3>1. PICK p : p = CHOOSE q \in todo : \A r \in todo : q.key <= r.key
      OBVIOUS
    <3>2. p \in todo
      BY <1>1, <1>4, <3>1, FirstExists DEF Load, TypeOK
    <3>3. pc' = pc => ~Busy'
      BY <1>4 DEF Load, Busy
    <3>4. /\ todo' = todo \ {p}
          /\ \/ pc' = "upload" /\ job' = [period |-> p, held |-> Workbook(p), outcome |-> "none"]
             \/ pc' = "mark" /\ job' = [period |-> p, held |-> Workbook(p), outcome |-> "exported_local"]
             \/ pc' = "mark" /\ job' = [period |-> p, held |-> 0, outcome |-> "failed"]
             \/ pc' = pc
      BY <1>4, <3>1 DEF Load
    <3>5. QED
      BY <1>4, <3>2, <3>3, <3>4
  <2>2. Past(p)' /\ Workbook(p)' = Workbook(p) /\ ~Successful(p) /\ job'.period = p
    BY <1>1, <2>1, PastStands DEF TypeOK, TodoInv
  <2>3. reports' = reports /\ p \notin todo'
    BY <1>4, <2>1 DEF Load
  <2>4. Past(job.period)' /\ ~Successful(job.period)' /\ job'.period \notin todo'
    BY <2>2, <2>3 DEF Past
  <2>5. pc' = "upload" => job'.held = Workbook(job.period)'
    BY <2>1, <2>2 DEF Workbook, DaysOf
  <2>6. pc' \in {"upload", "mark"} /\ (pc' = "mark" => job'.outcome # "uploaded")
    BY <2>1
  <2>7. QED
    BY <2>4, <2>5, <2>6
<1>5. CASE Busy' /\ (Upload \/ UploadFails)
  <2>1. /\ UNCHANGED <<today, rows, todo, reports>> /\ pc = "upload" /\ pc' = "mark"
        /\ job'.period = job.period /\ job'.held = job.held
    BY <1>1, <1>5 DEF Upload, UploadFails, TypeOK, Job
  <2>2. Past(job.period) /\ ~Successful(job.period) /\ job.period \notin todo /\ job.held = Workbook(job.period)
    BY <1>1, <2>1 DEF Busy
  <2>3. job'.outcome = "uploaded" => drive'[job.period].files > 0 /\ drive'[job.period].held = job.held
    BY <1>1, <1>5 DEF Upload, UploadFails, Stored, TypeOK, Job
  <2>4. Past(job.period)' /\ Workbook(job.period)' = Workbook(job.period)
    BY <2>1, <2>2 DEF Past, Workbook, DaysOf
  <2>5. QED
    BY <2>1, <2>2, <2>3, <2>4
<1>6. CASE Busy' /\ MarkReport
  <2>1. job.period.kind = "daily" /\ pc' = "markExport" /\ pc = "mark" /\ UNCHANGED <<job, today, todo>>
    BY <1>6 DEF MarkReport, Return, Busy
  <2>2. Past(job.period)' /\ job'.period \notin todo'
    BY <1>1, <2>1 DEF Past, Busy
  <2>3. job.outcome = "uploaded" <=> job.period \in reports'
    BY <1>6 DEF MarkReport, Upsert
  <2>4. QED
    BY <2>1, <2>2, <2>3
<1>7. QED
  <2>1. Business \/ NextDay \/ Configure \/ UNCHANGED vars => UNCHANGED <<pc, job, todo, reports, drive>>
    BY DEF Business, NextDay, Configure, vars
  <2>2. Wake \/ WakeFails \/ LookForMonths \/ Sleep \/ MarkExport \/ MarkFails \/ Restart => ~Busy'
    BY DEF Wake, WakeFails, LookForMonths, Sleep, MarkExport, MarkFails, Restart, Return, Busy
  <2>3. QED
    BY <1>2, <1>3, <1>4, <1>5, <1>6, <2>1, <2>2 DEF Next

\* The steps that write to the tables or to the Drive.
LEMMA StepMarks ==
  IInv /\ [Next]_vars =>
    MarkedArePast' /\ FilesKnown' /\ UploadedIsComplete' /\ UploadedOnce' /\ ExportRunsFollow'
<1> SUFFICES ASSUME IInv, [Next]_vars
             PROVE  /\ MarkedArePast' /\ FilesKnown' /\ UploadedIsComplete'
                    /\ UploadedOnce' /\ ExportRunsFollow'
  OBVIOUS
<1> USE DEF Successful
<1>1. TypeOK /\ JobInv /\ MarkedArePast /\ FilesKnown /\ UploadedIsComplete /\ UploadedOnce /\ ExportRunsFollow
  BY DEF IInv
<1>2. job.period \in Period
  BY <1>1 DEF TypeOK, Job
<1>3. CASE Quiet /\ (pc = "mark" => UNCHANGED <<pc, job>>)
  <2>1. FilesKnown'
    BY <1>1, <1>3 DEF Quiet, FilesKnown
  <2>2. QED
    BY <1>3, <2>1, QuietSteps
<1>4. CASE Upload \/ (UploadFails /\ ~UNCHANGED <<drive, doubted>>)
  <2> DEFINE q == job.period
  <2>1. /\ UNCHANGED <<today, rows, reports, exports>> /\ pc = "upload" /\ pc' = "mark"
        /\ job'.period = q /\ Stored /\ q \notin reports
        /\ q \in doubted' \/ job'.outcome = "uploaded"
        /\ doubted \subseteq doubted'
    BY <1>1, <1>2, <1>4 DEF Upload, UploadFails, TypeOK, Job, JobInv, Busy
  <2>2. /\ drive' = [drive EXCEPT ![q] = [files |-> IF @.files < 2 THEN @.files + 1 ELSE 2, held |-> job.held]]
        /\ drive \in [Period -> [files : 0 .. 2, held : Nat]]
    BY <1>1, <2>1 DEF Stored, TypeOK
  <2> HIDE DEF q
  <2>3. \A p \in Period \ {q} : drive'[p] = drive[p]
    BY <2>2
  <2>4. drive'[q].files = IF drive[q].files < 2 THEN drive[q].files + 1 ELSE 2
    BY <1>2, <2>2 DEF q
  <2>5. MarkedArePast' /\ UploadedIsComplete' /\ ExportRunsFollow'
    BY <1>1, <2>1, <2>3 DEF MarkedArePast, Past, UploadedIsComplete, ExportRunsFollow, Workbook, DaysOf
  <2>6. q \notin doubted => drive[q].files = 0
    BY <1>1, <1>2, <2>1, <2>2 DEF FilesKnown, q
  <2>7. q \notin doubted' => drive'[q].files <= 1
    BY <2>1, <2>4, <2>6
  <2>8. UploadedOnce'
    BY <1>1, <2>1, <2>3, <2>7 DEF UploadedOnce
  <2>9. FilesKnown'
    BY <1>1, <2>1, <2>3 DEF FilesKnown
  <2>10. QED
    BY <2>5, <2>8, <2>9
<1>5. CASE MarkReport
  <2>1. /\ UNCHANGED <<today, rows, exports, drive, doubted>> /\ pc = "mark" /\ pc' # "mark"
        /\ job.period \notin reports /\ Past(job.period)
        /\ reports' = IF job.outcome = "uploaded" THEN reports \cup {job.period} ELSE reports
    BY <1>1, <1>2, <1>5 DEF MarkReport, Return, Upsert, JobInv, Busy
  <2>2. /\ reports \subseteq reports'
        /\ \A p \in reports' \ reports : p = job.period /\ job.outcome = "uploaded"
    BY <2>1
  <2>3. job.outcome = "uploaded" => drive[job.period].files > 0 /\ drive[job.period].held = Workbook(job.period)
    BY <1>1, <2>1 DEF JobInv, Busy
  <2>4. MarkedArePast'
    BY <1>1, <2>1, <2>2 DEF MarkedArePast, Past
  <2>5. UploadedIsComplete'
    BY <1>1, <2>1, <2>2, <2>3 DEF UploadedIsComplete, Workbook, DaysOf
  <2>6. UploadedOnce' /\ ExportRunsFollow'
    BY <1>1, <2>1, <2>2 DEF UploadedOnce, ExportRunsFollow
  <2>7. FilesKnown'
    BY <1>1, <2>1, <2>2 DEF FilesKnown
  <2>8. QED
    BY <2>4, <2>5, <2>6, <2>7
<1>6. CASE MarkExport
  <2>1. /\ UNCHANGED <<today, rows, reports, drive, doubted>> /\ pc = "markExport" /\ pc' # "mark"
        /\ job.period.kind = "daily" /\ (job.outcome = "uploaded" <=> job.period \in reports)
        /\ exports' = IF job.outcome = "uploaded" THEN exports \cup {job.period.key}
                                                   ELSE exports \ {job.period.key}
    BY <1>1, <1>6 DEF MarkExport, Return, Upsert, JobInv, Busy
  <2>2. job.period = Daily(job.period.key)
    BY <1>2, <2>1, Periods
  <2>3. ExportRunsFollow'
    BY <1>1, <2>1, <2>2 DEF ExportRunsFollow
  <2>4. MarkedArePast' /\ UploadedOnce' /\ FilesKnown'
    BY <1>1, <2>1 DEF MarkedArePast, Past, UploadedOnce, FilesKnown
  <2>5. UploadedIsComplete'
    BY <1>1, <2>1 DEF UploadedIsComplete, Workbook, DaysOf
  <2>6. QED
    BY <2>3, <2>4, <2>5
<1>7. CASE MarkFails \/ Restart
  <2>1. /\ UNCHANGED <<today, rows, reports, exports, drive>> /\ pc' # "mark"
        /\ doubted' = IF pc = "mark" /\ job.outcome = "uploaded" THEN doubted \cup {job.period} ELSE doubted
    BY <1>7 DEF MarkFails, Restart, Return, Unmarked
  <2>2. MarkedArePast' /\ UploadedOnce' /\ ExportRunsFollow'
    BY <1>1, <2>1 DEF MarkedArePast, Past, UploadedOnce, ExportRunsFollow
  <2>3. UploadedIsComplete'
    BY <1>1, <2>1 DEF UploadedIsComplete, Workbook, DaysOf
  <2>4. FilesKnown'
    BY <1>1, <2>1 DEF FilesKnown
  <2>5. QED
    BY <2>2, <2>3, <2>4
<1>8. QED
  <2>1. Business \/ NextDay \/ Configure \/ UNCHANGED vars => Quiet /\ UNCHANGED <<pc, job>>
    BY DEF Business, NextDay, Configure, vars, Quiet
  <2>2. Wake \/ WakeFails \/ LookForMonths \/ Sleep \/ Load => Quiet /\ pc # "mark"
    BY DEF Wake, WakeFails, LookForMonths, Sleep, Load, Quiet
  <2>3. UploadFails /\ UNCHANGED <<drive, doubted>> => Quiet /\ pc # "mark"
    BY DEF UploadFails, Quiet
  <2>4. QED
    BY <1>3, <1>4, <1>5, <1>6, <1>7, <2>1, <2>2, <2>3 DEF Next

\* The invariant is inductive: the four lemmas above, each conjunct at its actions.
LEMMA StepHolds == IInv /\ [Next]_vars => IInv'
BY StepTypes, StepTodo, StepJob, StepMarks DEF IInv
-----------------------------------------------------------------------------
\* The invariant of the goroutine holds in every behaviour.
LEMMA Invariant == Spec => []IInv
BY InitHolds, StepHolds, PTL DEF Spec

(* The goroutine, the run tables and the Drive are well-typed for every calendar and
   every set of faults. *)
THEOREM TypeCorrect == Spec => []TypeOK
<1>1. IInv => TypeOK
  BY DEF IInv
<1>2. QED
  BY <1>1, Invariant, PTL

(* What runPending marked uploaded is on the Drive with all that was booked in the
   period, whatever was booked while it ran and wherever it failed or crashed: candidates
   are days that ended, and the upload writes what the workbook held. *)
THEOREM UploadsComplete == Spec => []UploadedIsComplete
<1>1. IInv => UploadedIsComplete
  BY DEF IInv
<1>2. QED
  BY <1>1, Invariant, PTL

(* A period is on the Drive more than once only if an upload was not answered, or its mark
   failed or was cut off by a crash (doubted). *)
THEOREM OneUpload == Spec => []UploadedOnce
<1>1. IInv => UploadedOnce
  BY DEF IInv
<1>2. QED
  BY <1>1, Invariant, PTL

(* export_runs never says more than report_runs: MarkExportRun writes it second, and the
   mark that lies between is of the period in hand. *)
THEOREM RunTablesAgree == Spec => []ExportRunsFollow
<1>1. IInv => ExportRunsFollow
  BY DEF IInv
<1>2. QED
  BY <1>1, Invariant, PTL
=============================================================================
