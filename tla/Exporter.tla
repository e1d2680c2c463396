------------------------------ MODULE Exporter ------------------------------
(***************************************************************************)
(* package reporting: the goroutine that uploads a workbook for every day  *)
(* and every month with business in it, and the run tables of package      *)
(* store it decides from.  It works at the start of the process and ten    *)
(* minutes into every day, while the handlers book business for that day.  *)
(* A period is loaded, uploaded and marked in three steps, a day is marked *)
(* in two tables, and a failure or a crash may come at each.               *)
(*                                                                         *)
(* Dates compare as numbers.  A workbook is the number of its rows: stays, *)
(* payments and audit entries are alike.                                   *)
(***************************************************************************)
EXTENDS Integers, FiniteSets, Functions

CONSTANTS
  Day,         \* the days on which business is done
  End,         \* stands for all the days after them
  MonthOf,     \* [Day \cup {End} -> Nat]
  MaxRows,     \* bound: business rows of a day
  Credentials, \* main was started with Google Drive credentials
  Faults       \* what may go wrong: see FaultKind

FaultKind == {"disk",      \* the export directory or the workbook cannot be written
              "upload",    \* the uploader cannot be made, or its upload fails
              "answer",    \* the upload is stored and its answer is lost
              "database",  \* a query or a statement on the run tables fails
              "config",    \* somebody changes the Drive settings
              "crash"}

ASSUME ExporterAssumption ==
  /\ Day \subseteq Nat /\ Day # {} /\ IsFiniteSet(Day)
  /\ End \in Nat /\ \A d \in Day : d < End
  /\ MonthOf \in [Day \cup {End} -> Nat]
  /\ \A d, e \in Day \cup {End} : d < e => MonthOf[d] <= MonthOf[e]
  /\ MaxRows \in Nat /\ Credentials \in BOOLEAN /\ Faults \subseteq FaultKind

VARIABLES
  today,       \* e.clock()
  rows,        \* business rows dated on each day
  enabled,     \* the Drive settings in app_settings can be used
  due,         \* the timer has fired
  pc,          \* where the goroutine is
  todo,        \* the periods its loop has yet to come to
  job,         \* the period it is working on
  reports,     \* the periods that report_runs has as "uploaded"
  exports,     \* the days that export_runs has as "uploaded"
  drive,       \* external: the files of each period, and the rows in the last
  doubted      \* history: periods whose uploaded file did not get marked

vars == <<today, rows, enabled, due, pc, todo, job, reports, exports, drive, doubted>>

Month  == {MonthOf[d] : d \in Day}
Daily(d)   == [kind |-> "daily", key |-> d]
Monthly(m) == [kind |-> "monthly", key |-> m]
Period == {Daily(d) : d \in Day} \cup {Monthly(m) : m \in Month}
Outcome == {"none", "failed", "exported_local", "uploaded"}

DaysOf(p) == IF p.kind = "daily" THEN {p.key} ELSE {d \in Day : MonthOf[d] = p.key}

\* The rows of the workbook: sameLocalDate, sameLocalMonth.
Workbook(p) == SumFunctionOnSet(rows, DaysOf(p))

NoJob == [period |-> CHOOSE p \in Period : TRUE, held |-> 0, outcome |-> "none"]
-----------------------------------------------------------------------------
Init ==
  /\ today = CHOOSE d \in Day : \A e \in Day : d <= e
  /\ rows = [d \in Day |-> 0]
  /\ enabled = Credentials
  /\ due = TRUE                    \* Start runs runPending at once
  /\ pc = "asleep" /\ todo = {} /\ job = NoJob
  /\ reports = {} /\ exports = {}
  /\ drive = [p \in Period |-> [files |-> 0, held |-> 0]]
  /\ doubted = {}

\* successfulReportPeriods
Successful(p) == p \in reports

\* CandidateDailyExportDates: days before today with business.
BugDailyCandidates == {Daily(d) : d \in {d \in Day : rows[d] > 0 /\ d <= today /\ ~Successful(Daily(d))}}
BugForgetful == {Daily(d) : d \in {d \in Day : rows[d] > 0 /\ d < today}}
DailyCandidates ==
  {Daily(d) : d \in {d \in Day : rows[d] > 0 /\ d < today /\ ~Successful(Daily(d))}}

\* CandidateMonthlyExportMonths: the earlier months of those days.
MonthlyCandidates ==
  {Monthly(m) : m \in {m \in {MonthOf[p.key] : p \in DailyCandidates} :
                         m < MonthOf[today] /\ ~Successful(Monthly(m))}}

\* A handler books business of the day.
Business ==
  /\ today \in Day /\ rows[today] < MaxRows
  /\ rows' = [rows EXCEPT ![today] = @ + 1]
  /\ UNCHANGED <<today, enabled, due, pc, todo, job, reports, exports, drive, doubted>>

\* Midnight, and ten past it.  nextRunAt is computed when the goroutine goes to sleep,
\* so a run that is still busy then is not followed by one of that day.
BugNextDay ==
  /\ today' = IF today + 1 \in Day THEN today + 1 ELSE End
  /\ UNCHANGED <<rows, enabled, due, pc, todo, job, reports, exports, drive, doubted>>
NextDay ==
  /\ today' = IF today + 1 \in Day THEN today + 1 ELSE End
  /\ due' = (pc = "asleep")
  /\ UNCHANGED <<rows, enabled, pc, todo, job, reports, exports, drive, doubted>>

\* SaveGoogleDriveConfig, called by handleGoogleDriveConfig.
Configure ==
  /\ "config" \in Faults
  /\ enabled' = ~enabled
  /\ UNCHANGED <<today, rows, due, pc, todo, job, reports, exports, drive, doubted>>

\* runPending looks for days; when the query fails it goes on to the months.
Wake ==
  /\ pc = "asleep" /\ due
  /\ due' = FALSE
  /\ pc' = "days"
  /\ todo' = DailyCandidates
  /\ UNCHANGED <<today, rows, enabled, job, reports, exports, drive, doubted>>

WakeFails ==
  /\ "database" \in Faults
  /\ pc = "asleep" /\ due
  /\ due' = FALSE
  /\ pc' = "days"
  /\ UNCHANGED <<today, rows, enabled, todo, job, reports, exports, drive, doubted>>

\* The days are done: the months.
LookForMonths ==
  /\ pc = "days" /\ todo = {}
  /\ \/ pc' = "months" /\ todo' = MonthlyCandidates
     \/ "database" \in Faults /\ pc' = "asleep" /\ UNCHANGED todo
  /\ UNCHANGED <<today, rows, enabled, due, job, reports, exports, drive, doubted>>

Sleep ==
  /\ pc = "months" /\ todo = {}
  /\ pc' = "asleep"
  /\ UNCHANGED <<today, rows, enabled, due, todo, job, reports, exports, drive, doubted>>

\* ExportDate or ExportMonth up to the uploader: load the data, write the
\* workbook, read the settings.
Load ==
  /\ pc \in {"days", "months"} /\ todo # {}
  /\ LET p == CHOOSE p \in todo : \A q \in todo : p.key <= q.key
     IN  /\ todo' = todo \ {p}
         /\ \/ /\ enabled
               /\ pc' = "upload"
               /\ job' = [period |-> p, held |-> Workbook(p), outcome |-> "none"]
            \/ /\ ~enabled
               /\ pc' = "mark"
               /\ job' = [period |-> p, held |-> Workbook(p), outcome |-> "exported_local"]
            \/ /\ Faults \cap {"disk", "database", "upload"} # {}
               /\ pc' = "mark"
               /\ job' = [period |-> p, held |-> 0, outcome |-> "failed"]
            \/ /\ "disk" \in Faults        \* MkdirAll: nothing is marked
               /\ UNCHANGED <<pc, job>>
  /\ UNCHANGED <<today, rows, enabled, due, reports, exports, drive, doubted>>

\* The file is on the Drive; Drive keeps files of one name side by side.
Stored ==
  drive' = [drive EXCEPT ![job.period] =
              [files |-> IF @.files < 2 THEN @.files + 1 ELSE 2, held |-> job.held]]

BugUpload ==
  /\ pc = "upload"
  /\ pc' = "mark"
  /\ job' = [job EXCEPT !.outcome = "done"]
  /\ Stored
  /\ UNCHANGED <<today, rows, enabled, due, todo, reports, exports, doubted>>
Upload ==
  /\ pc = "upload"
  /\ pc' = "mark"
  /\ job' = [job EXCEPT !.outcome = "uploaded"]
  /\ Stored
  /\ UNCHANGED <<today, rows, enabled, due, todo, reports, exports, doubted>>

BugUploadFails ==
  /\ pc = "upload"
  /\ pc' = "mark"
  /\ job' = [job EXCEPT !.outcome = "uploaded"]
  /\ UNCHANGED <<today, rows, enabled, due, todo, reports, exports, drive, doubted>>
UploadFails ==
  /\ pc = "upload"
  /\ pc' = "mark"
  /\ job' = [job EXCEPT !.outcome = "failed"]
  /\ \/ /\ "answer" \in Faults
        /\ Stored
        /\ doubted' = doubted \cup {job.period}
     \/ /\ "upload" \in Faults
        /\ UNCHANGED <<drive, doubted>>
  /\ UNCHANGED <<today, rows, enabled, due, todo, reports, exports>>

\* The upsert of one run: any other status replaces "uploaded" too.
Upsert(table, key) == IF job.outcome = "uploaded" THEN table \cup {key} ELSE table \ {key}

Return ==
  /\ pc' = IF job.period.kind = "daily" THEN "days" ELSE "months"
  /\ job' = NoJob

\* MarkReportRun, alone for a month and first in MarkExportRun for a day.
MarkReport ==
  /\ pc = "mark"
  /\ reports' = Upsert(reports, job.period)
  /\ IF job.period.kind = "daily" THEN pc' = "markExport" /\ UNCHANGED job ELSE Return
  /\ UNCHANGED <<today, rows, enabled, due, todo, exports, drive, doubted>>

\* MarkExportRun's own statement.
MarkExport ==
  /\ pc = "markExport"
  /\ exports' = Upsert(exports, job.period.key)
  /\ Return
  /\ UNCHANGED <<today, rows, enabled, due, todo, reports, drive, doubted>>

Unmarked == IF pc = "mark" /\ job.outcome = "uploaded" THEN doubted \cup {job.period} ELSE doubted

BugMarkFails ==
  /\ "database" \in Faults
  /\ pc = "mark" /\ job.period.kind = "daily"
  /\ pc' = "markExport"
  /\ UNCHANGED <<today, rows, enabled, due, todo, job, reports, exports, drive, doubted>>
MarkFails ==
  /\ "database" \in Faults
  /\ pc \in {"mark", "markExport"}
  /\ doubted' = Unmarked
  /\ Return
  /\ UNCHANGED <<today, rows, enabled, due, todo, reports, exports, drive>>

\* The process dies and main starts it again, saving its credentials anew.
Restart ==
  /\ "crash" \in Faults
  /\ enabled' = (enabled \/ Credentials)
  /\ due' = TRUE /\ pc' = "asleep" /\ todo' = {} /\ job' = NoJob
  /\ doubted' = Unmarked
  /\ UNCHANGED <<today, rows, reports, exports, drive>>

Next ==
  \/ Business \/ NextDay \/ Configure
  \/ Wake \/ WakeFails \/ LookForMonths \/ Sleep
  \/ Load \/ Upload \/ UploadFails \/ MarkReport \/ MarkExport \/ MarkFails
  \/ Restart

Spec == Init /\ [][Next]_vars

(***************************************************************************)
(* Days pass and the goroutine runs on.  Crashes, failing statements and   *)
(* failing uploads do not strike every attempt.                            *)
(***************************************************************************)
Fairness ==
  /\ WF_vars(NextDay) /\ WF_vars(LookForMonths) /\ WF_vars(Sleep)
  /\ SF_vars(Wake) /\ SF_vars(Load /\ pc' = "upload") /\ SF_vars(Upload)
  /\ SF_vars(MarkReport /\ job.outcome = "uploaded")
  /\ WF_vars(Load) /\ WF_vars(MarkReport) /\ WF_vars(MarkExport)

FairSpec == Spec /\ Fairness
-----------------------------------------------------------------------------
Job == [period: Period, held: Nat, outcome: Outcome]

TypeOK ==
  /\ today \in Day \cup {End}
  /\ rows \in [Day -> 0 .. MaxRows]
  /\ enabled \in BOOLEAN /\ due \in BOOLEAN
  /\ pc \in {"asleep", "days", "months", "upload", "mark", "markExport"}
  /\ todo \subseteq Period
  /\ job \in Job
  /\ reports \subseteq Period /\ exports \subseteq Day
  /\ drive \in [Period -> [files: 0 .. 2, held: Nat]]
  /\ doubted \subseteq Period

(***************************************************************************)
(* What report_runs calls uploaded is on the Drive, with every row of the  *)
(* day or the month in it, though business goes on during the run and the  *)
(* run is decided, loaded, uploaded and marked at four different times.    *)
(***************************************************************************)
UploadedIsComplete ==
  \A p \in Period : Successful(p) => drive[p].files > 0 /\ drive[p].held = Workbook(p)

(***************************************************************************)
(* A period is uploaded once: two files of one name are there only after   *)
(* an upload that could not be marked as done.                             *)
(***************************************************************************)
UploadedOnce == \A p \in Period \ doubted : drive[p].files <= 1

(***************************************************************************)
(* export_runs never says more than report_runs, from which the candidates *)
(* are taken: MarkExportRun writes report_runs first, and a day that is    *)
(* uploaded there is not exported again.  The other way round a crash      *)
(* between the statements does leave them apart, for good.                 *)
(***************************************************************************)
ExportRunsFollow == \A d \in Day : d \in exports => Successful(Daily(d))

(***************************************************************************)
(* Every day with business is uploaded in the end, through failing uploads *)
(* and crashes, once the Drive settings stay usable.                       *)
(***************************************************************************)
DaysUploaded ==
  <>[]enabled => \A d \in Day : (rows[d] > 0 /\ d < today) ~> Successful(Daily(d))

(***************************************************************************)
(* The dashboard, dashboard_home_screen.dart:734, calls the Drive folder   *)
(* the destination of the daily and the monthly export: so every month     *)
(* with business is uploaded in the end too.                               *)
(***************************************************************************)
MonthsUploaded ==
  <>[]enabled => \A m \in Month :
    (Workbook(Monthly(m)) > 0 /\ m < MonthOf[today]) ~> Successful(Monthly(m))
=============================================================================
