------------------------------- MODULE Reports ------------------------------
(***************************************************************************)
(* The workbooks: which rows of the database the daily and the monthly     *)
(* workbook hold (package store) and what their summary sheets make of     *)
(* them (package reporting).  All of it is read from one database state;   *)
(* module Exporter has when a workbook is written and uploaded.            *)
(*                                                                         *)
(* A time is a second.  Days are DayLength seconds and months MonthDays    *)
(* days long, in the location of the exporter.  Sheets are functions from  *)
(* the key of a row to its columns: their order, titles and formats, the   *)
(* sheet of the rooms and the used minutes are left out.                   *)
(***************************************************************************)
EXTENDS Store

CONSTANTS DayLength, MonthDays

ASSUME ReportsAssumption == DayLength \in Nat \ {0} /\ MonthDays \in Nat \ {0}

DayOf(t)   == t \div DayLength
MonthOf(d) == d \div MonthDays

Day   == {DayOf(t) : t \in Time}
Month == {MonthOf(d) : d \in Day}

\* monthStart and monthEnd, as instants.
MonthStart(m) == m * MonthDays * DayLength
BugMonthEnd(m) == MonthStart(m + 1) - DayLength
MonthEnd(m)   == MonthStart(m + 1) - 1
-----------------------------------------------------------------------------
\* The times that place a stay; a NULL places nothing.
BugTimesOf(s) == {s.updated}
TimesOf(s)    == {s.in, s.out, s.cleaned, s.updated} \ {Null}

\* listStaysByDate and stayMatchesDate; listPaymentsByDate; listAuditByDate.
StaysOn(d)    == {s \in db.stays : \E t \in TimesOf(s) : DayOf(t) = d}
PaymentsOn(d) == {p \in db.payments : DayOf(p.at) = d}
AuditOn(d)    == {e \in db.audit : DayOf(e.at) = d}

\* listStaysByDateRange and stayMatchesDateRange compare instants with the ends
\* of the month; listPaymentsByMonth and listAuditByMonth compare months.
StaysIn(m) ==
  {s \in db.stays : \E t \in TimesOf(s) : MonthStart(m) <= t /\ t <= MonthEnd(m)}
PaymentsIn(m) == {p \in db.payments : MonthOf(DayOf(p.at)) = m}
AuditIn(m)    == {e \in db.audit : MonthOf(DayOf(e.at)) = m}

DailyWorkbook(d)   == [stays |-> StaysOn(d), payments |-> PaymentsOn(d), audit |-> AuditOn(d)]
MonthlyWorkbook(m) == [stays |-> StaysIn(m), payments |-> PaymentsIn(m), audit |-> AuditIn(m)]

\* CandidateDailyExportDates, once those days are over and nothing is uploaded yet:
\* the same times without last_updated_at.
BugCandidateDays ==
  {DayOf(t) : t \in ({s.in : s \in db.stays} \cup {s.out : s \in db.stays}
                       \cup {p.at : p \in db.payments}) \ {Null}}
CandidateDays ==
  {DayOf(t) : t \in ({s.in : s \in db.stays} \cup {s.out : s \in db.stays}
                       \cup {s.cleaned : s \in db.stays} \cup {p.at : p \in db.payments}
                       \cup {e.at : e \in db.audit}) \ {Null}}
-----------------------------------------------------------------------------
Paid(stays) == SumFunction([s \in stays |-> s.paid])

\* writeSummarySheet, writeMonthlySummarySheet
Summary(w) ==
  [stays |-> Cardinality(w.stays), payments |-> Cardinality(w.payments),
   total |-> Money(w.payments), audits |-> Cardinality(w.audit)]

\* writePaymentMethodSheet; the kind of a payment stands for its method.
ByMethod(w) ==
  [k \in {p.kind : p \in w.payments} |->
     LET rows == {p \in w.payments : p.kind = k}
     IN  [count |-> Cardinality(rows), amount |-> Money(rows)]]

\* writeMonthlyStayModeSheet and writeTopRoomsSheet
BugByMode(w) ==
  [k \in {s.mode : s \in w.stays} |->
     LET rows == {s \in w.stays : s.mode = k}
     IN  [count |-> Cardinality(rows), amount |-> (CHOOSE s \in rows : TRUE).paid]]
ByMode(w) ==
  [k \in {s.mode : s \in w.stays} |->
     LET rows == {s \in w.stays : s.mode = k} IN [count |-> Cardinality(rows), amount |-> Paid(rows)]]
ByRoom(w) ==
  [r \in {s.room : s \in w.stays} |->
     LET rows == {s \in w.stays : s.room = r} IN [count |-> Cardinality(rows), amount |-> Paid(rows)]]

\* writeMonthlyDailySummarySheet counts a stay under the first time it has.
BugCountedUnder(s) == {DayOf(t) : t \in TimesOf(s)}
CountedUnder(s) ==
  {DayOf(IF s.in # Null THEN s.in
         ELSE IF s.out # Null THEN s.out
         ELSE IF s.cleaned # Null THEN s.cleaned ELSE s.updated)}

DailySummary(m) ==
  LET w == MonthlyWorkbook(m)
      days == (UNION {CountedUnder(s) : s \in w.stays})
                \cup {DayOf(p.at) : p \in w.payments} \cup {DayOf(e.at) : e \in w.audit}
      Paying(d) == {p \in w.payments : DayOf(p.at) = d}
  IN  [d \in days |->
         [stays  |-> Cardinality({s \in w.stays : d \in CountedUnder(s)}),
          pays   |-> Cardinality(Paying(d)),
          amount |-> Money(Paying(d)),
          audits |-> Cardinality({e \in w.audit : DayOf(e.at) = d})]]
-----------------------------------------------------------------------------
(***************************************************************************)
(* Nothing booked goes unreported: once a day is over, everything that is  *)
(* dated on it is in the workbook of a day the exporter will come to, and  *)
(* it comes to no day for which the workbook has no audit entry.  The      *)
(* candidates and the workbooks are computed by different queries.         *)
(***************************************************************************)
NothingUnreported ==
  /\ \A d \in Day : d \in CandidateDays <=> AuditOn(d) # {}
  /\ \A s \in db.stays : \E d \in CandidateDays : s \in StaysOn(d)
  /\ \A s \in db.stays, t \in {"in", "out", "cleaned"} :
       s[t] # Null => s \in StaysOn(DayOf(s[t])) /\ DayOf(s[t]) \in CandidateDays
  /\ UNION {PaymentsOn(d) : d \in CandidateDays} = db.payments

(***************************************************************************)
(* A month is its days: the monthly workbook, which picks stays by the     *)
(* instants the month begins and ends at and the rest by the name of the   *)
(* month, holds what the daily workbooks of its days hold and no more, up  *)
(* to the last second of the month.                                        *)
(***************************************************************************)
MonthIsItsDays ==
  \A m \in Month :
    LET days == {d \in Day : MonthOf(d) = m}
    IN  /\ StaysIn(m)    = UNION {StaysOn(d) : d \in days}
        /\ PaymentsIn(m) = UNION {PaymentsOn(d) : d \in days}
        /\ AuditIn(m)    = UNION {AuditOn(d) : d \in days}

(***************************************************************************)
(* The summary by day of a month accounts for every row of its workbook    *)
(* once, agrees with the daily workbooks on what was paid and logged on    *)
(* each day, and has a day outside the month only for stays that began on  *)
(* it: a stay that goes on in the next month is counted there under a day  *)
(* of the month before.                                                    *)
(***************************************************************************)
SummaryTallies ==
  \A m \in Month :
    LET sheet == DailySummary(m)
    IN  /\ SumFunction([d \in DOMAIN sheet |-> sheet[d].stays]) = Summary(MonthlyWorkbook(m)).stays
        /\ \A d \in Day : MonthOf(d) = m /\ AuditOn(d) # {} => d \in DOMAIN sheet
        /\ \A d \in DOMAIN sheet :
             LET row == sheet[d]
             IN  IF MonthOf(d) = m
                   THEN /\ row.pays = Cardinality(PaymentsOn(d)) /\ row.amount = Money(PaymentsOn(d))
                        /\ row.audits = Cardinality(AuditOn(d))
                   ELSE /\ row.pays = 0 /\ row.audits = 0
                        /\ \E s \in StaysIn(m) : DayOf(s.in) = d

(***************************************************************************)
(* The sheets of money fit together: the amounts by mode and by room are   *)
(* what the check-in and extension payments of the listed stays add up to, *)
(* whichever period those payments are dated in, while the amounts by      *)
(* method are the payments of the period.  So the two differ by payments   *)
(* of other periods and by payments without a listed stay, and by nothing  *)
(* else.                                                                   *)
(***************************************************************************)
SheetsReconcile ==
  \A m \in Month :
    LET w == MonthlyWorkbook(m)
        Total(sheet) == SumFunction([k \in DOMAIN sheet |-> sheet[k].amount])
        stayPayments == {p \in db.payments : p.kind # "received"}
        ofStays   == {p \in stayPayments : \E s \in w.stays : s.id = p.stay}
        ofPeriod  == stayPayments \cap w.payments
        received  == w.payments \ ofPeriod
    IN  /\ Total(ByMode(w)) = Total(ByRoom(w))
        /\ Total(ByMethod(w)) = Summary(w).total
        /\ Summary(w).total - Money(received) - Total(ByMode(w))
             = Money(ofPeriod \ ofStays) - Money(ofStays \ ofPeriod)

(***************************************************************************)
(* What a workbook written again later may lose: a failed upload is tried  *)
(* again on another day, from the rows as they are by then.  Payments and  *)
(* audit entries stay, and so does a stay that began, ended or was cleaned *)
(* first on the day.  Only a stay that was extended on the day, or cleaned *)
(* once more, drops out when a later request moves its last update.        *)
(***************************************************************************)
LaterWorkbooksKeep ==
  [][db' # db => \A d \in Day :
       /\ PaymentsOn(d) \subseteq PaymentsOn(d)' /\ AuditOn(d) \subseteq AuditOn(d)'
       /\ \A s \in StaysOn(d) :
            \/ \E t \in StaysOn(d)' : t.id = s.id
            \/ /\ d \notin {DayOf(t) : t \in {s.in, s.out, s.cleaned} \ {Null}}
               /\ \E e \in AuditOn(d) :
                    e.room = s.room /\ e.action \in {"extend_stay", "finish_cleaning"}]_db
=============================================================================
