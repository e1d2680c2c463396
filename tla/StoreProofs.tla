------------------------------ MODULE StoreProofs ---------------------------
(***************************************************************************)
(* What Store promises for every set of rooms, request ids, times, stay    *)
(* lengths and amounts: types, rows with their audit entries, one effect   *)
(* of a request, payments of the room's own stays, and final history, all  *)
(* from one inductive invariant, that of LedgerProofs; and on top of it    *)
(* that amounts are booked, from the sums of SumProofs.                    *)
(*                                                                         *)
(* The second part is what Reports promises for every calendar: no booked  *)
(* row is missed by the exporter, months are their days, a workbook that   *)
(* is written again keeps its rows, and the sheets agree.  It rests on the *)
(* same invariant, by which every time in the tables is that of an audit   *)
(* entry, and on the arithmetic of days and months.                        *)
(***************************************************************************)
EXTENDS Reports, LedgerProofs, SumProofs

\* The tables are sound and finite, and their audit entries carry the times of requests.
StoreInv ==
  /\ Sound(db)
  /\ \A e \in db.audit : e.at \in Time
  /\ IsFiniteSet(db.payments) /\ IsFiniteSet(db.audit)

\* What a step of Next that changes the database does to it.
Books(id, room, action, at) == Booking(db, db', id, room, action, at)

\* Every step that changes the database is a booking; Service never does.
LEMMA StepBooks ==
  ASSUME Sound(db), Next, db' # db
  PROVE  \E id \in RequestId, room \in Room, action \in Action, at \in Time :
           Books(id, room, action, at)
<1>1. PICK id \in RequestId, at \in Time : (\E room \in Room : Book(id, room, at)) \/ Service(id, at)
  BY DEF Next
<1> at \in Nat \ {0}
  BY StoreAssumption
<1>2. ~Service(id, at)
  BY StoreAssumption DEF Service, RecordCommand, Commits
<1>3. PICK room \in Room : Book(id, room, at)
  BY <1>1, <1>2
<1> USE StoreAssumption DEF Books, Mode, Action
<1>4. CASE CheckIn(id, room, at)
  BY <1>4, CheckInBooks DEF CheckIn
<1>5. CASE CheckOut(id, room, at)
  BY <1>5, CheckOutBooks DEF CheckOut
<1>6. CASE Extend(id, room, at)
  BY <1>6, ExtendBooks DEF Extend
<1>7. CASE Payment(id, room, at)
  BY <1>7, PaymentBooks DEF Payment
<1>8. CASE Command(id, room, at)
  BY <1>8, CommandBooks DEF Command
<1>9. QED
  BY <1>3, <1>4, <1>5, <1>6, <1>7, <1>8 DEF Book

\* The transactions of all handlers keep the tables sound, in whatever order they come.
LEMMA StoreInvInductive == Spec => []StoreInv
<1>1. Init => StoreInv
  BY FS_EmptySet DEF Init, StoreInv, Sound, Tables, EmptyDatabase, Distinct, RoomRow, RoomStatus
<1>2. StoreInv /\ [Next]_db => StoreInv'
  <2> SUFFICES ASSUME StoreInv, Next, db' # db PROVE StoreInv'
    BY DEF StoreInv
  <2>1. PICK id \in RequestId, room \in Room, action \in Action, at \in Time :
          Books(id, room, action, at)
    BY StepBooks DEF StoreInv
  <2>2. Sound(db')
    BY <2>1, BookingKeepsSound, StoreAssumption DEF StoreInv, Books
  <2>3. \A e \in db'.audit : e.at \in Time
    BY <2>1 DEF StoreInv, Books, Booking, AuditRowOf
  <2>4. IsFiniteSet(db'.audit)
    <3>1. PICK entry : db'.audit = db.audit \cup {entry}
      BY <2>1 DEF Books, Booking
    <3>2. QED
      BY <3>1, FS_AddElement DEF StoreInv
  <2>5. IsFiniteSet(db'.payments)
    <3>1. PICK p : db'.payments \in SUBSET (db.payments \cup {p})
      BY <2>1 DEF Books, Booking
    <3>2. IsFiniteSet(db.payments \cup {p})
      BY FS_AddElement DEF StoreInv
    <3>3. QED
      BY <3>1, <3>2, FS_Subset
  <2>6. QED
    BY <2>2, <2>3, <2>4, <2>5 DEF StoreInv
<1>3. QED
  BY <1>1, <1>2, PTL DEF Spec

-----------------------------------------------------------------------------
\* Money as a total, whatever function stands for the amounts.
LEMMA MoneyIs ==
  ASSUME NEW P, IsFiniteSet(P), NEW f, \A p \in P : f[p] = p.amount
  PROVE  Money(P) = Total(f, P)
<1>1. PICK g : g = [p \in P |-> p.amount]
  OBVIOUS
<1>2. DOMAIN g = P /\ \A p \in P : g[p] = f[p]
  BY <1>1
<1>3. Total(g, P) = Total(f, P)
  BY <1>2, TotalAgrees
<1>4. QED
  BY <1>1, <1>2, <1>3, SumFunctionIs DEF Money

\* A sum of payments is an integer.
LEMMA MoneyType ==
  ASSUME NEW P \in SUBSET PaymentRow, IsFiniteSet(P) PROVE Money(P) \in Int
<1>1. PICK f : f = [p \in P |-> p.amount]
  OBVIOUS
<1>2. (\A p \in P : f[p] = p.amount /\ f[p] \in Int) /\ 0 \in Int /\ \A a, b \in Int : a + b \in Int
  BY <1>1 DEF PaymentRow
<1>3. Total(f, P) \in Int
  BY <1>2, TotalType
<1>4. QED
  BY <1>2, <1>3, MoneyIs

\* One more payment adds its amount.
LEMMA OneMorePayment ==
  ASSUME NEW P \in SUBSET PaymentRow, IsFiniteSet(P), NEW q \in PaymentRow, q \notin P
  PROVE  /\ IsFiniteSet(P \cup {q})
         /\ Money(P \cup {q}) = Money(P) + q.amount
<1>1. PICK R : R = P \cup {q}
  OBVIOUS
<1>2. IsFiniteSet(R) /\ q \in R /\ R \ {q} = P
  BY <1>1, FS_AddElement
<1>3. PICK f : f = [p \in R |-> p.amount]
  OBVIOUS
<1>4. (\A p \in R : f[p] \in Int /\ f[p] = p.amount) /\ (\A p \in P : f[p] = p.amount) /\ f[q] = q.amount
  BY <1>1, <1>3 DEF PaymentRow
<1>5. Total(f, R) = f[q] + Total(f, P)
  BY <1>2, <1>4, TotalAdds
<1>6. Money(R) = Total(f, R) /\ Money(P) = Total(f, P)
  BY <1>2, <1>4, MoneyIs
<1>7. Money(P) \in Int /\ q.amount \in Int
  BY MoneyType DEF PaymentRow
<1>8. QED
  BY <1>1, <1>2, <1>4, <1>5, <1>6, <1>7

\* The payments that make up the amount of a stay.
IsFee(p) == p.kind \in {"checkin", "extend"}
Fees(d, id) == {p \in d.payments : p.stay = id /\ IsFee(p)}

AmountsBooked(d) ==
  /\ IsFiniteSet(d.payments)
  /\ \A s \in d.stays : s.paid = Money(Fees(d, s.id))

\* A transaction that books no payment and changes no amount.
LEMMA AmountsStand ==
  ASSUME NEW d, AmountsBooked(d), NEW e, e.payments = d.payments,
         \A t \in e.stays : \E s \in d.stays : t.id = s.id /\ t.paid = s.paid
  PROVE  AmountsBooked(e)
BY DEF AmountsBooked, Fees

\* A transaction that may book one payment: a stay whose fee it is gets its amount.
LEMMA AmountsGrow ==
  ASSUME NEW d, AmountsBooked(d), d.payments \subseteq PaymentRow,
         NEW q \in PaymentRow, NEW fee \in SUBSET {q}, fee \cap d.payments = {},
         fee # {} \/ q.amount = 0,
         NEW e, e.payments = d.payments \cup fee,
         \A t \in e.stays :
           t.paid = Money(Fees(d, t.id)) + (IF q.stay = t.id /\ IsFee(q) THEN q.amount ELSE 0)
  PROVE  AmountsBooked(e)
<1>1. IsFiniteSet(d.payments) /\ IsFiniteSet(e.payments)
  <2>1. IsFiniteSet(d.payments) /\ IsFiniteSet(d.payments \cup {q})
    BY FS_AddElement DEF AmountsBooked
  <2>2. e.payments \in SUBSET (d.payments \cup {q})
    OBVIOUS
  <2>3. QED
    BY <2>1, <2>2, FS_Subset
<1>2. ASSUME NEW t \in e.stays PROVE t.paid = Money(Fees(e, t.id))
  <2>1. PICK P : P = Fees(d, t.id)
    OBVIOUS
  <2>2. P \in SUBSET PaymentRow /\ IsFiniteSet(P) /\ (q \in P => q \in d.payments)
    <3>1. P \subseteq d.payments
      BY <2>1 DEF Fees
    <3>2. QED
      BY <1>1, <3>1, FS_Subset
  <2>3. Money(P) \in Int /\ q.amount \in Int
    BY <2>2, MoneyType DEF PaymentRow
  <2>4. CASE fee = {q} /\ q.stay = t.id /\ IsFee(q)
    <3>1. Fees(e, t.id) = P \cup {q} /\ q \notin P
      BY <2>1, <2>2, <2>4 DEF Fees
    <3>2. Money(P \cup {q}) = Money(P) + q.amount
      BY <2>2, <3>1, OneMorePayment
    <3>3. QED
      BY <2>1, <2>4, <3>1, <3>2
  <2>5. CASE ~(fee = {q} /\ q.stay = t.id /\ IsFee(q))
    <3>1. Fees(e, t.id) = P
      BY <2>1, <2>5 DEF Fees
    <3>2. (IF q.stay = t.id /\ IsFee(q) THEN q.amount ELSE 0) = 0
      BY <2>5
    <3>3. QED
      BY <2>1, <2>3, <3>1, <3>2
  <2>6. QED
    BY <2>4, <2>5
<1>3. QED
  BY <1>1, <1>2 DEF AmountsBooked

\* A check-in or an extension books its amount, unless there is none.
LEMMA FeeIfAny ==
  ASSUME NEW id, NEW kind, NEW stay, NEW room, NEW amount \in Nat, NEW at,
         NEW q, q = PaymentRowOf(id, kind, stay, room, amount, at)
  PROVE  /\ PaymentIfAny(id, kind, stay, room, amount, at) = IF amount > 0 THEN {q} ELSE {}
         /\ amount > 0 \/ amount = 0
BY DEF PaymentIfAny

\* No payment names a stay that is not there yet.
LEMMA NoFeesYet ==
  ASSUME NEW d, Sound(d), NEW id \in RequestId, StayKeyFree(d, id)
  PROVE  Money(Fees(d, id)) = 0
<1>1. ASSUME NEW p \in d.payments, p.stay = id PROVE FALSE
  <2>1. p.stay # NoStay
    BY <1>1, LedgerAssumption DEF NoStay
  <2>2. \E s \in d.stays : s.id = p.stay
    BY <2>1 DEF Sound, PaymentHistory
  <2>3. QED
    BY <1>1, <2>2 DEF StayKeyFree
<1>2. PICK f : f = [p \in {} |-> p.amount]
  OBVIOUS
<1>3. Money({}) = Total(f, {})
  BY FS_EmptySet, MoneyIs
<1>4. QED
  BY <1>1, <1>3, TotalNone DEF Fees

\* A check-in opens a stay with the amount it books as payment.
LEMMA CheckInAmounts ==
  ASSUME NEW d, Sound(d), AmountsBooked(d), NEW id \in RequestId, NEW room \in Room,
         NEW mode \in StayMode \cup {NoMode}, NEW minutes \in Int, NEW amount \in Nat,
         NEW at \in Nat, NEW e, e = RecordCheckIn(d, id, room, mode, minutes, amount, at), e # d
  PROVE  AmountsBooked(e)
<1>1. PICK q : q = PaymentRowOf(id, "checkin", id, room, amount, at)
  OBVIOUS
<1>2. PICK fee : fee = PaymentIfAny(id, "checkin", id, room, amount, at)
  OBVIOUS
<1>3. /\ q \in PaymentRow /\ q.kind = "checkin" /\ q.stay = id /\ q.amount = amount /\ q.request = id
      /\ fee \in SUBSET {q} /\ (fee # {} => amount > 0) /\ (fee = {} => amount = 0)
  <2>1. fee = (IF amount > 0 THEN {q} ELSE {}) /\ (amount > 0 \/ amount = 0)
    BY <1>1, <1>2, FeeIfAny
  <2>2. fee \in SUBSET {q} /\ (fee # {} => amount > 0) /\ (fee = {} => amount = 0)
    BY <2>1
  <2>3. "checkin" \in PaymentKind /\ amount \in Int
    BY DEF PaymentKind
  <2>4. q \in PaymentRow /\ q.kind = "checkin" /\ q.stay = id /\ q.amount = amount /\ q.request = id
    BY <1>1, <2>3 DEF PaymentRowOf, PaymentRow
  <2>5. QED
    BY <2>2, <2>4
<1>4. d \in Tables /\ d.payments \subseteq PaymentRow /\ d.stays \subseteq StayRow
  BY DEF Sound, Tables
<1>5. /\ StayKeyFree(d, id) /\ (amount > 0 => PaymentKeyFree(d, id, "checkin"))
      /\ e.payments = d.payments \cup fee
      /\ \A t \in e.stays : t \in d.stays \/ (t.id = id /\ t.paid = amount)
  BY <1>2, <1>4 DEF RecordCheckIn, Tables
<1>6. fee \cap d.payments = {}
  BY <1>3, <1>5 DEF PaymentKeyFree
<1>7. ASSUME NEW t \in e.stays
      PROVE  t.paid = Money(Fees(d, t.id)) + (IF q.stay = t.id /\ IsFee(q) THEN q.amount ELSE 0)
  <2>1. CASE t \in d.stays
    BY <1>3, <1>4, <1>5, <2>1 DEF AmountsBooked, StayKeyFree, StayRow
  <2>2. CASE t.id = id /\ t.paid = amount
    BY <1>3, <1>5, <2>2, NoFeesYet DEF IsFee
  <2>3. QED
    BY <1>5, <2>1, <2>2
<1>8. QED
  BY <1>3, <1>4, <1>5, <1>6, <1>7, AmountsGrow

\* A check-out changes neither amounts nor payments.
LEMMA CheckOutAmounts ==
  ASSUME NEW d, Sound(d), AmountsBooked(d), NEW id, NEW room, NEW at,
         NEW e, e = RecordCheckOut(d, id, room, at), e # d
  PROVE  AmountsBooked(e)
<1>1. d \in Tables /\ d.stays \subseteq StayRow
  BY DEF Sound, Tables
<1>2. PICK active : active = ActiveStay(d, room)
  OBVIOUS
<1>3. /\ e.payments = d.payments
      /\ e.stays = {IF s.id = active
                      THEN [s EXCEPT !.status = "checked_out", !.out = at, !.updated = at]
                      ELSE s : s \in d.stays}
  BY <1>1, <1>2 DEF RecordCheckOut, Tables, UpdateStay
<1>4. ASSUME NEW t \in e.stays PROVE \E s \in d.stays : t.id = s.id /\ t.paid = s.paid
  BY <1>1, <1>3 DEF StayRow
<1>5. QED
  BY <1>3, <1>4, AmountsStand

\* An extension books what it adds to the stay.
LEMMA ExtendAmounts ==
  ASSUME NEW d, Sound(d), AmountsBooked(d), NEW id \in RequestId, NEW room \in Room,
         NEW mode \in StayMode \cup {NoMode}, NEW minutes \in Int, NEW amount \in Nat,
         NEW at \in Nat, NEW e, e = RecordExtend(d, id, room, mode, minutes, amount, at), e # d
  PROVE  AmountsBooked(e)
<1>1. PICK active : active = ActiveStay(d, room)
  OBVIOUS
<1>2. PICK q : q = PaymentRowOf(id, "extend", active, room, amount, at)
  OBVIOUS
<1>3. PICK fee : fee = PaymentIfAny(id, "extend", active, room, amount, at)
  OBVIOUS
<1>4. d \in Tables /\ d.payments \subseteq PaymentRow /\ d.stays \subseteq StayRow
  BY DEF Sound, Tables
<1>5. active \in RequestId \cup {NoStay}
  BY <1>1, <1>4, ActiveStayIsOpen DEF InUse, StayRow
<1>6. /\ q \in PaymentRow /\ q.kind = "extend" /\ q.stay = active /\ q.amount = amount /\ q.request = id
      /\ fee \in SUBSET {q} /\ (fee # {} => amount > 0) /\ (fee = {} => amount = 0)
  <2>1. fee = (IF amount > 0 THEN {q} ELSE {}) /\ (amount > 0 \/ amount = 0)
    BY <1>2, <1>3, FeeIfAny
  <2>2. fee \in SUBSET {q} /\ (fee # {} => amount > 0) /\ (fee = {} => amount = 0)
    BY <2>1
  <2>3. "extend" \in PaymentKind /\ amount \in Int
    BY DEF PaymentKind
  <2>4. q \in PaymentRow /\ q.kind = "extend" /\ q.stay = active /\ q.amount = amount /\ q.request = id
    BY <1>2, <1>5, <2>3 DEF PaymentRowOf, PaymentRow
  <2>5. QED
    BY <2>2, <2>4
<1>7. /\ amount > 0 => PaymentKeyFree(d, id, "extend")
      /\ e.payments = d.payments \cup fee
      /\ e.stays = {IF s.id = active
                      THEN [s EXCEPT !.mode = mode, !.allocated = minutes, !.paid = @ + amount,
                                     !.updated = at]
                      ELSE s : s \in d.stays}
  BY <1>1, <1>3, <1>4 DEF RecordExtend, Tables, UpdateStay
<1>8. fee \cap d.payments = {}
  BY <1>6, <1>7 DEF PaymentKeyFree
<1>9. ASSUME NEW t \in e.stays
      PROVE  t.paid = Money(Fees(d, t.id)) + (IF q.stay = t.id /\ IsFee(q) THEN q.amount ELSE 0)
  <2>1. PICK s \in d.stays : t = IF s.id = active
                      THEN [s EXCEPT !.mode = mode, !.allocated = minutes, !.paid = @ + amount,
                                     !.updated = at]
                      ELSE s
    BY <1>7
  <2>2. t.id = s.id /\ t.paid = s.paid + (IF s.id = active THEN amount ELSE 0)
    BY <1>4, <2>1 DEF StayRow
  <2>3. s.paid = Money(Fees(d, s.id))
    BY DEF AmountsBooked
  <2>4. QED
    BY <1>6, <2>2, <2>3 DEF IsFee
<1>10. QED
  BY <1>4, <1>6, <1>7, <1>8, <1>9, AmountsGrow

\* A payment of its own kind is no fee, and no stay's amount.
LEMMA PaymentAmounts ==
  ASSUME NEW d, Sound(d), AmountsBooked(d), NEW id \in RequestId, NEW room \in Room,
         NEW amount \in Nat, NEW at \in Nat,
         NEW e, e = RecordPayment(d, id, room, amount, at), e # d
  PROVE  AmountsBooked(e)
<1>1. PICK active : active = ActiveStay(d, room)
  OBVIOUS
<1>2. PICK q : q = PaymentRowOf(id, "received", active, room, amount, at)
  OBVIOUS
<1>3. d \in Tables /\ d.payments \subseteq PaymentRow /\ d.stays \subseteq StayRow
  BY DEF Sound, Tables
<1>4. active \in RequestId \cup {NoStay}
  BY <1>1, <1>3, ActiveStayIsOpen DEF InUse, StayRow
<1>5. q \in PaymentRow /\ q.kind = "received" /\ q.request = id
  <2>1. "received" \in PaymentKind /\ amount \in Int
    BY DEF PaymentKind
  <2>2. QED
    BY <1>2, <1>4, <2>1 DEF PaymentRowOf, PaymentRow
<1>6. PaymentKeyFree(d, id, "received") /\ e.payments = d.payments \cup {q} /\ e.stays = d.stays
  BY <1>1, <1>2, <1>3 DEF RecordPayment, Tables
<1>7. {q} \cap d.payments = {}
  BY <1>5, <1>6 DEF PaymentKeyFree
<1>8. ASSUME NEW t \in e.stays
      PROVE  t.paid = Money(Fees(d, t.id)) + (IF q.stay = t.id /\ IsFee(q) THEN q.amount ELSE 0)
  BY <1>3, <1>5, <1>6 DEF AmountsBooked, IsFee, StayRow
<1>9. {q} \in SUBSET {q} /\ {q} # {}
  OBVIOUS
<1>10. QED
  BY <1>3, <1>5, <1>6, <1>7, <1>8, <1>9, AmountsGrow

\* A room command touches no money.
LEMMA CommandAmounts ==
  ASSUME NEW d, Sound(d), AmountsBooked(d), NEW id, NEW room, NEW action, NEW at,
         NEW e, e = RecordCommand(d, id, room, action, at), e # d
  PROVE  AmountsBooked(e)
<1>1. d \in Tables /\ d.stays \subseteq StayRow
  BY DEF Sound, Tables
<1> DEFINE Clean(s) == [s EXCEPT !.cleaned = IF @ = Null THEN at ELSE @, !.updated = at]
           ended == LatestEnded(d, room)
<1>2. PICK rooms, audit :
        e = [d EXCEPT !.rooms = rooms,
                      !.stays = IF action = "finish_cleaning" THEN UpdateStay(@, ended, Clean)
                                                              ELSE @,
                      !.audit = audit]
  <2>1. PICK row, entry :
          e = [d EXCEPT !.rooms[room] = row,
                        !.stays = IF action = "finish_cleaning" THEN UpdateStay(@, ended, Clean)
                                                                ELSE @,
                        !.audit = @ \cup {entry}]
    BY DEF RecordCommand
  <2>2. QED
    BY <2>1
<1>3. /\ e.payments = d.payments
      /\ \/ e.stays = d.stays
         \/ e.stays = {IF s.id = ended THEN Clean(s) ELSE s : s \in d.stays}
  BY <1>1, <1>2 DEF Tables, UpdateStay
<1>4. ASSUME NEW t \in e.stays PROVE \E s \in d.stays : t.id = s.id /\ t.paid = s.paid
  BY <1>1, <1>3 DEF StayRow
<1>5. QED
  BY <1>3, <1>4, AmountsStand

\* Every transaction keeps the amounts booked.
LEMMA AmountsInductive ==
  ASSUME Amount \subseteq Nat PROVE Spec => []AmountsBooked(db)
<1>1. Init => AmountsBooked(db)
  BY FS_EmptySet DEF Init, EmptyDatabase, AmountsBooked
<1>2. StoreInv /\ AmountsBooked(db) /\ [Next]_db => AmountsBooked(db)'
  <2> SUFFICES ASSUME StoreInv, AmountsBooked(db), Next, db' # db PROVE AmountsBooked(db')
    BY DEF AmountsBooked, Fees, Money
  <2> USE DEF StoreInv
  <2>1. PICK id \in RequestId, at \in Time : (\E room \in Room : Book(id, room, at)) \/ Service(id, at)
    BY DEF Next
  <2> at \in Nat
    BY StoreAssumption
  <2>2. PICK room \in Room : Book(id, room, at)
    BY <2>1, StoreAssumption DEF Service, RecordCommand, Commits
  <2> USE StoreAssumption DEF Mode
  <2>3. CASE CheckIn(id, room, at)
    BY <2>3, CheckInAmounts DEF CheckIn
  <2>4. CASE CheckOut(id, room, at)
    BY <2>4, CheckOutAmounts DEF CheckOut
  <2>5. CASE Extend(id, room, at)
    BY <2>5, ExtendAmounts DEF Extend
  <2>6. CASE Payment(id, room, at)
    BY <2>6, PaymentAmounts DEF Payment
  <2>7. CASE Command(id, room, at)
    BY <2>7, CommandAmounts DEF Command
  <2>8. QED
    BY <2>2, <2>3, <2>4, <2>5, <2>6, <2>7 DEF Book
<1>3. QED
  BY <1>1, <1>2, StoreInvInductive, PTL DEF Spec

(***************************************************************************)
(* The amount of a stay is the sum of the payments that check-in and the   *)
(* extensions booked under it, to the end of all histories: the two are    *)
(* kept by different statements, UPDATE stays and INSERT INTO payments.    *)
(* That no amount is negative is a hypothesis, because only the cashier    *)
(* app sees to it: RecordCheckIn would add a negative amount to the stay   *)
(* and book no payment.                                                    *)
(***************************************************************************)
THEOREM AmountsAreBooked == ASSUME Amount \subseteq Nat PROVE Spec => []StayAmountIsBooked
<1>1. AmountsBooked(db) => StayAmountIsBooked
  BY DEF AmountsBooked, Fees, IsFee, StayAmountIsBooked
<1>2. QED
  BY <1>1, AmountsInductive, PTL
-----------------------------------------------------------------------------
(***************************************************************************)
(* Type correctness: in particular a payment is booked under a request id  *)
(* or under no stay, so findActiveStay always returned a row.              *)
(***************************************************************************)
THEOREM TypeCorrect == Spec => []TypeOK
<1>1. StoreInv => TypeOK
  BY DEF StoreInv, Sound, Tables, TypeOK
<1>2. QED
  BY <1>1, StoreInvInductive, PTL

(***************************************************************************)
(* No stay and no payment is in the tables without the audit entry of its  *)
(* request, though insertAudit is the last statement of a transaction.     *)
(***************************************************************************)
THEOREM RowsHaveAudit == Spec => []BusinessRowsAudited
<1>1. StoreInv => BusinessRowsAudited
  BY DEF StoreInv, Sound, StayHistory, PaymentHistory, ActionOf, BusinessRowsAudited
<1>2. QED
  BY <1>1, StoreInvInductive, PTL

(***************************************************************************)
(* A request id that comes again has no second effect: stays, payments and *)
(* audit entries carry it once each, and payments under one kind.          *)
(***************************************************************************)
THEOREM OneEffect == Spec => []RequestsBookedOnce
<1>1. StoreInv => RequestsBookedOnce
  BY DEF StoreInv, Sound, Distinct, RequestsBookedOnce
<1>2. QED
  BY <1>1, StoreInvInductive, PTL

(***************************************************************************)
(* A payment that insertPayment put under a stay is of the stay's room.    *)
(***************************************************************************)
THEOREM OwnStay == Spec => []PaymentsNameOwnStay
<1>1. StoreInv => PaymentsNameOwnStay
  BY DEF StoreInv, Sound, PaymentHistory, PaymentsNameOwnStay
<1>2. QED
  BY <1>1, StoreInvInductive, PTL

(***************************************************************************)
(* No later transaction rewrites a stay that was checked out, whatever its *)
(* time: UPDATEs by findActiveStay miss it and cleanings fill a NULL.      *)
(***************************************************************************)
THEOREM HistoryStands == Spec => EndedStaysFinal
<1>1. StoreInv /\ [Next]_db =>
        [db' # db => \A s \in db.stays :
           s.status = "checked_out" =>
             \E t \in db'.stays :
               t = [s EXCEPT !.updated = t.updated,
                             !.cleaned = IF @ = Null THEN t.cleaned ELSE @]]_db
  <2> SUFFICES ASSUME StoreInv, Next, db' # db, NEW s \in db.stays, s.status = "checked_out"
               PROVE  \E t \in db'.stays :
                        t = [s EXCEPT !.updated = t.updated,
                                      !.cleaned = IF @ = Null THEN t.cleaned ELSE @]
    OBVIOUS
  <2>1. PICK t \in db'.stays : Follows(s, t)
    BY StepBooks DEF StoreInv, Books, Booking
  <2>2. QED
    BY <2>1 DEF Follows
<1>2. QED
  BY <1>1, StoreInvInductive, PTL DEF Spec, EndedStaysFinal
-----------------------------------------------------------------------------
\* Division of natural numbers, which days and months are computed with.
LEMMA QuotientBounds ==
  ASSUME NEW n \in Nat, NEW k \in Nat \ {0}
  PROVE  n \div k \in Nat /\ (n \div k) * k <= n /\ n < (n \div k + 1) * k
OBVIOUS

\* Multiplication is monotonic.
LEMMA ProductGrows ==
  ASSUME NEW a \in Nat, NEW b \in Nat, NEW k \in Nat, a <= b
  PROVE  a * k <= b * k
OBVIOUS

\* The quotient is the only number whose multiples enclose n.
LEMMA QuotientIs ==
  ASSUME NEW n \in Nat, NEW k \in Nat \ {0}, NEW q \in Nat
  PROVE  n \div k = q <=> q * k <= n /\ n < (q + 1) * k
<1> DEFINE r == n \div k
<1>1. r \in Nat /\ r * k <= n /\ n < (r + 1) * k
  BY QuotientBounds
<1> HIDE DEF r
<1>2. ASSUME q * k <= n, n < (q + 1) * k PROVE q = r
  <2>1. CASE q + 1 <= r
    <3>1. (q + 1) * k <= r * k
      BY <1>1, <2>1, ProductGrows
    <3>2. q * k \in Nat /\ r * k \in Nat /\ (q + 1) * k \in Nat
      BY <1>1
    <3>3. QED
      BY <1>1, <1>2, <3>1, <3>2
  <2>2. CASE r + 1 <= q
    <3>1. (r + 1) * k <= q * k
      BY <1>1, <2>2, ProductGrows
    <3>2. q * k \in Nat /\ r * k \in Nat /\ (r + 1) * k \in Nat
      BY <1>1
    <3>3. QED
      BY <1>1, <1>2, <3>1, <3>2
  <2>3. QED
    BY <1>1, <2>1, <2>2
<1>3. QED
  BY <1>1, <1>2 DEF r

\* monthStart and monthEnd enclose exactly the instants whose day is in the month.
LEMMA MonthByInstants ==
  ASSUME NEW t \in Nat, NEW m \in Nat
  PROVE  MonthOf(DayOf(t)) = m <=> MonthStart(m) <= t /\ t <= MonthEnd(m)
<1> USE ReportsAssumption
<1> DEFINE d == DayOf(t)
           L == DayLength
           first == m * MonthDays
           next == (m + 1) * MonthDays
<1>1. d \in Nat /\ d * L <= t /\ t < (d + 1) * L
  BY QuotientBounds DEF DayOf
<1>2. first \in Nat /\ next \in Nat /\ first * L \in Nat /\ next * L \in Nat
  OBVIOUS
<1>3. MonthOf(d) = m <=> first <= d /\ d < next
  <2> HIDE DEF d
  <2>1. QED
    BY <1>1, QuotientIs DEF MonthOf
<1>4. MonthStart(m) = first * L /\ MonthEnd(m) = next * L - 1
  BY DEF MonthStart, MonthEnd
<1> HIDE DEF first, next, d, L
<1>5. first <= d <=> first * L <= t
  <2>1. L \in Nat /\ d * L \in Nat /\ (d + 1) * L \in Nat
    BY <1>1 DEF L
  <2>2. ASSUME first <= d PROVE first * L <= t
    <3>1. first * L <= d * L
      BY <1>1, <1>2, <2>1, <2>2, ProductGrows
    <3>2. QED
      BY <1>1, <1>2, <2>1, <3>1
  <2>3. ASSUME d + 1 <= first PROVE t < first * L
    <3>1. (d + 1) * L <= first * L
      BY <1>1, <1>2, <2>1, <2>3, ProductGrows
    <3>2. QED
      BY <1>1, <1>2, <2>1, <3>1
  <2>4. QED
    BY <1>1, <1>2, <2>2, <2>3
<1>6. d < next <=> t < next * L
  <2>1. L \in Nat /\ d * L \in Nat /\ (d + 1) * L \in Nat
    BY <1>1 DEF L
  <2>2. ASSUME next <= d PROVE next * L <= t
    <3>1. next * L <= d * L
      BY <1>1, <1>2, <2>1, <2>2, ProductGrows
    <3>2. QED
      BY <1>1, <1>2, <2>1, <3>1
  <2>3. ASSUME d + 1 <= next PROVE t < next * L
    <3>1. (d + 1) * L <= next * L
      BY <1>1, <1>2, <2>1, <2>3, ProductGrows
    <3>2. QED
      BY <1>1, <1>2, <2>1, <3>1
  <2>4. QED
    BY <1>1, <1>2, <2>2, <2>3
<1>7. QED
  BY <1>2, <1>3, <1>4, <1>5, <1>6 DEF d

-----------------------------------------------------------------------------
\* Every time of the tables is that of an audit entry.
AuditTimes == {e.at : e \in db.audit}

\* The times of stays and payments are the times of requests, none of them NULL.
LEMMA TimesAreAudited ==
  ASSUME StoreInv
  PROVE  /\ \A s \in db.stays : TimesOf(s) \subseteq AuditTimes /\ s.in \in TimesOf(s)
         /\ \A p \in db.payments : p.at \in AuditTimes
         /\ AuditTimes \subseteq Time /\ Null \notin AuditTimes
<1>1. AuditTimes \subseteq Time /\ Null \notin AuditTimes
  BY DEF StoreInv, Sound, AuditTimes
<1>2. \A p \in db.payments : p.at \in AuditTimes
  BY DEF StoreInv, Sound, PaymentHistory, AuditTimes
<1>3. ASSUME NEW s \in db.stays
      PROVE  TimesOf(s) \subseteq AuditTimes /\ s.in \in TimesOf(s)
  <2>1. StayHistory(db, s)
    BY DEF StoreInv, Sound
  <2>2. QED
    BY <1>1, <2>1 DEF StayHistory, Logged, AuditTimes, TimesOf
<1>4. QED
  BY <1>1, <1>2, <1>3

(***************************************************************************)
(* Every stay and payment is in the workbook of a day that                 *)
(* CandidateDailyExportDates returns, and it returns no empty day.         *)
(***************************************************************************)
THEOREM EverythingReported == Spec => []NothingUnreported
<1>1. ASSUME StoreInv PROVE NothingUnreported
  <2>1. \A t \in AuditTimes : DayOf(t) \in CandidateDays
    BY <1>1, TimesAreAudited DEF CandidateDays, AuditTimes
  <2>2. \A d \in CandidateDays : AuditOn(d) # {}
    <3>1. ASSUME NEW s \in db.stays
          PROVE  {s.in, s.out, s.cleaned} \ {Null} \subseteq AuditTimes
      BY <1>1, TimesAreAudited DEF TimesOf
    <3>2. \A d \in CandidateDays : \E t \in AuditTimes : DayOf(t) = d
      BY <1>1, <3>1, TimesAreAudited DEF CandidateDays, AuditTimes
    <3>3. QED
      BY <3>2 DEF AuditTimes, AuditOn
  <2>3. \A d : AuditOn(d) # {} => d \in CandidateDays
    BY <2>1 DEF AuditOn, AuditTimes
  <2>4. ASSUME NEW s \in db.stays, NEW t \in TimesOf(s)
        PROVE  s \in StaysOn(DayOf(t)) /\ DayOf(t) \in CandidateDays
    BY <1>1, <2>1, TimesAreAudited DEF StaysOn
  <2>5. \A s \in db.stays : \E d \in CandidateDays : s \in StaysOn(d)
    BY <1>1, <2>4, TimesAreAudited
  <2>6. ASSUME NEW s \in db.stays, NEW t \in {"in", "out", "cleaned"}, s[t] # Null
        PROVE  s[t] \in TimesOf(s)
    BY <2>6 DEF TimesOf
  <2>7. \A p \in db.payments : DayOf(p.at) \in CandidateDays
    BY <1>1, <2>1, TimesAreAudited
  <2>8. UNION {PaymentsOn(d) : d \in CandidateDays} = db.payments
    BY <2>7 DEF PaymentsOn
  <2>9. QED
    BY <2>2, <2>3, <2>4, <2>5, <2>6, <2>8 DEF NothingUnreported
<1>2. QED
  BY <1>1, StoreInvInductive, PTL

(***************************************************************************)
(* The queries by the instants and by the name of a month pick what those  *)
(* of its days pick, for every length of days and months.                  *)
(***************************************************************************)
THEOREM MonthsAreDays == Spec => []MonthIsItsDays
<1>1. ASSUME StoreInv PROVE MonthIsItsDays
  <2> SUFFICES ASSUME NEW m \in Month
               PROVE  LET days == {d \in Day : MonthOf(d) = m}
                      IN  /\ StaysIn(m)    = UNION {StaysOn(d) : d \in days}
                          /\ PaymentsIn(m) = UNION {PaymentsOn(d) : d \in days}
                          /\ AuditIn(m)    = UNION {AuditOn(d) : d \in days}
    BY DEF MonthIsItsDays
  <2> DEFINE days == {d \in Day : MonthOf(d) = m}
  <2>1. m \in Nat
    BY StoreAssumption, ReportsAssumption, QuotientBounds DEF Month, Day, DayOf, MonthOf
  <2>2. \A t \in AuditTimes : DayOf(t) \in Day /\ t \in Nat
    BY <1>1, TimesAreAudited, StoreAssumption DEF Day
  <2>3. StaysIn(m) = UNION {StaysOn(d) : d \in days}
    <3>1. \A s \in db.stays : \A t \in TimesOf(s) :
            MonthOf(DayOf(t)) = m <=> MonthStart(m) <= t /\ t <= MonthEnd(m)
      BY <1>1, <2>1, <2>2, TimesAreAudited, MonthByInstants
    <3>2. \A s \in db.stays : \A t \in TimesOf(s) : DayOf(t) \in Day
      BY <1>1, <2>2, TimesAreAudited
    <3>3. QED
      BY <3>1, <3>2 DEF StaysIn, StaysOn
  <2>4. PaymentsIn(m) = UNION {PaymentsOn(d) : d \in days}
    BY <1>1, <2>2, TimesAreAudited DEF PaymentsIn, PaymentsOn
  <2>5. AuditIn(m) = UNION {AuditOn(d) : d \in days}
    BY <1>1, <2>2, TimesAreAudited DEF AuditIn, AuditOn, AuditTimes
  <2>6. QED
    BY <2>3, <2>4, <2>5
<1>2. QED
  BY <1>1, StoreInvInductive, PTL

\* What LaterWorkbooksKeep says of a stay.
Dated(s) == {s.in, s.out, s.cleaned} \ {Null}

KeptOrMoved(d, s) ==
  \/ \E t \in StaysOn(d)' : t.id = s.id
  \/ /\ d \notin {DayOf(t) : t \in Dated(s)}
     /\ \E e \in AuditOn(d) : e.room = s.room /\ e.action \in {"extend_stay", "finish_cleaning"}

(***************************************************************************)
(* A workbook written again later has lost nothing but stays whose last    *)
(* update alone was of its day, an extension or a cleaning.                *)
(***************************************************************************)
THEOREM WorkbooksKeep == Spec => LaterWorkbooksKeep
<1>1. ASSUME StoreInv, Next, db' # db, NEW d \in Day
      PROVE  /\ PaymentsOn(d) \subseteq PaymentsOn(d)' /\ AuditOn(d) \subseteq AuditOn(d)'
             /\ \A s \in StaysOn(d) : KeptOrMoved(d, s)
  <2>1. PICK id \in RequestId, room \in Room, action \in Action, at \in Time :
          Booking(db, db', id, room, action, at)
    BY <1>1, StepBooks DEF StoreInv, Books
  <2>2. PaymentsOn(d) \subseteq PaymentsOn(d)' /\ AuditOn(d) \subseteq AuditOn(d)'
    BY <2>1 DEF PaymentsOn, AuditOn, Booking
  <2>3. ASSUME NEW s \in StaysOn(d) PROVE KeptOrMoved(d, s)
    <3> s \in db.stays
      BY DEF StaysOn
    <3>1. PICK t \in db'.stays : Follows(s, t)
      BY <2>1 DEF Booking
    <3>2. CASE d \in {DayOf(x) : x \in Dated(s)}
      <4>1. PICK x \in Dated(s) : DayOf(x) = d
        BY <3>2
      <4>2. x \in TimesOf(t)
        BY <3>1 DEF Follows, TimesOf, Dated
      <4>3. t \in StaysOn(d)' /\ t.id = s.id
        BY <3>1, <4>1, <4>2 DEF StaysOn, Follows, DayOf, TimesOf
      <4>4. QED
        BY <4>3 DEF KeptOrMoved
    <3>3. CASE d \notin {DayOf(x) : x \in Dated(s)}
      <4>1. s.updated \notin Dated(s) /\ DayOf(s.updated) = d
        BY <3>3 DEF StaysOn, TimesOf, Dated
      <4>2. \E e \in db.audit : /\ e.room = s.room /\ e.at = s.updated
                                /\ e.action \in {"extend_stay", "finish_cleaning"}
        BY <1>1, <4>1 DEF StoreInv, Sound, StayHistory, Logged, Dated
      <4>3. QED
        BY <3>3, <4>1, <4>2 DEF AuditOn, KeptOrMoved
    <3>4. QED
      BY <3>2, <3>3
  <2>4. QED
    BY <2>2, <2>3
<1>2. StoreInv /\ [Next]_db =>
        [db' # db => \A d \in Day :
           /\ PaymentsOn(d) \subseteq PaymentsOn(d)' /\ AuditOn(d) \subseteq AuditOn(d)'
           /\ \A s \in StaysOn(d) : KeptOrMoved(d, s)]_db
  BY <1>1
<1>3. QED
  BY <1>2, StoreInvInductive, PTL DEF Spec, LaterWorkbooksKeep, KeptOrMoved, Dated
-----------------------------------------------------------------------------
\* The workbook of a month is a part of the tables, and finite.
LEMMA WorkbookRows ==
  ASSUME StoreInv, NEW m
  PROVE  /\ IsFiniteSet(StaysIn(m)) /\ StaysIn(m) \subseteq db.stays
         /\ IsFiniteSet(PaymentsIn(m)) /\ PaymentsIn(m) \subseteq db.payments
         /\ IsFiniteSet(AuditIn(m)) /\ AuditIn(m) \subseteq db.audit
         /\ db.stays \subseteq StayRow /\ db.payments \subseteq PaymentRow
<1>1. /\ StaysIn(m) \in SUBSET db.stays /\ PaymentsIn(m) \in SUBSET db.payments
      /\ AuditIn(m) \in SUBSET db.audit
  BY DEF StaysIn, PaymentsIn, AuditIn
<1>2. IsFiniteSet(db.stays) /\ IsFiniteSet(db.payments) /\ IsFiniteSet(db.audit)
  BY DEF StoreInv, Sound
<1>3. db.stays \subseteq StayRow /\ db.payments \subseteq PaymentRow
  BY DEF StoreInv, Sound, Tables
<1>4. QED
  BY <1>1, <1>2, <1>3, FS_Subset

\* Keys of finitely many rows are finitely many.
LEMMA KeysFinite ==
  ASSUME NEW S, IsFiniteSet(S), NEW k PROVE IsFiniteSet({k[x] : x \in S})
<1>1. PICK g : g = [x \in S |-> k[x]]
  OBVIOUS
<1>2. PICK K : K = {k[x] : x \in S}
  OBVIOUS
<1>3. g \in Surjection(S, K)
  BY <1>1, <1>2 DEF Surjection
<1>4. QED
  BY <1>2, <1>3, FS_Surjection

\* Rows counted by their keys are counted once each.
LEMMA CountByKey ==
  ASSUME NEW S, IsFiniteSet(S), NEW C, IsFiniteSet(C), NEW k, \A x \in S : k[x] \in C,
         NEW h, \A c \in C : h[c] = Cardinality(Group(S, k, c))
  PROVE  Total(h, C) = Cardinality(S)
<1>1. PICK one : one = [x \in S |-> 1]
  OBVIOUS
<1>2. \A x \in S : one[x] = 1
  BY <1>1
<1>3. \A c \in C : h[c] = Total(one, Group(S, k, c))
  <2> SUFFICES ASSUME NEW c \in C PROVE h[c] = Total(one, Group(S, k, c))
    OBVIOUS
  <2>1. Group(S, k, c) \in SUBSET S
    BY DEF Group
  <2>2. IsFiniteSet(Group(S, k, c)) /\ \A x \in Group(S, k, c) : one[x] = 1
    BY <1>2, <2>1, FS_Subset
  <2>3. Total(one, Group(S, k, c)) = Cardinality(Group(S, k, c))
    BY <2>2, TotalCounts
  <2>4. QED
    BY <2>3
<1>4. \A x \in S : one[x] \in Int
  BY <1>2
<1>5. Total(h, C) = Total(one, S)
  BY <1>3, <1>4, TotalByKey
<1>6. QED
  BY <1>2, <1>5, TotalCounts

(***************************************************************************)
(* The summary by day of a month accounts for each row of its workbook,    *)
(* though it sorts stays under a day that need not be of the month.        *)
(***************************************************************************)
THEOREM SummariesTally == Spec => []SummaryTallies
<1>1. ASSUME StoreInv, NEW m \in Month
      PROVE  LET sheet == DailySummary(m)
             IN  /\ SumFunction([d \in DOMAIN sheet |-> sheet[d].stays])
                      = Summary(MonthlyWorkbook(m)).stays
                 /\ \A d \in Day : MonthOf(d) = m /\ AuditOn(d) # {} => d \in DOMAIN sheet
                 /\ \A d \in DOMAIN sheet :
                      LET row == sheet[d]
                      IN  IF MonthOf(d) = m
                            THEN /\ row.pays = Cardinality(PaymentsOn(d))
                                 /\ row.amount = Money(PaymentsOn(d))
                                 /\ row.audits = Cardinality(AuditOn(d))
                            ELSE /\ row.pays = 0 /\ row.audits = 0
                                 /\ \E s \in StaysIn(m) : DayOf(s.in) = d
  <2> DEFINE sheet == DailySummary(m)
             S == StaysIn(m)
             P == PaymentsIn(m)
             E == AuditIn(m)
             began == UNION {CountedUnder(s) : s \in S}
             days == began \cup {DayOf(p.at) : p \in P} \cup {DayOf(e.at) : e \in E}
  <2>1. sheet = [d \in days |->
                   [stays  |-> Cardinality({s \in S : d \in CountedUnder(s)}),
                    pays   |-> Cardinality({p \in P : DayOf(p.at) = d}),
                    amount |-> Money({p \in P : DayOf(p.at) = d}),
                    audits |-> Cardinality({e \in E : DayOf(e.at) = d})]]
    BY DEF DailySummary, MonthlyWorkbook
  <2>2. \A s \in S : CountedUnder(s) = {DayOf(s.in)}
    <3>1. \A s \in S : s.in # Null
      BY <1>1, TimesAreAudited DEF StaysIn, TimesOf
    <3>2. QED
      BY <3>1 DEF CountedUnder
  <2>3. IsFiniteSet(S) /\ IsFiniteSet(P) /\ IsFiniteSet(E)
    BY <1>1, WorkbookRows
  <2> HIDE DEF sheet, S, P, E
  <2>4. days = {DayOf(s.in) : s \in S} \cup {DayOf(p.at) : p \in P} \cup {DayOf(e.at) : e \in E}
    <3>1. \A x : x \in began <=> \E s \in S : x \in CountedUnder(s)
      OBVIOUS
    <3>2. \A x : x \in began <=> \E s \in S : x = DayOf(s.in)
      BY <2>2, <3>1
    <3> HIDE DEF began
    <3>3. began = {DayOf(s.in) : s \in S}
      BY <3>2
    <3>4. QED
      BY <3>3
  <2> HIDE DEF began
  <2>5. IsFiniteSet(days)
    <3>1. PICK k : k = [s \in S |-> DayOf(s.in)]
      OBVIOUS
    <3>2. PICK l : l = [p \in P |-> DayOf(p.at)]
      OBVIOUS
    <3>3. PICK n : n = [e \in E |-> DayOf(e.at)]
      OBVIOUS
    <3>4. /\ {k[s] : s \in S} = {DayOf(s.in) : s \in S} /\ {l[p] : p \in P} = {DayOf(p.at) : p \in P}
          /\ {n[e] : e \in E} = {DayOf(e.at) : e \in E}
      BY <3>1, <3>2, <3>3
    <3>5. /\ IsFiniteSet({k[s] : s \in S}) /\ IsFiniteSet({l[p] : p \in P})
          /\ IsFiniteSet({n[e] : e \in E})
      BY <2>3, KeysFinite
    <3>6. PICK A, B, C : /\ A = {k[s] : s \in S} /\ B = {l[p] : p \in P} /\ C = {n[e] : e \in E}
      OBVIOUS
    <3>7. IsFiniteSet(A \cup B) /\ IsFiniteSet((A \cup B) \cup C)
      BY <3>5, <3>6, FS_Union
    <3>8. QED
      BY <2>4, <3>4, <3>6, <3>7
  <2> HIDE DEF days
  <2>6. SumFunction([d \in DOMAIN sheet |-> sheet[d].stays]) = Cardinality(S)
    <3>1. PICK h : h = [d \in DOMAIN sheet |-> sheet[d].stays]
      OBVIOUS
    <3>2. PICK k : k = [s \in S |-> DayOf(s.in)]
      OBVIOUS
    <3>3. DOMAIN h = days /\ DOMAIN sheet = days
      BY <2>1, <3>1
    <3>4. \A d \in days : h[d] = Cardinality(Group(S, k, d))
      <4> SUFFICES ASSUME NEW d \in days PROVE h[d] = Cardinality(Group(S, k, d))
        OBVIOUS
      <4>1. {s \in S : d \in CountedUnder(s)} = Group(S, k, d)
        BY <2>2, <3>2 DEF Group
      <4>2. h[d] = Cardinality({s \in S : d \in CountedUnder(s)})
        BY <2>1, <3>1
      <4>3. QED
        BY <4>1, <4>2
    <3>5. \A s \in S : k[s] \in days
      BY <2>4, <3>2
    <3>6. Total(h, days) = Cardinality(S)
      BY <2>3, <2>5, <3>4, <3>5, CountByKey
    <3>7. QED
      BY <3>1, <3>3, <3>6, SumFunctionIs
  <2>7. Summary(MonthlyWorkbook(m)).stays = Cardinality(S)
    BY DEF Summary, MonthlyWorkbook, S
  <2>8. \A d \in Day : MonthOf(d) = m /\ AuditOn(d) # {} => d \in DOMAIN sheet
    BY <2>1, <2>4 DEF AuditOn, AuditIn, E
  <2>9. ASSUME NEW d \in days, MonthOf(d) = m
        PROVE  /\ {p \in P : DayOf(p.at) = d} = PaymentsOn(d)
               /\ {e \in E : DayOf(e.at) = d} = AuditOn(d)
    BY <2>9 DEF P, E, PaymentsIn, PaymentsOn, AuditIn, AuditOn
  <2>10. ASSUME NEW d \in days, MonthOf(d) # m
         PROVE  /\ {p \in P : DayOf(p.at) = d} = {} /\ {e \in E : DayOf(e.at) = d} = {}
                /\ \E s \in S : DayOf(s.in) = d
    BY <2>4, <2>10 DEF P, E, PaymentsIn, AuditIn
  <2>11. \A d \in DOMAIN sheet :
           LET row == sheet[d]
           IN  IF MonthOf(d) = m
                 THEN /\ row.pays = Cardinality(PaymentsOn(d)) /\ row.amount = Money(PaymentsOn(d))
                      /\ row.audits = Cardinality(AuditOn(d))
                 ELSE /\ row.pays = 0 /\ row.audits = 0
                      /\ \E s \in StaysIn(m) : DayOf(s.in) = d
    <3> SUFFICES ASSUME NEW d \in days
                 PROVE  IF MonthOf(d) = m
                          THEN /\ sheet[d].pays = Cardinality(PaymentsOn(d))
                               /\ sheet[d].amount = Money(PaymentsOn(d))
                               /\ sheet[d].audits = Cardinality(AuditOn(d))
                          ELSE /\ sheet[d].pays = 0 /\ sheet[d].audits = 0
                               /\ \E s \in StaysIn(m) : DayOf(s.in) = d
      BY <2>1
    <3>1. /\ sheet[d].pays = Cardinality({p \in P : DayOf(p.at) = d})
          /\ sheet[d].amount = Money({p \in P : DayOf(p.at) = d})
          /\ sheet[d].audits = Cardinality({e \in E : DayOf(e.at) = d})
      BY <2>1
    <3>2. CASE MonthOf(d) = m
      BY <2>9, <3>1, <3>2
    <3>3. CASE MonthOf(d) # m
      BY <2>10, <3>1, <3>3, FS_EmptySet DEF S
    <3>4. QED
      BY <3>2, <3>3
  <2>12. QED
    BY <2>6, <2>7, <2>8, <2>11 DEF sheet
<1>2. StoreInv => SummaryTallies
  BY <1>1 DEF SummaryTallies
<1>3. QED
  BY <1>2, StoreInvInductive, PTL
-----------------------------------------------------------------------------
\* The amounts of stays as a total, whatever function stands for them.
LEMMA PaidIs ==
  ASSUME NEW S, IsFiniteSet(S), NEW f, \A s \in S : f[s] = s.paid
  PROVE  Paid(S) = Total(f, S)
<1>1. PICK g : g = [s \in S |-> s.paid]
  OBVIOUS
<1>2. DOMAIN g = S /\ \A s \in S : g[s] = f[s]
  BY <1>1
<1>3. Total(g, S) = Total(f, S)
  BY <1>2, TotalAgrees
<1>4. QED
  BY <1>1, <1>2, <1>3, SumFunctionIs DEF Paid

\* A sheet with a row per key of the stays has the amounts of all stays.
LEMMA StaySheetAdds ==
  ASSUME NEW S \in SUBSET StayRow, IsFiniteSet(S), NEW k, NEW C, IsFiniteSet(C),
         \A s \in S : k[s] \in C, NEW h, DOMAIN h = C, \A c \in C : h[c] = Paid(Group(S, k, c))
  PROVE  SumFunction(h) = Paid(S)
<1>1. PICK f : f = [s \in S |-> s.paid]
  OBVIOUS
<1>2. \A s \in S : f[s] = s.paid /\ f[s] \in Int
  BY <1>1 DEF StayRow
<1>3. \A c \in C : h[c] = Total(f, Group(S, k, c))
  <2> SUFFICES ASSUME NEW c \in C PROVE h[c] = Total(f, Group(S, k, c))
    OBVIOUS
  <2>1. Group(S, k, c) \in SUBSET S
    BY DEF Group
  <2>2. IsFiniteSet(Group(S, k, c)) /\ \A s \in Group(S, k, c) : f[s] = s.paid
    BY <1>2, <2>1, FS_Subset
  <2>3. QED
    BY <2>2, PaidIs
<1>4. Total(h, C) = Total(f, S)
  BY <1>2, <1>3, TotalByKey
<1>5. QED
  BY <1>2, <1>4, PaidIs, SumFunctionIs

\* The same of payments.
LEMMA PaymentSheetAdds ==
  ASSUME NEW P \in SUBSET PaymentRow, IsFiniteSet(P), NEW k, NEW C, IsFiniteSet(C),
         \A p \in P : k[p] \in C, NEW h, DOMAIN h = C, \A c \in C : h[c] = Money(Group(P, k, c))
  PROVE  SumFunction(h) = Money(P)
<1>1. PICK f : f = [p \in P |-> p.amount]
  OBVIOUS
<1>2. \A p \in P : f[p] = p.amount /\ f[p] \in Int
  BY <1>1 DEF PaymentRow
<1>3. \A c \in C : h[c] = Total(f, Group(P, k, c))
  <2> SUFFICES ASSUME NEW c \in C PROVE h[c] = Total(f, Group(P, k, c))
    OBVIOUS
  <2>1. Group(P, k, c) \in SUBSET P
    BY DEF Group
  <2>2. IsFiniteSet(Group(P, k, c)) /\ \A p \in Group(P, k, c) : f[p] = p.amount
    BY <1>2, <2>1, FS_Subset
  <2>3. QED
    BY <2>2, MoneyIs
<1>4. Total(h, C) = Total(f, P)
  BY <1>2, <1>3, TotalByKey
<1>5. QED
  BY <1>2, <1>4, MoneyIs, SumFunctionIs

\* The money of a set of payments is that of a part and of the rest.
LEMMA MoneySplits ==
  ASSUME NEW P \in SUBSET PaymentRow, IsFiniteSet(P), NEW Q \in SUBSET P
  PROVE  /\ Money(P) = Money(Q) + Money(P \ Q)
         /\ Money(P) \in Int /\ Money(Q) \in Int /\ Money(P \ Q) \in Int
<1>1. PICK f : f = [p \in P |-> p.amount]
  OBVIOUS
<1>2. \A p \in P : f[p] = p.amount /\ f[p] \in Int
  BY <1>1 DEF PaymentRow
<1>3. Total(f, P) = Total(f, Q) + Total(f, P \ Q)
  BY <1>2, TotalSplit
<1>4. PICK R : R = P \ Q
  OBVIOUS
<1>5. IsFiniteSet(Q) /\ IsFiniteSet(R) /\ R \in SUBSET PaymentRow /\ Q \in SUBSET PaymentRow /\ R \subseteq P
  BY <1>4, FS_Subset, FS_Difference
<1>6. Money(P) = Total(f, P) /\ Money(Q) = Total(f, Q) /\ Money(R) = Total(f, R)
  BY <1>2, <1>5, MoneyIs
<1>7. Money(P) \in Int /\ Money(Q) \in Int /\ Money(R) \in Int
  BY <1>5, MoneyType
<1>8. QED
  BY <1>3, <1>4, <1>6, <1>7

\* The amounts of some stays are the payments booked under them at check-in and extension.
LEMMA PaidIsFees ==
  ASSUME StoreInv, AmountsBooked(db), NEW S \in SUBSET db.stays
  PROVE  Paid(S) = Money({p \in db.payments : p.kind # "received" /\ \E s \in S : s.id = p.stay})
<1> DEFINE F == {p \in db.payments : p.kind # "received" /\ \E s \in S : s.id = p.stay}
           stay(p) == CHOOSE s \in S : s.id = p.stay
<1>1. /\ db.stays \subseteq StayRow /\ db.payments \subseteq PaymentRow /\ Distinct(db.stays)
      /\ IsFiniteSet(db.stays) /\ IsFiniteSet(db.payments)
  BY DEF StoreInv, Sound, Tables
<1>2. IsFiniteSet(S) /\ IsFiniteSet(F) /\ F \in SUBSET db.payments
  BY <1>1, FS_Subset
<1>3. PICK k : k = [p \in F |-> stay(p)]
  OBVIOUS
<1>4. \A p \in F : k[p] \in S /\ k[p].id = p.stay
  BY <1>3
<1>5. PICK h : h = [s \in S |-> s.paid]
  OBVIOUS
<1>6. PICK f : f = [p \in db.payments |-> p.amount]
  OBVIOUS
<1>7. \A p \in db.payments : f[p] = p.amount /\ f[p] \in Int
  BY <1>1, <1>6 DEF PaymentRow
<1>8. ASSUME NEW s \in S PROVE h[s] = Total(f, Group(F, k, s))
  <2>1. Group(F, k, s) = Fees(db, s.id)
    <3>1. ASSUME NEW p \in Group(F, k, s) PROVE p \in Fees(db, s.id)
      <4>1. p \in db.payments /\ p.kind # "received" /\ p.stay = s.id
        BY <1>4 DEF Group
      <4>2. p.kind \in PaymentKind
        BY <1>1, <4>1 DEF PaymentRow
      <4>3. QED
        BY <4>1, <4>2 DEF Fees, IsFee, PaymentKind
    <3>2. ASSUME NEW p \in Fees(db, s.id) PROVE p \in Group(F, k, s)
      <4>1. p \in F /\ p.stay = s.id
        BY DEF Fees, IsFee
      <4> HIDE DEF F
      <4>2. k[p] \in S /\ k[p].id = s.id
        BY <1>4, <4>1
      <4>3. k[p] = s
        BY <1>1, <4>2 DEF Distinct
      <4>4. QED
        BY <4>1, <4>3 DEF Group
    <3>3. QED
      BY <3>1, <3>2
  <2>2. s.paid = Money(Fees(db, s.id))
    BY DEF AmountsBooked
  <2>3. IsFiniteSet(Fees(db, s.id)) /\ \A p \in Fees(db, s.id) : f[p] = p.amount
    <3>1. Fees(db, s.id) \in SUBSET db.payments
      BY DEF Fees
    <3>2. QED
      BY <1>1, <1>7, <3>1, FS_Subset
  <2>4. QED
    BY <1>5, <2>1, <2>2, <2>3, MoneyIs
<1> HIDE DEF F
<1>9. (\A p \in F : f[p] \in Int /\ f[p] = p.amount) /\ \A s \in S : h[s] = s.paid
  BY <1>2, <1>5, <1>7
<1>10. Total(h, S) = Total(f, F)
  BY <1>2, <1>4, <1>8, <1>9, TotalByKey
<1>11. Paid(S) = Total(h, S) /\ Money(F) = Total(f, F)
  BY <1>2, <1>9, PaidIs, MoneyIs
<1>12. QED
  BY <1>10, <1>11 DEF F

\* The amounts of a sheet, added up as SheetsReconcile has it.
SheetTotal(sheet) == SumFunction([k \in DOMAIN sheet |-> sheet[k].amount])

\* What each of the three money sheets adds up to.
LEMMA SheetTotals ==
  ASSUME StoreInv, NEW m, NEW w, w = MonthlyWorkbook(m)
  PROVE  /\ SheetTotal(ByMode(w)) = Paid(w.stays) /\ SheetTotal(ByRoom(w)) = Paid(w.stays)
         /\ SheetTotal(ByMethod(w)) = Money(w.payments)
<1>1. PICK S : S = StaysIn(m)
  OBVIOUS
<1>2. PICK P : P = PaymentsIn(m)
  OBVIOUS
<1>3. w.stays = S /\ w.payments = P
  BY <1>1, <1>2 DEF MonthlyWorkbook
<1>4. IsFiniteSet(S) /\ S \in SUBSET StayRow /\ IsFiniteSet(P) /\ P \in SUBSET PaymentRow
  BY <1>1, <1>2, WorkbookRows
<1>5. SheetTotal(ByMode(w)) = Paid(S)
  <2>1. PICK k : k = [s \in S |-> s.mode]
    OBVIOUS
  <2>2. PICK C : C = {k[s] : s \in S} /\ IsFiniteSet(C) /\ \A s \in S : k[s] \in C
    <3>1. IsFiniteSet({k[s] : s \in S})
      BY <1>4, KeysFinite
    <3>2. QED
      BY <3>1
  <2>3. PICK h : h = [c \in DOMAIN ByMode(w) |-> ByMode(w)[c].amount]
    OBVIOUS
  <2>4. /\ DOMAIN ByMode(w) = {s.mode : s \in w.stays}
        /\ \A c \in {s.mode : s \in w.stays} :
             ByMode(w)[c].amount = Paid({s \in w.stays : s.mode = c})
    BY DEF ByMode
  <2>5. {s.mode : s \in w.stays} = C
    BY <1>3, <2>1, <2>2
  <2>6. ASSUME NEW c PROVE {s \in w.stays : s.mode = c} = Group(S, k, c)
    BY <1>3, <2>1 DEF Group
  <2>7. DOMAIN h = C /\ \A c \in C : h[c] = Paid(Group(S, k, c))
    BY <2>3, <2>4, <2>5, <2>6
  <2>8. SumFunction(h) = Paid(S)
    BY <1>4, <2>2, <2>7, StaySheetAdds
  <2>9. QED
    BY <2>3, <2>8 DEF SheetTotal
<1>6. SheetTotal(ByRoom(w)) = Paid(S)
  <2>1. PICK k : k = [s \in S |-> s.room]
    OBVIOUS
  <2>2. PICK C : C = {k[s] : s \in S} /\ IsFiniteSet(C) /\ \A s \in S : k[s] \in C
    <3>1. IsFiniteSet({k[s] : s \in S})
      BY <1>4, KeysFinite
    <3>2. QED
      BY <3>1
  <2>3. PICK h : h = [c \in DOMAIN ByRoom(w) |-> ByRoom(w)[c].amount]
    OBVIOUS
  <2>4. /\ DOMAIN ByRoom(w) = {s.room : s \in w.stays}
        /\ \A c \in {s.room : s \in w.stays} :
             ByRoom(w)[c].amount = Paid({s \in w.stays : s.room = c})
    BY DEF ByRoom
  <2>5. {s.room : s \in w.stays} = C
    BY <1>3, <2>1, <2>2
  <2>6. ASSUME NEW c PROVE {s \in w.stays : s.room = c} = Group(S, k, c)
    BY <1>3, <2>1 DEF Group
  <2>7. DOMAIN h = C /\ \A c \in C : h[c] = Paid(Group(S, k, c))
    BY <2>3, <2>4, <2>5, <2>6
  <2>8. SumFunction(h) = Paid(S)
    BY <1>4, <2>2, <2>7, StaySheetAdds
  <2>9. QED
    BY <2>3, <2>8 DEF SheetTotal
<1>7. SheetTotal(ByMethod(w)) = Money(P)
  <2>1. PICK k : k = [p \in P |-> p.kind]
    OBVIOUS
  <2>2. PICK C : C = {k[p] : p \in P} /\ IsFiniteSet(C) /\ \A p \in P : k[p] \in C
    <3>1. IsFiniteSet({k[p] : p \in P})
      BY <1>4, KeysFinite
    <3>2. QED
      BY <3>1
  <2>3. PICK h : h = [c \in DOMAIN ByMethod(w) |-> ByMethod(w)[c].amount]
    OBVIOUS
  <2>4. /\ DOMAIN ByMethod(w) = {p.kind : p \in w.payments}
        /\ \A c \in {p.kind : p \in w.payments} :
             ByMethod(w)[c].amount = Money({p \in w.payments : p.kind = c})
    BY DEF ByMethod
  <2>5. {p.kind : p \in w.payments} = C
    BY <1>3, <2>1, <2>2
  <2>6. ASSUME NEW c PROVE {p \in w.payments : p.kind = c} = Group(P, k, c)
    BY <1>3, <2>1 DEF Group
  <2>7. DOMAIN h = C /\ \A c \in C : h[c] = Money(Group(P, k, c))
    BY <2>3, <2>4, <2>5, <2>6
  <2>8. SumFunction(h) = Money(P)
    BY <1>4, <2>2, <2>7, PaymentSheetAdds
  <2>9. QED
    BY <2>3, <2>8 DEF SheetTotal
<1>8. QED
  BY <1>3, <1>5, <1>6, <1>7

(***************************************************************************)
(* The amounts by mode and by room are the check-in and extension payments *)
(* of the listed stays, the amounts by method are the payments of the      *)
(* month, and the two differ by exactly the payments that are of only one. *)
(* As in AmountsAreBooked, amounts must not be negative.                   *)
(***************************************************************************)
THEOREM SheetsFit == ASSUME Amount \subseteq Nat PROVE Spec => []SheetsReconcile
<1>1. ASSUME StoreInv, AmountsBooked(db), NEW m \in Month
      PROVE  LET w == MonthlyWorkbook(m)
                 stayPayments == {p \in db.payments : p.kind # "received"}
                 ofStays   == {p \in stayPayments : \E s \in w.stays : s.id = p.stay}
                 ofPeriod  == stayPayments \cap w.payments
                 received  == w.payments \ ofPeriod
             IN  /\ SheetTotal(ByMode(w)) = SheetTotal(ByRoom(w))
                 /\ SheetTotal(ByMethod(w)) = Summary(w).total
                 /\ Summary(w).total - Money(received) - SheetTotal(ByMode(w))
                      = Money(ofPeriod \ ofStays) - Money(ofStays \ ofPeriod)
  <2> DEFINE w == MonthlyWorkbook(m)
             stayPayments == {p \in db.payments : p.kind # "received"}
             ofStays   == {p \in stayPayments : \E s \in w.stays : s.id = p.stay}
             ofPeriod  == stayPayments \cap w.payments
             received  == w.payments \ ofPeriod
  <2>1. /\ w.stays = StaysIn(m) /\ w.payments = PaymentsIn(m)
        /\ Summary(w).total = Money(w.payments)
    BY DEF MonthlyWorkbook, Summary
  <2> HIDE DEF w
  <2>2. /\ IsFiniteSet(w.payments) /\ w.payments \in SUBSET PaymentRow
        /\ w.stays \in SUBSET db.stays /\ db.payments \in SUBSET PaymentRow
        /\ IsFiniteSet(db.payments)
    BY <1>1, <2>1, WorkbookRows DEF StoreInv
  <2>3. /\ SheetTotal(ByMode(w)) = Paid(w.stays) /\ SheetTotal(ByRoom(w)) = Paid(w.stays)
        /\ SheetTotal(ByMethod(w)) = Money(w.payments)
    BY <1>1, SheetTotals DEF w
  <2>4. Paid(w.stays) = Money(ofStays)
    <3>1. ofStays = {p \in db.payments : p.kind # "received" /\ \E s \in w.stays : s.id = p.stay}
      OBVIOUS
    <3>2. PICK S : S = w.stays
      OBVIOUS
    <3>3. Paid(S) = Money({p \in db.payments : p.kind # "received" /\ \E s \in S : s.id = p.stay})
      BY <1>1, <2>2, <3>2, PaidIsFees
    <3>4. QED
      BY <3>1, <3>2, <3>3
  <2>5. /\ ofPeriod \in SUBSET w.payments /\ ofStays \in SUBSET PaymentRow
        /\ ofPeriod \in SUBSET PaymentRow /\ IsFiniteSet(ofStays) /\ IsFiniteSet(ofPeriod)
    <3>1. ofPeriod \in SUBSET w.payments /\ ofStays \in SUBSET db.payments
      OBVIOUS
    <3> HIDE DEF ofStays, ofPeriod
    <3>2. QED
      BY <2>2, <3>1, FS_Subset
  <2> HIDE DEF ofStays, ofPeriod
  <2>6. /\ Money(w.payments) = Money(ofPeriod) + Money(received)
        /\ Money(ofPeriod) \in Int /\ Money(received) \in Int
    BY <2>2, <2>5, MoneySplits
  <2> HIDE DEF received
  <2>7. PICK both : both = ofPeriod \cap ofStays
    OBVIOUS
  <2>8. /\ both \in SUBSET ofPeriod /\ both \in SUBSET ofStays
        /\ ofPeriod \ both = ofPeriod \ ofStays /\ ofStays \ both = ofStays \ ofPeriod
    BY <2>7
  <2>9. /\ Money(ofPeriod) = Money(both) + Money(ofPeriod \ both)
        /\ Money(both) \in Int /\ Money(ofPeriod \ both) \in Int
    BY <2>5, <2>8, MoneySplits
  <2>10. /\ Money(ofStays) = Money(both) + Money(ofStays \ both)
         /\ Money(ofStays \ both) \in Int
    BY <2>5, <2>8, MoneySplits
  <2>11. PICK a, b, c, r \in Int :
           /\ a = Money(ofPeriod \ ofStays) /\ b = Money(ofStays \ ofPeriod) /\ c = Money(both)
           /\ r = Money(received)
    BY <2>6, <2>8, <2>9, <2>10
  <2>12. Money(w.payments) = (c + a) + r /\ Money(ofStays) = c + b
    BY <2>6, <2>8, <2>9, <2>10, <2>11
  <2>13. ((c + a) + r) - r - (c + b) = a - b
    OBVIOUS
  <2>14. QED
    BY <2>1, <2>3, <2>4, <2>11, <2>12, <2>13 DEF w, ofStays, ofPeriod, received
<1>2. StoreInv /\ AmountsBooked(db) => SheetsReconcile
  BY <1>1 DEF SheetsReconcile, SheetTotal
<1>3. QED
  BY <1>2, StoreInvInductive, AmountsInductive, PTL
=============================================================================
