----------------------------- MODULE LedgerProofs ---------------------------
(***************************************************************************)
(* What a transaction of package store makes of a database, for every      *)
(* database whose tables are sound: the lemmas the proofs about Store,     *)
(* Reports and Server rest on.                                             *)
(***************************************************************************)
EXTENDS Ledger, TLAPS, FiniteSetTheorems

\* ORDER BY at DESC, id DESC puts s first.
IsLast(T, at, s) ==
  \A t \in T \ {s} : at[s] > at[t] \/ (at[s] = at[t] /\ s.id > t.id)

(***************************************************************************)
(* A query with LIMIT 1 finds a row if there is any: of finitely many rows *)
(* with distinct keys one comes last.  A set without one that is minimal   *)
(* among those is not empty; taking a row out leaves a set that has one.   *)
(***************************************************************************)
LEMMA LastExists ==
  ASSUME NEW S \in SUBSET StayRow, IsFiniteSet(S), S # {}, NEW at \in [S -> Nat],
         \A s, t \in S : s.id = t.id => s = t
  PROVE  \E s \in S : IsLast(S, at, s)
<1> DEFINE Bad == {T \in SUBSET S : T # {} /\ \A s \in T : ~IsLast(T, at, s)}
<1>1. SUFFICES ASSUME Bad # {} PROVE FALSE
  OBVIOUS
<1>2. PICK T \in Bad : \A U \in Bad : <<U, T>> \notin StrictSubsetOrdering(S)
  <2>1. IsWellFoundedOn(StrictSubsetOrdering(S), SUBSET S)
    BY FS_StrictSubsetOrderingWellFounded, FS_FiniteSubsetsOfFinite
  <2>2. Bad \subseteq SUBSET S
    OBVIOUS
  <2> HIDE DEF Bad
  <2>3. QED
    BY <1>1, <2>1, <2>2, WFMin
<1>3. PICK x \in T : TRUE
  OBVIOUS
<1>4. T \ {x} \notin Bad
  <2>1. <<T \ {x}, T>> \in StrictSubsetOrdering(S)
    BY DEF StrictSubsetOrdering
  <2>2. QED
    BY <1>2, <2>1
<1>5. CASE T = {x}
  BY <1>5 DEF IsLast
<1>6. CASE T # {x}
  <2>1. PICK y \in T \ {x} : IsLast(T \ {x}, at, y)
    BY <1>4, <1>6
  <2> x \in S /\ y \in S /\ x.id \in Nat /\ y.id \in Nat /\ x.id # y.id
    BY LedgerAssumption DEF StayRow
  <2>2. CASE at[x] > at[y] \/ (at[x] = at[y] /\ x.id > y.id)
    <3>1. IsLast(T, at, x)
      <4> SUFFICES ASSUME NEW t \in T \ {x}
                   PROVE  at[x] > at[t] \/ (at[x] = at[t] /\ x.id > t.id)
        BY DEF IsLast
      <4> t \in S /\ t.id \in Nat
        BY LedgerAssumption DEF StayRow
      <4>1. t = y \/ at[y] > at[t] \/ (at[y] = at[t] /\ y.id > t.id)
        BY <2>1 DEF IsLast
      <4>2. QED
        BY <2>2, <4>1
    <3>2. QED
      BY <3>1
  <2>3. CASE ~(at[x] > at[y] \/ (at[x] = at[y] /\ x.id > y.id))
    BY <2>1, <2>3 DEF IsLast
  <2>4. QED
    BY <2>2, <2>3
<1>7. QED
  BY <1>5, <1>6

\* ORDER BY event_time DESC, event_id DESC puts these before e.
Newer(entries, e) == {f \in entries : f.at > e.at \/ (f.at = e.at /\ f.id > e.id)}

\* Entries with distinct keys have distinct places, so no place stays free.
LEMMA PlacesTaken ==
  ASSUME NEW entries \in SUBSET AuditRow, IsFiniteSet(entries),
         \A e, f \in entries : e.id = f.id => e = f,
         NEW i \in 1 .. Cardinality(entries)
  PROVE  \E e \in entries : Cardinality(Newer(entries, e)) = i - 1
<1> DEFINE n == Cardinality(entries)
           place == [e \in entries |-> Cardinality(Newer(entries, e)) + 1]
<1>1. n \in Nat
  BY FS_CardinalityType
<1>2. ASSUME NEW e \in entries PROVE e.at \in Nat /\ e.id \in Nat
  BY LedgerAssumption DEF AuditRow
<1>3. ASSUME NEW e \in entries
      PROVE  /\ IsFiniteSet(Newer(entries, e)) /\ Cardinality(Newer(entries, e)) \in Nat
             /\ Cardinality(Newer(entries, e)) < n
  <2>1. /\ IsFiniteSet(entries \ {e}) /\ Cardinality(entries \ {e}) = n - 1
    BY FS_RemoveElement
  <2>2. Newer(entries, e) \subseteq entries \ {e}
    BY <1>2 DEF Newer
  <2>3. IsFiniteSet(Newer(entries, e)) /\ Cardinality(Newer(entries, e)) <= Cardinality(entries \ {e})
    BY <2>1, <2>2, FS_Subset
  <2>4. Cardinality(Newer(entries, e)) \in Nat
    BY <2>3, FS_CardinalityType
  <2>5. QED
    BY <1>1, <2>1, <2>3, <2>4
<1>4. ASSUME NEW e \in entries, NEW f \in entries, e \in Newer(entries, f)
      PROVE  Cardinality(Newer(entries, e)) < Cardinality(Newer(entries, f))
  <2>1. Newer(entries, e) \subseteq Newer(entries, f) \ {e}
    <3> SUFFICES ASSUME NEW g \in Newer(entries, e) PROVE g \in Newer(entries, f) /\ g # e
      OBVIOUS
    <3>1. /\ g \in entries
          /\ e.at \in Nat /\ f.at \in Nat /\ g.at \in Nat
          /\ e.id \in Nat /\ f.id \in Nat /\ g.id \in Nat
      BY <1>2 DEF Newer
    <3>2. g.at > f.at \/ (g.at = f.at /\ g.id > f.id)
      BY <1>4, <3>1 DEF Newer
    <3>3. QED
      BY <3>1, <3>2 DEF Newer
  <2>2. /\ IsFiniteSet(Newer(entries, f) \ {e})
        /\ Cardinality(Newer(entries, f) \ {e}) = Cardinality(Newer(entries, f)) - 1
    BY <1>3, <1>4, FS_RemoveElement
  <2>3. Cardinality(Newer(entries, e)) <= Cardinality(Newer(entries, f) \ {e})
    BY <2>1, <2>2, FS_Subset
  <2>4. QED
    BY <1>3, <2>2, <2>3
<1>5. ASSUME NEW e \in entries, NEW f \in entries, e # f
      PROVE  e \in Newer(entries, f) \/ f \in Newer(entries, e)
  <2>1. e.id # f.id
    BY <1>5
  <2>2. /\ e.at \in Nat /\ f.at \in Nat /\ e.id \in Nat /\ f.id \in Nat
    BY <1>2
  <2>3. QED
    BY <2>1, <2>2 DEF Newer
<1>6. place \in Injection(entries, 1 .. n)
  <2>1. place \in [entries -> 1 .. n]
    BY <1>1, <1>3
  <2>2. ASSUME NEW e \in entries, NEW f \in entries, place[e] = place[f] PROVE e = f
    <3>1. Cardinality(Newer(entries, e)) = Cardinality(Newer(entries, f))
      BY <1>3, <2>2
    <3>2. QED
      BY <1>3, <1>4, <1>5, <3>1
  <2>3. QED
    BY <2>1, <2>2 DEF Injection, IsInjective
<1>7. place \in Surjection(entries, 1 .. n)
  <2>1. IsFiniteSet(1 .. n) /\ Cardinality(1 .. n) = n
    BY <1>1, FS_Interval
  <2> HIDE DEF place
  <2>2. QED
    BY <1>6, <2>1, FS_Injection
<1>8. PICK e \in entries : place[e] = i
  BY <1>7 DEF Surjection
<1>9. QED
  BY <1>3, <1>8

\* A set that a finite set is numbered with is as large.
LEMMA SameSize ==
  ASSUME NEW S, IsFiniteSet(S), NEW T, NEW f \in [S -> T],
         \A x, y \in S : f[x] = f[y] => x = y, \A t \in T : \E x \in S : f[x] = t
  PROVE  IsFiniteSet(T) /\ Cardinality(T) = Cardinality(S)
<1>1. f \in Surjection(S, T) /\ f \in Injection(S, T)
  BY DEF Surjection, Injection, IsInjective
<1>2. QED
  BY <1>1, FS_Surjection

-----------------------------------------------------------------------------
Tables ==
  [rooms: [Room -> RoomRow], stays: SUBSET StayRow, payments: SUBSET PaymentRow,
   audit: SUBSET AuditRow]

Logged(d, room, action, at) ==
  \E e \in d.audit : e.room = room /\ e.action = action /\ e.at = at

\* The audit entries behind the times of a stay, and behind a payment.
StayHistory(d, s) ==
  /\ \E e \in d.audit : e.id = s.id /\ e.room = s.room /\ e.action = "check_in" /\ e.at = s.in
  /\ s.status = "in_use" <=> s.out = Null
  /\ s.out # Null => Logged(d, s.room, "check_out", s.out)
  /\ s.cleaned # Null => Logged(d, s.room, "finish_cleaning", s.cleaned)
  /\ \/ s.updated \in {s.in, s.out, s.cleaned} \ {Null}
     \/ Logged(d, s.room, "extend_stay", s.updated)
     \/ Logged(d, s.room, "finish_cleaning", s.updated)

ActionOf(kind) ==
  CASE kind = "checkin" -> "check_in" [] kind = "extend" -> "extend_stay"
    [] OTHER -> "receive_payment"

PaymentHistory(d, p) ==
  /\ \E e \in d.audit : /\ e.id = p.request /\ e.room = p.room /\ e.at = p.at
                        /\ e.action = ActionOf(p.kind)
  /\ p.stay # NoStay => \E s \in d.stays : s.id = p.stay /\ s.room = p.room

Distinct(stays) == \A s, t \in stays : s.id = t.id => s = t

(***************************************************************************)
(* The inductive invariant of the tables.  Keys are unique because those   *)
(* of the audit table are and every row has its entry there; that a        *)
(* payment names a stay of its room needs ActiveStay to find one, hence    *)
(* that the stays are finitely many and have distinct keys.                *)
(***************************************************************************)
Sound(d) ==
  /\ d \in Tables
  /\ IsFiniteSet(d.stays)
  /\ Distinct(d.stays)
  /\ \A p, q \in d.payments : p.request = q.request => p = q
  /\ \A e, f \in d.audit : e.id = f.id => e = f
  /\ \A e \in d.audit : e.at # Null
  /\ \A s \in d.stays : StayHistory(d, s)
  /\ \A p \in d.payments : PaymentHistory(d, p)

\* What every UPDATE of a stay s to t leaves as it was.
Follows(s, t) ==
  /\ t.id = s.id /\ t.room = s.room /\ t.in = s.in
  /\ s.out # Null => t.out = s.out
  /\ s.cleaned # Null => t.cleaned = s.cleaned
  /\ s.status = "checked_out" =>
       t = [s EXCEPT !.updated = t.updated, !.cleaned = IF @ = Null THEN t.cleaned ELSE @]

\* What all transactions that commit have in common, from d to e.
Booking(d, e, id, room, action, at) ==
  /\ e \in Tables
  /\ AuditKeyFree(d, id)
  /\ \E mode : e.audit = d.audit \cup {AuditRowOf(id, room, action, mode, at)}
  /\ IsFiniteSet(e.stays)
  /\ Distinct(e.stays)
  /\ \A s \in d.stays : \E t \in e.stays : Follows(s, t)
  /\ \A t \in e.stays \ d.stays : StayHistory(e, t)
  /\ \A p \in e.payments \ d.payments : p.request = id /\ PaymentHistory(e, p)
  /\ \A p, q \in e.payments \ d.payments : p = q
  /\ d.payments \subseteq e.payments

\* A stay that is not updated, too.
LEMMA FollowsItself ==
  ASSUME NEW s \in StayRow
  PROVE  Follows(s, s)
BY DEF Follows, StayRow

\* A transaction that commits keeps the tables sound.
LEMMA BookingKeepsSound ==
  ASSUME NEW d, NEW e, Sound(d), NEW id \in RequestId, NEW room \in Room, NEW action \in Action,
         NEW at \in Nat \ {0}, Booking(d, e, id, room, action, at)
  PROVE  Sound(e)
<1>1. PICK mode : e.audit = d.audit \cup {AuditRowOf(id, room, action, mode, at)}
  BY DEF Booking
<1>2. \A f, g \in e.audit : f.id = g.id => f = g
  BY <1>1 DEF Sound, Booking, AuditKeyFree, AuditRowOf
<1>3. \A f \in e.audit : f.at # Null
  BY <1>1 DEF Sound, AuditRowOf, Null
<1>4. \A p, q \in e.payments : p.request = q.request => p = q
  <2>1. \A p \in d.payments : p.request # id
    BY DEF Sound, PaymentHistory, Booking, AuditKeyFree
  <2>2. QED
    BY <2>1 DEF Sound, Booking
<1>5. ASSUME NEW s \in e.stays PROVE StayHistory(e, s)
  BY <1>1 DEF Sound, Booking, StayHistory, Logged
<1>6. ASSUME NEW p \in e.payments PROVE PaymentHistory(e, p)
  <2>1. CASE p \in d.payments
    <3>1. \A s \in d.stays : \E t \in e.stays : t.id = s.id /\ t.room = s.room
      BY DEF Booking, Follows
    <3>2. QED
      BY <1>1, <2>1, <3>1 DEF Sound, PaymentHistory
  <2>2. QED
    BY <2>1 DEF Booking
<1>7. QED
  BY <1>2, <1>3, <1>4, <1>5, <1>6 DEF Sound, Booking

-----------------------------------------------------------------------------
\* UpdateStay with the change as a function.
Updated(stays, id, change) == {IF s.id = id THEN change[s] ELSE s : s \in stays}

\* What the table then is.
StaysKept(d, id, change, stays) ==
  /\ stays \subseteq StayRow /\ IsFiniteSet(stays) /\ Distinct(stays)
  /\ \A s \in d.stays : \E t \in stays : Follows(s, t)
  /\ \A t \in stays \ d.stays : \E s \in d.stays : s.id = id /\ t = change[s]

\* An UPDATE keeps the keys, so the rows stay distinct and finitely many.
LEMMA UpdateKeepsStays ==
  ASSUME NEW d, Sound(d), NEW id, NEW change \in [d.stays -> StayRow],
         \A s \in d.stays : s.id = id => Follows(s, change[s])
  PROVE  StaysKept(d, id, change, Updated(d.stays, id, change))
<1> DEFINE U == {IF s.id = id THEN change[s] ELSE s : s \in d.stays}
<1> d.stays \subseteq StayRow
  BY DEF Sound, Tables
<1>1. U \subseteq StayRow
  OBVIOUS
<1>2. IsFiniteSet(U)
  <2> DEFINE f == [s \in d.stays |-> IF s.id = id THEN change[s] ELSE s]
  <2>1. f \in Surjection(d.stays, U)
    BY DEF Surjection
  <2>2. QED
    BY <2>1, FS_Surjection DEF Sound
<1>3. Distinct(U)
  <2>1. \A s \in d.stays : s.id = id => change[s].id = s.id
    BY DEF Follows
  <2>2. QED
    BY <2>1 DEF Distinct, Sound
<1>4. \A s \in d.stays : \E t \in U : Follows(s, t)
  BY FollowsItself
<1>5. \A t \in U \ d.stays : \E s \in d.stays : s.id = id /\ t = change[s]
  OBVIOUS
<1>6. QED
  BY <1>1, <1>2, <1>3, <1>4, <1>5 DEF Updated, StaysKept

\* findActiveStay returns a stay of the room that is in use, or none.
LEMMA ActiveStayIsOpen ==
  ASSUME NEW d, Sound(d), NEW room
  PROVE  \/ ActiveStay(d, room) = NoStay
         \/ \E s \in InUse(d, room) : s.id = ActiveStay(d, room)
<1> DEFINE open == InUse(d, room)
           began == [s \in open |-> s.in]
<1>1. open \in SUBSET StayRow /\ IsFiniteSet(open)
  BY FS_Subset DEF Sound, Tables, InUse
<1>2. began \in [open -> Nat]
  BY <1>1 DEF StayRow
<1>3. \A s, t \in open : s.id = t.id => s = t
  BY DEF Sound, Distinct, InUse
<1>4. ASSUME open # {} PROVE Latest(open) \in open
  <2>1. PICK s \in open : IsLast(open, began, s)
    <3> HIDE DEF open, began
    <3>1. QED
      BY <1>1, <1>2, <1>3, <1>4, LastExists
  <2>2. \A t \in open \ {s} : s.in > t.in \/ (s.in = t.in /\ s.id > t.id)
    BY <2>1 DEF IsLast
  <2> HIDE DEF open
  <2>3. QED
    BY <2>2 DEF Latest
<1>5. QED
  BY <1>4 DEF ActiveStay

\* closeCleaningForLatestStay picks a stay of the room that has ended, or none.
LEMMA LatestEndedHasEnded ==
  ASSUME NEW d, Sound(d), NEW room
  PROVE  \/ LatestEnded(d, room) = NoStay
         \/ \E s \in d.stays : s.id = LatestEnded(d, room) /\ s.room = room /\ s.out # Null
<1> DEFINE ended == {s \in d.stays : s.room = room /\ s.out # Null}
           end == [s \in ended |-> s.out]
           last == CHOOSE s \in ended : \A t \in ended \ {s} :
                     s.out > t.out \/ (s.out = t.out /\ s.id > t.id)
<1>1. ended \in SUBSET StayRow /\ IsFiniteSet(ended)
  BY FS_Subset DEF Sound, Tables
<1>2. end \in [ended -> Nat]
  BY <1>1 DEF StayRow
<1>3. \A s, t \in ended : s.id = t.id => s = t
  BY DEF Sound, Distinct
<1>4. ASSUME ended # {} PROVE last \in ended
  <2>1. PICK s \in ended : IsLast(ended, end, s)
    <3> HIDE DEF ended, end
    <3>1. QED
      BY <1>1, <1>2, <1>3, <1>4, LastExists
  <2>2. \A t \in ended \ {s} : s.out > t.out \/ (s.out = t.out /\ s.id > t.id)
    BY <2>1 DEF IsLast
  <2> HIDE DEF ended
  <2>3. QED
    BY <2>2
<1>5. LatestEnded(d, room) = IF ended = {} THEN NoStay ELSE last.id
  BY DEF LatestEnded
<1>6. QED
  <2> HIDE DEF last
  <2>1. QED
    BY <1>4, <1>5

-----------------------------------------------------------------------------
\* insertPayment writes a row whose entry insertAudit writes in the same transaction.
LEMMA PaymentHasHistory ==
  ASSUME NEW e, NEW id \in RequestId, NEW room \in Room, NEW kind \in PaymentKind,
         NEW stay \in RequestId \cup {NoStay}, NEW amount \in Int, NEW at \in Nat \ {0},
         \E f \in e.audit : f.id = id /\ f.room = room /\ f.action = ActionOf(kind) /\ f.at = at,
         stay # NoStay => \E s \in e.stays : s.id = stay /\ s.room = room,
         NEW row, row = PaymentRowOf(id, kind, stay, room, amount, at)
  PROVE  row \in PaymentRow /\ row.request = id /\ PaymentHistory(e, row)
<1>1. /\ row \in PaymentRow /\ row.request = id /\ row.room = room /\ row.at = at
      /\ row.kind = kind /\ row.stay = stay
  BY DEF PaymentRowOf, PaymentRow
<1>2. PaymentHistory(e, row)
  BY <1>1 DEF PaymentHistory
<1>3. QED
  BY <1>1, <1>2

\* Check-ins and extensions write one payment at most.
LEMMA PaymentIfAnyIsOne ==
  ASSUME NEW id, NEW kind, NEW stay, NEW room, NEW amount, NEW at
  PROVE  PaymentIfAny(id, kind, stay, room, amount, at)
           \subseteq {PaymentRowOf(id, kind, stay, room, amount, at)}
BY DEF PaymentIfAny

(***************************************************************************)
(* The five transactions, when they commit, are bookings of their request, *)
(* room, action and time.                                                  *)
(***************************************************************************)
LEMMA CheckInBooks ==
  ASSUME NEW d, Sound(d), NEW id \in RequestId, NEW room \in Room,
         NEW mode \in StayMode \cup {NoMode}, NEW minutes \in Int, NEW amount \in Int,
         NEW at \in Nat \ {0},
         NEW e, e = RecordCheckIn(d, id, room, mode, minutes, amount, at), e # d
  PROVE  Booking(d, e, id, room, "check_in", at)
<1> DEFINE stay == [id |-> id, room |-> room, mode |-> mode, status |-> "in_use", in |-> at,
                    out |-> Null, cleaned |-> Null, updated |-> at, allocated |-> minutes,
                    paid |-> amount]
           fee == PaymentIfAny(id, "checkin", id, room, amount, at)
           payment == PaymentRowOf(id, "checkin", id, room, amount, at)
           entry == AuditRowOf(id, room, "check_in", mode, at)
           row == RoomState(d.rooms[room], "occupied", mode, minutes, amount)
<1>1. /\ AuditKeyFree(d, id) /\ StayKeyFree(d, id)
      /\ e = [d EXCEPT !.rooms[room] = row, !.stays = @ \cup {stay}, !.payments = @ \cup fee,
                       !.audit = @ \cup {entry}]
  BY DEF RecordCheckIn, Commits
<1> d \in Tables
  BY DEF Sound
<1>2. /\ stay \in StayRow /\ stay.id = id /\ stay.room = room /\ stay.status = "in_use"
      /\ stay.in = at /\ stay.out = Null /\ stay.cleaned = Null /\ stay.updated = at
  BY DEF StayRow, Status, Null
<1>3. /\ entry \in AuditRow /\ entry.id = id /\ entry.room = room /\ entry.at = at
      /\ entry.action = "check_in"
  BY DEF AuditRowOf, AuditRow, Action
<1>4. row \in RoomRow
  BY DEF RoomState, RoomRow, RoomStatus, Tables
<1>5. fee \subseteq {payment}
  BY PaymentIfAnyIsOne
<1> HIDE DEF stay, fee, row, entry
<1>6. e = [rooms |-> [d.rooms EXCEPT ![room] = row], stays |-> d.stays \cup {stay},
           payments |-> d.payments \cup fee, audit |-> d.audit \cup {entry}]
  BY <1>1 DEF Tables
<1>7. /\ fee \subseteq PaymentRow
      /\ \A p \in fee : p.request = id /\ PaymentHistory(e, p)
      /\ \A p, q \in fee : p = q
  <2> HIDE DEF fee
  <2>1. "checkin" \in PaymentKind /\ ActionOf("checkin") = "check_in"
    BY DEF PaymentKind, ActionOf
  <2>2. \E f \in e.audit : f.id = id /\ f.room = room /\ f.action = "check_in" /\ f.at = at
    BY <1>3, <1>6
  <2>3. \E s \in e.stays : s.id = id /\ s.room = room
    BY <1>2, <1>6
  <2>4. /\ payment \in PaymentRow /\ payment.request = id /\ PaymentHistory(e, payment)
    BY <2>1, <2>2, <2>3, PaymentHasHistory
  <2>5. QED
    BY <1>5, <2>4
<1> HIDE DEF payment
<1>8. e \in Tables
  BY <1>2, <1>3, <1>4, <1>6, <1>7 DEF Tables
<1>9. IsFiniteSet(e.stays)
  BY <1>6, FS_AddElement DEF Sound
<1>10. Distinct(e.stays)
  BY <1>1, <1>2, <1>6 DEF Sound, Distinct, StayKeyFree
<1>11. \A s \in d.stays : \E t \in e.stays : Follows(s, t)
  BY <1>6, FollowsItself DEF Tables
<1>12. StayHistory(e, stay)
  BY <1>2, <1>3, <1>6 DEF StayHistory, Null
<1>13. QED
  BY <1>1, <1>6, <1>7, <1>8, <1>9, <1>10, <1>11, <1>12 DEF Booking, entry

\* A check-out that commits ends the active stay, if there is one, and frees the room.
LEMMA CheckOutBooks ==
  ASSUME NEW d, Sound(d), NEW id \in RequestId, NEW room \in Room, NEW at \in Nat \ {0},
         NEW e, e = RecordCheckOut(d, id, room, at), e # d
  PROVE  Booking(d, e, id, room, "check_out", at)
<1> DEFINE Close(s) == [s EXCEPT !.status = "checked_out", !.out = at, !.updated = at]
           closed == [s \in d.stays |-> Close(s)]
           entry == AuditRowOf(id, room, "check_out", NoMode, at)
           active == ActiveStay(d, room)
           row == RoomState(d.rooms[room], "vacant", NoMode, 0, 0)
           stays == Updated(d.stays, active, closed)
<1>1. /\ AuditKeyFree(d, id)
      /\ e = [d EXCEPT !.rooms[room] = row, !.stays = UpdateStay(@, active, Close),
                       !.audit = @ \cup {entry}]
  BY DEF RecordCheckOut, Commits
<1> d \in Tables /\ d.stays \subseteq StayRow
  BY DEF Sound, Tables
<1>2. row \in RoomRow
  BY DEF RoomState, RoomRow, RoomStatus, Tables
<1>3. /\ entry \in AuditRow /\ entry.room = room /\ entry.at = at /\ entry.action = "check_out"
  BY DEF AuditRowOf, AuditRow, Action
<1>4. closed \in [d.stays -> StayRow]
  BY DEF StayRow, Status
<1>5. ASSUME NEW s \in d.stays, s.id = active
      PROVE  /\ Follows(s, closed[s]) /\ s.room = room
             /\ closed[s].room = s.room /\ closed[s].id = s.id /\ closed[s].in = s.in
             /\ closed[s].out = at /\ closed[s].updated = at /\ closed[s].cleaned = s.cleaned
             /\ closed[s].status = "checked_out"
  <2>1. s.id # NoStay
    BY LedgerAssumption DEF StayRow, NoStay
  <2>2. s \in InUse(d, room)
    BY <1>5, <2>1, ActiveStayIsOpen DEF Sound, Distinct, InUse
  <2>3. s.room = room /\ s.status = "in_use" /\ s.out = Null
    BY <2>2 DEF InUse, Sound, StayHistory
  <2>4. /\ closed[s].id = s.id /\ closed[s].room = s.room /\ closed[s].in = s.in
        /\ closed[s].out = at /\ closed[s].updated = at /\ closed[s].cleaned = s.cleaned
        /\ closed[s].status = "checked_out"
    BY DEF StayRow
  <2>5. QED
    BY <2>3, <2>4 DEF Follows
<1>6. UpdateStay(d.stays, active, Close) = stays
  BY DEF UpdateStay, Updated
<1> HIDE DEF Close, closed, active, entry, row
<1>7. /\ stays \subseteq StayRow /\ IsFiniteSet(stays) /\ Distinct(stays)
      /\ \A s \in d.stays : \E t \in stays : Follows(s, t)
      /\ \A t \in stays \ d.stays : \E s \in d.stays : s.id = active /\ t = closed[s]
  <2>1. \A s \in d.stays : s.id = active => Follows(s, closed[s])
    BY <1>5
  <2>2. StaysKept(d, active, closed, stays)
    BY <1>4, <2>1, UpdateKeepsStays
  <2> HIDE DEF stays
  <2>3. QED
    BY <2>2 DEF StaysKept
<1> HIDE DEF stays
<1>8. e = [rooms |-> [d.rooms EXCEPT ![room] = row], stays |-> stays,
           payments |-> d.payments, audit |-> d.audit \cup {entry}]
  BY <1>1, <1>6 DEF Tables
<1>9. e \in Tables
  BY <1>2, <1>3, <1>7, <1>8 DEF Tables
<1>10. ASSUME NEW t \in e.stays \ d.stays PROVE StayHistory(e, t)
  <2>1. PICK s \in d.stays : s.id = active /\ t = closed[s]
    BY <1>7, <1>8
  <2>2. StayHistory(d, s) /\ at # Null /\ "checked_out" # "in_use"
    BY DEF Sound, Null
  <2>3. QED
    BY <1>3, <1>5, <1>8, <2>1, <2>2 DEF StayHistory, Logged
<1>11. e.stays = stays /\ e.payments = d.payments /\ e.audit = d.audit \cup {entry}
  BY <1>8
<1>12. QED
  BY <1>1, <1>7, <1>9, <1>10, <1>11 DEF Booking, entry

\* An extension that commits lengthens the active stay, or books for a room without one.
LEMMA ExtendBooks ==
  ASSUME NEW d, Sound(d), NEW id \in RequestId, NEW room \in Room,
         NEW mode \in StayMode \cup {NoMode}, NEW minutes \in Int, NEW amount \in Int,
         NEW at \in Nat \ {0},
         NEW e, e = RecordExtend(d, id, room, mode, minutes, amount, at), e # d
  PROVE  Booking(d, e, id, room, "extend_stay", at)
<1> DEFINE active == ActiveStay(d, room)
           Prolong(s) == [s EXCEPT !.mode = mode, !.allocated = minutes, !.paid = @ + amount,
                                   !.updated = at]
           prolonged == [s \in d.stays |-> Prolong(s)]
           fee == PaymentIfAny(id, "extend", active, room, amount, at)
           payment == PaymentRowOf(id, "extend", active, room, amount, at)
           entry == AuditRowOf(id, room, "extend_stay", mode, at)
           row == RoomState(d.rooms[room], "occupied", mode, minutes, amount)
           stays == Updated(d.stays, active, prolonged)
<1>1. /\ AuditKeyFree(d, id)
      /\ e = [d EXCEPT !.rooms[room] = row, !.stays = UpdateStay(@, active, Prolong),
                       !.payments = @ \cup fee, !.audit = @ \cup {entry}]
  BY DEF RecordExtend, Commits
<1> d \in Tables /\ d.stays \subseteq StayRow
  BY DEF Sound, Tables
<1>2. row \in RoomRow
  BY DEF RoomState, RoomRow, RoomStatus, Tables
<1>3. /\ entry \in AuditRow /\ entry.id = id /\ entry.room = room /\ entry.at = at
      /\ entry.action = "extend_stay"
  BY DEF AuditRowOf, AuditRow, Action
<1>4. prolonged \in [d.stays -> StayRow]
  <2>1. \A s \in StayRow : s.paid + amount \in Int
    BY DEF StayRow
  <2>2. QED
    BY <2>1 DEF StayRow
<1>5. ASSUME NEW s \in d.stays, s.id = active
      PROVE  /\ Follows(s, prolonged[s]) /\ s.room = room
             /\ prolonged[s].room = s.room /\ prolonged[s].id = s.id /\ prolonged[s].in = s.in
             /\ prolonged[s].out = s.out /\ prolonged[s].cleaned = s.cleaned
             /\ prolonged[s].updated = at /\ prolonged[s].status = s.status
  <2>1. s.id # NoStay
    BY LedgerAssumption DEF StayRow, NoStay
  <2>2. s \in InUse(d, room)
    BY <1>5, <2>1, ActiveStayIsOpen DEF Sound, Distinct, InUse
  <2>3. s.room = room /\ s.status = "in_use"
    BY <2>2 DEF InUse
  <2>4. /\ prolonged[s].room = s.room /\ prolonged[s].id = s.id /\ prolonged[s].in = s.in
        /\ prolonged[s].out = s.out /\ prolonged[s].cleaned = s.cleaned
        /\ prolonged[s].updated = at /\ prolonged[s].status = s.status
    BY DEF StayRow
  <2>5. QED
    BY <2>3, <2>4 DEF Follows
<1>6. UpdateStay(d.stays, active, Prolong) = stays
  BY DEF UpdateStay, Updated
<1>7. fee \subseteq {payment}
  BY PaymentIfAnyIsOne
<1> HIDE DEF Prolong, prolonged, active, row, fee, entry
<1>8. /\ stays \subseteq StayRow /\ IsFiniteSet(stays) /\ Distinct(stays)
      /\ \A s \in d.stays : \E t \in stays : Follows(s, t)
      /\ \A t \in stays \ d.stays : \E s \in d.stays : s.id = active /\ t = prolonged[s]
  <2>1. \A s \in d.stays : s.id = active => Follows(s, prolonged[s])
    BY <1>5
  <2>2. StaysKept(d, active, prolonged, stays)
    BY <1>4, <2>1, UpdateKeepsStays
  <2> HIDE DEF stays
  <2>3. QED
    BY <2>2 DEF StaysKept
<1> HIDE DEF stays
<1>9. e = [rooms |-> [d.rooms EXCEPT ![room] = row], stays |-> stays,
           payments |-> d.payments \cup fee, audit |-> d.audit \cup {entry}]
  BY <1>1, <1>6 DEF Tables
<1>10. /\ e.stays = stays /\ e.payments = d.payments \cup fee
       /\ e.audit = d.audit \cup {entry}
  BY <1>9
<1>11. /\ fee \subseteq PaymentRow
       /\ \A p \in fee : p.request = id /\ PaymentHistory(e, p)
       /\ \A p, q \in fee : p = q
  <2>1. "extend" \in PaymentKind /\ ActionOf("extend") = "extend_stay"
    BY DEF PaymentKind, ActionOf
  <2>2. \E f \in e.audit : /\ f.id = id /\ f.room = room /\ f.at = at
                          /\ f.action = "extend_stay"
    BY <1>3, <1>10
  <2>3. active = NoStay \/ \E s \in d.stays : s.id = active /\ s.room = room
    BY ActiveStayIsOpen DEF active, InUse
  <2>4. active \in RequestId \cup {NoStay}
    BY <2>3 DEF StayRow
  <2>5. active # NoStay => \E s \in e.stays : s.id = active /\ s.room = room
    <3> SUFFICES ASSUME active # NoStay PROVE \E s \in e.stays : s.id = active /\ s.room = room
      OBVIOUS
    <3>1. PICK s \in d.stays : s.id = active /\ s.room = room
      BY <2>3
    <3>2. PICK t \in stays : Follows(s, t)
      BY <1>8
    <3>3. QED
      BY <1>10, <3>1, <3>2 DEF Follows
  <2>6. payment \in PaymentRow /\ payment.request = id /\ PaymentHistory(e, payment)
    BY <2>1, <2>2, <2>4, <2>5, PaymentHasHistory
  <2>7. QED
    BY <1>7, <2>6
<1> HIDE DEF payment
<1>12. e \in Tables
  BY <1>2, <1>3, <1>8, <1>9, <1>11 DEF Tables
<1>13. ASSUME NEW t \in e.stays \ d.stays PROVE StayHistory(e, t)
  <2>1. PICK s \in d.stays : s.id = active /\ t = prolonged[s]
    BY <1>8, <1>10
  <2>2. StayHistory(d, s)
    BY DEF Sound
  <2>3. QED
    BY <1>3, <1>5, <1>10, <2>1, <2>2 DEF StayHistory, Logged
<1>14. QED
  BY <1>1, <1>8, <1>10, <1>11, <1>12, <1>13 DEF Booking, entry

\* A payment that commits is booked under the active stay, if there is one.
LEMMA PaymentBooks ==
  ASSUME NEW d, Sound(d), NEW id \in RequestId, NEW room \in Room, NEW amount \in Int,
         NEW at \in Nat \ {0}, NEW e, e = RecordPayment(d, id, room, amount, at), e # d
  PROVE  Booking(d, e, id, room, "receive_payment", at)
<1> DEFINE active == ActiveStay(d, room)
           payment == PaymentRowOf(id, "received", active, room, amount, at)
           entry == AuditRowOf(id, room, "receive_payment", d.rooms[room].mode, at)
<1>1. /\ AuditKeyFree(d, id)
      /\ e = [d EXCEPT !.rooms[room].paid = amount, !.payments = @ \cup {payment},
                       !.audit = @ \cup {entry}]
  BY DEF RecordPayment, Commits
<1> d \in Tables /\ d.stays \subseteq StayRow
  BY DEF Sound, Tables
<1>2. [d.rooms EXCEPT ![room].paid = amount] \in [Room -> RoomRow]
  BY DEF Tables, RoomRow
<1>3. /\ entry \in AuditRow /\ entry.id = id /\ entry.room = room /\ entry.at = at
      /\ entry.action = "receive_payment"
  BY DEF AuditRowOf, AuditRow, Action, Tables, RoomRow
<1> HIDE DEF active, entry
<1>4. e = [rooms |-> [d.rooms EXCEPT ![room].paid = amount], stays |-> d.stays,
           payments |-> d.payments \cup {payment}, audit |-> d.audit \cup {entry}]
  BY <1>1 DEF Tables
<1>5. payment = PaymentRowOf(id, "received", active, room, amount, at)
  OBVIOUS
<1> HIDE DEF payment
<1>6. payment \in PaymentRow /\ payment.request = id /\ PaymentHistory(e, payment)
  <2>1. "received" \in PaymentKind /\ ActionOf("received") = "receive_payment"
    BY DEF PaymentKind, ActionOf
  <2>2. \E f \in e.audit : /\ f.id = id /\ f.room = room /\ f.at = at
                          /\ f.action = "receive_payment"
    BY <1>3, <1>4
  <2>3. active = NoStay \/ \E s \in d.stays : s.id = active /\ s.room = room
    BY ActiveStayIsOpen DEF active, InUse
  <2>4. active \in RequestId \cup {NoStay}
    BY <2>3 DEF StayRow
  <2>5. active # NoStay => \E s \in e.stays : s.id = active /\ s.room = room
    BY <1>4, <2>3
  <2>6. QED
    BY <1>5, <2>1, <2>2, <2>4, <2>5, PaymentHasHistory
<1>7. /\ e \in Tables /\ e.stays = d.stays /\ e.payments = d.payments \cup {payment}
      /\ e.audit = d.audit \cup {entry}
  BY <1>2, <1>3, <1>4, <1>6 DEF Tables
<1>8. \A s \in d.stays : \E t \in e.stays : Follows(s, t)
  BY <1>7, FollowsItself
<1>9. QED
  BY <1>1, <1>6, <1>7, <1>8 DEF Booking, Sound, entry

\* A room command that commits adds its audit entry and may end the cleaning of a stay.
LEMMA CommandBooks ==
  ASSUME NEW d, Sound(d), NEW id \in RequestId, NEW room \in Room, NEW at \in Nat \ {0},
         NEW action \in {"start_cleaning", "finish_cleaning", "open_room", "service"},
         NEW e, e = RecordCommand(d, id, room, action, at), e # d
  PROVE  Booking(d, e, id, room, action, at)
<1> DEFINE Clean(s) == [s EXCEPT !.cleaned = IF @ = Null THEN at ELSE @, !.updated = at]
           cleaned == [s \in d.stays |-> Clean(s)]
           ended == LatestEnded(d, room)
           row == CASE action = "start_cleaning"  -> [d.rooms[room] EXCEPT !.status = "cleaning"]
                    [] action = "finish_cleaning" -> RoomState(d.rooms[room], "vacant", NoMode, 0, 0)
                    [] OTHER -> d.rooms[room]
           entry == AuditRowOf(id, room, action, row.mode, at)
           stays == Updated(d.stays, ended, cleaned)
<1>1. /\ AuditKeyFree(d, id)
      /\ e = [d EXCEPT !.rooms[room] = row,
                       !.stays = IF action = "finish_cleaning" THEN UpdateStay(@, ended, Clean)
                                                               ELSE @,
                       !.audit = @ \cup {entry}]
  BY DEF RecordCommand, Commits
<1> d \in Tables /\ d.stays \subseteq StayRow
  BY DEF Sound, Tables
<1>2. row \in RoomRow
  BY DEF RoomState, RoomRow, RoomStatus, Tables
<1> HIDE DEF row
<1>3. /\ entry \in AuditRow /\ entry.room = room /\ entry.at = at /\ entry.action = action
  BY <1>2 DEF AuditRowOf, AuditRow, Action, RoomRow
<1>4. cleaned \in [d.stays -> StayRow]
  BY DEF StayRow
<1>5. ASSUME NEW s \in d.stays, s.id = ended
      PROVE  /\ Follows(s, cleaned[s]) /\ s.room = room
             /\ cleaned[s].room = s.room /\ cleaned[s].id = s.id /\ cleaned[s].in = s.in
             /\ cleaned[s].out = s.out /\ cleaned[s].updated = at
             /\ cleaned[s].cleaned = (IF s.cleaned = Null THEN at ELSE s.cleaned)
             /\ cleaned[s].status = s.status
  <2>1. s.id # NoStay
    BY LedgerAssumption DEF StayRow, NoStay
  <2>2. s.room = room
    BY <1>5, <2>1, LatestEndedHasEnded DEF Sound, Distinct
  <2>3. /\ cleaned[s].room = s.room /\ cleaned[s].id = s.id /\ cleaned[s].in = s.in
        /\ cleaned[s].out = s.out /\ cleaned[s].updated = at
        /\ cleaned[s].cleaned = (IF s.cleaned = Null THEN at ELSE s.cleaned)
        /\ cleaned[s].status = s.status
    BY DEF StayRow
  <2>4. cleaned[s] = [s EXCEPT !.updated = cleaned[s].updated,
                               !.cleaned = IF @ = Null THEN cleaned[s].cleaned ELSE @]
    BY DEF StayRow
  <2>5. QED
    BY <2>2, <2>3, <2>4 DEF Follows
<1>6. UpdateStay(d.stays, ended, Clean) = stays
  BY DEF UpdateStay, Updated
<1> HIDE DEF Clean, cleaned, ended, entry
<1>7. /\ stays \subseteq StayRow /\ IsFiniteSet(stays) /\ Distinct(stays)
      /\ \A s \in d.stays : \E t \in stays : Follows(s, t)
      /\ \A t \in stays \ d.stays : \E s \in d.stays : s.id = ended /\ t = cleaned[s]
  <2>1. \A s \in d.stays : s.id = ended => Follows(s, cleaned[s])
    BY <1>5
  <2>2. StaysKept(d, ended, cleaned, stays)
    BY <1>4, <2>1, UpdateKeepsStays
  <2> HIDE DEF stays
  <2>3. QED
    BY <2>2 DEF StaysKept
<1> HIDE DEF stays
<1>8. e = [rooms |-> [d.rooms EXCEPT ![room] = row],
           stays |-> IF action = "finish_cleaning" THEN stays ELSE d.stays,
           payments |-> d.payments, audit |-> d.audit \cup {entry}]
  BY <1>1, <1>6 DEF Tables
<1>9. /\ e \in Tables /\ e.payments = d.payments /\ e.audit = d.audit \cup {entry}
  BY <1>2, <1>3, <1>7, <1>8 DEF Tables
<1>10. /\ IsFiniteSet(e.stays) /\ Distinct(e.stays)
       /\ \A s \in d.stays : \E t \in e.stays : Follows(s, t)
  BY <1>7, <1>8, FollowsItself DEF Sound
<1>11. ASSUME NEW t \in e.stays \ d.stays PROVE StayHistory(e, t)
  <2>1. action = "finish_cleaning" /\ t \in stays \ d.stays
    BY <1>8
  <2>2. PICK s \in d.stays : s.id = ended /\ t = cleaned[s]
    BY <1>7, <2>1
  <2>3. StayHistory(d, s)
    BY DEF Sound
  <2>4. QED
    BY <1>3, <1>5, <1>9, <2>1, <2>2, <2>3 DEF StayHistory, Logged
<1>12. QED
  BY <1>1, <1>9, <1>10, <1>11 DEF Booking, entry
=============================================================================
