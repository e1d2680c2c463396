-------------------------------- MODULE Store -------------------------------
(***************************************************************************)
(* The database by itself: SQLite with one connection runs the             *)
(* transactions of all handlers one after the other, in any order and with *)
(* any parameters a request can carry.  The time of a transaction is the   *)
(* one its handler took before it queued for the connection, in whole      *)
(* seconds, so it need not be later than the times already in the tables.  *)
(***************************************************************************)
EXTENDS Ledger, Functions

CONSTANTS
  Time,        \* the seconds in which requests arrive
  Minutes,     \* stay lengths
  Amount,      \* amounts of money, 0 for none
  Commands,    \* which of the room commands come
  UnknownRoom, \* a room id nothing knows
  MaxBooked    \* bound: requests that get booked

ASSUME StoreAssumption ==
  /\ Time \subseteq Nat \ {0} /\ Minutes \subseteq Int /\ Amount \subseteq Int
  /\ Commands \subseteq {"start_cleaning", "finish_cleaning", "open_room", "service"}
  /\ UnknownRoom \notin Room /\ MaxBooked \in Nat

VARIABLE db

Mode == StayMode \cup {NoMode}

Init == db = EmptyDatabase

CheckIn(id, room, at) ==
  \E mode \in Mode, minutes \in Minutes, amount \in Amount :
    db' = RecordCheckIn(db, id, room, mode, minutes, amount, at)

CheckOut(id, room, at) == db' = RecordCheckOut(db, id, room, at)

Extend(id, room, at) ==
  \E mode \in Mode, minutes \in Minutes, amount \in Amount :
    db' = RecordExtend(db, id, room, mode, minutes, amount, at)

Payment(id, room, at) == \E amount \in Amount : db' = RecordPayment(db, id, room, amount, at)

Command(id, room, at) ==
  \E action \in Commands : db' = RecordCommand(db, id, room, action, at)

\* Of the requests for a room nothing knows only open_room and service get here:
\* the others fail in ApplyIntent, or payments in stateStore.get.
Service(id, at) == db' = RecordCommand(db, id, UnknownRoom, "service", at)

\* The bound leaves Service, which is always rolled back.
Book(id, room, at) ==
  /\ Cardinality(db.audit) < MaxBooked
  /\ \/ CheckIn(id, room, at) \/ CheckOut(id, room, at) \/ Extend(id, room, at)
     \/ Payment(id, room, at) \/ Command(id, room, at)

Next ==
  \E id \in RequestId, at \in Time :
    (\E room \in Room : Book(id, room, at)) \/ Service(id, at)

Spec == Init /\ [][Next]_db

\* What payments add up to, as the workbooks have it.
Money(payments) == SumFunction([p \in payments |-> p.amount])
-----------------------------------------------------------------------------
TypeOK ==
  /\ db.rooms \in [Room -> RoomRow]
  /\ db.stays \subseteq StayRow
  /\ db.payments \subseteq PaymentRow
  /\ db.audit \subseteq AuditRow

(***************************************************************************)
(* No business row without its audit entry: a stay or a payment carries a  *)
(* request id that the audit table has, for the same room and an action    *)
(* that makes such rows.  A request id used twice fails in the last        *)
(* statement of its transaction, so this is what the rollback is for.      *)
(***************************************************************************)
BusinessRowsAudited ==
  /\ \A s \in db.stays : \E e \in db.audit :
       e.id = s.id /\ e.room = s.room /\ e.action = "check_in"
  /\ \A p \in db.payments : \E e \in db.audit :
       /\ e.id = p.request /\ e.room = p.room
       /\ e.action = CASE p.kind = "checkin" -> "check_in"
                       [] p.kind = "extend"  -> "extend_stay"
                       [] OTHER -> "receive_payment"

(***************************************************************************)
(* One request, one effect: of the stays, the payments and the audit       *)
(* entries each carries a request id at most once, and no request makes a  *)
(* payment of two kinds.                                                   *)
(***************************************************************************)
RequestsBookedOnce ==
  /\ \A s, t \in db.stays : s.id = t.id => s = t
  /\ \A p, q \in db.payments : p.request = q.request => p = q
  /\ \A e, f \in db.audit : e.id = f.id => e = f

(***************************************************************************)
(* A payment that names a stay names one of its own room.                  *)
(***************************************************************************)
PaymentsNameOwnStay ==
  \A p \in db.payments :
    p.stay # NoStay => \E s \in db.stays : s.id = p.stay /\ s.room = p.room

(***************************************************************************)
(* What a stay says was paid is what the payments booked at check-in and   *)
(* by extensions of it say.  Payments received on their own are booked     *)
(* under the stay and are not part of its amount (RecordPayment does not   *)
(* touch the stay), so a report that adds both up counts right.            *)
(***************************************************************************)
StayAmountIsBooked ==
  \A s \in db.stays :
    s.paid = Money({p \in db.payments : p.stay = s.id /\ p.kind \in {"checkin", "extend"}})

(***************************************************************************)
(* A stay that has ended is history: whatever requests for the room come,  *)
(* in whatever order of their times, its times, its minutes and its amount *)
(* stay, except that the first cleaning after it is noted once and every   *)
(* cleaning as its last update.  (Requests that are rolled back break      *)
(* nothing; to say so spares the model checker most of its work.)          *)
(***************************************************************************)
EndedStaysFinal ==
  [][db' # db => \A s \in db.stays :
       s.status = "checked_out" =>
         \E t \in db'.stays :
           t = [s EXCEPT !.updated = t.updated,
                         !.cleaned = IF @ = Null THEN t.cleaned ELSE @]]_db

(***************************************************************************)
(* docs/state_machine.md:48-60: a guest checks in to a vacant room, and    *)
(* out of it before the next one does, so a room has one stay in use at    *)
(* most.                                                                   *)
(***************************************************************************)
OneGuestPerRoom == \A r \in Room : Cardinality(InUse(db, r)) <= 1
=============================================================================
