------------------------------- MODULE Ledger -------------------------------
(***************************************************************************)
(* The transactions of package store as functions on the database.  A      *)
(* database is a record of four tables: rooms, a function; stays, payments *)
(* and audit, sets of rows with a key.  Each Record operator is one        *)
(* withTx: it returns the database after the commit, or the same database  *)
(* when a statement fails and the transaction is rolled back.              *)
(*                                                                         *)
(* Case codes go with the stay mode and payment methods and references     *)
(* with the amount; they, the remarks and the floors are left out.         *)
(***************************************************************************)
EXTENDS Integers, FiniteSets

CONSTANTS
  Room,        \* rooms of the map, which seedRooms has put into the table
  RequestId,   \* numbers, ordered as SQLite orders the texts they stand for
  StayMode     \* stay modes a request may carry besides ""

ASSUME LedgerAssumption ==
  /\ RequestId \subseteq Nat \ {0}
  /\ "" \notin StayMode

NoMode == ""                 \* an empty stay_mode
NoStay == 0                  \* an empty stay_id
Null   == 0                  \* a time that is NULL; times are 1, 2, ...

RoomStatus == {"vacant", "occupied", "cleaning"}
Status     == {"in_use", "checked_out"}
PaymentKind == {"checkin", "extend", "received"}
Action     == {"check_in", "check_out", "extend_stay", "receive_payment",
               "start_cleaning", "finish_cleaning", "open_room", "service"}

RoomRow == [status: RoomStatus, mode: StayMode \cup {NoMode}, minutes: Int, paid: Int]
StayRow == [id: RequestId, room: Room, mode: StayMode \cup {NoMode}, status: Status,
            in: Nat, out: Nat, cleaned: Nat, updated: Nat, allocated: Int, paid: Int]
\* payment_id is the request id with the suffix of its kind.
PaymentRow == [request: RequestId, kind: PaymentKind, stay: RequestId \cup {NoStay},
               room: Room, amount: Int, at: Nat]
AuditRow == [id: RequestId, room: Room, action: Action, mode: StayMode \cup {NoMode}, at: Nat]

EmptyDatabase ==
  [rooms    |-> [r \in Room |-> [status |-> "vacant", mode |-> NoMode, minutes |-> 0, paid |-> 0]],
   stays    |-> {}, payments |-> {}, audit |-> {}]
-----------------------------------------------------------------------------
\* Primary keys and the reference to rooms: an insert fails outside them.
AuditKeyFree(db, id)         == \A e \in db.audit : e.id # id
StayKeyFree(db, id)          == \A s \in db.stays : s.id # id
PaymentKeyFree(db, id, kind) == \A p \in db.payments : <<p.request, p.kind>> # <<id, kind>>
\* Every transaction ends with insertAudit.
BugCommits(db, room, id) == room \in Room
Commits(db, room, id) == room \in Room /\ AuditKeyFree(db, id)

\* findActiveStay: the latest stay of the room in use, NoStay when there is none.
BugInUse(db, room) == {s \in db.stays : s.status = "in_use"}
InUse(db, room) == {s \in db.stays : s.room = room /\ s.status = "in_use"}

Latest(stays) ==
  CHOOSE s \in stays : \A t \in stays \ {s} : s.in > t.in \/ (s.in = t.in /\ s.id > t.id)

BugActiveStay(db, room) ==
  LET open == {s \in db.stays : s.room = room} IN IF open = {} THEN NoStay ELSE Latest(open).id
BugMissingStay(db, room) ==
  LET open == InUse(db, room) IN IF open = {} THEN -1 ELSE Latest(open).id
ActiveStay(db, room) ==
  LET open == InUse(db, room) IN IF open = {} THEN NoStay ELSE Latest(open).id

\* UPDATE stays SET ... WHERE stay_id = id.
UpdateStay(stays, id, Change(_)) == {IF s.id = id THEN Change(s) ELSE s : s \in stays}

\* updateRoomState: an amount of 0 keeps the last payment.
RoomState(row, status, mode, minutes, amount) ==
  [status |-> status, mode |-> mode, minutes |-> minutes,
   paid |-> IF amount # 0 THEN amount ELSE row.paid]

\* insertPayment
BugPaymentRow(id, kind, stay, room, amount, at) ==
  [request |-> id, kind |-> kind, stay |-> id, room |-> room, amount |-> amount, at |-> at]
PaymentRowOf(id, kind, stay, room, amount, at) ==
  [request |-> id, kind |-> kind, stay |-> stay, room |-> room, amount |-> amount, at |-> at]

\* Check-ins and extensions book a payment when the amount is positive.
PaymentIfAny(id, kind, stay, room, amount, at) ==
  IF amount > 0 THEN {PaymentRowOf(id, kind, stay, room, amount, at)} ELSE {}

\* insertAudit
AuditRowOf(id, room, action, mode, at) ==
  [id |-> id, room |-> room, action |-> action, mode |-> mode, at |-> at]
-----------------------------------------------------------------------------
RecordCheckIn(db, id, room, mode, minutes, amount, at) ==
  IF ~Commits(db, room, id) \/ ~StayKeyFree(db, id)
       \/ (amount > 0 /\ ~PaymentKeyFree(db, id, "checkin"))
    THEN db
    ELSE [db EXCEPT
           !.rooms[room] = RoomState(@, "occupied", mode, minutes, amount),
           !.stays = @ \cup
             {[id |-> id, room |-> room, mode |-> mode, status |-> "in_use", in |-> at,
               out |-> Null, cleaned |-> Null, updated |-> at, allocated |-> minutes,
               paid |-> amount]},
           !.payments = @ \cup PaymentIfAny(id, "checkin", id, room, amount, at),
           !.audit = @ \cup {AuditRowOf(id, room, "check_in", mode, at)}]

RecordCheckOut(db, id, room, at) ==
  LET Close(s) == [s EXCEPT !.status = "checked_out", !.out = at, !.updated = at]
  IN  IF ~Commits(db, room, id)
        THEN db
        ELSE [db EXCEPT
               !.rooms[room] = RoomState(@, "vacant", NoMode, 0, 0),
               !.stays = UpdateStay(@, ActiveStay(db, room), Close),
               !.audit = @ \cup {AuditRowOf(id, room, "check_out", NoMode, at)}]

RecordExtend(db, id, room, mode, minutes, amount, at) ==
  LET stay == ActiveStay(db, room)
      Prolong(s) ==
        [s EXCEPT !.mode = mode, !.allocated = minutes, !.paid = @ + amount, !.updated = at]
  IN  IF ~Commits(db, room, id) \/ (amount > 0 /\ ~PaymentKeyFree(db, id, "extend"))
        THEN db
        ELSE [db EXCEPT
               !.rooms[room] = RoomState(@, "occupied", mode, minutes, amount),
               !.stays = UpdateStay(@, stay, Prolong),
               !.payments = @ \cup PaymentIfAny(id, "extend", stay, room, amount, at),
               !.audit = @ \cup {AuditRowOf(id, room, "extend_stay", mode, at)}]

\* updateRoomPayment sets the last payment whatever the amount is; the stay
\* that is running does not get the amount.
BugRecordPayment(db, id, room, amount, at) ==
  IF ~PaymentKeyFree(db, id, "received")
    THEN db
    ELSE [db EXCEPT
           !.rooms[room].paid = amount,
           !.payments = @ \cup {PaymentRowOf(id, "received", ActiveStay(db, room), room, amount, at)},
           !.audit = IF Commits(db, room, id)
                       THEN @ \cup {AuditRowOf(id, room, "receive_payment", db.rooms[room].mode, at)}
                       ELSE @]
RecordPayment(db, id, room, amount, at) ==
  IF ~Commits(db, room, id) \/ ~PaymentKeyFree(db, id, "received")
    THEN db
    ELSE [db EXCEPT
           !.rooms[room].paid = amount,
           !.payments = @ \cup {PaymentRowOf(id, "received", ActiveStay(db, room), room, amount, at)},
           !.audit = @ \cup {AuditRowOf(id, room, "receive_payment", db.rooms[room].mode, at)}]

\* closeCleaningForLatestStay: the stay of the room that ended last.
LatestEnded(db, room) ==
  LET ended == {s \in db.stays : s.room = room /\ s.out # Null}
  IN  IF ended = {} THEN NoStay
      ELSE (CHOOSE s \in ended : \A t \in ended \ {s} :
              s.out > t.out \/ (s.out = t.out /\ s.id > t.id)).id

RecordCommand(db, id, room, action, at) ==
  LET Clean(s) == [s EXCEPT !.cleaned = IF @ = Null THEN at ELSE @, !.updated = at]
      row == CASE action = "start_cleaning"  -> [db.rooms[room] EXCEPT !.status = "cleaning"]
               [] action = "finish_cleaning" -> RoomState(db.rooms[room], "vacant", NoMode, 0, 0)
               [] OTHER -> db.rooms[room]
  IN  IF ~Commits(db, room, id)
        THEN db
        ELSE [db EXCEPT
               !.rooms[room] = row,
               !.stays = IF action = "finish_cleaning"
                           THEN UpdateStay(@, LatestEnded(db, room), Clean)
                           ELSE @,
               !.audit = @ \cup {AuditRowOf(id, room, action, row.mode, at)}]
=============================================================================
