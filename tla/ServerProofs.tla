----------------------------- MODULE ServerProofs ---------------------------
(***************************************************************************)
(* What holds of module Server for any number of handlers, rooms and       *)
(* requests, and whatever faults come between their steps: the types, the  *)
(* promise of module Desk, and that relay, memory, audit log and book keep *)
(* in step.  One inductive invariant per record, each on top of TypeInv:   *)
(*                                                                         *)
(*   Progress    what a handler has done so far is in the book             *)
(*   RelayInv    whose frame the relay shows between frame and book        *)
(*   MemoryInv   what a handler will make of the memory's row              *)
(*   LogInv      which booked entries the memory's log was given           *)
(***************************************************************************)
EXTENDS Server, LedgerProofs, SequenceTheorems
LOCAL INSTANCE SequencesExt
LOCAL INSTANCE FiniteSetsExt

\* A row may have any integer in the table's type; the code books no negative one.
MinutesOK(rows) == \A r \in Room : rows[r].minutes \in Nat

\* The types, and what the transactions need of their arguments.
BookOK == Sound(db) /\ MinutesOK(db.rooms)

MemoryOK == rooms \in [Room -> RoomRow] /\ MinutesOK(rooms)

LocalsOK ==
  /\ pc \in [Handler -> Place] /\ req \in [Handler -> Request]
  /\ now \in [Handler -> Time \cup {Null}] /\ minutes \in [Handler -> Nat]
  /\ \A h \in Handler : /\ pc[h] = "drive" => Drives(req[h].action)
                        /\ pc[h] = "book"  => now[h] \in Time

HistoryOK ==
  /\ relay \in [Room -> BOOLEAN]
  /\ told \subseteq Entry /\ answered \subseteq Entry /\ forgotten \subseteq Entry
  /\ owner \subseteq Handler /\ vacantOpens \subseteq RequestId
  /\ strayed \subseteq Room /\ adrift \subseteq Room /\ unmoded \subseteq Room

TypeInv == BookOK /\ MemoryOK /\ LocalsOK /\ HistoryOK

\* What the transaction of request q makes of the row of its room.
BookedRow(row, q, stayMinutes) ==
  CASE q.action \in {"check_in", "extend_stay"} ->
         RoomState(row, "occupied", q.mode, stayMinutes, q.amount)
    [] q.action \in {"check_out", "finish_cleaning"} -> RoomState(row, "vacant", NoMode, 0, 0)
    [] q.action = "start_cleaning"  -> [row EXCEPT !.status = "cleaning"]
    [] q.action = "receive_payment" -> [row EXCEPT !.paid = q.amount]
    [] OTHER -> row

\* The request of an idle handler, and an entry, are of their types.
LEMMA NoRequestType == NoRequest \in Request
BY ServerAssumption, LedgerAssumption DEF NoRequest, Request, Action

\* The entry of a request is of its type.
LEMMA EntryType ==
  ASSUME NEW q \in Request PROVE EntryOf(q) \in Entry
BY DEF EntryOf, Entry, Request

\* The minutes left are not negative, so the larger number is the sum.
LEMMA ExtendedAdds ==
  ASSUME NEW row, row.minutes \in Nat, NEW extension \in Nat
  PROVE  Extended(row, extension) = row.minutes + extension
BY DEF Extended, Max

(***************************************************************************)
(* A transaction that commits is a booking of its request, and the row of  *)
(* the room is what the room's handlers make of it.                        *)
(***************************************************************************)
LEMMA TransactionBooks ==
  ASSUME TypeInv, NEW h \in Handler, pc[h] = "book", Transaction(h) # db
  PROVE  /\ Booking(db, Transaction(h), req[h].id, req[h].room, req[h].action, now[h])
         /\ Transaction(h).rooms =
              [db.rooms EXCEPT ![req[h].room] = BookedRow(@, req[h], minutes[h])]
<1> DEFINE q == req[h]
           e == Transaction(h)
<1>1. /\ q.id \in RequestId /\ q.room \in Room /\ q.action \in Action
      /\ q.mode \in StayMode \cup {NoMode} /\ q.amount \in Int
      /\ minutes[h] \in Int /\ now[h] \in Nat \ {0} /\ Sound(db)
  <2>1. q \in Request /\ now[h] \in Time /\ minutes[h] \in Nat /\ Sound(db)
    BY DEF TypeInv, BookOK, LocalsOK
  <2>2. now[h] \in Nat \ {0}
    BY <2>1, ServerAssumption
  <2> HIDE DEF q
  <2>3. /\ q.id \in RequestId /\ q.room \in Room /\ q.action \in Action
        /\ q.mode \in StayMode \cup {NoMode} /\ q.amount \in Int
    BY <2>1 DEF Request
  <2>4. QED
    BY <2>1, <2>2, <2>3 DEF q
<1>2. CASE q.action = "check_in"
  <2>1. e = RecordCheckIn(db, q.id, q.room, q.mode, minutes[h], q.amount, now[h])
    BY <1>2 DEF Transaction
  <2>2. Booking(db, e, q.id, q.room, "check_in", now[h])
    BY <1>1, <2>1, CheckInBooks
  <2>3. e.rooms = [db.rooms EXCEPT ![q.room] = RoomState(@, "occupied", q.mode, minutes[h], q.amount)]
    BY <1>1, <2>1 DEF RecordCheckIn, Sound, Tables
  <2>4. QED
    BY <1>2, <2>2, <2>3 DEF BookedRow
<1>3. CASE q.action = "check_out"
  <2>1. e = RecordCheckOut(db, q.id, q.room, now[h])
    BY <1>3 DEF Transaction
  <2>2. Booking(db, e, q.id, q.room, "check_out", now[h])
    BY <1>1, <2>1, CheckOutBooks
  <2>3. e.rooms = [db.rooms EXCEPT ![q.room] = RoomState(@, "vacant", NoMode, 0, 0)]
    BY <1>1, <2>1 DEF RecordCheckOut, Sound, Tables
  <2>4. QED
    BY <1>3, <2>2, <2>3 DEF BookedRow
<1>4. CASE q.action = "extend_stay"
  <2>1. e = RecordExtend(db, q.id, q.room, q.mode, minutes[h], q.amount, now[h])
    BY <1>4 DEF Transaction
  <2>2. Booking(db, e, q.id, q.room, "extend_stay", now[h])
    BY <1>1, <2>1, ExtendBooks
  <2>3. e.rooms = [db.rooms EXCEPT ![q.room] = RoomState(@, "occupied", q.mode, minutes[h], q.amount)]
    BY <1>1, <2>1 DEF RecordExtend, Sound, Tables
  <2>4. QED
    BY <1>4, <2>2, <2>3 DEF BookedRow
<1>5. CASE q.action = "receive_payment"
  <2>1. e = RecordPayment(db, q.id, q.room, q.amount, now[h])
    BY <1>5 DEF Transaction
  <2>2. Booking(db, e, q.id, q.room, "receive_payment", now[h])
    BY <1>1, <2>1, PaymentBooks
  <2>3. e.rooms = [db.rooms EXCEPT ![q.room] = [@ EXCEPT !.paid = q.amount]]
    BY <1>1, <2>1 DEF RecordPayment, Sound, Tables
  <2>4. QED
    BY <1>5, <2>2, <2>3 DEF BookedRow
<1>6. CASE q.action \in {"start_cleaning", "finish_cleaning", "open_room", "service"}
  <2>1. e = RecordCommand(db, q.id, q.room, q.action, now[h])
    BY <1>6 DEF Transaction
  <2>2. Booking(db, e, q.id, q.room, q.action, now[h])
    BY <1>1, <1>6, <2>1, CommandBooks
  <2>3. e.rooms = [db.rooms EXCEPT ![q.room] = BookedRow(@, q, minutes[h])]
    BY <1>1, <1>6, <2>1 DEF RecordCommand, Sound, Tables, BookedRow
  <2>4. QED
    BY <2>2, <2>3
<1>7. QED
  BY <1>1, <1>2, <1>3, <1>4, <1>5, <1>6 DEF Action

-----------------------------------------------------------------------------
\* The entries that are booked are of theirs.
LEMMA BookedType ==
  ASSUME Sound(db) PROVE Booked \subseteq Entry
<1>1. db.audit \subseteq AuditRow
  BY DEF Sound, Tables
<1>2. QED
  BY <1>1 DEF Booked, EntryOf, Entry, AuditRow

\* The database a new installation has is sound, and no room has minutes left.
LEMMA EmptyIsSound == Sound(EmptyDatabase) /\ MinutesOK(EmptyDatabase.rooms)
<1>1. EmptyDatabase \in Tables
  BY DEF EmptyDatabase, Tables, RoomRow, RoomStatus
<1>2. /\ EmptyDatabase.stays = {} /\ EmptyDatabase.payments = {} /\ EmptyDatabase.audit = {}
      /\ \A r \in Room : EmptyDatabase.rooms[r].minutes = 0
  BY DEF EmptyDatabase
<1>3. QED
  BY <1>1, <1>2, FS_EmptySet DEF Sound, MinutesOK, Distinct

\* A handler's locals after its last step, and after any other but Stamp.
LEMMA LeaveKeepsLocals ==
  ASSUME LocalsOK, NEW h \in Handler, Leave(h) PROVE LocalsOK'
<1>1. /\ pc' = [pc EXCEPT ![h] = "idle"] /\ req' = [req EXCEPT ![h] = NoRequest]
      /\ now' = [now EXCEPT ![h] = Null] /\ minutes' = [minutes EXCEPT ![h] = 0]
  BY DEF Leave, Goto
<1>2. QED
  BY <1>1, NoRequestType DEF LocalsOK, Place

\* Going to a place that asks nothing of the locals keeps them.
LEMMA GotoKeepsLocals ==
  ASSUME LocalsOK, NEW h \in Handler, NEW place \in Place \ {"drive", "book"}, Goto(h, place),
         UNCHANGED <<req, now, minutes>>
  PROVE  LocalsOK'
BY DEF LocalsOK, Goto

\* The row in memory after a request.
LEMMA FreedIs ==
  ASSUME NEW row \in RoomRow
  PROVE  /\ Freed(row) \in RoomRow
         /\ Freed(row).status = "vacant" /\ Freed(row).mode = NoMode
         /\ Freed(row).minutes = 0 /\ Freed(row).paid = row.paid
<1> DEFINE a == [row EXCEPT !.status = "vacant"]
           b == [a EXCEPT !.mode = NoMode]
<1>1. a \in RoomRow /\ a.status = "vacant" /\ a.paid = row.paid
  BY DEF RoomRow, RoomStatus
<1> HIDE DEF a
<1>2. b \in RoomRow /\ b.status = "vacant" /\ b.mode = NoMode /\ b.paid = row.paid
  BY <1>1 DEF RoomRow
<1> HIDE DEF b
<1>3. LET c == [b EXCEPT !.minutes = 0]
      IN  /\ c \in RoomRow /\ c.status = "vacant" /\ c.mode = NoMode /\ c.minutes = 0
          /\ c.paid = row.paid
  BY <1>2 DEF RoomRow
<1>4. Freed(row) = [b EXCEPT !.minutes = 0]
  BY DEF Freed, a, b
<1>5. QED
  BY <1>3, <1>4

\* The memory's row after a request is a row.
LEMMA AppliedType ==
  ASSUME NEW row \in RoomRow, row.minutes \in Nat, NEW q \in Request
  PROVE  Applied(row, q) \in RoomRow /\ Applied(row, q).minutes \in Nat
<1>1. /\ q.mode \in StayMode \cup {NoMode} /\ q.minutes \in Nat /\ q.amount \in Nat
      /\ row.status \in RoomStatus /\ row.mode \in StayMode \cup {NoMode}
      /\ row.minutes \in Int /\ row.paid \in Int /\ q.action \in Action
  BY DEF Request, RoomRow
<1>2. CASE q.action = "check_in"
  BY <1>1, <1>2 DEF Applied, RoomRow, RoomStatus
<1>3. CASE q.action = "extend_stay"
  BY <1>1, <1>3 DEF Applied, RoomRow, RoomStatus
<1>4. CASE q.action \in {"check_out", "finish_cleaning"}
  <2>1. Applied(row, q) = Freed(row)
    BY <1>4 DEF Applied
  <2>2. QED
    BY <1>1, <2>1, FreedIs
<1>5. CASE q.action \in {"start_cleaning", "receive_payment", "open_room", "service"}
  BY <1>1, <1>5 DEF Applied, RoomRow, RoomStatus
<1>6. QED
  BY <1>1, <1>2, <1>3, <1>4, <1>5 DEF Action

\* The minutes of a row the database gets are no less than 0.
LEMMA BookedRowMinutes ==
  ASSUME NEW row \in RoomRow, row.minutes \in Nat, NEW q, NEW stayMinutes \in Nat
  PROVE  BookedRow(row, q, stayMinutes).minutes \in Nat
BY DEF BookedRow, RoomState, RoomRow

-----------------------------------------------------------------------------
\* The types hold at the start.
LEMMA TypeInvInit == Init => TypeInv
<1> SUFFICES ASSUME Init PROVE TypeInv
  OBVIOUS
<1>1. BookOK
  BY EmptyIsSound DEF Init, BookOK
<1>2. MemoryOK
  BY EmptyIsSound DEF Init, MemoryOK, Sound, Tables
<1>3. LocalsOK
  BY NoRequestType DEF Init, LocalsOK, Place
<1>4. HistoryOK
  BY DEF Init, HistoryOK
<1>5. QED
  BY <1>1, <1>2, <1>3, <1>4 DEF TypeInv

\* Every action keeps the types, the book sound and the handlers' locals in order.
LEMMA TypeInvInductive == TypeInv /\ [Next]_vars => TypeInv'
<1> SUFFICES ASSUME TypeInv, [Next]_vars PROVE TypeInv'
  OBVIOUS
<1> USE DEF TypeInv
<1>1. ASSUME NEW h \in Handler, Receive(h) PROVE TypeInv'
  <2>1. PICK q \in Request :
          /\ req' = [req EXCEPT ![h] = q]
          /\ Goto(h, IF Drives(q.action) THEN "drive" ELSE "stamp")
    <3>1. PICK q \in [id: RequestId, room: Room, action: Offered, mode: Modes \cup {NoMode},
                      minutes: Minutes \cup {0}, amount: Amount \cup {0}] :
            /\ req' = [req EXCEPT ![h] = q]
            /\ Goto(h, IF Drives(q.action) THEN "drive" ELSE "stamp")
      BY <1>1 DEF Receive
    <3>2. /\ Offered \subseteq Action /\ Modes \cup {NoMode} \subseteq StayMode \cup {NoMode}
          /\ Minutes \cup {0} \subseteq Nat /\ Amount \cup {0} \subseteq Nat
      BY ServerAssumption
    <3>3. q \in Request
      BY <3>2 DEF Request
    <3>4. QED
      BY <3>1, <3>3
  <2>2. LocalsOK'
    BY <1>1, <2>1 DEF Receive, Goto, LocalsOK, Place
  <2>3. BookOK' /\ MemoryOK' /\ HistoryOK'
    BY <1>1 DEF Receive, record, history, BookOK, MemoryOK, HistoryOK
  <2>4. QED
    BY <2>2, <2>3
<1>2. ASSUME NEW h \in Handler, Drive(h) PROVE TypeInv'
  <2>1. LocalsOK'
    BY <1>2, GotoKeepsLocals DEF Drive, Place
  <2>2. BookOK' /\ MemoryOK'
    BY <1>2 DEF Drive, record, BookOK, MemoryOK
  <2>3. HistoryOK'
    BY <1>2 DEF Drive, Switch, Powered, Energising, HistoryOK
  <2>4. QED
    BY <2>1, <2>2, <2>3
<1>3. ASSUME NEW h \in Handler, DriveFails(h) PROVE TypeInv'
  <2>1. LocalsOK'
    BY <1>3, LeaveKeepsLocals DEF DriveFails
  <2>2. BookOK' /\ MemoryOK'
    BY <1>3 DEF DriveFails, record, BookOK, MemoryOK
  <2>3. req[h].room \in Room
    BY DEF LocalsOK, Request
  <2>4. HistoryOK'
    BY <1>3, <2>3 DEF DriveFails, Powered, Energising, HistoryOK
  <2>5. QED
    BY <2>1, <2>2, <2>4
<1>4. ASSUME NEW h \in Handler, Stamp(h) PROVE TypeInv'
  <2>1. PICK t \in Time : now' = [now EXCEPT ![h] = t]
    BY <1>4 DEF Stamp
  <2>2. req[h].room \in Room /\ req[h].minutes \in Nat
    BY DEF LocalsOK, Request
  <2>3. Extended(rooms[req[h].room], req[h].minutes) \in Nat
    BY <2>2, ExtendedAdds DEF MemoryOK, MinutesOK
  <2>4. minutes' \in [Handler -> Nat]
    BY <1>4, <2>2, <2>3 DEF Stamp, LocalsOK
  <2>5. LocalsOK'
    BY <1>4, <2>1, <2>4 DEF Stamp, Goto, LocalsOK, Place
  <2>6. BookOK' /\ MemoryOK' /\ HistoryOK'
    BY <1>4 DEF Stamp, record, history, BookOK, MemoryOK, HistoryOK
  <2>7. QED
    BY <2>5, <2>6
<1>5. ASSUME NEW h \in Handler, Book(h) PROVE TypeInv'
  <2> DEFINE q == req[h]
  <2>1. pc[h] = "book" /\ Transaction(h) # db /\ db' = Transaction(h)
    BY <1>5 DEF Book
  <2>2. q \in Request /\ now[h] \in Nat \ {0} /\ minutes[h] \in Nat
    BY <2>1, ServerAssumption DEF LocalsOK
  <2>3. q.id \in RequestId /\ q.room \in Room /\ q.action \in Action
    BY <2>2 DEF Request
  <2>4. /\ Booking(db, db', q.id, q.room, q.action, now[h])
        /\ db'.rooms = [db.rooms EXCEPT ![q.room] = BookedRow(@, q, minutes[h])]
    BY <2>1, TransactionBooks
  <2>5. Sound(db')
    BY <2>2, <2>3, <2>4, BookingKeepsSound DEF BookOK
  <2>6. MinutesOK(db'.rooms)
    <3>1. db.rooms \in [Room -> RoomRow] /\ MinutesOK(db.rooms)
      BY DEF BookOK, Sound, Tables
    <3>2. BookedRow(db.rooms[q.room], q, minutes[h]).minutes \in Nat
      BY <2>2, <2>3, <3>1, BookedRowMinutes DEF MinutesOK
    <3> HIDE DEF q
    <3>3. QED
      BY <2>3, <2>4, <3>1, <3>2 DEF MinutesOK
  <2>7. BookOK'
    BY <2>5, <2>6 DEF BookOK
  <2>8. LocalsOK'
    BY <1>5, GotoKeepsLocals DEF Book, Place
  <2>9. MemoryOK'
    BY <1>5 DEF Book, MemoryOK
  <2>10. HistoryOK'
    <3>1. /\ strayed' \subseteq strayed \cup {q.room} /\ adrift' \subseteq adrift \cup {q.room}
          /\ unmoded' \subseteq unmoded \cup {q.room} /\ owner' \subseteq owner
          /\ UNCHANGED <<relay, told, answered, forgotten, vacantOpens>>
      BY <1>5 DEF Book
    <3>2. QED
      BY <2>3, <3>1 DEF HistoryOK
  <2>11. QED
    BY <2>7, <2>8, <2>9, <2>10
<1>6. ASSUME NEW h \in Handler, BookFails(h) PROVE TypeInv'
  <2>1. LocalsOK'
    BY <1>6, LeaveKeepsLocals DEF BookFails
  <2>2. BookOK' /\ MemoryOK'
    BY <1>6 DEF BookFails, record, BookOK, MemoryOK
  <2>3. req[h].room \in Room
    BY DEF LocalsOK, Request
  <2>4. HistoryOK'
    BY <1>6, <2>3 DEF BookFails, HistoryOK
  <2>5. QED
    BY <2>1, <2>2, <2>4
<1>7. ASSUME NEW h \in Handler, Apply(h) PROVE TypeInv'
  <2>1. LocalsOK'
    BY <1>7, GotoKeepsLocals DEF Apply, Place
  <2>2. BookOK'
    BY <1>7 DEF Apply, BookOK
  <2>3. req[h] \in Request /\ req[h].room \in Room
    BY DEF LocalsOK, Request
  <2>4. MemoryOK'
    <3>1. LET row == Applied(rooms[req[h].room], req[h]) IN row \in RoomRow /\ row.minutes \in Nat
      BY <2>3, AppliedType DEF MemoryOK, MinutesOK
    <3>2. QED
      BY <1>7, <2>3, <3>1 DEF Apply, MemoryOK, MinutesOK
  <2>5. HistoryOK'
    BY <1>7, <2>3 DEF Apply, HistoryOK
  <2>6. QED
    BY <2>1, <2>2, <2>4, <2>5
<1>8. ASSUME NEW h \in Handler, Log(h) PROVE TypeInv'
  <2>1. LocalsOK'
    BY <1>8, GotoKeepsLocals DEF Log, Place
  <2>2. BookOK' /\ MemoryOK'
    BY <1>8 DEF Log, BookOK, MemoryOK
  <2>3. req[h].id \in RequestId
    BY DEF LocalsOK, Request
  <2>4. HistoryOK'
    BY <1>8, <2>3 DEF Log, HistoryOK
  <2>5. QED
    BY <2>1, <2>2, <2>4
<1>9. ASSUME NEW h \in Handler, Tell(h) PROVE TypeInv'
  <2>1. LocalsOK'
    BY <1>9, GotoKeepsLocals DEF Tell, Place
  <2>2. BookOK' /\ MemoryOK'
    BY <1>9 DEF Tell, record, BookOK, MemoryOK
  <2>3. EntryOf(req[h]) \in Entry
    BY EntryType DEF LocalsOK
  <2>4. HistoryOK'
    BY <1>9, <2>3 DEF Tell, HistoryOK
  <2>5. QED
    BY <2>1, <2>2, <2>4
<1>10. ASSUME NEW h \in Handler, Answer(h) PROVE TypeInv'
  <2>1. LocalsOK'
    BY <1>10, LeaveKeepsLocals DEF Answer
  <2>2. BookOK' /\ MemoryOK'
    BY <1>10 DEF Answer, record, BookOK, MemoryOK
  <2>3. EntryOf(req[h]) \in Entry
    BY EntryType DEF LocalsOK
  <2>4. HistoryOK'
    BY <1>10, <2>3 DEF Answer, HistoryOK
  <2>5. QED
    BY <2>1, <2>2, <2>4
<1>11. CASE Restart
  <2>1. LocalsOK'
    BY <1>11, NoRequestType DEF Restart, LocalsOK, Place
  <2>2. BookOK'
    BY <1>11 DEF Restart, BookOK
  <2>3. MemoryOK'
    <3>1. rooms' \in {db.rooms, EmptyDatabase.rooms}
      BY <1>11 DEF Restart, Bootstrap, BootstrapFails
    <3>2. QED
      BY <3>1, EmptyIsSound DEF BookOK, MemoryOK, Sound, Tables
  <2>4. HistoryOK'
    <3>1. /\ forgotten' \in {{}, Booked} /\ adrift' \subseteq Room /\ unmoded' = {} /\ owner' = {}
          /\ strayed' \subseteq strayed \cup Room
          /\ UNCHANGED <<relay, told, answered, vacantOpens>>
      BY <1>11 DEF Restart, Bootstrap, BootstrapFails
    <3>2. QED
      BY <3>1, BookedType DEF BookOK, HistoryOK
  <2>5. QED
    BY <2>1, <2>2, <2>3, <2>4
<1>12. CASE UNCHANGED vars
  BY <1>12 DEF vars, record, locals, history, BookOK, MemoryOK, LocalsOK, HistoryOK
<1>13. QED
  BY <1>1, <1>2, <1>3, <1>4, <1>5, <1>6, <1>7, <1>8, <1>9, <1>10, <1>11, <1>12 DEF Next

-----------------------------------------------------------------------------
\* A step of handler h leaves the locals of the others alone.
Handles(h) ==
  \/ Receive(h) \/ Drive(h) \/ DriveFails(h) \/ Stamp(h) \/ Book(h) \/ BookFails(h)
  \/ Apply(h) \/ Log(h) \/ Tell(h) \/ Answer(h)

Others(h) ==
  \A d \in Handler \ {h} : pc'[d] = pc[d] /\ req'[d] = req[d] /\ minutes'[d] = minutes[d]

\* No handler's step moves another handler.
LEMMA OthersStand ==
  ASSUME TypeInv, NEW h \in Handler, Handles(h) PROVE Others(h)
<1> USE DEF TypeInv, LocalsOK, Others, Goto
<1>1. CASE Receive(h)
  BY <1>1 DEF Receive
<1>2. CASE Drive(h)
  BY <1>2 DEF Drive
<1>3. CASE DriveFails(h)
  BY <1>3 DEF DriveFails, Leave
<1>4. CASE Stamp(h)
  BY <1>4 DEF Stamp
<1>5. CASE Book(h)
  BY <1>5 DEF Book
<1>6. CASE BookFails(h)
  BY <1>6 DEF BookFails, Leave
<1>7. CASE Apply(h)
  BY <1>7 DEF Apply
<1>8. CASE Log(h)
  BY <1>8 DEF Log
<1>9. CASE Tell(h)
  BY <1>9 DEF Tell
<1>10. CASE Answer(h)
  BY <1>10 DEF Answer, Leave
<1>11. QED
  BY <1>1, <1>2, <1>3, <1>4, <1>5, <1>6, <1>7, <1>8, <1>9, <1>10 DEF Handles

\* Where a handler that fails or has answered is then.
LEMMA Leaves ==
  ASSUME TypeInv, NEW h \in Handler, Leave(h) PROVE pc'[h] = "idle"
BY DEF TypeInv, LocalsOK, Leave, Goto

\* Where a handler goes, it is then.
LEMMA Goes ==
  ASSUME TypeInv, NEW h \in Handler, NEW place, Goto(h, place) PROVE pc'[h] = place
BY DEF TypeInv, LocalsOK, Goto

\* The book has the entry after the transaction, and no other of its id before.
LEMMA BookAdds ==
  ASSUME TypeInv, NEW h \in Handler, Book(h)
  PROVE  /\ Booked' = Booked \cup {EntryOf(req[h])}
         /\ \A b \in Booked : b.id # EntryOf(req[h]).id
<1> DEFINE q == req[h]
<1>1. pc[h] = "book" /\ Transaction(h) # db /\ db' = Transaction(h)
  BY DEF Book
<1>2. Booking(db, db', q.id, q.room, q.action, now[h])
  BY <1>1, TransactionBooks
<1>3. AuditKeyFree(db, q.id)
  BY <1>2 DEF Booking
<1>4. PICK mode : db'.audit = db.audit \cup {AuditRowOf(q.id, q.room, q.action, mode, now[h])}
  BY <1>2 DEF Booking
<1>5. EntryOf(AuditRowOf(q.id, q.room, q.action, mode, now[h])) = EntryOf(q)
  BY DEF EntryOf, AuditRowOf
<1> HIDE DEF q
<1>6. Booked' = Booked \cup {EntryOf(q)}
  BY <1>4, <1>5 DEF Booked
<1>7. \A b \in Booked : b.id # EntryOf(q).id
  BY <1>3 DEF Booked, EntryOf, AuditKeyFree
<1>8. QED
  BY <1>6, <1>7 DEF q

-----------------------------------------------------------------------------
\* What is applied, logged, told and answered has been booked, and what is
\* answered has been told.
Progress ==
  \A h \in Handler :
    /\ pc[h] \in {"apply", "log", "tell", "answer"} => EntryOf(req[h]) \in Booked
    /\ pc[h] = "answer" => EntryOf(req[h]) \in told

\* What a step of h has to do for it.
LEMMA ProgressKept ==
  ASSUME TypeInv, Progress, NEW h \in Handler, Handles(h),
         Booked \subseteq Booked', told \subseteq told',
         pc'[h] \in {"apply", "log", "tell", "answer"} => EntryOf(req'[h]) \in Booked',
         pc'[h] = "answer" => EntryOf(req'[h]) \in told'
  PROVE  Progress'
<1>1. ASSUME NEW d \in Handler \ {h}
      PROVE  /\ pc'[d] \in {"apply", "log", "tell", "answer"} => EntryOf(req'[d]) \in Booked'
             /\ pc'[d] = "answer" => EntryOf(req'[d]) \in told'
  BY OthersStand DEF Others, Progress
<1>2. QED
  BY <1>1 DEF Progress

\* Every action keeps what a handler's place says of the book and of what was told.
LEMMA ProgressInductive == TypeInv /\ Progress /\ [Next]_vars => Progress'
<1> SUFFICES ASSUME TypeInv, Progress, [Next]_vars PROVE Progress'
  OBVIOUS
<1>1. ASSUME NEW h \in Handler, Receive(h) PROVE Progress'
  <2>1. pc'[h] \in {"drive", "stamp"}
    BY <1>1, Goes DEF Receive
  <2>2. Booked' = Booked /\ told' = told
    BY <1>1 DEF Receive, record, history, Booked
  <2>3. QED
    BY <1>1, <2>1, <2>2, ProgressKept DEF Handles
<1>2. ASSUME NEW h \in Handler, Drive(h) PROVE Progress'
  <2>1. pc'[h] = "stamp" /\ Booked' = Booked /\ told' = told
    BY <1>2, Goes DEF Drive, record, Booked
  <2>2. QED
    BY <1>2, <2>1, ProgressKept DEF Handles
<1>3. ASSUME NEW h \in Handler, DriveFails(h) PROVE Progress'
  <2>1. pc'[h] = "idle" /\ Booked' = Booked /\ told' = told
    BY <1>3, Leaves DEF DriveFails, record, Booked
  <2>2. QED
    BY <1>3, <2>1, ProgressKept DEF Handles
<1>4. ASSUME NEW h \in Handler, Stamp(h) PROVE Progress'
  <2>1. pc'[h] = "book" /\ Booked' = Booked /\ told' = told
    BY <1>4, Goes DEF Stamp, record, history, Booked
  <2>2. QED
    BY <1>4, <2>1, ProgressKept DEF Handles
<1>5. ASSUME NEW h \in Handler, Book(h) PROVE Progress'
  <2>1. pc'[h] = "apply" /\ req' = req /\ told' = told
    BY <1>5, Goes DEF Book
  <2>2. Booked' = Booked \cup {EntryOf(req[h])}
    BY <1>5, BookAdds
  <2>3. QED
    BY <1>5, <2>1, <2>2, ProgressKept DEF Handles
<1>6. ASSUME NEW h \in Handler, BookFails(h) PROVE Progress'
  <2>1. pc'[h] = "idle" /\ Booked' = Booked /\ told' = told
    BY <1>6, Leaves DEF BookFails, record, Booked
  <2>2. QED
    BY <1>6, <2>1, ProgressKept DEF Handles
<1>7. ASSUME NEW h \in Handler, Apply(h) PROVE Progress'
  <2>1. pc'[h] = "log" /\ req' = req /\ Booked' = Booked /\ told' = told
    BY <1>7, Goes DEF Apply, Booked
  <2>2. EntryOf(req[h]) \in Booked
    BY <1>7 DEF Apply, Progress
  <2>3. QED
    BY <1>7, <2>1, <2>2, ProgressKept DEF Handles
<1>8. ASSUME NEW h \in Handler, Log(h) PROVE Progress'
  <2>1. pc'[h] = "tell" /\ req' = req /\ Booked' = Booked /\ told' = told
    BY <1>8, Goes DEF Log, Booked
  <2>2. EntryOf(req[h]) \in Booked
    BY <1>8 DEF Log, Progress
  <2>3. QED
    BY <1>8, <2>1, <2>2, ProgressKept DEF Handles
<1>9. ASSUME NEW h \in Handler, Tell(h) PROVE Progress'
  <2>1. pc'[h] = "answer" /\ req' = req /\ Booked' = Booked /\ told' = told \cup {EntryOf(req[h])}
    BY <1>9, Goes DEF Tell, record, Booked
  <2>2. EntryOf(req[h]) \in Booked
    BY <1>9 DEF Tell, Progress
  <2>3. QED
    BY <1>9, <2>1, <2>2, ProgressKept DEF Handles
<1>10. ASSUME NEW h \in Handler, Answer(h) PROVE Progress'
  <2>1. pc'[h] = "idle" /\ Booked' = Booked /\ told' = told
    BY <1>10, Leaves DEF Answer, record, Booked
  <2>2. QED
    BY <1>10, <2>1, ProgressKept DEF Handles
<1>11. CASE Restart
  BY <1>11 DEF Restart, Progress
<1>12. CASE UNCHANGED vars
  BY <1>12 DEF vars, record, locals, history, Progress, Booked
<1>13. QED
  BY <1>1, <1>2, <1>3, <1>4, <1>5, <1>6, <1>7, <1>8, <1>9, <1>10, <1>11, <1>12 DEF Next

-----------------------------------------------------------------------------
\* The transaction is the step Book of the desk, publishing is Tell, the answer
\* is Answer; a repeated Tell or Answer and every other step change nothing there.
LEMMA InitIsDeskInit == Init => TheDesk!Init
<1> SUFFICES ASSUME Init PROVE TheDesk!Init
  OBVIOUS
<1>1. Booked = {}
  BY DEF Init, Booked, EmptyDatabase
<1>2. QED
  BY <1>1 DEF Init, TheDesk!Init

\* Each action is a step of Desk, or one that Desk does not see.
LEMMA StepIsDeskStep == TypeInv /\ Progress /\ [Next]_vars => [TheDesk!Next]_(TheDesk!vars)
<1> SUFFICES ASSUME TypeInv, Progress, [Next]_vars PROVE TheDesk!Next \/ UNCHANGED TheDesk!vars
  OBVIOUS
<1>1. ASSUME UNCHANGED <<db, told, answered>> PROVE UNCHANGED TheDesk!vars
  BY <1>1 DEF TheDesk!vars, Booked
<1>2. ASSUME NEW h \in Handler, Book(h) PROVE TheDesk!Next
  <2>1. EntryOf(req[h]) \in Entry
    BY EntryType DEF TypeInv, LocalsOK
  <2>2. TheDesk!Book(EntryOf(req[h]))
    BY <1>2, BookAdds DEF TheDesk!Book, Book
  <2>3. QED
    BY <2>1, <2>2 DEF TheDesk!Next
<1>3. ASSUME NEW h \in Handler, Tell(h) PROVE TheDesk!Next \/ UNCHANGED TheDesk!vars
  <2> DEFINE e == EntryOf(req[h])
  <2>1. e \in Entry /\ e \in Booked
    BY <1>3, EntryType DEF TypeInv, LocalsOK, Progress, Tell
  <2>2. told' = told \cup {e} /\ answered' = answered /\ Booked' = Booked
    BY <1>3 DEF Tell, record, Booked
  <2>3. CASE e \in told
    BY <2>2, <2>3 DEF TheDesk!vars
  <2>4. CASE e \notin told
    BY <2>1, <2>2, <2>4 DEF TheDesk!Tell, TheDesk!Next
  <2>5. QED
    BY <2>3, <2>4
<1>4. ASSUME NEW h \in Handler, Answer(h) PROVE TheDesk!Next \/ UNCHANGED TheDesk!vars
  <2> DEFINE e == EntryOf(req[h])
  <2>1. e \in Entry /\ e \in told
    BY <1>4, EntryType DEF TypeInv, LocalsOK, Progress, Answer
  <2>2. answered' = answered \cup {e} /\ told' = told /\ Booked' = Booked
    BY <1>4 DEF Answer, record, Booked
  <2>3. CASE e \in answered
    BY <2>2, <2>3 DEF TheDesk!vars
  <2>4. CASE e \notin answered
    BY <2>1, <2>2, <2>4 DEF TheDesk!Answer, TheDesk!Next
  <2>5. QED
    BY <2>3, <2>4
<1>5. ASSUME NEW h \in Handler,
             \/ Receive(h) \/ Drive(h) \/ DriveFails(h) \/ Stamp(h) \/ BookFails(h)
             \/ Apply(h) \/ Log(h)
      PROVE  UNCHANGED <<db, told, answered>>
  BY <1>5 DEF Receive, Drive, DriveFails, Stamp, BookFails, Apply, Log, record, history
<1>6. CASE Restart
  BY <1>1, <1>6 DEF Restart
<1>7. CASE UNCHANGED vars
  BY <1>1, <1>7 DEF vars, record, history
<1>8. QED
  BY <1>1, <1>2, <1>3, <1>4, <1>5, <1>6, <1>7 DEF Next

(***************************************************************************)
(* The server implements the desk: with the handlers interleaved, requests *)
(* failing half-way and the process restarted, an entry is booked once,    *)
(* told only when it is booked and answered only when it was told (the     *)
(* order withTx, publish, writeJSON in the handlers of server.go).         *)
(***************************************************************************)
THEOREM ServerIsDesk == Spec => ImplementsDesk
<1>1. Init => TypeInv /\ Progress
  BY TypeInvInit DEF Init, Progress
<1>2. TypeInv /\ Progress /\ [Next]_vars => TypeInv' /\ Progress'
  BY TypeInvInductive, ProgressInductive
<1>3. QED
  BY <1>1, <1>2, InitIsDeskInit, StepIsDeskStep, PTL DEF Spec, ImplementsDesk, TheDesk!Spec

-----------------------------------------------------------------------------
\* A handler that owns a relay is between its frame and its transaction, and
\* the relay shows its frame.
OwnersFrames ==
  \A h \in owner : /\ pc[h] \in {"stamp", "book"} /\ Drives(req[h].action)
                   /\ relay[req[h].room] <=> Powered(TargetOf(req[h].action))

\* With what the relay shows of a room none of whose handlers is under way.
RelayInv == OwnersFrames /\ HardwareFollowsBook

\* What a step of h has to do for it: the other rooms are as they were.
LEMMA RelayKept ==
  ASSUME TypeInv, RelayInv, NEW h \in Handler, Handles(h), NEW room, room = req[h].room,
         owner' \subseteq owner \cup {h}, strayed \subseteq strayed' \cup {room},
         \A r \in Room \ {room} : /\ relay'[r] = relay[r]
                                  /\ db'.rooms[r].status = db.rooms[r].status,
         \A d \in owner' \ {h} : req[d].room = room => relay'[room] = relay[room],
         h \in owner' => /\ pc'[h] \in {"stamp", "book"} /\ Drives(req[h].action)
                         /\ req'[h] = req[h]
                         /\ relay'[room] <=> Powered(TargetOf(req[h].action)),
         room \notin strayed' /\ Pending(room)' = {} =>
           (relay'[room] <=> Powered(db'.rooms[room].status))
  PROVE  RelayInv'
<1>1. Others(h)
  BY OthersStand
<1>2. OwnersFrames'
  <2> SUFFICES ASSUME NEW d \in owner'
               PROVE  /\ pc'[d] \in {"stamp", "book"} /\ Drives(req'[d].action)
                      /\ relay'[req'[d].room] <=> Powered(TargetOf(req'[d].action))
    BY DEF OwnersFrames
  <2>1. CASE d = h
    <3>1. /\ pc'[h] \in {"stamp", "book"} /\ Drives(req[h].action) /\ req'[h] = req[h]
          /\ relay'[room] <=> Powered(TargetOf(req[h].action))
      BY <2>1
    <3>2. QED
      BY <2>1, <3>1
  <2>2. CASE d # h
    <3>1. d \in owner /\ d \in Handler
      BY <2>2 DEF TypeInv, HistoryOK
    <3>2. /\ pc[d] \in {"stamp", "book"} /\ Drives(req[d].action)
          /\ relay[req[d].room] <=> Powered(TargetOf(req[d].action))
      BY <3>1 DEF RelayInv, OwnersFrames
    <3>3. pc'[d] = pc[d] /\ req'[d] = req[d]
      BY <1>1, <2>2, <3>1 DEF Others
    <3>4. req[d].room \in Room
      BY <3>1 DEF TypeInv, LocalsOK, Request
    <3>5. relay'[req[d].room] = relay[req[d].room]
      BY <2>2, <3>4
    <3>6. QED
      BY <3>2, <3>3, <3>5
  <2>3. QED
    BY <2>1, <2>2
<1>3. HardwareFollowsBook'
  <2> SUFFICES ASSUME NEW r \in Room \ strayed', Pending(r)' = {}
               PROVE  relay'[r] <=> Powered(db'.rooms[r].status)
    BY DEF HardwareFollowsBook
  <2>1. CASE r = room
    BY <2>1
  <2>2. CASE r # room
    <3>1. Pending(r) = {}
      BY <1>1, <2>2 DEF Others, Pending
    <3>2. QED
      BY <2>2, <3>1 DEF RelayInv, HardwareFollowsBook
  <2>3. QED
    BY <2>1, <2>2
<1>4. QED
  BY <1>2, <1>3 DEF RelayInv

\* If the relays and the table are as they were, too.
LEMMA RelayUntouched ==
  ASSUME TypeInv, RelayInv, NEW h \in Handler, Handles(h),
         NEW room \in Room, room = req[h].room, UNCHANGED <<db, relay>>,
         owner' \subseteq owner, strayed \subseteq strayed',
         h \in owner' => pc'[h] \in {"stamp", "book"} /\ req'[h] = req[h],
         room \notin strayed' /\ h \in Pending(room) => h \in Pending(room)'
  PROVE  RelayInv'
<1>1. Others(h)
  BY OthersStand
<1>2. h \in owner' => /\ Drives(req[h].action)
                      /\ relay'[room] <=> Powered(TargetOf(req[h].action))
  BY DEF RelayInv, OwnersFrames
<1>3. ASSUME room \notin strayed', Pending(room)' = {}
      PROVE  relay'[room] <=> Powered(db'.rooms[room].status)
  <2>1. Pending(room) = {}
    BY <1>1, <1>3 DEF Others, Pending
  <2>2. QED
    BY <1>3, <2>1 DEF RelayInv, HardwareFollowsBook
<1>4. QED
  BY <1>2, <1>3, RelayKept

\* The rooms table after the transaction of q.
LEMMA BookedRowStatus ==
  ASSUME NEW row \in RoomRow, NEW q \in Request, NEW stayMinutes
  PROVE  BookedRow(row, q, stayMinutes).status
           = IF Drives(q.action) THEN TargetOf(q.action) ELSE row.status
<1>1. q.action \in Action
  BY DEF Request
<1>2. CASE q.action \in {"check_in", "extend_stay"}
  BY <1>2 DEF BookedRow, RoomState, Drives, TargetOf
<1>3. CASE q.action \in {"check_out", "finish_cleaning"}
  BY <1>3 DEF BookedRow, RoomState, Drives, TargetOf
<1>4. CASE q.action = "start_cleaning"
  BY <1>4 DEF BookedRow, RoomRow, Drives, TargetOf
<1>5. CASE q.action \in {"receive_payment", "open_room", "service"}
  BY <1>5 DEF BookedRow, RoomRow, Drives
<1>6. QED
  BY <1>1, <1>2, <1>3, <1>4, <1>5 DEF Action

\* Every action keeps the relay with what was ordered last.
LEMMA RelayInvInductive == TypeInv /\ RelayInv /\ [Next]_vars => RelayInv'
<1> SUFFICES ASSUME TypeInv, RelayInv, [Next]_vars PROVE RelayInv'
  OBVIOUS
<1>a. \A h \in Handler : req[h] \in Request /\ req[h].room \in Room
  BY DEF TypeInv, LocalsOK, Request
<1>b. ASSUME NEW h \in Handler, pc[h] \notin {"stamp", "book"}
      PROVE  h \notin owner /\ \A r \in Room : h \notin Pending(r)
  BY <1>b DEF RelayInv, OwnersFrames, Pending
<1>1. ASSUME NEW h \in Handler, Receive(h) PROVE RelayInv'
  <2>1. pc[h] = "idle" /\ UNCHANGED <<db, relay, owner, strayed>>
    BY <1>1 DEF Receive, record, history
  <2>2. QED
    BY <1>a, <1>b, <1>1, <2>1, RelayUntouched DEF Handles
<1>2. ASSUME NEW h \in Handler, Drive(h) PROVE RelayInv'
  <2>0. PICK room \in Room : room = req[h].room
    BY <1>a
  <2>1. /\ pc[h] = "drive" /\ pc'[h] = "stamp" /\ req' = req /\ Drives(req[h].action)
        /\ Switch(h) /\ UNCHANGED <<db, strayed>>
    BY <1>2, Goes DEF Drive, record, TypeInv, LocalsOK
  <2>2. h \in Pending(room)'
    BY <2>0, <2>1 DEF Pending
  <2>3. CASE UNCHANGED <<relay, owner>>
    BY <1>b, <1>2, <2>0, <2>1, <2>3, RelayUntouched DEF Handles
  <2>4. CASE /\ relay' = [relay EXCEPT ![room] = Powered(TargetOf(req[h].action))]
             /\ owner' = {d \in owner : req[d].room # room}
                           \cup (IF Pending(room) = {} THEN {h} ELSE {})
    <3>1. /\ relay'[room] = Powered(TargetOf(req[h].action))
          /\ \A r \in Room \ {room} : relay'[r] = relay[r]
      BY <2>0, <2>4 DEF TypeInv, HistoryOK
    <3>2. owner' \subseteq owner \cup {h} /\ \A d \in owner' \ {h} : req[d].room # room
      BY <2>4
    <3>3. QED
      BY <1>2, <2>0, <2>1, <2>2, <3>1, <3>2, RelayKept DEF Handles
  <2>5. QED
    BY <2>0, <2>1, <2>3, <2>4 DEF Switch
<1>3. ASSUME NEW h \in Handler, DriveFails(h) PROVE RelayInv'
  <2>0. PICK room \in Room : room = req[h].room
    BY <1>a
  <2>1. pc[h] = "drive" /\ UNCHANGED db
    BY <1>3 DEF DriveFails, record
  <2>2. CASE UNCHANGED <<relay, owner, strayed>>
    BY <1>b, <1>3, <2>0, <2>1, <2>2, RelayUntouched DEF Handles
  <2>3. CASE /\ relay' = [relay EXCEPT ![room] = Powered(TargetOf(req[h].action))]
             /\ owner' = {d \in owner : req[d].room # room}
             /\ strayed' = strayed \cup {room}
    <3>1. /\ \A r \in Room \ {room} : relay'[r] = relay[r]
          /\ h \notin owner' /\ owner' \subseteq owner
          /\ \A d \in owner' : req[d].room # room
      BY <2>0, <1>b, <2>1, <2>3 DEF TypeInv, HistoryOK
    <3>2. strayed \subseteq strayed' /\ room \in strayed'
      BY <2>3
    <3>3. QED
      BY <1>3, <2>0, <2>1, <3>1, <3>2, RelayKept DEF Handles
  <2>4. QED
    BY <1>3, <2>0, <2>2, <2>3 DEF DriveFails
<1>4. ASSUME NEW h \in Handler, Stamp(h) PROVE RelayInv'
  <2>1. /\ pc[h] = "stamp" /\ pc'[h] = "book" /\ UNCHANGED <<req, db, relay, owner, strayed>>
    BY <1>4, Goes DEF Stamp, record, history
  <2>2. PICK room \in Room : room = req[h].room
    BY <1>a
  <2>3. h \in Pending(room) => h \in Pending(room)'
    BY <2>1 DEF Pending
  <2>4. QED
    BY <1>4, <2>1, <2>2, <2>3, RelayUntouched DEF Handles
<1>5. ASSUME NEW h \in Handler, Book(h) PROVE RelayInv'
  <2>0. PICK q \in Request : q = req[h]
    BY <1>a
  <2> DEFINE row == db.rooms[q.room]
  <2>1. /\ pc[h] = "book" /\ pc'[h] = "apply" /\ Transaction(h) # db /\ db' = Transaction(h)
        /\ UNCHANGED <<req, relay>> /\ owner' = owner \ {h}
        /\ strayed' = CASE ~Drives(q.action) -> strayed
                        [] h \in owner       -> strayed \ {q.room}
                        [] OTHER              -> strayed \cup {q.room}
    BY <1>5, <2>0, Goes DEF Book
  <2>2. db'.rooms = [db.rooms EXCEPT ![q.room] = BookedRow(@, q, minutes[h])]
    BY <2>0, <2>1, TransactionBooks
  <2>3. db.rooms \in [Room -> RoomRow]
    BY DEF TypeInv, BookOK, Sound, Tables
  <2>4. q \in Request /\ q.room \in Room
    BY <1>a, <2>0
  <2>5. /\ db'.rooms[q.room].status = IF Drives(q.action) THEN TargetOf(q.action) ELSE row.status
        /\ \A r \in Room \ {q.room} : db'.rooms[r].status = db.rooms[r].status
    <3>1. row \in RoomRow
      BY <2>3, <2>4
    <3>2. BookedRow(row, q, minutes[h]).status
            = IF Drives(q.action) THEN TargetOf(q.action) ELSE row.status
      BY <2>4, <3>1, BookedRowStatus
    <3> HIDE DEF row
    <3>3. QED
      BY <2>2, <2>3, <2>4, <3>2 DEF row
  <2>6. strayed \subseteq strayed' \cup {q.room}
    BY <2>1
  <2>7. ASSUME q.room \notin strayed', Pending(q.room)' = {}
        PROVE  relay'[q.room] <=> Powered(db'.rooms[q.room].status)
    <3>1. CASE Drives(q.action)
      <4>1. h \in owner
        BY <2>1, <2>7, <3>1
      <4>2. relay[q.room] <=> Powered(TargetOf(q.action))
        BY <2>0, <4>1 DEF RelayInv, OwnersFrames
      <4>3. QED
        BY <2>1, <2>5, <3>1, <4>2
    <3>2. CASE ~Drives(q.action)
      <4>0. h \notin owner
        BY <2>0, <3>2 DEF RelayInv, OwnersFrames
      <4>1. strayed' = strayed
        BY <2>1, <3>2, <4>0
      <4>2. Pending(q.room) = {}
        BY <1>5, <2>0, <2>1, <2>7, <3>2, OthersStand DEF Others, Pending, Handles
      <4>3. QED
        BY <2>1, <2>4, <2>5, <2>7, <3>2, <4>1, <4>2 DEF RelayInv, HardwareFollowsBook
    <3>3. QED
      BY <3>1, <3>2
  <2>8. QED
    <3> HIDE DEF row
    <3>1. h \notin owner' /\ owner' \subseteq owner
      BY <2>1
    <3>2. QED
      BY <1>5, <2>0, <2>1, <2>5, <2>6, <2>7, <3>1, RelayKept DEF Handles
<1>6. ASSUME NEW h \in Handler, BookFails(h) PROVE RelayInv'
  <2>1. UNCHANGED <<db, relay>> /\ owner' = owner \ {h}
    BY <1>6 DEF BookFails, record
  <2>2. strayed' = IF Drives(req[h].action) THEN strayed \cup {req[h].room} ELSE strayed
    BY <1>6 DEF BookFails
  <2>3. h \in Pending(req[h].room) => req[h].room \in strayed'
    BY <2>2 DEF Pending
  <2>4. QED
    BY <1>a, <1>6, <2>1, <2>2, <2>3, RelayUntouched DEF Handles
<1>7. ASSUME NEW h \in Handler, Apply(h) \/ Log(h) \/ Tell(h) \/ Answer(h) PROVE RelayInv'
  <2>1. /\ pc[h] \in {"apply", "log", "tell", "answer"}
        /\ UNCHANGED <<db, relay, owner, strayed>>
    BY <1>7 DEF Apply, Log, Tell, Answer, record
  <2>2. QED
    BY <1>a, <1>b, <1>7, <2>1, RelayUntouched DEF Handles
<1>8. CASE Restart
  <2>1. /\ UNCHANGED <<db, relay>> /\ owner' = {} /\ pc' = [h \in Handler |-> "idle"]
        /\ strayed' = strayed \cup {r \in Room : Pending(r) # {}}
    BY <1>8 DEF Restart
  <2>2. QED
    BY <2>1 DEF RelayInv, OwnersFrames, HardwareFollowsBook
<1>9. CASE UNCHANGED vars
  BY <1>9 DEF vars, record, locals, history, RelayInv, OwnersFrames, HardwareFollowsBook, Pending
<1>10. QED
  BY <1>1, <1>2, <1>3, <1>4, <1>5, <1>6, <1>7, <1>8, <1>9 DEF Next

\* All relays are open and all rooms vacant at the start.
LEMMA RelayInvInit == Init => RelayInv
<1> SUFFICES ASSUME Init PROVE RelayInv
  OBVIOUS
<1>1. ASSUME NEW r \in Room PROVE relay[r] = FALSE /\ db.rooms[r].status = "vacant"
  BY DEF Init, EmptyDatabase
<1>2. ~Powered("vacant")
  BY DEF Powered, RoomStatusOf, Energising, StatusVacant, StatusOccupied, StatusOverstay
<1>3. QED
  BY <1>1, <1>2 DEF Init, RelayInv, OwnersFrames, HardwareFollowsBook

(***************************************************************************)
(* The relay follows the book in every room whose requests neither failed  *)
(* after their frame nor overlapped (applyRoomIntent before the store's    *)
(* transaction in each handler of server.go).                              *)
(***************************************************************************)
THEOREM RelayFollows == Spec => []HardwareFollowsBook
<1>1. Init => TypeInv /\ RelayInv
  BY TypeInvInit, RelayInvInit
<1>2. TypeInv /\ RelayInv /\ [Next]_vars => TypeInv' /\ RelayInv'
  BY TypeInvInductive, RelayInvInductive
<1>3. RelayInv => HardwareFollowsBook
  BY DEF RelayInv
<1>4. QED
  BY <1>1, <1>2, <1>3, PTL DEF Spec

-----------------------------------------------------------------------------
\* A row in memory shows a row of the table, but for a mode it may have kept.
Agree(row, booked, kept) ==
  /\ row.status = booked.status /\ row.minutes = booked.minutes /\ row.paid = booked.paid
  /\ row.mode # booked.mode => kept /\ booked.mode = NoMode

\* The handlers whose transaction has not come to the memory yet.
Coming(r) == {h \in Handler : pc[h] = "apply" /\ req[h].room = r}

\* The minutes a handler books are those the memory will come to.
MinutesAhead(h, r) ==
  pc[h] = "book" /\ req[h].room = r =>
    minutes[h] = (IF req[h].action = "extend_stay" THEN rooms[r].minutes ELSE 0) + req[h].minutes

\* One handler at most is coming, or the room is adrift; its change makes the rows agree.
RowInv(r) ==
  /\ \A h \in Handler : MinutesAhead(h, r)
  /\ Coming(r) = {} => Agree(rooms[r], db.rooms[r], r \in unmoded)
  /\ \A h \in Coming(r) : /\ Coming(r) = {h}
                          /\ Agree(Applied(rooms[r], req[h]), db.rooms[r], r \in unmoded)

MemoryInv == \A r \in Room \ adrift : RowInv(r)

\* MemoryInv is stronger than what the run checks.
LEMMA MemoryInvImplies == TypeInv /\ MemoryInv => MemoryIsBook
<1> SUFFICES ASSUME TypeInv, MemoryInv, NEW r \in Room \ adrift,
                    \A h \in Handler : ~(pc[h] = "apply" /\ req[h].room = r)
             PROVE  /\ [rooms[r] EXCEPT !.mode = NoMode] = [db.rooms[r] EXCEPT !.mode = NoMode]
                    /\ rooms[r].mode # db.rooms[r].mode => r \in unmoded /\ db.rooms[r].mode = NoMode
  BY DEF MemoryIsBook
<1>1. Agree(rooms[r], db.rooms[r], r \in unmoded)
  BY DEF MemoryInv, RowInv, Coming
<1>2. rooms[r] \in RoomRow /\ db.rooms[r] \in RoomRow
  BY DEF TypeInv, MemoryOK, BookOK, Sound, Tables
<1>3. [rooms[r] EXCEPT !.mode = NoMode] = [db.rooms[r] EXCEPT !.mode = NoMode]
  BY <1>1, <1>2 DEF Agree, RoomRow
<1>4. QED
  BY <1>1, <1>3 DEF Agree

\* The change in memory is the one in the table.
LEMMA AppliedAgrees ==
  ASSUME NEW row \in RoomRow, NEW booked \in RoomRow, NEW q \in Request, NEW stayMinutes \in Nat,
         NEW r, NEW unmodedBefore, NEW unmodedAfter, Agree(row, booked, r \in unmodedBefore),
         stayMinutes = (IF q.action = "extend_stay" THEN row.minutes ELSE 0) + q.minutes,
         q.action = "extend_stay" /\ q.mode = NoMode => r \in unmodedAfter,
         q.action \notin {"check_in", "check_out", "extend_stay", "finish_cleaning"} =>
           (r \in unmodedBefore => r \in unmodedAfter)
  PROVE  Agree(Applied(row, q), BookedRow(booked, q, stayMinutes), r \in unmodedAfter)
<1>1. /\ q.mode \in StayMode \cup {NoMode} /\ q.minutes \in Nat /\ q.amount \in Nat
      /\ row.minutes \in Int /\ row.paid \in Int /\ q.action \in Action
  BY DEF Request, RoomRow
<1>2. CASE q.action = "check_in"
  <2>1. Applied(row, q) = [status |-> "occupied", mode |-> q.mode, minutes |-> q.minutes,
                           paid |-> IF q.amount > 0 THEN q.amount ELSE row.paid]
    BY <1>2 DEF Applied
  <2>2. BookedRow(booked, q, stayMinutes) = RoomState(booked, "occupied", q.mode, stayMinutes, q.amount)
    BY <1>2 DEF BookedRow
  <2>3. stayMinutes = q.minutes
    BY <1>1, <1>2
  <2>4. QED
    BY <1>1, <2>1, <2>2, <2>3 DEF RoomState, Agree
<1>3. CASE q.action = "extend_stay"
  <2>1. Applied(row, q) = [status |-> "occupied", mode |-> IF q.mode # NoMode THEN q.mode ELSE row.mode,
                           minutes |-> row.minutes + q.minutes,
                           paid |-> IF q.amount > 0 THEN q.amount ELSE row.paid]
    BY <1>3 DEF Applied
  <2>2. BookedRow(booked, q, stayMinutes) = RoomState(booked, "occupied", q.mode, stayMinutes, q.amount)
    BY <1>3 DEF BookedRow
  <2>3. QED
    BY <1>1, <1>3, <2>1, <2>2 DEF RoomState, Agree
<1>4. CASE q.action \in {"check_out", "finish_cleaning"}
  <2>1. Applied(row, q) = Freed(row)
    BY <1>4 DEF Applied
  <2>2. BookedRow(booked, q, stayMinutes) = RoomState(booked, "vacant", NoMode, 0, 0)
    BY <1>4 DEF BookedRow
  <2>3. QED
    BY <2>1, <2>2, FreedIs DEF RoomState, Agree
<1>5. CASE q.action = "start_cleaning"
  <2>1. Applied(row, q) = [row EXCEPT !.status = "cleaning"]
    BY <1>5 DEF Applied
  <2>2. BookedRow(booked, q, stayMinutes) = [booked EXCEPT !.status = "cleaning"]
    BY <1>5 DEF BookedRow
  <2>3. r \in unmodedBefore => r \in unmodedAfter
    BY <1>5
  <2>4. QED
    BY <2>1, <2>2, <2>3 DEF RoomRow, Agree
<1>6. CASE q.action = "receive_payment"
  <2>1. Applied(row, q) = [row EXCEPT !.paid = q.amount]
    BY <1>6 DEF Applied
  <2>2. BookedRow(booked, q, stayMinutes) = [booked EXCEPT !.paid = q.amount]
    BY <1>6 DEF BookedRow
  <2>3. r \in unmodedBefore => r \in unmodedAfter
    BY <1>6
  <2>4. QED
    BY <2>1, <2>2, <2>3 DEF RoomRow, Agree
<1>7. CASE q.action \in {"open_room", "service"}
  <2>1. Applied(row, q) = row /\ BookedRow(booked, q, stayMinutes) = booked
    BY <1>7 DEF Applied, BookedRow
  <2>2. r \in unmodedBefore => r \in unmodedAfter
    BY <1>7
  <2>3. QED
    BY <2>1, <2>2 DEF Agree
<1>8. QED
  BY <1>1, <1>2, <1>3, <1>4, <1>5, <1>6, <1>7 DEF Action

\* The handlers' steps that are not Book or Apply.
LEMMA MemoryUntouched ==
  ASSUME TypeInv, MemoryInv, NEW h \in Handler, Handles(h), UNCHANGED <<db, rooms, adrift, unmoded>>,
         pc[h] # "apply", pc'[h] # "apply",
         pc'[h] = "book" =>
           minutes'[h] = (IF req'[h].action = "extend_stay" THEN rooms[req'[h].room].minutes ELSE 0)
                         + req'[h].minutes
  PROVE  MemoryInv'
<1> SUFFICES ASSUME NEW r \in Room \ adrift PROVE RowInv(r)'
  BY DEF MemoryInv
<1>1. RowInv(r)
  BY DEF MemoryInv
<1>2. Others(h)
  BY OthersStand
<1>3. ASSUME NEW d \in Handler PROVE MinutesAhead(d, r)'
  BY <1>1, <1>2 DEF RowInv, MinutesAhead, Others
<1>4. Coming(r)' = Coming(r) /\ \A d \in Coming(r) : req'[d] = req[d]
  BY <1>2 DEF Others, Coming
<1>5. QED
  BY <1>1, <1>3, <1>4 DEF RowInv

\* Every action keeps the memory as the book, but for the handlers between Book and Apply.
LEMMA MemoryInvInductive == TypeInv /\ MemoryInv /\ [Next]_vars => MemoryInv'
<1> SUFFICES ASSUME TypeInv, MemoryInv, [Next]_vars PROVE MemoryInv'
  OBVIOUS
<1>a. \A h \in Handler : req[h] \in Request /\ req[h].room \in Room /\ req[h].minutes \in Nat
  BY DEF TypeInv, LocalsOK, Request
<1>1. ASSUME NEW h \in Handler, Receive(h) PROVE MemoryInv'
  <2>1. pc[h] = "idle" /\ pc'[h] \in {"drive", "stamp"} /\ UNCHANGED <<db, rooms, adrift, unmoded>>
    BY <1>1, Goes DEF Receive, record, history
  <2>2. QED
    BY <1>1, <2>1, MemoryUntouched DEF Handles
<1>2. ASSUME NEW h \in Handler, Drive(h) \/ Log(h) \/ Tell(h) PROVE MemoryInv'
  <2>1. /\ pc[h] # "apply" /\ pc'[h] \in {"stamp", "tell", "answer"}
        /\ UNCHANGED <<db, rooms, adrift, unmoded>>
    BY <1>2, Goes DEF Drive, Log, Tell, record
  <2>2. QED
    BY <1>2, <2>1, MemoryUntouched DEF Handles
<1>3. ASSUME NEW h \in Handler, DriveFails(h) \/ BookFails(h) \/ Answer(h) PROVE MemoryInv'
  <2>1. pc[h] # "apply" /\ pc'[h] = "idle" /\ UNCHANGED <<db, rooms, adrift, unmoded>>
    BY <1>3, Leaves DEF DriveFails, BookFails, Answer, record
  <2>2. QED
    BY <1>3, <2>1, MemoryUntouched DEF Handles
<1>4. ASSUME NEW h \in Handler, Stamp(h) PROVE MemoryInv'
  <2>1. /\ pc[h] = "stamp" /\ pc'[h] = "book" /\ UNCHANGED <<req, db, rooms, adrift, unmoded>>
        /\ minutes' = [minutes EXCEPT ![h] = IF req[h].action = "extend_stay"
                                               THEN Extended(rooms[req[h].room], req[h].minutes)
                                               ELSE req[h].minutes]
    BY <1>4, Goes DEF Stamp, record, history
  <2>2. Extended(rooms[req[h].room], req[h].minutes) = rooms[req[h].room].minutes + req[h].minutes
    BY <1>a, ExtendedAdds DEF TypeInv, MemoryOK, MinutesOK
  <2>3. minutes'[h] = (IF req[h].action = "extend_stay" THEN rooms[req[h].room].minutes ELSE 0)
                      + req[h].minutes
    BY <1>a, <2>1, <2>2 DEF TypeInv, LocalsOK
  <2>4. QED
    BY <1>4, <2>1, <2>3, MemoryUntouched DEF Handles
<1>5. ASSUME NEW h \in Handler, Book(h) PROVE MemoryInv'
  <2>0. PICK q \in Request : q = req[h]
    BY <1>a
  <2>1. /\ pc[h] = "book" /\ pc'[h] = "apply" /\ Transaction(h) # db /\ db' = Transaction(h)
        /\ UNCHANGED <<req, rooms, minutes>>
    BY <1>5, Goes DEF Book
  <2>2. /\ adrift' = IF \E d \in Handler \ {h} : pc[d] = "apply" /\ req[d].room = q.room
                       THEN adrift \cup {q.room} ELSE adrift
        /\ unmoded' = CASE q.action = "extend_stay" /\ q.mode = NoMode -> unmoded \cup {q.room}
                        [] q.action \notin {"check_in", "check_out", "extend_stay", "finish_cleaning"} ->
                             unmoded
                        [] OTHER -> unmoded \ {q.room}
    BY <1>5, <2>0 DEF Book
  <2>3. db'.rooms = [db.rooms EXCEPT ![q.room] = BookedRow(@, q, minutes[h])]
    BY <2>0, <2>1, TransactionBooks
  <2>4. db.rooms \in [Room -> RoomRow] /\ rooms \in [Room -> RoomRow] /\ minutes[h] \in Nat
    BY DEF TypeInv, BookOK, MemoryOK, LocalsOK, Sound, Tables
  <2>5. Others(h)
    BY <1>5, OthersStand DEF Handles
  <2> SUFFICES ASSUME NEW r \in Room \ adrift' PROVE RowInv(r)'
    BY DEF MemoryInv
  <2>6. r \notin adrift /\ RowInv(r)
    BY <2>2 DEF MemoryInv
  <2>7. ASSUME NEW d \in Handler PROVE MinutesAhead(d, r)'
    BY <2>1, <2>5, <2>6 DEF RowInv, MinutesAhead, Others
  <2>8. CASE r # q.room
    <3>1. Coming(r)' = Coming(r)
      BY <2>0, <2>1, <2>5, <2>8 DEF Coming, Others
    <3>2. db'.rooms[r] = db.rooms[r] /\ (r \in unmoded' <=> r \in unmoded)
      BY <2>2, <2>3, <2>4, <2>8
    <3>3. QED
      BY <2>1, <2>6, <2>7, <3>1, <3>2 DEF RowInv
  <2>9. CASE r = q.room
    <3>1. \A d \in Handler \ {h} : ~(pc[d] = "apply" /\ req[d].room = r)
      BY <2>2, <2>9
    <3>2. Coming(r) = {} /\ Coming(r)' = {h}
      BY <2>0, <2>1, <2>5, <2>9, <3>1 DEF Coming, Others
    <3>3. Agree(rooms[r], db.rooms[r], r \in unmoded)
      BY <2>6, <3>2 DEF RowInv
    <3>4. minutes[h] = (IF q.action = "extend_stay" THEN rooms[r].minutes ELSE 0) + q.minutes
      BY <2>0, <2>1, <2>6, <2>9 DEF RowInv, MinutesAhead
    <3>5. q.action = "extend_stay" /\ q.mode = NoMode => r \in unmoded'
      BY <2>2, <2>9
    <3>6. q.action \notin {"check_in", "check_out", "extend_stay", "finish_cleaning"} =>
            (r \in unmoded => r \in unmoded')
      BY <2>2
    <3>7. Agree(Applied(rooms[r], q), BookedRow(db.rooms[r], q, minutes[h]), r \in unmoded')
      BY <2>4, <3>3, <3>4, <3>5, <3>6, AppliedAgrees
    <3>8. db'.rooms[r] = BookedRow(db.rooms[r], q, minutes[h])
      BY <2>3, <2>4, <2>9
    <3>9. QED
      BY <2>0, <2>1, <2>7, <3>2, <3>7, <3>8 DEF RowInv
  <2>10. QED
    BY <2>8, <2>9
<1>6. ASSUME NEW h \in Handler, Apply(h) PROVE MemoryInv'
  <2>0. PICK q \in Request : q = req[h]
    BY <1>a
  <2>1. /\ pc[h] = "apply" /\ pc'[h] = "log" /\ UNCHANGED <<req, db, minutes, unmoded>>
        /\ rooms' = [rooms EXCEPT ![q.room] = Applied(@, q)]
        /\ adrift' = IF \E d \in Handler \ {h} : /\ pc[d] \in {"book", "apply"}
                                                 /\ req[d].room = q.room
                                                 /\ req[d].action = "extend_stay"
                       THEN adrift \cup {q.room} ELSE adrift
    BY <1>6, <2>0, Goes DEF Apply
  <2>2. rooms \in [Room -> RoomRow]
    BY DEF TypeInv, MemoryOK
  <2>3. Others(h)
    BY <1>6, OthersStand DEF Handles
  <2> SUFFICES ASSUME NEW r \in Room \ adrift' PROVE RowInv(r)'
    BY DEF MemoryInv
  <2>4. r \notin adrift /\ RowInv(r)
    BY <2>1 DEF MemoryInv
  <2>5. CASE r # q.room
    <3>1. rooms'[r] = rooms[r]
      BY <2>1, <2>2, <2>5
    <3>2. Coming(r)' = Coming(r)
      BY <2>0, <2>1, <2>3, <2>5 DEF Coming, Others
    <3>3. ASSUME NEW d \in Handler PROVE MinutesAhead(d, r)'
      BY <2>1, <2>3, <2>4, <3>1 DEF RowInv, MinutesAhead, Others
    <3>4. QED
      BY <2>1, <2>4, <3>1, <3>2, <3>3 DEF RowInv
  <2>6. CASE r = q.room
    <3>1. h \in Coming(r)
      BY <2>0, <2>1, <2>6 DEF Coming
    <3>2. Coming(r) = {h} /\ Agree(Applied(rooms[r], q), db.rooms[r], r \in unmoded)
      BY <2>0, <2>4, <3>1 DEF RowInv
    <3>3. Coming(r)' = {}
      BY <2>1, <2>3, <3>2 DEF Coming, Others
    <3>4. rooms'[r] = Applied(rooms[r], q)
      BY <2>1, <2>2, <2>6
    <3>5. ASSUME NEW d \in Handler PROVE MinutesAhead(d, r)'
      <4>1. CASE d = h
        BY <2>1, <4>1 DEF MinutesAhead
      <4>2. CASE d # h
        <5>1. ~(pc[d] = "book" /\ req[d].room = r /\ req[d].action = "extend_stay")
          BY <2>1, <2>6, <4>2
        <5>2. QED
          BY <2>1, <2>3, <2>4, <4>2, <5>1 DEF RowInv, MinutesAhead, Others
      <4>3. QED
        BY <4>1, <4>2
    <3>6. QED
      BY <2>1, <3>2, <3>3, <3>4, <3>5 DEF RowInv
  <2>7. QED
    BY <2>5, <2>6
<1>7. CASE Restart
  <2>1. /\ db' = db /\ unmoded' = {} /\ pc' = [h \in Handler |-> "idle"]
        /\ \A r \in Room \ adrift' : rooms'[r] = db.rooms[r]
    BY <1>7 DEF Restart, Bootstrap, BootstrapFails
  <2>2. QED
    BY <2>1 DEF MemoryInv, RowInv, Coming, MinutesAhead, Agree
<1>8. CASE UNCHANGED vars
  BY <1>8 DEF vars, record, locals, history, MemoryInv, RowInv, Coming, MinutesAhead
<1>9. QED
  BY <1>1, <1>2, <1>3, <1>4, <1>5, <1>6, <1>7, <1>8 DEF Next, Handles

\* The memory is read from the book at the start.
LEMMA MemoryInvInit == Init => MemoryInv
BY DEF Init, MemoryInv, RowInv, Coming, MinutesAhead, Agree

(***************************************************************************)
(* The rooms in memory read as the rooms table, but for those adrift and   *)
(* for a mode an extension without one has cleared (the apply functions of *)
(* state.go against the Record functions of store.go).                     *)
(***************************************************************************)
THEOREM MemoryShowsBook == Spec => []MemoryIsBook
<1>1. Init => TypeInv /\ MemoryInv
  BY TypeInvInit, MemoryInvInit
<1>2. TypeInv /\ MemoryInv /\ [Next]_vars => TypeInv' /\ MemoryInv'
  BY TypeInvInductive, MemoryInvInductive
<1>3. QED
  BY <1>1, <1>2, MemoryInvImplies, PTL DEF Spec

-----------------------------------------------------------------------------
\* Newest keeps the first AuditCap entries, appendAudit prepends one, and
\* ListRecentAudit returns that many different entries of the table.
LEMMA MinIs ==
  ASSUME NEW a \in Int, NEW b \in Int PROVE Min({a, b}) = IF a <= b THEN a ELSE b
BY DEF Min

\* A sequence with n different members of S.
Lists(s, n, S) ==
  /\ s \in Seq(Entry) /\ Len(s) = n /\ \A i \in 1 .. n : s[i] \in S
  /\ \A i, j \in 1 .. n : s[i] = s[j] => i = j

\* Cutting a list at AuditCap leaves the newest entries.
LEMMA NewestLists ==
  ASSUME NEW n \in Nat, NEW S, NEW s, Lists(s, n, S)
  PROVE  Lists(Newest(s), Min({n, AuditCap}), S)
<1> DEFINE m == Min({n, AuditCap})
<1>1. m \in Nat /\ m <= n
  BY MinIs, ServerAssumption
<1>2. s \in Seq(Entry) /\ Len(s) = n
  BY DEF Lists
<1> HIDE DEF m
<1>3. Newest(s) = SubSeq(s, 1, m)
  BY <1>2 DEF Newest, m
<1>4. /\ SubSeq(s, 1, m) \in Seq(Entry) /\ Len(SubSeq(s, 1, m)) = m
      /\ \A i \in 1 .. m : SubSeq(s, 1, m)[i] = s[i]
  <2>1. \A i \in 1 .. m : s[i] \in Entry
    BY <1>1, <1>2
  <2>2. QED
    BY <1>1, <2>1, SubSeqProperties
<1> DEFINE t == SubSeq(s, 1, m)
<1> HIDE DEF t
<1>5. /\ t \in Seq(Entry) /\ Len(t) = m /\ \A i \in 1 .. m : t[i] = s[i] /\ i \in 1 .. n
  BY <1>1, <1>2, <1>4 DEF t
<1>6. \A i \in 1 .. m : t[i] \in S
  BY <1>5 DEF Lists
<1>7. \A i, j \in 1 .. m : t[i] = t[j] => i = j
  BY <1>5 DEF Lists
<1>8. Lists(t, m, S)
  BY <1>5, <1>6, <1>7 DEF Lists
<1>9. QED
  BY <1>3, <1>8 DEF t, m

\* An entry that is not in a list yet goes before it.
LEMMA PrependLists ==
  ASSUME NEW n \in Nat, NEW S, NEW s, Lists(s, n, S), NEW e \in Entry, e \notin S
  PROVE  Lists(<<e>> \o s, n + 1, S \cup {e})
<1> DEFINE t == <<e>> \o s
<1>1. s \in Seq(Entry) /\ Len(s) = n
  BY DEF Lists
<1>2. /\ t \in Seq(Entry) /\ Len(t) = n + 1
      /\ t[1] = e /\ \A i \in 2 .. n + 1 : t[i] = s[i - 1]
  BY <1>1
<1> HIDE DEF t
<1>3. \A i \in 2 .. n + 1 : i - 1 \in 1 .. n
  OBVIOUS
<1>4. \A i \in 1 .. n + 1 : t[i] \in S \cup {e}
  BY <1>2, <1>3 DEF Lists
<1>5. ASSUME NEW i \in 1 .. n + 1, NEW j \in 1 .. n + 1, t[i] = t[j] PROVE i = j
  <2>1. CASE i = 1 \/ j = 1
    BY <1>2, <1>3, <1>5, <2>1 DEF Lists
  <2>2. CASE i # 1 /\ j # 1
    <3>1. i \in 2 .. n + 1 /\ j \in 2 .. n + 1
      BY <2>2
    <3>2. s[i - 1] = s[j - 1] /\ i - 1 \in 1 .. n /\ j - 1 \in 1 .. n
      BY <1>2, <1>3, <1>5, <3>1
    <3>3. i - 1 = j - 1
      BY <3>2 DEF Lists
    <3>4. QED
      BY <3>3
  <2>3. QED
    BY <2>1, <2>2
<1>6. QED
  BY <1>2, <1>4, <1>5 DEF Lists, t

\* Recent lists the newest entries of the audit table, as many as there may be.
LEMMA RecentLists ==
  ASSUME NEW entries \in SUBSET AuditRow, IsFiniteSet(entries),
         \A e, f \in entries : e.id = f.id => e = f
  PROVE  Lists(Recent(entries), Min({Cardinality(entries), AuditCap}), {EntryOf(e) : e \in entries})
<1> DEFINE n == Cardinality(entries)
           Nth(i) == CHOOSE e \in entries : Cardinality(Newer(entries, e)) = i - 1
           m == Min({n, AuditCap})
<1>1. n \in Nat
  BY FS_CardinalityType
<1>2. ASSUME NEW e \in entries PROVE EntryOf(e) \in Entry /\ EntryOf(e).id = e.id
  BY DEF AuditRow, EntryOf, Entry
<1>3. \A i \in 1 .. n : Nth(i) \in entries /\ Cardinality(Newer(entries, Nth(i))) = i - 1
  BY PlacesTaken
<1>4. m \in Nat /\ m <= n
  BY <1>1, MinIs, ServerAssumption
<1>5. Recent(entries) = [i \in 1 .. m |-> EntryOf(Nth(i))]
  BY DEF Recent, Newer
<1> DEFINE s == [i \in 1 .. m |-> EntryOf(Nth(i))]
<1> HIDE DEF Nth, m, n
<1>6. \A i \in 1 .. m : i \in 1 .. n
  BY <1>1, <1>4
<1>7. s \in [1 .. m -> Entry] /\ \A i \in 1 .. m : s[i] = EntryOf(Nth(i))
  BY <1>2, <1>3, <1>6
<1> HIDE DEF s
<1>8. s \in Seq(Entry) /\ Len(s) = m
  BY <1>4, <1>7
<1>9. ASSUME NEW i \in 1 .. m, NEW j \in 1 .. m, s[i] = s[j] PROVE i = j
  <2>1. Nth(i) = Nth(j)
    BY <1>2, <1>3, <1>6, <1>7, <1>9
  <2>2. i - 1 = j - 1
    BY <1>3, <1>6, <2>1
  <2>3. QED
    BY <2>2
<1>10. \A i \in 1 .. m : s[i] \in {EntryOf(e) : e \in entries}
  BY <1>3, <1>6, <1>7
<1>11. Lists(s, m, {EntryOf(e) : e \in entries})
  BY <1>8, <1>9, <1>10 DEF Lists
<1>12. QED
  BY <1>5, <1>11 DEF s, m, n

-----------------------------------------------------------------------------
\* The handlers between their transaction and appendAudit, and their entries.
Logging  == {h \in Handler : pc[h] \in {"apply", "log"}}
Unlogged == {EntryOf(req[h]) : h \in Logging}

\* What the memory's log was given.
Shown == Booked \ (forgotten \cup Unlogged)

LogInv ==
  /\ IsFiniteSet(db.audit)
  /\ forgotten \subseteq Booked
  /\ Unlogged \subseteq Booked \ forgotten
  /\ \A h, d \in Logging : EntryOf(req[h]) = EntryOf(req[d]) => h = d
  /\ Lists(audit, Min({Cardinality(Shown), AuditCap}), Shown)

\* There are as many entries as audit rows, for their ids differ.
LEMMA BookedFinite ==
  ASSUME TypeInv, IsFiniteSet(db.audit)
  PROVE  IsFiniteSet(Booked) /\ Cardinality(Booked) = Cardinality(db.audit)
<1> DEFINE f == [e \in db.audit |-> EntryOf(e)]
<1>1. \A e, g \in db.audit : e.id = g.id => e = g
  BY DEF TypeInv, BookOK, Sound
<1>2. f \in [db.audit -> Booked]
  BY DEF Booked
<1>3. \A e, g \in db.audit : f[e] = f[g] => e = g
  BY <1>1 DEF EntryOf
<1>4. \A b \in Booked : \E e \in db.audit : f[e] = b
  BY DEF Booked
<1> HIDE DEF f
<1>5. QED
  BY <1>2, <1>3, <1>4, SameSize

\* LogInv is stronger than what the run checks.
LEMMA LogInvImplies == TypeInv /\ LogInv => TypeOK /\ AuditLogComplete
<1> SUFFICES ASSUME TypeInv, LogInv PROVE TypeOK /\ AuditLogComplete
  OBVIOUS
<1> DEFINE n == Min({Cardinality(Shown), AuditCap})
<1>1. IsFiniteSet(Shown) /\ Cardinality(Shown) \in Nat
  BY BookedFinite, FS_Subset, FS_CardinalityType DEF LogInv, Shown
<1>2. n \in Nat /\ n <= AuditCap
  BY <1>1, MinIs, ServerAssumption
<1>3. audit \in Seq(Entry) /\ Len(audit) = n
  BY DEF LogInv, Lists
<1>4. TypeOK
  <2>1. /\ db.rooms \in [Room -> RoomRow] /\ db.stays \subseteq StayRow
        /\ db.payments \subseteq PaymentRow /\ db.audit \subseteq AuditRow
    BY DEF TypeInv, BookOK, Sound, Tables
  <2>2. QED
    BY <1>2, <1>3, <2>1 DEF TypeInv, MemoryOK, LocalsOK, HistoryOK, TypeOK
<1>5. ASSUME \A h \in Handler : pc[h] \notin {"apply", "log"}
      PROVE  /\ ToSet(audit) \subseteq Booked \ forgotten
             /\ Cardinality(ToSet(audit)) = Len(audit)
             /\ Len(audit) = Min({Cardinality(Booked \ forgotten), AuditCap})
  <2>1. Shown = Booked \ forgotten
    BY <1>5 DEF Shown, Unlogged, Logging
  <2>2. DOMAIN audit = 1 .. n /\ audit \in [1 .. n -> Entry]
    BY <1>2, <1>3
  <2> HIDE DEF n
  <2>3. ToSet(audit) = {audit[i] : i \in 1 .. n}
    BY <2>2 DEF ToSet
  <2>4. \A i \in 1 .. n : audit[i] \in Shown
    BY DEF LogInv, Lists, n
  <2>5. \A i, j \in 1 .. n : audit[i] = audit[j] => i = j
    BY DEF LogInv, Lists, n
  <2>6. Cardinality(ToSet(audit)) = n
    <3> DEFINE S == ToSet(audit)
    <3>1. audit \in [1 .. n -> S] /\ \A b \in S : \E i \in 1 .. n : audit[i] = b
      BY <2>2, <2>3
    <3> HIDE DEF S
    <3>2. IsFiniteSet(1 .. n) /\ Cardinality(1 .. n) = n
      BY <1>2, FS_Interval
    <3>3. QED
      BY <2>5, <3>1, <3>2, SameSize DEF S
  <2>7. QED
    BY <1>3, <2>1, <2>3, <2>4, <2>6 DEF n
<1>6. QED
  BY <1>4, <1>5 DEF AuditLogComplete

\* The steps that change neither the log nor what it has to hold.
LEMMA LogUntouched ==
  ASSUME LogInv, UNCHANGED <<audit, forgotten>>, IsFiniteSet(db'.audit), Shown' = Shown,
         forgotten \subseteq Booked', Unlogged' \subseteq Booked' \ forgotten,
         (\A h, d \in Logging : EntryOf(req[h]) = EntryOf(req[d]) => h = d)'
  PROVE  LogInv'
BY DEF LogInv

\* A handler's step that is neither Book nor Log leaves what is still to be logged.
LEMMA LoggingKept ==
  ASSUME TypeInv, LogInv, NEW h \in Handler, Handles(h), UNCHANGED <<db, audit, forgotten>>,
         h \in Logging' <=> h \in Logging, h \in Logging => req'[h] = req[h]
  PROVE  LogInv'
<1>1. Others(h)
  BY OthersStand
<1>2. Logging' = Logging
  BY <1>1 DEF Others, Logging
<1>3. \A d \in Logging : req'[d] = req[d]
  BY <1>1 DEF Others, Logging
<1>4. Unlogged' = Unlogged
  BY <1>2, <1>3 DEF Unlogged
<1>5. Booked' = Booked
  BY DEF Booked
<1>6. Shown' = Shown
  BY <1>4, <1>5 DEF Shown
<1>7. (\A d, g \in Logging : EntryOf(req[d]) = EntryOf(req[g]) => d = g)'
  BY <1>2, <1>3 DEF LogInv
<1>8. QED
  BY <1>4, <1>5, <1>6, <1>7, LogUntouched DEF LogInv

\* Every action keeps the log a list of what is booked and not yet to be logged.
LEMMA LogInvInductive == TypeInv /\ Progress /\ LogInv /\ [Next]_vars => LogInv'
<1> SUFFICES ASSUME TypeInv, Progress, LogInv, [Next]_vars PROVE LogInv'
  OBVIOUS
<1>1. ASSUME NEW h \in Handler,
             Receive(h) \/ Drive(h) \/ DriveFails(h) \/ Stamp(h) \/ BookFails(h) \/ Tell(h) \/ Answer(h)
      PROVE  LogInv'
  <2>1. /\ pc[h] \notin {"apply", "log"} /\ pc'[h] \notin {"apply", "log"}
        /\ UNCHANGED <<db, audit, forgotten>>
    BY <1>1, Goes, Leaves
       DEF Receive, Drive, DriveFails, Stamp, BookFails, Tell, Answer, record, history
  <2>2. QED
    BY <1>1, <2>1, LoggingKept DEF Logging, Handles
<1>2. ASSUME NEW h \in Handler, Apply(h) PROVE LogInv'
  <2>1. /\ pc[h] = "apply" /\ pc'[h] = "log" /\ UNCHANGED <<db, audit, forgotten, req>>
    BY <1>2, Goes DEF Apply
  <2>2. QED
    BY <1>2, <2>1, LoggingKept DEF Logging, Handles
<1>3. ASSUME NEW h \in Handler, Book(h) PROVE LogInv'
  <2>0. PICK e : e = EntryOf(req[h])
    OBVIOUS
  <2>1. /\ pc[h] = "book" /\ pc'[h] = "apply" /\ UNCHANGED <<audit, forgotten, req>>
        /\ Transaction(h) # db /\ db' = Transaction(h)
    BY <1>3, Goes DEF Book
  <2>2. Others(h)
    BY <1>3, OthersStand DEF Handles
  <2>3. Logging' = Logging \cup {h} /\ h \notin Logging
    BY <2>1, <2>2 DEF Logging, Others
  <2>4. Unlogged' = Unlogged \cup {e}
    BY <2>0, <2>1, <2>3 DEF Unlogged
  <2>5. Booked' = Booked \cup {e} /\ e \notin Booked
    BY <1>3, <2>0, BookAdds
  <2>6. Shown' = Shown
    BY <2>1, <2>4, <2>5 DEF Shown
  <2>7. IsFiniteSet(db'.audit)
    <3>1. PICK mode : db'.audit = db.audit \cup
                        {AuditRowOf(req[h].id, req[h].room, req[h].action, mode, now[h])}
      BY <2>1, TransactionBooks DEF Booking
    <3>2. QED
      BY <3>1, FS_AddElement DEF LogInv
  <2>8. forgotten \subseteq Booked' /\ Unlogged' \subseteq Booked' \ forgotten
    BY <2>4, <2>5 DEF LogInv
  <2>9. \A d, g \in Logging' : EntryOf(req'[d]) = EntryOf(req'[g]) => d = g
    <3>1. \A d \in Logging : EntryOf(req[d]) # e
      BY <2>5 DEF LogInv, Unlogged
    <3>2. QED
      BY <2>0, <2>1, <2>3, <3>1 DEF LogInv
  <2>10. QED
    BY <2>1, <2>6, <2>7, <2>8, <2>9, LogUntouched
<1>4. ASSUME NEW h \in Handler, Log(h) PROVE LogInv'
  <2>0. PICK e \in Entry : e = EntryOf(req[h])
    BY EntryType DEF TypeInv, LocalsOK
  <2>1. /\ pc[h] = "log" /\ pc'[h] = "tell" /\ UNCHANGED <<db, forgotten, req>>
        /\ audit' = Newest(<<e>> \o audit)
    BY <1>4, <2>0, Goes DEF Log
  <2>2. Others(h)
    BY <1>4, OthersStand DEF Handles
  <2>3. Logging' = Logging \ {h} /\ h \in Logging
    BY <2>1, <2>2 DEF Logging, Others
  <2>4. Unlogged' = Unlogged \ {e} /\ e \in Unlogged
    BY <2>0, <2>1, <2>3 DEF Unlogged, LogInv
  <2>5. Booked' = Booked
    BY <2>1 DEF Booked
  <2>6. Shown' = Shown \cup {e} /\ e \notin Shown
    BY <2>1, <2>4, <2>5 DEF Shown, LogInv
  <2>7. IsFiniteSet(Shown) /\ Cardinality(Shown) \in Nat
    BY BookedFinite, FS_Subset, FS_CardinalityType DEF LogInv, Shown
  <2>8. Cardinality(Shown') = Cardinality(Shown) + 1
    BY <2>6, <2>7, FS_AddElement
  <2>9. Lists(audit', Min({Cardinality(Shown'), AuditCap}), Shown')
    <3>1. PICK n \in Nat : n = Min({Cardinality(Shown), AuditCap})
      BY <2>7, MinIs, ServerAssumption
    <3>2. Lists(<<e>> \o audit, n + 1, Shown')
      BY <2>6, <3>1, PrependLists DEF LogInv
    <3>3. Lists(audit', Min({n + 1, AuditCap}), Shown')
      BY <2>1, <3>2, NewestLists
    <3>4. Min({n + 1, AuditCap}) = Min({Cardinality(Shown'), AuditCap})
      BY <2>7, <2>8, <3>1, MinIs, ServerAssumption
    <3>5. QED
      BY <3>3, <3>4
  <2>10. \A d, g \in Logging' : EntryOf(req'[d]) = EntryOf(req'[g]) => d = g
    BY <2>1, <2>3 DEF LogInv
  <2>11. QED
    BY <2>1, <2>4, <2>5, <2>9, <2>10 DEF LogInv
<1>5. CASE Restart
  <2>1. /\ db' = db /\ pc' = [h \in Handler |-> "idle"]
        /\ \/ audit' = Recent(db.audit) /\ forgotten' = {}
           \/ audit' = <<>> /\ forgotten' = Booked
    BY <1>5 DEF Restart, Bootstrap, BootstrapFails
  <2>2. Logging' = {} /\ Unlogged' = {} /\ Booked' = Booked
    BY <2>1 DEF Logging, Unlogged, Booked
  <2>3. Lists(audit', Min({Cardinality(Shown'), AuditCap}), Shown')
    <3>1. CASE audit' = Recent(db.audit) /\ forgotten' = {}
      <4>1. Shown' = Booked /\ Booked = {EntryOf(e) : e \in db.audit}
        BY <2>2, <3>1 DEF Shown, Booked
      <4>2. Cardinality(Booked) = Cardinality(db.audit)
        BY BookedFinite DEF LogInv
      <4>3. db.audit \in SUBSET AuditRow /\ \A e, f \in db.audit : e.id = f.id => e = f
        BY DEF TypeInv, BookOK, Sound, Tables
      <4>4. Lists(Recent(db.audit), Min({Cardinality(db.audit), AuditCap}),
                  {EntryOf(e) : e \in db.audit})
        BY <4>3, RecentLists DEF LogInv
      <4>5. QED
        BY <3>1, <4>1, <4>2, <4>4
    <3>2. CASE audit' = <<>> /\ forgotten' = Booked
      <4>1. Shown' = {}
        BY <2>2, <3>2 DEF Shown
      <4>2. Min({Cardinality(Shown'), AuditCap}) = 0
        BY <4>1, FS_EmptySet, MinIs, ServerAssumption
      <4>3. Lists(<<>>, 0, {})
        BY DEF Lists
      <4>4. QED
        BY <3>2, <4>1, <4>2, <4>3
    <3>3. QED
      BY <2>1, <3>1, <3>2
  <2>4. QED
    BY <2>1, <2>2, <2>3 DEF LogInv
<1>6. CASE UNCHANGED vars
  BY <1>6 DEF vars, record, locals, history, LogInv, Logging, Unlogged, Shown, Booked
<1>7. QED
  BY <1>1, <1>2, <1>3, <1>4, <1>5, <1>6 DEF Next

\* The log is empty at the start, as the audit table is.
LEMMA LogInvInit == Init => LogInv
<1> SUFFICES ASSUME Init PROVE LogInv
  OBVIOUS
<1>1. db.audit = {} /\ Booked = {} /\ Logging = {} /\ Unlogged = {} /\ audit = <<>> /\ forgotten = {}
  BY DEF Init, EmptyDatabase, Booked, Logging, Unlogged
<1>2. Shown = {}
  BY <1>1 DEF Shown
<1>3. Min({Cardinality(Shown), AuditCap}) = 0
  BY <1>2, FS_EmptySet, MinIs, ServerAssumption
<1>4. Lists(<<>>, 0, {})
  BY DEF Lists
<1>5. QED
  BY <1>1, <1>2, <1>3, <1>4, FS_EmptySet DEF LogInv

\* LogInv holds in every behaviour.
LEMMA LogInvHolds == Spec => [](TypeInv /\ LogInv)
<1>1. Init => TypeInv /\ Progress /\ LogInv
  BY TypeInvInit, LogInvInit DEF Init, Progress
<1>2. TypeInv /\ Progress /\ LogInv /\ [Next]_vars => TypeInv' /\ Progress' /\ LogInv'
  BY TypeInvInductive, ProgressInductive, LogInvInductive
<1>3. QED
  BY <1>1, <1>2, PTL DEF Spec

(***************************************************************************)
(* The types of all the server's records (the tables, the state store, the *)
(* locals of the handlers), the bound of the audit log among them.         *)
(***************************************************************************)
THEOREM TypeCorrect == Spec => []TypeOK
BY LogInvHolds, LogInvImplies, PTL

(***************************************************************************)
(* The audit log in memory has every booked entry once, or AuditCap of     *)
(* them, however transactions and appendAudit interleave and whatever      *)
(* newStateStoreFromStore read at the start (state.go).                    *)
(***************************************************************************)
THEOREM LogShowsBook == Spec => []AuditLogComplete
BY LogInvHolds, LogInvImplies, PTL
=============================================================================
