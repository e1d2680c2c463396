-------------------------------- MODULE Server ------------------------------
(***************************************************************************)
(* The HTTP server: the handlers that change a room, each on a goroutine   *)
(* of its own, and the three records of a room they keep in step without a *)
(* lock over all of them: the relay, the database and the state store in   *)
(* memory.  A handler is the sequence                                      *)
(*                                                                         *)
(*   idle -> drive -> stamp -> book -> apply -> log -> tell -> answer      *)
(*                                                                         *)
(* whose steps other handlers and a crash come between; open_room, service *)
(* and payments start at "stamp".  ApplyIntent is one step here, the one   *)
(* at which the slave frame reaches the card: module Transport has what is *)
(* inside it, and the neighbours on the card.  Requests for a room that is *)
(* not in the map fail at once and are left out.                           *)
(***************************************************************************)
EXTENDS Ledger, LegacyFrames, Sequences
LOCAL INSTANCE SequencesExt
LOCAL INSTANCE FiniteSetsExt

CONSTANTS
  Handler,     \* goroutines that may be inside a handler at once
  Offered,     \* the actions clients ask for
  Modes,       \* stay modes clients send
  Minutes,     \* minutes a check-in or an extension asks for
  Amount,      \* amounts of money, 0 for none
  AuditCap,    \* how many audit entries the memory keeps
  Time,        \* the seconds in which requests are stamped
  Faults       \* what the environment may do: see FaultKind

FaultKind == {"transport",   \* ApplyIntent fails, before or after its slave frame
              "loss",        \* the slave frame is written and does not arrive
              "database",    \* the transaction fails, the context being cancelled
              "crash",       \* the process dies and is started again
              "bootstrap"}   \* a started process cannot read the database at first

ASSUME ServerAssumption ==
  /\ Room # {} /\ RequestId # {}
  /\ Offered \subseteq Action
  /\ Modes \subseteq StayMode \cup {NoMode}
  /\ Minutes \subseteq Nat \ {0} /\ Amount \subseteq Nat
  /\ AuditCap \in Nat \ {0} /\ Time \subseteq Nat \ {0}
  /\ Faults \subseteq FaultKind

VARIABLES
  db,          \* the database
  rooms,       \* stateStore.rooms
  audit,       \* stateStore.audit, newest first
  pc,          \* where each handler is
  req,         \* the request of each handler
  now,         \* the local variable now of each handler
  minutes,     \* the local variable remainingMinutes of each handler
  relay,       \* external: is the relay of each room energised
  told,        \* history: entries published as audit events
  answered,    \* history: entries answered with "accepted"
  owner,       \* history: the handlers whose frame the relay still shows
  strayed,     \* history: rooms whose relay may contradict the database
  adrift,      \* history: rooms whose memory may differ from the database
  unmoded,     \* history: rooms whose mode an extension cleared in the database
  forgotten,   \* history: booked entries the memory did not get at the start
  vacantOpens  \* history: open_room requests logged while the room was vacant

record  == <<db, rooms, audit>>
locals  == <<pc, req, now, minutes>>
history == <<told, answered, owner, strayed, adrift, unmoded, forgotten, vacantOpens>>
vars    == <<record, locals, relay, history>>

Place == {"idle", "drive", "stamp", "book", "apply", "log", "tell", "answer"}

Request ==
  [id: RequestId, room: Room, action: Action, mode: StayMode \cup {NoMode},
   minutes: Nat, amount: Nat]
\* A handler's locals mean nothing after it: one value keeps the states few.
NoRequest ==
  [id |-> CHOOSE i \in RequestId : TRUE, room |-> CHOOSE r \in Room : TRUE,
   action |-> "service", mode |-> NoMode, minutes |-> 0, amount |-> 0]

\* commandIntentFromAction and the handlers: what the relay is asked for.
BugDrives(action) == action \notin {"open_room", "service", "receive_payment", "extend_stay"}
Drives(action) == action \notin {"open_room", "service", "receive_payment"}
BugTargetOf(action) == IF action \in {"check_in", "extend_stay"} THEN "occupied" ELSE "vacant"
TargetOf(action) ==
  CASE action \in {"check_in", "extend_stay"}      -> "occupied"
    [] action \in {"check_out", "finish_cleaning"} -> "vacant"
    [] action = "start_cleaning"                   -> "cleaning"

Powered(status) == Energising(RoomStatusOf(status))

EntryOf(q) == [id |-> q.id, room |-> q.room, action |-> q.action]
Booked     == {EntryOf(e) : e \in db.audit}

\* The handlers that are between their frame for room r and their transaction.
Pending(r) == {h \in Handler : /\ pc[h] \in {"stamp", "book"}
                               /\ req[h].room = r /\ Drives(req[h].action)}
-----------------------------------------------------------------------------
Init ==
  /\ db = EmptyDatabase
  /\ rooms = db.rooms
  /\ audit = <<>>
  /\ pc = [h \in Handler |-> "idle"]
  /\ req = [h \in Handler |-> NoRequest]
  /\ now = [h \in Handler |-> Null]
  /\ minutes = [h \in Handler |-> 0]
  /\ relay = [r \in Room |-> FALSE]
  /\ told = {} /\ answered = {} /\ owner = {} /\ strayed = {} /\ adrift = {}
  /\ unmoded = {} /\ forgotten = {} /\ vacantOpens = {}

Goto(h, place) == pc' = [pc EXCEPT ![h] = place]

\* writeError or writeJSON, and the goroutine ends.
Leave(h) ==
  /\ Goto(h, "idle")
  /\ req' = [req EXCEPT ![h] = NoRequest]
  /\ now' = [now EXCEPT ![h] = Null]
  /\ minutes' = [minutes EXCEPT ![h] = 0]

\* A request carries what its action has a use for.
Carries(q) ==
  /\ IF q.action \in {"check_in", "extend_stay"} THEN q.mode \in Modes ELSE q.mode = NoMode
  /\ q.action \in {"check_in", "extend_stay"} <=> q.minutes # 0
  /\ IF q.action \in {"check_in", "extend_stay", "receive_payment"}
       THEN q.amount \in Amount ELSE q.amount = 0

Receive(h) ==
  /\ pc[h] = "idle"
  /\ \E q \in [id: RequestId, room: Room, action: Offered, mode: Modes \cup {NoMode},
               minutes: Minutes \cup {0}, amount: Amount \cup {0}] :
       /\ Carries(q)
       /\ req' = [req EXCEPT ![h] = q]
       /\ Goto(h, IF Drives(q.action) THEN "drive" ELSE "stamp")
  /\ UNCHANGED <<record, now, minutes, relay, history>>

(***************************************************************************)
(* The slave frame of h reaches the card, or gets lost.  h owns the relay  *)
(* until another frame for the room comes, if no other handler still has   *)
(* an older frame of the room to book.                                     *)
(***************************************************************************)
Switch(h) ==
  LET r == req[h].room
  IN  \/ /\ relay' = [relay EXCEPT ![r] = Powered(TargetOf(req[h].action))]
         /\ owner' = {d \in owner : req[d].room # r} \cup (IF Pending(r) = {} THEN {h} ELSE {})
      \/ /\ "loss" \in Faults
         /\ UNCHANGED <<relay, owner>>

\* ApplyIntent succeeds: there is no acknowledgement to wait for.
Drive(h) ==
  /\ pc[h] = "drive"
  /\ Goto(h, "stamp")
  /\ Switch(h)
  /\ UNCHANGED <<record, req, now, minutes, told, answered, strayed, adrift, unmoded,
                 forgotten, vacantOpens>>

\* ApplyIntent fails: before the slave frame, or after it with the display
\* frame or in the quiet gap.
DriveFails(h) ==
  /\ "transport" \in Faults
  /\ pc[h] = "drive"
  /\ Leave(h)
  /\ \/ /\ relay' = [relay EXCEPT ![req[h].room] = Powered(TargetOf(req[h].action))]
        /\ owner' = {d \in owner : req[d].room # req[h].room}
        /\ strayed' = strayed \cup {req[h].room}
     \/ UNCHANGED <<relay, owner, strayed>>
  /\ UNCHANGED <<record, told, answered, adrift, unmoded, forgotten, vacantOpens>>

\* handleExtend: the minutes a stay has with an extension.
BugExtended(row, extension) == extension
Extended(row, extension) == Max({row.minutes + extension, extension})

\* now := time.Now(), and in handleExtend the minutes that are left by now.
Stamp(h) ==
  /\ pc[h] = "stamp"
  /\ Goto(h, "book")
  /\ \E t \in Time : now' = [now EXCEPT ![h] = t]
  /\ minutes' = [minutes EXCEPT ![h] =
                   IF req[h].action = "extend_stay"
                     THEN Extended(rooms[req[h].room], req[h].minutes)
                     ELSE req[h].minutes]
  /\ UNCHANGED <<record, req, relay, history>>

\* The transaction of the handler.
Transaction(h) ==
  LET q == req[h]
  IN  CASE q.action = "check_in" ->
             RecordCheckIn(db, q.id, q.room, q.mode, minutes[h], q.amount, now[h])
        [] q.action = "check_out" -> RecordCheckOut(db, q.id, q.room, now[h])
        [] q.action = "extend_stay" ->
             RecordExtend(db, q.id, q.room, q.mode, minutes[h], q.amount, now[h])
        [] q.action = "receive_payment" -> RecordPayment(db, q.id, q.room, q.amount, now[h])
        [] OTHER -> RecordCommand(db, q.id, q.room, q.action, now[h])

(***************************************************************************)
(* The transaction commits.  The room is adrift when another handler's     *)
(* transaction of it has not come to the memory yet, for the two may reach *)
(* it in the other order.  An extension without a stay mode clears the mode*)
(* in the database, and the memory will keep it: the room is unmoded.      *)
(***************************************************************************)
Book(h) ==
  LET r == req[h].room
      crossing == \E d \in Handler \ {h} : pc[d] = "apply" /\ req[d].room = r
      modeless == req[h].action = "extend_stay" /\ req[h].mode = NoMode
      modes == {"check_in", "check_out", "extend_stay", "finish_cleaning"}
  IN  /\ pc[h] = "book"
      /\ Transaction(h) # db
      /\ db' = Transaction(h)
      /\ Goto(h, "apply")
      /\ adrift' = IF crossing THEN adrift \cup {r} ELSE adrift
      /\ unmoded' = CASE modeless                 -> unmoded \cup {r}
                      [] req[h].action \notin modes -> unmoded
                      [] OTHER                    -> unmoded \ {r}
      /\ strayed' = CASE ~Drives(req[h].action) -> strayed
                      [] h \in owner            -> strayed \ {r}
                      [] OTHER                  -> strayed \cup {r}
      /\ owner' = owner \ {h}
      /\ UNCHANGED <<rooms, audit, req, now, minutes, relay, told, answered,
                     forgotten, vacantOpens>>

\* It fails, because of its keys or of anything else; the relay has moved.
BugBookFails(h) ==
  /\ pc[h] = "book"
  /\ Transaction(h) = db
  /\ Goto(h, "apply")
  /\ UNCHANGED <<record, req, now, minutes, relay, history>>
BookFails(h) ==
  /\ pc[h] = "book"
  /\ Transaction(h) = db \/ "database" \in Faults
  /\ Leave(h)
  /\ strayed' = IF Drives(req[h].action) THEN strayed \cup {req[h].room} ELSE strayed
  /\ owner' = owner \ {h}
  /\ UNCHANGED <<record, relay, told, answered, adrift, unmoded, forgotten, vacantOpens>>

\* The room is nobody's: applyCheckOut, and applyCommand after the cleaning.
BugFreed(row) == [row EXCEPT !.status = "vacant", !.minutes = 0]
Freed(row) == [row EXCEPT !.status = "vacant", !.mode = NoMode, !.minutes = 0]

\* applyCheckIn, applyCheckOut, applyExtend, applyPayment, applyCommand.
Applied(row, q) ==
  LET paid == IF q.amount > 0 THEN q.amount ELSE row.paid
  IN  CASE q.action = "check_in" ->
             [status |-> "occupied", mode |-> q.mode, minutes |-> q.minutes, paid |-> paid]
        [] q.action = "extend_stay" ->
             [status |-> "occupied", mode |-> IF q.mode # NoMode THEN q.mode ELSE row.mode,
              minutes |-> row.minutes + q.minutes, paid |-> paid]
        [] q.action \in {"check_out", "finish_cleaning"} -> Freed(row)
        [] q.action = "start_cleaning"  -> [row EXCEPT !.status = "cleaning"]
        [] q.action = "receive_payment" -> [row EXCEPT !.paid = q.amount]
        [] OTHER -> row

(***************************************************************************)
(* The change in memory.  An extension of the room that has read the       *)
(* minutes left before it, and books their sum after it, sets the room     *)
(* adrift.                                                                 *)
(***************************************************************************)
Apply(h) ==
  LET r == req[h].room
      stale == \E d \in Handler \ {h} : /\ pc[d] \in {"book", "apply"}
                                        /\ req[d].room = r /\ req[d].action = "extend_stay"
  IN  /\ pc[h] = "apply"
      /\ rooms' = [rooms EXCEPT ![r] = Applied(@, req[h])]
      /\ Goto(h, "log")
      /\ adrift' = IF stale THEN adrift \cup {r} ELSE adrift
      /\ UNCHANGED <<db, audit, req, now, minutes, relay, told, answered, owner, strayed,
                     unmoded, forgotten, vacantOpens>>

\* The newest AuditCap entries stay.
BugNewest(entries) == SubSeq(entries, 1, Min({Len(entries), AuditCap + 1}))
Newest(entries) == SubSeq(entries, 1, Min({Len(entries), AuditCap}))

\* appendAudit
Log(h) ==
  /\ pc[h] = "log"
  /\ audit' = Newest(<<EntryOf(req[h])>> \o audit)
  /\ Goto(h, "tell")
  /\ vacantOpens' = IF req[h].action = "open_room" /\ rooms[req[h].room].status = "vacant"
                      THEN vacantOpens \cup {req[h].id} ELSE vacantOpens
  /\ UNCHANGED <<db, rooms, req, now, minutes, relay, told, answered, owner, strayed, adrift,
                 unmoded, forgotten>>

\* publishAuditEvent, publishRoomUpdate
Tell(h) ==
  /\ pc[h] = "tell"
  /\ told' = told \cup {EntryOf(req[h])}
  /\ Goto(h, "answer")
  /\ UNCHANGED <<record, req, now, minutes, relay, answered, owner, strayed, adrift, unmoded,
                 forgotten, vacantOpens>>

Answer(h) ==
  /\ pc[h] = "answer"
  /\ answered' = answered \cup {EntryOf(req[h])}
  /\ Leave(h)
  /\ UNCHANGED <<record, relay, told, owner, strayed, adrift, unmoded, forgotten, vacantOpens>>

\* ListRecentAudit: ORDER BY event_time DESC, event_id DESC LIMIT.
BugRecent(entries) == <<>>
Recent(entries) ==
  LET Newer(e) == {f \in entries : f.at > e.at \/ (f.at = e.at /\ f.id > e.id)}
      Nth(i)   == CHOOSE e \in entries : Cardinality(Newer(e)) = i - 1
  IN  [i \in 1 .. Min({Cardinality(entries), AuditCap}) |-> EntryOf(Nth(i))]

\* NewServerWithStore: newStateStoreFromStore has the rooms and the audit log
\* of the database; when it fails, its error is dropped and all are vacant.
Bootstrap ==
  /\ rooms' = db.rooms
  /\ audit' = Recent(db.audit)
  /\ adrift' = {} /\ unmoded' = {} /\ forgotten' = {}

BootstrapFails ==
  /\ "bootstrap" \in Faults
  /\ rooms' = EmptyDatabase.rooms
  /\ audit' = <<>>
  /\ adrift' = {r \in Room : rooms'[r] # db.rooms[r]}
  /\ unmoded' = {} /\ forgotten' = Booked

\* The process dies and main starts it again; the relays stay as they are.
Restart ==
  /\ "crash" \in Faults
  /\ Bootstrap \/ BootstrapFails
  /\ pc' = [h \in Handler |-> "idle"]
  /\ req' = [h \in Handler |-> NoRequest]
  /\ now' = [h \in Handler |-> Null]
  /\ minutes' = [h \in Handler |-> 0]
  /\ strayed' = strayed \cup {r \in Room : Pending(r) # {}}
  /\ owner' = {}
  /\ UNCHANGED <<db, relay, told, answered, vacantOpens>>

Next ==
  \/ \E h \in Handler :
       \/ Receive(h) \/ Drive(h) \/ DriveFails(h) \/ Stamp(h) \/ Book(h) \/ BookFails(h)
       \/ Apply(h) \/ Log(h) \/ Tell(h) \/ Answer(h)
  \/ Restart

Spec == Init /\ [][Next]_vars
-----------------------------------------------------------------------------
Entry == [id: RequestId, room: Room, action: Action]

TypeOK ==
  /\ db.rooms \in [Room -> RoomRow]
  /\ db.stays \subseteq StayRow /\ db.payments \subseteq PaymentRow /\ db.audit \subseteq AuditRow
  /\ rooms \in [Room -> RoomRow]
  /\ audit \in Seq(Entry) /\ Len(audit) <= AuditCap
  /\ pc \in [Handler -> Place]
  /\ req \in [Handler -> Request]
  /\ now \in [Handler -> Time \cup {Null}]
  /\ minutes \in [Handler -> Nat]
  /\ relay \in [Room -> BOOLEAN]
  /\ told \subseteq Entry /\ answered \subseteq Entry
  /\ owner \subseteq Handler
  /\ strayed \subseteq Room /\ adrift \subseteq Room /\ unmoded \subseteq Room
  /\ forgotten \subseteq Entry
  /\ vacantOpens \subseteq RequestId

(***************************************************************************)
(* The room screen shows the book: a room no transaction of which is still *)
(* on its way to the memory reads the same in stateStore and in the rooms  *)
(* table, status, mode, minutes and last payment, whatever failed and      *)
(* however often the process was restarted, unless handlers of the room    *)
(* crossed or the process started without the database (adrift).  An       *)
(* extension without a stay mode leaves a mode in memory that the book has *)
(* not, and nothing else, until the mode is set again or the process is.   *)
(***************************************************************************)
MemoryIsBook ==
  \A r \in Room \ adrift :
    (\A h \in Handler : ~(pc[h] = "apply" /\ req[h].room = r)) =>
      /\ [rooms[r] EXCEPT !.mode = NoMode] = [db.rooms[r] EXCEPT !.mode = NoMode]
      /\ rooms[r].mode # db.rooms[r].mode => r \in unmoded /\ db.rooms[r].mode = NoMode

(***************************************************************************)
(* GET /api/audit/events shows every booked request once: while no handler *)
(* is between its transaction and appendAudit, the memory's log holds the  *)
(* booked entries without repetition, all of them or AuditCap of them,     *)
(* though entries are appended one by one and are read back after a crash; *)
(* a process that could not read them has those booked since its start.    *)
(***************************************************************************)
AuditLogComplete ==
  (\A h \in Handler : pc[h] \notin {"apply", "log"}) =>
    /\ ToSet(audit) \subseteq Booked \ forgotten
    /\ Cardinality(ToSet(audit)) = Len(audit)
    /\ Len(audit) = Min({Cardinality(Booked \ forgotten), AuditCap})

(***************************************************************************)
(* The relay follows the book: a room has power when the book has it       *)
(* occupied or in cleaning.  Frames are sent before the transaction, so    *)
(* this fails for the rooms whose request failed after its frame, whose    *)
(* frame was lost, or whose handlers overlapped (strayed); the next        *)
(* undisturbed command for such a room puts it right again.                *)
(***************************************************************************)
HardwareFollowsBook ==
  \A r \in Room \ strayed :
    Pending(r) = {} => (relay[r] <=> Powered(db.rooms[r].status))

(***************************************************************************)
(* The detailed server implements the desk: with handlers interleaved,     *)
(* requests failing half-way and the process restarted, a request id is    *)
(* booked once, events are published for what is booked, and "accepted"    *)
(* answers what was published.                                             *)
(***************************************************************************)
TheDesk == INSTANCE Desk WITH booked <- Booked
ImplementsDesk == TheDesk!Spec

(***************************************************************************)
(* The alert OPEN_ROOM_WHILE_VACANT says that the open_room was recorded   *)
(* while the room was vacant (buildAlerts, the Detail of the alert).       *)
(***************************************************************************)
Alerts == {e \in ToSet(audit) : e.action = "open_room" /\ rooms[e.room].status = "vacant"}

AlertsTellTheTruth == \A e \in Alerts : e.id \in vacantOpens
=============================================================================
