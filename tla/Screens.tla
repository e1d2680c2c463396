------------------------------- MODULE Screens ------------------------------
(***************************************************************************)
(* What the screens show.  A handler of the backend, or of the mock server *)
(* the front ends are tried with, changes a room and then tells the        *)
(* subscribers of the event broker; an app loads the rooms once, subscribes*)
(* and from then on believes the events.  Between the change and its event *)
(* other handlers run, channels fill up, streams break and refreshes cross *)
(* events.                                                                 *)
(*                                                                         *)
(* A desk (cashier, handheld) marks a room pending when a command is       *)
(* pressed and waits for a room_update; a dashboard presses nothing, keeps *)
(* the audit list and can be refreshed.  Module Server has the inside of   *)
(* the handlers and the alerts.                                            *)
(***************************************************************************)
EXTENDS Integers, Sequences, FiniteSets, Functions

CONSTANTS
  Screen,      \* the apps
  Room,
  Request,     \* commands, numbered in the order they are sent
  Command,     \* what a command may be
  Scenario,    \* which server may be running
  Kind,        \* what the apps may be
  Capacity     \* events a subscriber's channel holds, 16 in the code

ASSUME ScreensAssumption ==
  /\ Request \subseteq Nat \ {0}
  /\ Command \subseteq {"check_in", "check_out", "start_cleaning", "finish_cleaning", "open_room"}
  /\ Scenario \subseteq {"backend", "normal", "delayed-room-update",
                         "delayed-room-update-recover", "sse-drop-after-full-state"}
  /\ Kind \subseteq {"desk", "dashboard"}
  /\ Capacity \in Nat \ {0}

VARIABLES
  scenario,    \* the server that runs: the backend or a scenario of the mock
  kind,        \* what each app is
  rooms,       \* stateStore.rooms, in the mock server.rooms
  audit,       \* stateStore.audit, newest first
  todo,        \* the steps the handler of each request still has to take
  job,         \* the request of each handler: its room and who sent it
  sent,        \* how many requests were sent
  read,        \* the payload a handler has read for its room_update
  stream,      \* the event stream of each app
  channel,     \* events that were put into the channel and are not handled yet
  greeting,    \* the full_state that is on its way, if any
  asked,       \* which GET of refresh() an app waits for
  got,         \* its answer, if the server has given it
  shown,       \* RoomStore.rooms
  items,       \* RoomStore.auditItems of a dashboard
  pending,     \* _pendingCommands: for which request a room is pending, 0 for none
  delayed,     \* the rooms whose pending command has timed out
  overtaken,   \* history: requests whose payload another handler made an old one
  doubt,       \* history: rooms an app was told an old state of last
  missed,      \* history: requests whose room_update passed their app by
  gap          \* history: audit entries that passed a dashboard by

server  == <<rooms, audit, todo, job, sent, read>>
wire    == <<stream, channel, greeting>>
fetch   == <<asked, got>>
app     == <<shown, items, pending, delayed>>
history == <<overtaken, doubt, missed, gap>>
vars    == <<scenario, kind, server, wire, fetch, app, history>>

Elsewhere == "elsewhere"      \* a client none of the screens is

\* minutes: 1 for any positive number, which the payload then has.
RoomState == [status: {"vacant", "occupied", "cleaning"}, minutes: {0, 1}]
NoPayload == [status |-> "vacant", minutes |-> 0]
NoJob     == [room |-> CHOOSE r \in Room : TRUE, from |-> Elsewhere]
\* A room the app has not heard of.
Unknown == [status |-> "unknown", minutes |-> 0]
-----------------------------------------------------------------------------
\* The handlers of the backend: apply..., appendAudit, publish, answer.
BackendScript == <<"apply", "log", "tell", "read", "publish", "answer">>
\* handleRooms of the mock, by scenario; applyAction has the audit entry.
NormalScript  == <<"apply", "answer", "read", "publish", "tell">>
DelayedScript == <<"apply", "answer", "tell">>
RecoverScript == DelayedScript \o <<"read", "publish">>
DropScript    == <<"apply", "answer">>

Script == CASE scenario = "backend"                     -> BackendScript
            [] scenario = "normal"                      -> NormalScript
            [] scenario = "delayed-room-update"         -> DelayedScript
            [] scenario = "delayed-room-update-recover" -> RecoverScript
            [] scenario = "sse-drop-after-full-state"   -> DropScript

Has(i, step)    == step \in Range(todo[i])
AtStep(i, step) == todo[i] # <<>> /\ Head(todo[i]) = step
\* The handler has changed the room and not told the screens yet.
Owes(i)         == Has(i, "publish") /\ ~Has(i, "apply")

\* The backend's applyCheckIn, applyCheckOut, applyCommand.
Changed(room, command) ==
  CASE command = "check_in"                       -> [status |-> "occupied", minutes |-> 1]
    [] command \in {"check_out", "finish_cleaning"} -> [status |-> "vacant", minutes |-> 0]
    [] command = "start_cleaning"                 -> [room EXCEPT !.status = "cleaning"]
    [] command = "open_room"                      -> room

\* The mock's applyAction: its minutes are always the 120 of newServer.
MockChanged(room, command) == [room EXCEPT !.status = Changed(room, command).status]

FirstState == [status |-> "vacant", minutes |-> IF scenario = "backend" THEN 0 ELSE 1]
-----------------------------------------------------------------------------
Init ==
  /\ scenario \in Scenario
  /\ kind \in [Screen -> Kind]
  /\ rooms = [r \in Room |-> FirstState]
  /\ audit = <<>>
  /\ todo = [i \in Request |-> <<>>]
  /\ job = [i \in Request |-> NoJob]
  /\ sent = 0
  /\ read = [i \in Request |-> NoPayload]
  /\ stream = [s \in Screen |-> "none"]
  /\ channel = [s \in Screen |-> <<>>]
  /\ greeting = [s \in Screen |-> <<>>]
  /\ asked = [s \in Screen |-> "nothing"]
  /\ got = [s \in Screen |-> <<>>]
  /\ shown = [s \in Screen |-> [r \in Room |-> Unknown]]
  /\ items = [s \in Screen |-> {}]
  /\ pending = [s \in Screen |-> [r \in Room |-> 0]]
  /\ delayed = [s \in Screen |-> {}]
  /\ overtaken = {} /\ missed = {}
  /\ doubt = [s \in Screen |-> {}] /\ gap = [s \in Screen |-> {}]
-----------------------------------------------------------------------------
\* Subscribe has put the channel into the broker's map.
Subscribed(s) == stream[s] \in {"subscribed", "live"}
Full(s)       == Len(channel[s]) >= Capacity

\* eventBroker.Publish: who has room gets the event, nobody is waited for.
Publish(event) ==
  channel' = [s \in Screen |-> IF Subscribed(s) /\ ~Full(s)
                                 THEN Append(channel[s], event) ELSE channel[s]]

\* The updates of r an app has still to handle.
Updates(s, r) == {k \in DOMAIN channel[s] : /\ channel[s][k].event = "room_update"
                                            /\ channel[s][k].room = r}

\* _clearPending, and the timer with it.
BugCleared(s, r) == IF r \in delayed[s] THEN pending ELSE [pending EXCEPT ![s][r] = 0]
Cleared(s, r) == [pending EXCEPT ![s][r] = 0]
BugOnTime(s, r) == delayed
OnTime(s, r)    == [delayed EXCEPT ![s] = @ \ {r}]

\* A request comes to the server; its command is looked at in Apply.
Arrive(r, s) ==
  /\ sent + 1 \in Request
  /\ sent' = sent + 1
  /\ job' = [job EXCEPT ![sent'] = [room |-> r, from |-> s]]
  /\ todo' = [todo EXCEPT ![sent'] = Script]

\* _runAction: the buttons of a room are enabled when nothing is pending, and
\* again when it is delayed; a retry is a new request.
Press(s, r) ==
  /\ kind[s] = "desk"
  /\ shown[s][r] # Unknown
  /\ pending[s][r] = 0 \/ r \in delayed[s]
  /\ Arrive(r, s)
  /\ pending' = [pending EXCEPT ![s][r] = sent']
  /\ delayed' = OnTime(s, r)
  /\ UNCHANGED <<scenario, kind, rooms, audit, read, wire, fetch, shown, items, history>>

\* A command of another desk, or of a program.
Foreign(r) ==
  /\ Arrive(r, Elsewhere)
  /\ UNCHANGED <<scenario, kind, rooms, audit, read, wire, fetch, app, history>>

\* The timer of _setPending.
TimeOut(s, r) ==
  /\ pending[s][r] # 0 /\ r \notin delayed[s]
  /\ delayed' = [delayed EXCEPT ![s] = @ \cup {r}]
  /\ UNCHANGED <<scenario, kind, server, wire, fetch, shown, items, pending, history>>

\* What a request was is of no use after its last step.
Forget(i) == job' = [job EXCEPT ![i] = NoJob]

\* The command fails for the app: _runAction clears what is pending by now.
BugClearAfterError(i) == UNCHANGED <<pending, delayed>>
ClearAfterError(i) ==
  LET s == job[i].from IN
  IF s \in Screen
    THEN /\ pending' = Cleared(s, job[i].room)
         /\ delayed' = OnTime(s, job[i].room)
    ELSE UNCHANGED <<pending, delayed>>

\* An error answer: transport, database; in the mock, a room it has not.
Refuse(i) ==
  /\ AtStep(i, "apply")
  /\ todo' = [todo EXCEPT ![i] = <<>>]
  /\ Forget(i)
  /\ ClearAfterError(i)
  /\ UNCHANGED <<scenario, kind, rooms, audit, sent, read, wire, fetch, shown, items, history>>

\* The connection breaks before the answer; the handler goes on.
LoseAnswer(i) ==
  /\ Has(i, "answer") /\ job[i].from # Elsewhere
  /\ job' = [job EXCEPT ![i].from = Elsewhere]
  /\ ClearAfterError(i)
  /\ UNCHANGED <<scenario, kind, rooms, audit, todo, sent, read, wire, fetch, shown, items,
                 history>>
-----------------------------------------------------------------------------
Advance(i) == /\ todo' = [todo EXCEPT ![i] = Tail(@)]
              /\ IF Len(todo[i]) = 1 THEN Forget(i) ELSE UNCHANGED job

Apply(i) ==
  /\ AtStep(i, "apply")
  /\ Advance(i)
  /\ \E c \in Command :
       rooms' = [rooms EXCEPT ![job[i].room] =
                   IF scenario = "backend" THEN Changed(@, c) ELSE MockChanged(@, c)]
  /\ audit' = IF scenario = "backend" THEN audit ELSE <<i>> \o audit
  /\ overtaken' = overtaken \cup {k \in Request \ {i} : /\ Has(k, "publish") /\ ~Has(k, "read")
                                                       /\ job[k].room = job[i].room}
  /\ UNCHANGED <<scenario, kind, sent, read, wire, fetch, app, doubt, missed, gap>>

\* appendAudit
Log(i) ==
  /\ AtStep(i, "log")
  /\ Advance(i)
  /\ audit' = <<i>> \o audit
  /\ UNCHANGED <<scenario, kind, rooms, sent, read, wire, fetch, app, history>>

\* publishAuditEvent has the handler's own entry, latestAudit the newest one.
BugAnnounced(i) == Head(audit)
Announced(i) == IF scenario = "backend" THEN i ELSE Head(audit)

Tell(i) ==
  LET entry == Announced(i)
      passedOver == IF scenario = "backend" THEN {} ELSE {i} \ {entry} IN
  /\ AtStep(i, "tell")
  /\ Advance(i)
  /\ Publish([event |-> "audit_event", item |-> entry])
  /\ gap' = [s \in Screen |->
               IF kind[s] = "desk" \/ stream[s] = "ended" THEN {}
               ELSE gap[s] \cup (IF Subscribed(s) /\ ~Full(s) THEN passedOver ELSE {i})]
  /\ UNCHANGED <<scenario, kind, rooms, audit, sent, read, stream, greeting, fetch, app,
                 overtaken, doubt, missed>>

\* roomUpdatePayload, roomPayload: the room as it is now.
Read(i) ==
  /\ AtStep(i, "read")
  /\ Advance(i)
  /\ read' = [read EXCEPT ![i] = rooms[job[i].room]]
  /\ UNCHANGED <<scenario, kind, rooms, audit, sent, wire, fetch, app, history>>

(***************************************************************************)
(* publishRoomUpdate.  An app that does not get it, or gets a payload that *)
(* was overtaken, is in doubt about the room until it gets another one.    *)
(***************************************************************************)
PublishRoom(i) ==
  LET r == job[i].room
      fresh == i \in overtaken => read[i] = rooms[r]
  IN  /\ AtStep(i, "publish")
      /\ Advance(i)
      /\ Publish([event |-> "room_update", room |-> r, state |-> read[i]])
      /\ read' = [read EXCEPT ![i] = NoPayload]
      /\ overtaken' = overtaken \ {i}
      /\ doubt' = [s \in Screen |-> IF ~Subscribed(s)        THEN doubt[s]
                                    ELSE IF fresh /\ ~Full(s) THEN doubt[s] \ {r}
                                    ELSE doubt[s] \cup {r}]
      /\ missed' = IF job[i].from \in Screen /\ (~Subscribed(job[i].from) \/ Full(job[i].from))
                     THEN missed \cup {i} ELSE missed
      /\ UNCHANGED <<scenario, kind, rooms, audit, sent, stream, greeting, fetch, app, gap>>

\* "accepted": the apps wait for nothing but an error.
Answer(i) ==
  /\ AtStep(i, "answer")
  /\ Advance(i)
  /\ UNCHANGED <<scenario, kind, rooms, audit, sent, read, wire, fetch, app, history>>
-----------------------------------------------------------------------------
\* initialize() begins with refresh().
Open(s) ==
  /\ stream[s] = "none" /\ asked[s] = "nothing"
  /\ asked' = [asked EXCEPT ![s] = "rooms"]
  /\ UNCHANGED <<scenario, kind, server, wire, got, app, history>>

\* The refresh buttons of the dashboard.
Refresh(s) ==
  /\ kind[s] = "dashboard" /\ stream[s] # "none" /\ asked[s] = "nothing"
  /\ asked' = [asked EXCEPT ![s] = "rooms"]
  /\ UNCHANGED <<scenario, kind, server, wire, got, app, history>>

\* handleState, handleAudit: the answer to the GET, not at the app yet.
Serve(s) ==
  /\ asked[s] # "nothing" /\ got[s] = <<>>
  /\ got' = [got EXCEPT ![s] = IF asked[s] = "rooms" THEN <<rooms>> ELSE <<Range(audit)>>]
  /\ UNCHANGED <<scenario, kind, server, wire, asked, app, history>>

\* refresh() is over; in initialize() connect() follows.
EndRefresh(s) ==
  /\ asked' = [asked EXCEPT ![s] = "nothing"]
  /\ stream' = [stream EXCEPT ![s] = IF @ = "none" THEN "connecting" ELSE @]

(***************************************************************************)
(* rooms = await fetchRooms().  The app is in doubt about a room when the  *)
(* answer is old and neither a full_state nor an update comes after it.    *)
(***************************************************************************)
LoadRooms(s) ==
  LET states == Head(got[s])
      last(r) == greeting[s] = <<>> /\ Updates(s, r) = {}
  IN  /\ asked[s] = "rooms" /\ got[s] # <<>>
      /\ got' = [got EXCEPT ![s] = <<>>]
      /\ shown' = [shown EXCEPT ![s] = states]
      /\ IF kind[s] = "dashboard"
           THEN asked' = [asked EXCEPT ![s] = "audit"] /\ UNCHANGED stream
           ELSE EndRefresh(s)
      /\ doubt' = [doubt EXCEPT ![s] =
                     {r \in Room : IF last(r) THEN Subscribed(s) /\ states[r] # rooms[r]
                                          ELSE r \in doubt[s]}]
      /\ UNCHANGED <<scenario, kind, server, channel, greeting, items, pending, delayed, overtaken,
                     missed, gap>>

\* auditItems = await fetchAuditEvents(): an entry an event brought since goes.
LoadAudit(s) ==
  /\ asked[s] = "audit" /\ got[s] # <<>>
  /\ got' = [got EXCEPT ![s] = <<>>]
  /\ items' = [items EXCEPT ![s] = Head(got[s])]
  /\ EndRefresh(s)
  /\ gap' = [gap EXCEPT ![s] = IF stream[s] = "ended" THEN {}
                               ELSE (@ \cup items[s]) \ Head(got[s])]
  /\ UNCHANGED <<scenario, kind, server, channel, greeting, shown, pending, delayed,
                 overtaken, doubt, missed>>

FetchFails(s) ==
  /\ asked[s] # "nothing"
  /\ got' = [got EXCEPT ![s] = <<>>]
  /\ EndRefresh(s)
  /\ UNCHANGED <<scenario, kind, server, channel, greeting, app, history>>
-----------------------------------------------------------------------------
\* The snapshot taken before the channel is in the map.
BugSubscribe(s) ==
  /\ stream[s] = "connecting"
  /\ IF greeting[s] = <<>>
       THEN greeting' = [greeting EXCEPT ![s] = <<rooms>>] /\ UNCHANGED stream
       ELSE stream' = [stream EXCEPT ![s] = "live"] /\ UNCHANGED greeting
  /\ doubt' = [doubt EXCEPT ![s] = {}]
  /\ UNCHANGED <<scenario, kind, server, channel, fetch, app, overtaken, missed, gap>>
\* eventBroker.Subscribe; what the app was told before, full_state replaces.
Subscribe(s) ==
  /\ stream[s] = "connecting"
  /\ stream' = [stream EXCEPT ![s] = "subscribed"]
  /\ doubt' = [doubt EXCEPT ![s] = {}]
  /\ UNCHANGED <<scenario, kind, server, channel, greeting, fetch, app, overtaken, missed,
                 gap>>

\* fullStatePayload, written before anything in the channel; in one scenario
\* the mock's handler ends here.
Greet(s) ==
  /\ stream[s] = "subscribed"
  /\ greeting' = [greeting EXCEPT ![s] = <<rooms>>]
  /\ IF scenario = "sse-drop-after-full-state"
       THEN /\ stream' = [stream EXCEPT ![s] = "ended"]
            /\ channel' = [channel EXCEPT ![s] = <<>>]
       ELSE /\ stream' = [stream EXCEPT ![s] = "live"]
            /\ UNCHANGED channel
  /\ UNCHANGED <<scenario, kind, server, fetch, app, history>>

\* _handleEvent of full_state: nothing pending is cleared.
TakeGreeting(s) ==
  /\ greeting[s] # <<>>
  /\ shown' = [shown EXCEPT ![s] = Head(greeting[s])]
  /\ greeting' = [greeting EXCEPT ![s] = <<>>]
  /\ UNCHANGED <<scenario, kind, server, stream, channel, fetch, items, pending, delayed, history>>

\* copyWith: a payload without minutes leaves those of the screen.
Patched(old, new) ==
  IF old # Unknown /\ new.minutes = 0 THEN [new EXCEPT !.minutes = old.minutes] ELSE new

\* _handleEvent of the other events.
TakeEvent(s) ==
  LET e == Head(channel[s]) IN
  /\ greeting[s] = <<>> /\ channel[s] # <<>> /\ stream[s] = "live"
  /\ channel' = [channel EXCEPT ![s] = Tail(@)]
  /\ IF e.event = "room_update"
       THEN /\ shown' = [shown EXCEPT ![s][e.room] = Patched(@, e.state)]
            /\ pending' = Cleared(s, e.room)
            /\ delayed' = OnTime(s, e.room)
            /\ UNCHANGED items
       ELSE /\ items' = IF kind[s] = "dashboard"
                          THEN [items EXCEPT ![s] = @ \cup {e.item}] ELSE items
            /\ UNCHANGED <<shown, pending, delayed>>
  /\ UNCHANGED <<scenario, kind, server, stream, greeting, fetch, history>>

\* The stream breaks, or could not be opened; nobody opens it again.
Disconnect(s) ==
  /\ stream[s] \in {"connecting", "subscribed", "live"}
  /\ stream' = [stream EXCEPT ![s] = "ended"]
  /\ channel' = [channel EXCEPT ![s] = <<>>]
  /\ greeting' = [greeting EXCEPT ![s] = <<>>]
  /\ doubt' = [doubt EXCEPT ![s] = {}]
  /\ gap' = [gap EXCEPT ![s] = {}]
  /\ UNCHANGED <<scenario, kind, server, fetch, app, overtaken, missed>>
-----------------------------------------------------------------------------
Handle(i) == Apply(i) \/ Log(i) \/ Tell(i) \/ Read(i) \/ PublishRoom(i) \/ Answer(i)
Stream(s) == Greet(s) \/ TakeGreeting(s) \/ TakeEvent(s)

Next ==
  \/ \E i \in Request : Refuse(i) \/ LoseAnswer(i) \/ Handle(i)
  \/ \E r \in Room : Foreign(r)
  \/ \E s \in Screen :
       \/ \E r \in Room : Press(s, r) \/ TimeOut(s, r)
       \/ Open(s) \/ Refresh(s) \/ Serve(s) \/ LoadRooms(s) \/ LoadAudit(s) \/ FetchFails(s)
       \/ Subscribe(s) \/ Stream(s) \/ Disconnect(s)

Spec == Init /\ [][Next]_vars

(***************************************************************************)
(* While a handler is not done or an open stream has something to deliver, *)
(* something of it happens.  Both come to an end, so this is enough for    *)
(* each; nothing is promised of people, GETs, new streams or errors.       *)
(***************************************************************************)
Work == (\E i \in Request : Handle(i)) \/ (\E s \in Screen : Stream(s))

FairSpec == Spec /\ WF_vars(Work)
-----------------------------------------------------------------------------
Event == [event: {"room_update"}, room: Room, state: RoomState]
           \cup [event: {"audit_event"}, item: Request]

TypeOK ==
  /\ rooms \in [Room -> RoomState]
  /\ audit \in Seq(Request)
  /\ read \in [Request -> RoomState]
  /\ \A s \in Screen :
       /\ stream[s] \in {"none", "connecting", "subscribed", "live", "ended"}
       /\ channel[s] \in Seq(Event) /\ Len(channel[s]) <= Capacity
       /\ (greeting[s] # <<>>) => greeting[s][1] \in [Room -> RoomState]
       /\ asked[s] \in {"nothing", "rooms", "audit"}
       /\ \A r \in Room : shown[s][r] \in RoomState \cup {Unknown}
       /\ items[s] \subseteq Request /\ gap[s] \subseteq Request
       /\ pending[s] \in [Room -> Request \cup {0}]
       /\ \A r \in delayed[s] : pending[s][r] # 0
       /\ doubt[s] \subseteq Room
  /\ missed \subseteq Request /\ overtaken \subseteq Request

\* Scenarios in which a room_update is promised.
Updating == "publish" \in Range(Script)

\* What the app will show of r when it has handled all that is on its way.
Coming(s, r) ==
  IF Updates(s, r) # {}
    THEN channel[s][CHOOSE k \in Updates(s, r) : \A j \in Updates(s, r) : j <= k].state
    ELSE IF greeting[s] # <<>> THEN greeting[s][1][r] ELSE shown[s][r]

\* Minutes that ran out are not sent, and a screen keeps those it has.
Agree(state, room) == /\ state.status = room.status
                      /\ room.minutes # 0 => state.minutes = room.minutes

(***************************************************************************)
(* A screen with an open stream comes to show the room as the server has   *)
(* it: from the full_state on, what is on its way to the app ends with the *)
(* present state of the room, unless a handler has yet to publish it, or   *)
(* the last word the app got was dropped, overtaken by another handler's   *)
(* change, or the answer of an old GET (doubt).  No change is lost between *)
(* subscription and full_state, whatever crosses them.                     *)
(***************************************************************************)
LiveScreenAgrees ==
  \A s \in Screen, r \in Room :
    (stream[s] = "live" /\ Updating /\ r \notin doubt[s]
      /\ (\A i \in Request : Owes(i) => job[i].room # r))
    => Agree(Coming(s, r), rooms[r])

(***************************************************************************)
(* A room marked "Sending..." or "Delayed" is so for a reason: its command *)
(* has yet to fail or to be published, or an update of the room is on its  *)
(* way; otherwise the update passed the app by, and then only a retry      *)
(* helps (frontend_conventions.md, section 4).                             *)
(***************************************************************************)
PendingIsOwed ==
  \A s \in Screen, r \in Room :
    (pending[s][r] # 0 /\ Updating /\ stream[s] # "ended" /\ pending[s][r] \notin missed)
    => Has(pending[s][r], "publish") \/ Updates(s, r) # {}

(***************************************************************************)
(* The audit list of a dashboard with an open stream has every entry that  *)
(* was announced, or has it coming, unless the entry was announced while   *)
(* the app was not subscribed or its channel was full, was announced under *)
(* another one's name in the mock, or went with the answer of an older GET *)
(* (gap).                                                                  *)
(***************************************************************************)
AuditListFollows ==
  \A s \in Screen :
    (kind[s] = "dashboard" /\ Subscribed(s) /\ "tell" \in Range(Script)) =>
      \A i \in Range(audit) \ gap[s] :
        \/ Has(i, "tell") \/ i \in items[s]
        \/ \E k \in DOMAIN channel[s] : /\ channel[s][k].event = "audit_event"
                                        /\ channel[s][k].item = i

(***************************************************************************)
(* A pending command does not stay pending: the app hears of it, or the    *)
(* stream has ended, or its update passed the app by.                      *)
(***************************************************************************)
PendingSettles ==
  \A s \in Screen, r \in Room :
    (pending[s][r] # 0 /\ Updating)
      ~> (pending[s][r] \in missed \cup {0} \/ stream[s] = "ended")
=============================================================================
