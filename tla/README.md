# CCS2 Plus: a verification of the room control backend

CCS2 Plus switches the power of hotel rooms. A cashier, a handheld and a dashboard (Flutter)
talk HTTP to a Go backend; the backend drives relays on RS-485 slave cards, keeps the books in
SQLite, keeps the rooms in memory for the screens, and streams changes to them. The backend
replaces a C program on a master board, `AMP_V2D.C`, whose frames it has to speak.

The modules here are read from the source of the backend, and the line each definition stands
for is in `PROJECT.json` under `map`.

## Inventory

| Component | State | Operations | Meets |
| --- | --- | --- | --- |
| legacy frames (`internal/legacy`) | none | status mapping, payload patch, slave and display frame, checksum | called by the transport |
| transport (`internal/transport/service.go`) | `cache`: a payload per card, no lock | `ApplyIntent` | all handlers, each on its goroutine; the serial writer |
| serial writer (`serial_writer_linux.go`) | a mutex, the device | `WriteFrame`: lock, write, quiet gap | transport |
| store (`internal/store`) | SQLite: rooms, stays, payments, audit, export and report runs, settings | five `Record` transactions, bootstrap, report queries | handlers, exporter |
| HTTP server (`internal/httpapi/server.go`) | rooms and the last 200 audit entries in memory, under a lock | check-in, check-out, extension, payment, room commands, reads, alerts | transport, then store, then memory, then broker, then the answer |
| event broker (`internal/httpapi/events.go`) | one channel of 16 events per subscriber | subscribe, publish, stream | handlers publish; screens subscribe |
| exporter (`internal/reporting`) | none besides the run tables | daily and monthly workbook, upload, marking | store, Google Drive |
| room map, configuration, main | constant after the start | load, start | all |
| mock server (`cmd/mock-scenario`) | rooms, audit list, the same broker | commands in scenarios of order and loss | the apps, when they are tried without a backend |
| screens (`flutter-cashier`, `flutter-handheld`, `flutter-dashboard`) | rooms, pending and delayed commands, audit list | commands, refresh, event stream | HTTP server |
| legacy master (`AMP_V2D.C`) | relay images, room states | a polling loop with interrupts | the same cards, before the backend replaced it |

The behaviours that are hard, and what being right means there:

* **Transport.** Two handlers of one card interleave around an unlocked map; the payload is
  stored before it is written; either frame may fail, be lost or be cancelled half-way; a
  restart forgets every payload. Right means: no frame switches a room nobody asked for, the
  cache is what the card shows, LED and relay agree, the quiet gap is respected, every call
  ends.
* **Store.** Transactions come in any order, with request ids used again and clocks that are
  not monotonic. Right means: all or nothing, one request one effect, money booked under the
  right stay, ended stays are history.
* **Server.** A handler is five writes to four places with no lock over them, and a crash
  between any two. Right means: the relay follows the book, memory is the book, the audit log
  has everything that was booked once, nobody is told or answered what is not in the book.
* **Broker and screens.** Events are dropped when a channel is full, snapshots are read at one
  time and published at another, a refresh may cross an event, a stream that broke is not opened
  again. Right means: what a screen shows catches up with the server, a pending command is so for
  a reason and settles, no announced entry is missing from the list.
* **Exporter.** Upload and mark are two steps; the next run decides from the marks. Right
  means: every closed period is uploaded in the end.
* **Reports.** Candidates, daily and monthly workbooks are different queries on the same rows,
  and a stay is placed by a time that moves. Right means: what was booked is reported, a month is
  its days, sheets that count the same money agree.

`PROJECT.json` lists every such place with its line under `hazards`.

## Modules

```
LegacyFrames   image of a card as a set of ports      PayloadWord    the uint16 and the frame bytes
   |      \                                              (MCPayloadWord, PayloadWordProofs)
   |       Transport        ApplyIntent, WriteFrame      (MCTransport, TransportProofs)
   |
Ledger         the transactions as functions of the database
   |      \
   |       Store            any transactions in any order
   |         \
   |          Reports       what the workbooks make of it (MCStore)
   |
Server  (Ledger + LegacyFrames)   the handlers           (MCServer)
   :
Desk           what the backend promises; Server implements it

Screens        broker, event streams and the apps        (MCScreens)

Exporter       the reporting goroutine and its run tables (MCExporter)
```

**LegacyFrames** has the pure functions of `internal/legacy` on the level the other modules
need: a card's image is the set of its energised ports.

**PayloadWord** is the same on the level of bits and bytes: the payload as a 16-bit word, the
slave frame and the display frame as bytes, the checksum. `Patch` is an accepted
`SetPortStatus` with the two frames built from it, `Refuse` a rejected one. Port numbers go
from -1 to 16 and card numbers to 16, because nothing validates the room map. The receivers
(`Accepted`, `ReadImage`, `ReadPlace`) are outside the repository and marked external.

**Transport** follows one `ApplyIntent` through `Begin` (look-up, copy, patch), `Store` (cache),
`PutSlaveFrame`, `GapEnds`, `PutDisplayFrame`, `GapEnds`, `Collect`. Between any two of them
other callers run: that is exactly what Go allows, since only `WriteFrame` locks. `Faults`
switches on what the environment does: cancelled contexts (`WriteFails`, `GapCancelled`),
device errors, frames lost on the bus, the collision of two map writes, and restarts. An
unsynchronised map write is undefined in Go: the runtime may abort (`Restart`) or an entry may
be lost. History variables record when a card's image (`upset`) or a room's two frames
(`mixed`) became doubtful, so that the properties can say precisely how far the code is right.

**Ledger** has each `Record...` of the store as a function from database to database, with its
keys, its rollback and the rows every statement writes. **Store** runs them in any order with
any parameters: SQLite has one connection (`SetMaxOpenConns(1)`), so transactions do not
interleave, but the time of a transaction is taken before it queues. Case codes go with the
stay mode and payment references with the amount, so neither is a column of the model. A request
for a room nothing knows gets as far as the store with open_room and service only (`Service`).

**Reports** adds to Store what the exporter reads: `CandidateDays` (one query per table and
column), `StaysOn`, `PaymentsOn`, `AuditOn` for a day, `StaysIn`, `PaymentsIn`, `AuditIn` for a
month, and the sheets that add up: `Summary`, `ByMethod`, `ByMode`, `ByRoom`, `DailySummary`. They
are functions of one database state, so the module has no actions of its own; its properties are
checked in every state the transactions of Store reach. The code picks stays by comparing
instants with the ends of the month and everything else by comparing formatted dates; the model
keeps the two ways apart, with days of `DayLength` seconds and months of `MonthDays` days.

**Server** composes the handlers with Ledger and LegacyFrames. A handler is
`Receive -> Drive -> Stamp -> Book -> Apply -> Log -> Tell -> Answer`, in the order of the
statements in `handleCheckIn`, `handleCheckOut`, `handleRoomCommand`, `handleExtend` and
`handlePayment`; `Restart` is the end of the process at any point and `newStateStoreFromStore`.
A start may also fail to read the database (`BootstrapFails`): `NewServerWithStore` ignores that
and serves vacant rooms and an empty audit log over a database that knows better. `adrift`,
`unmoded` and `forgotten` record what the memory then cannot know.
`ApplyIntent` is one step here: its inside and the card's other rooms are Transport's subject.
**Desk** is the abstract specification: entries are booked, then told, then answered.

**Screens** starts where a handler has changed the memory. `Script` is the order in which the
handlers of the backend, or of the mock in each of its scenarios, log, tell, read the
room for the `room_update`, publish it and answer; other handlers come between any two steps.
`Publish` puts an event into each subscriber's channel or drops it when the channel is full;
`Subscribe`, `Greet` and `TakeGreeting` are `handleEvents`, with the channel made before the rooms
are read for the `full_state`; `Disconnect` ends a stream, which no app opens again. An app opens
with a refresh, its GETs are answered (`Serve`) and used (`LoadRooms`, `LoadAudit`) at different
times; a desk presses commands (`Press`), which time out to "Delayed" and fail or lose their
answer; a dashboard can be refreshed at any time. `doubt`, `missed`, `overtaken` and `gap` record
which of the known weaknesses struck, so that the properties say how far the design carries.

**Exporter** follows the reporting goroutine through `runPending`: `Wake` takes the days,
`Load` writes a workbook and reads the settings, `Upload` puts it on the Drive, `MarkReport`
and `MarkExport` are the two statements of `MarkExportRun` (a month has the first alone),
`LookForMonths` and `Sleep` go on. `Business` of the day and `NextDay` happen in between, and
`Faults` has what may fail: the disk, the uploader, the answer of an upload, a statement, the
settings, the process. A workbook is the number of its rows: which rows is Reports' subject.
Business is booked on the day its time says: no transaction waits from midnight to ten past it.

## Runs

| Run | What it asks | Bounds |
| --- | --- | --- |
| `payload_word` | the word and the bytes carry the image the calls asked for; a damaged frame is rejected; the display byte names the room where it can | cards 3 and 19; ports 0, 1, 7, 8, 15 and the invalid -1, 16; any order of calls |
| `transport` | types, exclusive gap, image, card, LED, neighbours on a card that is not upset | 2 callers, 2 rooms of one card and one with an invalid port, all faults |
| `transport_fair` | every call ends | 3 callers, cancellation at each point |
| `transport_race` | expected violation: overlapping calls of one card undo each other | 2 callers, no faults |
| `store` | business rows are audited and booked once, payments name their room's stay, stay amounts, ended stays; nothing goes unreported, a month is its days, the summaries tally, the money sheets reconcile, what a workbook written again later may lack | 2 rooms, 4 requests with ids used in any order and again, the last second of a month and the first of the next, one amount |
| `store_double_checkin` | expected violation: two stays of a room in use | 1 room |
| `server` | memory, audit log, hardware against the book; Desk is implemented | 2 handlers, 1 room, 2 ids, all faults, an audit log of 1 |
| `server_commands` | the same for cleaning and open_room between check-ins and extensions with and without a stay mode, and for starts without the database | 1 handler, 3 ids, one second, free stays, an audit log of 2, crashes and failing bootstraps |
| `server_alerts` | expected violation: an alert about a room that was not vacant | 1 handler |
| `screens` | an open screen comes to show the server's rooms, pending commands are owed and settle, the audit list follows | 1 app of either kind and commands from elsewhere, the backend and 4 mock scenarios, 2 requests, check-in and check-out, a channel of 2 |
| `exporter` | uploaded periods are complete, on the Drive once, marked in order, and every day gets there | 2 days of one month and the time after it, 2 rows a day, all faults |
| `exporter_monthly` | expected violation: months are not uploaded though nothing fails | the same, no faults |

Why the bounds are enough. Two callers are what a race on the cache needs, and a third adds
only waiting, which `transport_fair` has. Two rooms on a card are a target and a neighbour.
Ports at both ends of both bytes are where the shifts can go wrong. Four requests give the store
a stay that is extended, ended and cleaned, or one that is cleaned twice, or two stays that cross
in one room, and each id may come again at each point; two seconds on both sides of midnight at
the end of a month put any of that into one report or the other, in either order. start_cleaning
and free stays, which `server_commands` has, are left to it: in Store they touch the room's row
only, or leave out the payment.
Two handlers of one room meet in every pair of places; an audit log of 1 or 2 entries is full
at once, as the 200 of the code are after a day. `server_commands` has `VIEW Untold`, which
leaves out what was told, answered and opened while vacant: no guard, no other variable and no
property of that run reads them. Two commands on one app are one that waits and one that
overtakes it; a channel of 2, which here counts what the app has not handled yet, is full when
both have published. Two days of a month are one that may fail
and one that may not; a second row is the business that goes on after a workbook was loaded.

A violation run is a disagreement of the code with a document or with a text of its own; the
line is quoted in `PROJECT.json` under `findings`.

### Fairness

`transport_fair`: a goroutine that can run does run and the write delay is finite
(weak fairness of `Store`, `GapEnds`, `Collect`). `sync.Mutex` hands the lock to a waiter that
starved for a millisecond, so a waiter that finds it free again and again gets it (strong
fairness of the two `Put` actions). Nothing is assumed of clients, of errors, or of
cancellation.

`exporter` and `exporter_monthly`: days pass and the goroutine's own steps happen (weak
fairness). Faults may strike as often as they like but not every attempt for ever, or no day
could be uploaded: hence strong fairness of `Wake`, of `Load` with usable settings, of `Upload`
and of the mark of an upload. Business, changes of the settings and crashes are not promised.

`screens`: a handler that has begun goes on, and an open stream delivers (weak fairness of
`Work`, the steps of handlers and streams together, since each of them comes to an end). People,
GETs, new streams and errors are promised nothing, which is why `PendingSettles` has the ended
stream as an outcome: the apps do not open it again.

### Mutants

A definition `Bug...` above another one is that definition with a plausible mistake in it: a
dropped guard, a missing lock, a wrong boundary. No specification uses them. Each property of
a passing run has one in `PROJECT.json`, with which TLC finds the property violated.

## Proofs

Eight modules hold proofs. Each theorem is for every value of the constants that satisfies the
named assumption of its module; what is assumed beyond that is said here.

```
LedgerProofs --- StoreProofs (Store and Reports)      SumProofs: sums over finite sets
      \                                                (StoreProofs, ExporterProofs)
       ServerProofs     ExporterProofs  TransportProofs  PayloadWordProofs  ScreensProofs
```

**PayloadWordProofs**, for every address, every set of rooms and every sequence of calls, on
all 16 ports: `TypeCorrect`, `ImageRead`, `NoDamage`, `RoomNamed` from `WordInv`. The checked
property says what a card makes of the last frame, and nothing of the word the next one is built
from; `WordInv` adds that the word is the sum of the masks of exactly the image's ports. Setting
a bit that is 0 adds its mask to one byte and leaves the other (`ByteAdds`, `BitAdds`), and a bit
read from the word or from its byte is the one put there (`ByteReads`, `WordReads`). `NoDamage`
is that of two different bytes at most one makes the sum zero (`OneResidue`).

**TransportProofs**, for every set of callers, rooms, cards and faults and every room map
in which no two rooms share an address and a port (`PlacesDistinct`).

* `TypeCorrect`, `LineExclusive`: inductive as they stand, the second with the first.
* `ImageCorrect`, `OrdersFollowed`, `NeighboursUntouched`: from `CardInv`. "The cache is what
  the card shows while no copy is outstanding" is not inductive, for nothing says what the
  outstanding copy is. `CardInv` adds it: on a card that is not upset at most one call has a
  copy; before `Store` the copy is the card's image patched for that call, after it the cache
  is too; and the card shows exactly the rooms last ordered on. The neighbours' theorem then
  reads the slave frame's step: what is put on the card differs from what it shows in the
  caller's own port only.
* `LedCorrect`: from `LedInv`, which says for a room that is not mixed where between its two
  frames the one call for it is, and what LED and relay show there.

**LedgerProofs** is about the functions of Ledger alone, so that Store and Server share it. Every
`Record...` that commits is a `Booking`: one new audit entry with the request's id, stays that
`Follow` the old ones, at most one new stay and one new payment, both with that id. A `Booking`
keeps the tables `Sound`, and this is the inductive invariant. Beyond the keys it says
what the checked properties leave open: every time in a stay's row is that of an audit entry
of its room and of the right action (`StayHistory`). Without it nothing excludes a stay whose
last update no request made, and no report could be shown to hold it.

**StoreProofs**: `TypeCorrect`, `RowsHaveAudit`, `OneEffect`, `OwnStay` follow from `StoreInv`
(`Sound`, finite, times that requests had) and `HistoryStands` from the step.
`AmountsAreBooked` needs `AmountsBooked`, that amounts agree with sums of fees, which a step keeps because
a new payment is one more summand of one stay. It has the hypothesis `Amount \subseteq Nat`.
Without it the theorem is false: a check-in with a negative amount puts it on the stay and books no
payment, and only the cashier app does not send one.

**SumProofs** has what a sum over a finite set is, from the definition of the library's folds: it
does not depend on the order of picking, grows by one summand, splits, and can be grouped by a
key. An induction over sets needs an operator as parameter, which the provers here cannot
instantiate; the module picks a minimal counterexample out of the subsets instead.

Its second part is about Reports: `EverythingReported`, `MonthsAreDays` and `WorkbooksKeep` are consequences of
`StoreInv` (the audit entry behind each time is what makes a day a candidate); that a stay
picked by instants is one picked by days is arithmetic of `\div`, for any length of days and
months. `SummariesTally` and `SheetsFit` group rows by day, mode, room and method, once as
sheets and once as sets. `SheetsFit` has the hypothesis of `AmountsAreBooked`.

**ServerProofs**, for any handlers, rooms, requests, faults and size of the log:

* `ServerIsDesk`: each action is a step of Desk or a stutter. `Book` is Desk's `Book` because
  `Sound` has the ids of audit entries distinct; `Tell` and `Answer` need `Progress`, that a
  handler past its transaction has its entry booked, and past the publishing has it told.
* `RelayFollows`: from `RelayInv`, which adds for a handler between its frame and its transaction
  (`owner`) that the relay shows its frame.
* `MemoryShowsBook`: from `MemoryInv`. While a handler is between `Book` and `Apply` memory and
  book differ, so the invariant says what its `Apply` will make of the row, and before `Book`
  that the minutes it stamped are those the memory will come to.
* `TypeCorrect`, `LogShowsBook`: from `LogInv`. The log lists, without repetition, the entries
  that are `Shown`: booked, and not still with a handler before `Log`. Its length is the smaller one of
  their number and `AuditCap`, also after a restart read it from the table.

**ExporterProofs**, for any calendar of days and months that grow with them, any faults and number
of rows: `TypeCorrect`, `UploadsComplete`, `OneUpload`, `RunTablesAgree` with the
invariant `IInv`. "What is marked is complete" is not inductive. A mark may only follow an upload
of the same workbook (`JobInv`), the rows may not grow in between, for the period is over
(`TodoInv`, `MarkedArePast`), and files are of marked periods, of the one about to be marked, or
doubted (`FilesKnown`).

**ScreensProofs**, for any number of apps, rooms, requests and events a channel holds, for the
backend and every scenario of the mock, without a further hypothesis:

* `TypeCorrect`: from `TypeInv`, which adds to the types that what is left of a handler's script
  is `Tidy`: each step is left once and in the order of the code. So a handler that has the change
  before it has everything before it, and one that is to read is also to publish.
* `PendingOwed`: from `OwedInv`. That a mark is owed is lost at any step that ends the owing, unless
  a mark is known to be of a request that this app sent for this room.
* `AuditListed`: from `ListInv`. An entry is on the list, or coming, or in `gap`, and this must hold
  before the app subscribes, when only `gap` can have it. `EntriesKnown` adds that entries are
  those of handlers that have changed their room: a handler that is to change one, with its
  announcement before it, has no entry yet.
* `ScreensAgree`: from `ReadInv` and `ShowInv`. A payload a handler has read is the room as it is,
  or the handler is overtaken. The last word on its way to an app is then the room as it is;
  this must hold from `Subscribe` on, before there is a `full_state` to end with, which is what
  the order of `Subscribe` and `Greet` is for.

Each inductive invariant was model-checked on the constants of its run, `IInv` also
on a longer calendar. Work on the proofs changed the modules in a few places: a `CASE` in `CountedUnder`
had overlapping arms and is an `IF` now, as the `if` chain of the code is; `LaterWorkbooksKeep` took
the time NULL for a day; `Recent` is the entries in their order, not the result of a sort;
the payload's masks and sums are recursive functions;
`ServerAssumption` and `ExporterAssumption` say that there is a room, a request and a day, and
`StoreAssumption` no longer says that minutes and amounts are natural numbers.

Only model-checked: `EveryCallEnds`, `DaysUploaded`, `PendingSettles`. Liveness under fairness is
out of the prover's reach. Every invariant and every other action property the passing runs check
is a theorem.

## What is abstracted, and what is not modelled

* Money is an integer, where the code adds float64. The code accepts a negative amount and books no
  payment for it; Store has it, the runs and the two theorems about amounts do not.
* A client that gives no request id gets one from the clock in nanoseconds, a fresh id in the
  model. Ids are numbers because SQLite orders the texts where times are equal.
* Requests for rooms that are not in the map fail before they change anything in Server; Store
  has those that get to a transaction.
* An extension without a stay mode clears the mode in the database and leaves it in memory; the
  room is then `unmoded` and `MemoryIsBook` compares everything but its mode. The Store runs have
  the empty mode only.
* After a restart the payload cache is empty and the first frame for a card switches its other
  rooms off, against `docs/rs485_transport_spec.md:211` (a frame must not be built without the
  old values of the card). `Restart` of Transport does this, and the properties there except the
  card as `upset`; it is the behaviour of `NewService` and no run of its own shows it.
* Reports: a stay's `guest_in_at` is never NULL, since only a check-in inserts one; the used
  minutes, the sheet of the rooms and the order, titles and formats of the cells are left out.
  The payment's kind stands for its method.
* Screens: minutes are 0 or some; the rooms of a screen have no other fields, since pending
  and minutes are what the room stores treat specially. `publishFullState` is never called. The
  commands in the dashboard's client are not used by its widgets. The mock's alert list, whose
  newest entry goes out after each request, is left out, and so are heartbeats.
* No acknowledgement of a slave card is read: `docs/state_machine.md:121-128` wants the room
  state committed after one, the code commits when the bytes are written. `HardwareFollowsBook`
  therefore excepts rooms with a lost frame.
* Not modelled: CORS, the static dashboard, serial port settings (`termios`), reading flags and
  the room map, the memory writer, scripts and the widgets of the apps: they keep no state that
  another part reads, or only at the start. Environment credentials overwrite saved Drive
  settings when main starts; `Restart` of Exporter has that.
* Not modelled: `AMP_V2D.C`. It is the program of the board the backend replaces, kept in the
  repository as the source of the frame format, and no part of the running system talks to it.

Seen while modelling, and covered by exceptions of the properties rather than by a run: a pending
mark is cleared by the update of another client's command; a retry in the apps has no request id
and books a second time; minutes stay on a screen after the check-out, because 0 is not sent; a
dashboard misses what is announced between its refresh and its subscription.

## Plan

1. Server makes one step of `ApplyIntent`, Transport many. An abstract card whose relay follows the
   call in one step, implemented by Transport on cards that are not upset, would join the two; the
   refinement follows from `CardInv` and can be proved.
2. The steps behind the liveness properties as action properties: that nothing but the named
   faults ends a call's wait for the line, a day's candidacy or what a pending mark is owed.
