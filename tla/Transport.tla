------------------------------ MODULE Transport -----------------------------
(***************************************************************************)
(* transport.Service and the serial writer under it: every HTTP handler    *)
(* that drives a room calls ApplyIntent on its own goroutine.  The call    *)
(* copies the card's payload out of an unsynchronised cache, patches the   *)
(* copy, stores it back, and sends two frames; only the serial line has a  *)
(* lock, which a WriteFrame holds over the write and the quiet gap after   *)
(* it.  A call is the sequence                                             *)
(*                                                                         *)
(*   idle -> store -> slaveFrame -> slaveGap -> displayFrame -> displayGap *)
(*                                                                         *)
(* ending in "ok" or "error", which the caller collects.  The cards and    *)
(* the room display are outside the repository: a relay or an LED takes    *)
(* the last frame that reached it.                                         *)
(*                                                                         *)
(* The request context is not a variable: a call ends at the first point   *)
(* that finds it cancelled, so it is enough that each such point may.      *)
(***************************************************************************)
EXTENDS LegacyFrames, FiniteSets

CONSTANTS
  Caller,      \* goroutines that may be inside ApplyIntent at once
  Room,        \* the rooms of the room map
  Address,     \* RS-485 addresses of the slave cards
  AddressOf,   \* [Room -> Address]
  PortOf,      \* [Room -> Int], not validated when the map is loaded
  Target,      \* the semantic states the handlers ask for
  Faults,      \* what the environment may do: see FaultKind
  Nobody       \* the mutex is free

FaultKind == {"cancel",    \* the request context is cancelled
              "error",     \* the write to the serial device fails
              "loss",      \* a frame is written and does not arrive
              "mapRace",   \* two writes to the cache map collide
             "restart"}   \* the process dies and is started again

ASSUME TransportAssumption ==
  /\ Room # {} /\ Target # {}
  /\ AddressOf \in [Room -> Address]
  /\ PortOf \in [Room -> Int]
  /\ Target \subseteq SemanticState
  /\ Faults \subseteq FaultKind
  /\ Nobody \notin Caller

\* The room map names every (address, port) pair once.
ASSUME PlacesDistinct ==
  \A r, s \in Room : AddressOf[r] = AddressOf[s] /\ PortOf[r] = PortOf[s] => r = s

VARIABLES
  cache,       \* Service.cache; an absent entry is EmptyPayload
  mu,          \* SerialWriter.mu: the caller that holds it, or Nobody
  pc,          \* where each caller is
  room,        \* intent.RoomID of each caller
  target,      \* intent.TargetState of each caller
  payload,     \* the local variable payload of each caller
  relays,      \* external: the energised relays of each card
  leds,        \* external: the display mode of each room
  ordered,     \* history: the rooms that the last relay order switched on
  upset,       \* history: the cards something happened to
  mixed        \* history: the rooms whose two frames may not be one call's

calls == <<pc, room, target, payload>>
vars  == <<cache, mu, calls, relays, leds, ordered, upset, mixed>>

Place == {"idle", "store", "slaveFrame", "slaveGap", "displayFrame", "displayGap",
          "ok", "error"}

\* The locals of a call that has ended hold nothing any step reads: giving them
\* one value keeps the states few.
NoCall ==
  [room |-> CHOOSE r \in Room : TRUE, target |-> CHOOSE t \in Target : TRUE, payload |-> {}]

Card(c)   == AddressOf[room[c]]
On(c)     == Energising(RoomStatusOf(target[c]))

\* c has taken a copy of the image of card a which no frame carries yet.
HasCopy(c, a) == pc[c] \in {"store", "slaveFrame"} /\ Card(c) = a
\* c is between the start of a call for room r and its end.
Serves(c, r)  == pc[c] \notin {"idle", "ok", "error"} /\ room[c] = r
AtRest(r)     == \A c \in Caller : ~Serves(c, r)
-----------------------------------------------------------------------------
Init ==
  /\ cache = [a \in Address |-> {}]
  /\ mu = Nobody
  /\ pc = [c \in Caller |-> "idle"]
  /\ room = [c \in Caller |-> NoCall.room]
  /\ target = [c \in Caller |-> NoCall.target]
  /\ payload = [c \in Caller |-> NoCall.payload]
  /\ relays = [a \in Address |-> {}]
  /\ leds = [r \in Room |-> DisplayOff]
  /\ ordered = {} /\ upset = {} /\ mixed = {}

\* payload, ok := s.cache[mapping.Address]
BugImage(a) == {}
Image(a) == cache[a]

\* w.mu.Lock() at the head of WriteFrame, and its deferred Unlock.
BugTakeLine(c) == mu' = c
TakeLine(c) == mu = Nobody /\ mu' = c
FreeLine == mu' = Nobody

(***************************************************************************)
(* ApplyIntent up to the patch of the copy.  The call makes the card's     *)
(* history doubtful when another copy of the same image is about, and the  *)
(* room's when another call for the room is.                               *)
(***************************************************************************)
Begin(c, r, t) ==
  LET a == AddressOf[r]
      status == RoomStatusOf(t)
  IN  /\ pc[c] = "idle"
      /\ room' = [room EXCEPT ![c] = r]
      /\ target' = [target EXCEPT ![c] = t]
      /\ IF Settable(PortOf[r], status)
           THEN /\ pc' = [pc EXCEPT ![c] = "store"]
                /\ payload' = [payload EXCEPT ![c] = SetPortStatus(Image(a), PortOf[r], status)]
                /\ upset' = IF \E d \in Caller : HasCopy(d, a) THEN upset \cup {a} ELSE upset
                /\ mixed' = IF \E d \in Caller : Serves(d, r) THEN mixed \cup {r} ELSE mixed
           ELSE /\ pc' = [pc EXCEPT ![c] = "error"]
                /\ UNCHANGED <<payload, upset, mixed>>
      /\ UNCHANGED <<cache, mu, relays, leds, ordered>>

(***************************************************************************)
(* s.cache[mapping.Address] = payload, before any frame is written.  The   *)
(* map has no lock: when another goroutine is writing it too, the runtime  *)
(* may abort the process (Restart) or one of the entries may be lost.      *)
(***************************************************************************)
BugStore(c) ==
  /\ pc[c] = "store"
  /\ pc' = [pc EXCEPT ![c] = "slaveFrame"]
  /\ UNCHANGED <<cache, mu, room, target, payload, relays, leds, ordered, upset, mixed>>
Store(c) ==
  /\ pc[c] = "store"
  /\ pc' = [pc EXCEPT ![c] = "slaveFrame"]
  /\ \/ /\ cache' = [cache EXCEPT ![Card(c)] = payload[c]]
        /\ UNCHANGED upset
     \/ /\ "mapRace" \in Faults
        /\ \E d \in Caller \ {c} : pc[d] = "store"
        /\ upset' = upset \cup {Card(c)}
        /\ UNCHANGED cache
  /\ UNCHANGED <<mu, room, target, payload, relays, leds, ordered, mixed>>

(***************************************************************************)
(* WriteFrame(slaveFrame): lock, write.  The frame carries the local copy, *)
(* whatever the cache holds by now.                                        *)
(***************************************************************************)
PutSlaveFrame(c) ==
  /\ pc[c] = "slaveFrame"
  /\ TakeLine(c)
  /\ pc' = [pc EXCEPT ![c] = "slaveGap"]
  /\ ordered' = IF On(c) THEN ordered \cup {room[c]} ELSE ordered \ {room[c]}
  /\ \/ /\ relays' = [relays EXCEPT ![Card(c)] = payload[c]]
        /\ UNCHANGED <<upset, mixed>>
     \/ /\ "loss" \in Faults
        /\ upset' = upset \cup {Card(c)}
        /\ mixed' = mixed \cup {room[c]}
        /\ UNCHANGED relays
  /\ payload' = [payload EXCEPT ![c] = NoCall.payload]     \* not used again
  /\ UNCHANGED <<cache, room, target, leds>>

\* WriteFrame(displayFrame): lock, write.
PutDisplayFrame(c) ==
  /\ pc[c] = "displayFrame"
  /\ TakeLine(c)
  /\ pc' = [pc EXCEPT ![c] = "displayGap"]
  /\ \/ /\ leds' = [leds EXCEPT ![room[c]] = DisplayModeOf(target[c])]
        /\ UNCHANGED mixed
     \/ /\ "loss" \in Faults
        /\ mixed' = mixed \cup {room[c]}
        /\ UNCHANGED leds
  /\ UNCHANGED <<cache, room, target, payload, relays, ordered, upset>>

\* WriteFrame returns an error before anything is on the wire: the context is
\* cancelled on entry, or the device refuses the write.
WriteFails(c) ==
  /\ \/ "cancel" \in Faults
     \/ "error" \in Faults /\ mu = Nobody
  /\ pc[c] \in {"slaveFrame", "displayFrame"}
  /\ pc' = [pc EXCEPT ![c] = "error"]
  /\ upset' = IF pc[c] = "slaveFrame" THEN upset \cup {Card(c)} ELSE upset
  /\ mixed' = mixed \cup {room[c]}
  /\ UNCHANGED <<cache, mu, room, target, payload, relays, leds, ordered>>

\* The write delay runs out; the deferred Unlock frees the line.
GapEnds(c) ==
  /\ pc[c] \in {"slaveGap", "displayGap"}
  /\ FreeLine
  /\ pc' = [pc EXCEPT ![c] = IF pc[c] = "slaveGap" THEN "displayFrame" ELSE "ok"]
  /\ UNCHANGED <<cache, room, target, payload, relays, leds, ordered, upset, mixed>>

\* The context is cancelled during the delay: an error, though the frame is out.
BugGapCancelled(c) ==
  /\ "cancel" \in Faults
  /\ pc[c] \in {"slaveGap", "displayGap"}
  /\ pc' = [pc EXCEPT ![c] = "error"]
  /\ UNCHANGED <<cache, mu, room, target, payload, relays, leds, ordered, upset, mixed>>
GapCancelled(c) ==
  /\ "cancel" \in Faults
  /\ pc[c] \in {"slaveGap", "displayGap"}
  /\ FreeLine
  /\ pc' = [pc EXCEPT ![c] = "error"]
  /\ mixed' = IF pc[c] = "slaveGap" THEN mixed \cup {room[c]} ELSE mixed
  /\ UNCHANGED <<cache, room, target, payload, relays, leds, ordered, upset>>

\* The handler takes the result of ApplyIntent.
Collect(c) ==
  /\ pc[c] \in {"ok", "error"}
  /\ pc' = [pc EXCEPT ![c] = "idle"]
  /\ room' = [room EXCEPT ![c] = NoCall.room]
  /\ target' = [target EXCEPT ![c] = NoCall.target]
  /\ payload' = [payload EXCEPT ![c] = NoCall.payload]
  /\ UNCHANGED <<cache, mu, relays, leds, ordered, upset, mixed>>

(***************************************************************************)
(* main starts again: NewService makes an empty cache, and nothing reads   *)
(* the cards back or sends them anything.  An image that is empty again    *)
(* is right again only for a card whose relays are all off.                *)
(***************************************************************************)
Restart ==
  /\ {"restart", "mapRace"} \cap Faults # {}
  /\ cache' = [a \in Address |-> {}]
  /\ FreeLine
  /\ pc' = [c \in Caller |-> "idle"]
  /\ upset' = {a \in Address : relays[a] # {} \/ \E r \in ordered : AddressOf[r] = a}
  /\ mixed' = mixed \cup {r \in Room : \E c \in Caller : Serves(c, r)}
  /\ room' = [c \in Caller |-> NoCall.room]
  /\ target' = [c \in Caller |-> NoCall.target]
  /\ payload' = [c \in Caller |-> NoCall.payload]
  /\ UNCHANGED <<relays, leds, ordered>>

Next ==
  \/ \E c \in Caller :
       \/ \E r \in Room, t \in Target : Begin(c, r, t)
       \/ Store(c) \/ PutSlaveFrame(c) \/ PutDisplayFrame(c) \/ WriteFails(c)
       \/ GapEnds(c) \/ GapCancelled(c) \/ Collect(c)
  \/ Restart

Spec == Init /\ [][Next]_vars

(***************************************************************************)
(* A goroutine runs on, the write delay is finite, and sync.Mutex hands    *)
(* the lock to a waiter that has starved for a millisecond: a caller that  *)
(* finds the line free again and again is served.                          *)
(***************************************************************************)
Fairness ==
  \A c \in Caller :
    /\ WF_vars(Store(c)) /\ WF_vars(GapEnds(c)) /\ WF_vars(Collect(c))
    /\ SF_vars(PutSlaveFrame(c)) /\ SF_vars(PutDisplayFrame(c))

FairSpec == Spec /\ Fairness
-----------------------------------------------------------------------------
TypeOK ==
  /\ cache \in [Address -> SUBSET Port]
  /\ mu \in Caller \cup {Nobody}
  /\ pc \in [Caller -> Place]
  /\ room \in [Caller -> Room]
  /\ target \in [Caller -> Target]
  /\ payload \in [Caller -> SUBSET Port]
  /\ relays \in [Address -> SUBSET Port]
  /\ leds \in [Room -> DisplayMode]
  /\ ordered \subseteq Room
  /\ upset \subseteq Address
  /\ mixed \subseteq Room

(***************************************************************************)
(* The quiet gap belongs to the caller that wrote the frame: while one     *)
(* caller waits out the delay no other frame can be written, since that    *)
(* caller still holds the lock (WriteFrame's deferred Unlock).             *)
(***************************************************************************)
GapHoldsLine == \A c \in Caller : pc[c] \in {"slaveGap", "displayGap"} <=> mu = c

(***************************************************************************)
(* The cache is what the card shows whenever no call has a copy of it      *)
(* outstanding, on every card that had no overlapping calls, no lost or    *)
(* refused slave frame and no restart with relays on: storing before       *)
(* writing, and patching a copy, is right exactly that far.                *)
(***************************************************************************)
ImageIsCard ==
  \A a \in Address :
    a \notin upset /\ (\A c \in Caller : ~HasCopy(c, a)) => cache[a] = relays[a]

(***************************************************************************)
(* Whole cards stay right, not only the room of the call: on a card        *)
(* nothing happened to, the energised relays are those of the rooms last   *)
(* ordered on, whatever calls for other cards, failing display frames and  *)
(* calls for the same room that are waiting for the LED do meanwhile.      *)
(***************************************************************************)
CardFollowsOrders ==
  \A a \in Address :
    a \notin upset => relays[a] = {PortOf[r] : r \in {q \in ordered : AddressOf[q] = a}}

(***************************************************************************)
(* The LED tells what the relay does, once a room is at rest: unless two   *)
(* calls for the room overlapped or one of them ended between its frames,  *)
(* a lit room is a powered room and a dark one is not.                     *)
(***************************************************************************)
LedAgreesWithRelay ==
  \A r \in Room \ mixed :
    AddressOf[r] \notin upset /\ AtRest(r)
      => (leds[r] = DisplayOn <=> PortOf[r] \in relays[AddressOf[r]])

(***************************************************************************)
(* docs/rs485_transport_spec.md:211-212: never rebuild a card's payload    *)
(* from one room without knowing its old values, patch the target room     *)
(* only.  So a frame never switches the relay of a room that no call in    *)
(* progress is for.                                                        *)
(***************************************************************************)
RelayKept(r) ==
  PortOf[r] \in relays'[AddressOf[r]] <=> PortOf[r] \in relays[AddressOf[r]]

NeighboursKept == [][\A r \in Room : AtRest(r) => RelayKept(r)]_relays

(***************************************************************************)
(* The part of it the code does keep: on a card without overlapping calls, *)
(* lost or refused slave frames and restarts with relays on, the relays of *)
(* the rooms at rest stay as they are.                                     *)
(***************************************************************************)
NeighboursKeptUnlessUpset ==
  [][\A r \in Room : AtRest(r) /\ AddressOf[r] \notin upset => RelayKept(r)]_relays

(***************************************************************************)
(* Every call of ApplyIntent ends: the callers that queue for the line     *)
(* with their two frames each do not keep one another out of it for ever.  *)
(***************************************************************************)
EveryCallEnds == \A c \in Caller : (pc[c] # "idle") ~> (pc[c] = "idle")
=============================================================================
