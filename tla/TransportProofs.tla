--------------------------- MODULE TransportProofs --------------------------
(***************************************************************************)
(* What Transport promises for every set of callers, rooms, cards, room    *)
(* map and fault: types, the exclusive line, the image and the relays of a *)
(* card nothing happened to, the LED of a room at rest.                    *)
(***************************************************************************)
EXTENDS Transport, TLAPS

\* The disjuncts of Next that one caller takes.
CallStep(c) ==
  \/ \E r \in Room, t \in Target : Begin(c, r, t)
  \/ Store(c) \/ PutSlaveFrame(c) \/ PutDisplayFrame(c) \/ WriteFails(c)
  \/ GapEnds(c) \/ GapCancelled(c) \/ Collect(c)

\* SemanticToLegacy lights the LED of exactly the states it powers.
LEMMA LedMeansPower ==
  ASSUME NEW t \in SemanticState
  PROVE  /\ DisplayModeOf(t) \in DisplayMode
         /\ DisplayModeOf(t) = DisplayOn <=> Energising(RoomStatusOf(t))
BY DEF SemanticState, DisplayModeOf, DisplayMode, DisplayOn, DisplayOff, Energising,
       RoomStatusOf, StatusVacant, StatusOccupied, StatusCleaning, StatusOverstay

\* SetPort makes an image of an image.
LEMMA SetPortStaysImage ==
  ASSUME NEW image \in SUBSET Port, NEW p, NEW s, Settable(p, s)
  PROVE  SetPortStatus(image, p, s) \in SUBSET Port
BY DEF SetPortStatus, Settable

\* The call of a caller at rest is of its type.
LEMMA NoCallType ==
  NoCall.room \in Room /\ NoCall.target \in Target /\ NoCall.payload \in SUBSET Port
BY TransportAssumption DEF NoCall

(***************************************************************************)
(* Type correctness: in particular every cached image and every payload of *)
(* a call is a set of ports, so the word it stands for is a uint16.        *)
(***************************************************************************)
THEOREM TypeCorrect == Spec => []TypeOK
<1>1. Init => TypeOK
  BY NoCallType, TransportAssumption DEF Init, TypeOK, Place, DisplayMode
<1>2. TypeOK /\ [Next]_vars => TypeOK'
  <2> SUFFICES ASSUME TypeOK, [Next]_vars PROVE TypeOK'
    OBVIOUS
  <2> USE TransportAssumption, NoCallType DEF TypeOK, Place
  <2>1. ASSUME NEW c \in Caller, NEW r \in Room, NEW t \in Target, Begin(c, r, t)
        PROVE  TypeOK'
    BY <2>1, SetPortStaysImage DEF Begin, Image
  <2>2. ASSUME NEW c \in Caller, Store(c) PROVE TypeOK'
    BY <2>2 DEF Store, Card
  <2>3. ASSUME NEW c \in Caller, PutSlaveFrame(c) PROVE TypeOK'
    BY <2>3 DEF PutSlaveFrame, Card, TakeLine
  <2>4. ASSUME NEW c \in Caller, PutDisplayFrame(c) PROVE TypeOK'
    <3>1. DisplayModeOf(target[c]) \in DisplayMode
      BY LedMeansPower
    <3>2. QED
      BY <2>4, <3>1 DEF PutDisplayFrame, TakeLine
  <2>5. ASSUME NEW c \in Caller, WriteFails(c) PROVE TypeOK'
    BY <2>5 DEF WriteFails, Card
  <2>6. ASSUME NEW c \in Caller, GapEnds(c) PROVE TypeOK'
    BY <2>6 DEF GapEnds, FreeLine
  <2>7. ASSUME NEW c \in Caller, GapCancelled(c) PROVE TypeOK'
    BY <2>7 DEF GapCancelled, FreeLine
  <2>8. ASSUME NEW c \in Caller, Collect(c) PROVE TypeOK'
    BY <2>8 DEF Collect
  <2>9. CASE Restart
    BY <2>9 DEF Restart, FreeLine
  <2>10. CASE UNCHANGED vars
    BY <2>10 DEF vars, calls
  <2>11. QED
    BY <2>1, <2>2, <2>3, <2>4, <2>5, <2>6, <2>7, <2>8, <2>9, <2>10 DEF Next
<1>3. QED
  BY <1>1, <1>2, PTL DEF Spec

(***************************************************************************)
(* One caller at a time waits out the delay after its frame, and it is the *)
(* one that holds the lock.                                                *)
(***************************************************************************)
THEOREM LineExclusive == Spec => []GapHoldsLine
<1>1. Init => GapHoldsLine
  BY TransportAssumption DEF Init, GapHoldsLine
<1>2. TypeOK /\ GapHoldsLine /\ [Next]_vars => GapHoldsLine'
  <2> SUFFICES ASSUME TypeOK, GapHoldsLine, [Next]_vars PROVE GapHoldsLine'
    OBVIOUS
  <2> USE TransportAssumption DEF TypeOK, GapHoldsLine
  <2>1. ASSUME NEW c \in Caller, CallStep(c) PROVE GapHoldsLine'
    BY <2>1 DEF CallStep, Begin, Store, PutSlaveFrame, PutDisplayFrame, WriteFails, GapEnds,
                GapCancelled, Collect, TakeLine, FreeLine
  <2>2. CASE Restart
    BY <2>2 DEF Restart, FreeLine
  <2>3. CASE UNCHANGED vars
    BY <2>3 DEF vars, calls
  <2>4. QED
    BY <2>1, <2>2, <2>3 DEF Next, CallStep
<1>3. QED
  BY <1>1, <1>2, TypeCorrect, PTL DEF Spec

-----------------------------------------------------------------------------
(***************************************************************************)
(* ImageIsCard and CardFollowsOrders speak of cards at rest or of relays   *)
(* alone; what carries them over a call is what its copy holds meanwhile.  *)
(* On a card nothing happened to there is one copy at most, it is the      *)
(* card's image with the room's own port patched, and it is in the cache   *)
(* from Store on.                                                          *)
(***************************************************************************)
Patched(c) == SetPortStatus(relays[Card(c)], PortOf[room[c]], RoomStatusOf(target[c]))

CopyInv(a) ==
  /\ \A c, d \in Caller : HasCopy(c, a) /\ HasCopy(d, a) => c = d
  /\ \A c \in Caller :
       HasCopy(c, a) =>
         /\ payload[c] = Patched(c)
         /\ cache[a] = IF pc[c] = "store" THEN relays[a] ELSE payload[c]
  /\ (\A c \in Caller : ~HasCopy(c, a)) => cache[a] = relays[a]

OrdersOf(a) == {PortOf[r] : r \in {q \in ordered : AddressOf[q] = a}}

CardInv ==
  /\ TypeOK
  /\ \A a \in Address \ upset : CopyInv(a)
  /\ \A a \in Address \ upset : relays[a] = OrdersOf(a)

\* Switching one room on or off in the set of ordered rooms is patching its port
\* in the set of their ports: no other room of the card has that port.
LEMMA OrderPatchesPort ==
  ASSUME NEW r \in Room, NEW S \in SUBSET Room, NEW status,
         NEW T, T = IF Energising(status) THEN S \cup {r} ELSE S \ {r}
  PROVE  SetPortStatus({PortOf[q] : q \in {x \in S : AddressOf[x] = AddressOf[r]}},
                       PortOf[r], status)
           = {PortOf[q] : q \in {x \in T : AddressOf[x] = AddressOf[r]}}
<1>1. CASE Energising(status)
  BY <1>1 DEF SetPortStatus
<1>2. CASE ~Energising(status)
  <2>1. \A q \in S : AddressOf[q] = AddressOf[r] /\ PortOf[q] = PortOf[r] => q = r
    BY PlacesDistinct
  <2>2. QED
    BY <1>2, <2>1 DEF SetPortStatus
<1>3. QED
  BY <1>1, <1>2

\* Of the callers, the ones a step of c is not about keep their copies.
LEMMA OtherCopies ==
  ASSUME TypeOK, NEW c \in Caller, CallStep(c)
  PROVE  \A d \in Caller \ {c} : \A a \in Address :
           /\ pc'[d] = pc[d] /\ payload'[d] = payload[d] /\ Card(d)' = Card(d)
           /\ room'[d] = room[d] /\ target'[d] = target[d]
           /\ HasCopy(d, a)' <=> HasCopy(d, a)
BY DEF CallStep, TypeOK, HasCopy, Card, Begin, Store, PutSlaveFrame, PutDisplayFrame,
       WriteFails, GapEnds, GapCancelled, Collect

\* A step that leaves the cards, the copies and the orders alone preserves the
\* invariants of the cards that are not newly upset.
LEMMA CardInvFrame ==
  ASSUME CardInv, TypeOK', UNCHANGED <<cache, relays, ordered>>, upset \subseteq upset',
         \A d \in Caller : \A a \in Address \ upset' :
           /\ HasCopy(d, a)' <=> HasCopy(d, a)
           /\ HasCopy(d, a) => /\ payload'[d] = payload[d] /\ room'[d] = room[d]
                               /\ target'[d] = target[d] /\ pc'[d] = pc[d]
  PROVE  CardInv'
BY DEF CardInv, CopyInv, OrdersOf, Patched, Card, HasCopy, TypeOK

\* Every action keeps CardInv.
LEMMA CardStep == CardInv /\ TypeOK' /\ [Next]_vars => CardInv'
<1> SUFFICES ASSUME CardInv, TypeOK', [Next]_vars PROVE CardInv'
  OBVIOUS
<1> USE TransportAssumption
<1>1. ASSUME NEW c \in Caller, NEW r \in Room, NEW t \in Target, Begin(c, r, t)
      PROVE  CardInv'
  <2> DEFINE a == AddressOf[r]
  <2>0. CallStep(c) /\ TypeOK /\ pc[c] = "idle"
    BY <1>1 DEF CallStep, CardInv, Begin
  <2>1. CASE ~Settable(PortOf[r], RoomStatusOf(t))
    BY <2>0, <2>1, <1>1, OtherCopies, CardInvFrame DEF Begin, HasCopy, TypeOK
  <2>2. CASE Settable(PortOf[r], RoomStatusOf(t))
    <3>1. /\ pc'[c] = "store" /\ room'[c] = r /\ target'[c] = t
          /\ payload'[c] = SetPortStatus(cache[a], PortOf[r], RoomStatusOf(t))
          /\ UNCHANGED <<cache, relays, ordered>> /\ upset \subseteq upset'
      BY <1>1, <2>2, <2>0 DEF Begin, TypeOK, Image
    <3>2. HasCopy(c, a)' /\ \A b \in Address \ {a} : ~HasCopy(c, b)'
      BY <3>1 DEF HasCopy, Card
    <3>3. \A b \in Address : ~HasCopy(c, b)
      BY <2>0 DEF HasCopy
    <3>4. ASSUME NEW b \in Address \ upset' PROVE CopyInv(b)'
      <4>1. CopyInv(b)
        BY <3>1 DEF CardInv
      <4>2. CASE b # a
        BY <4>1, <4>2, <3>1, <3>2, <3>3, <2>0, OtherCopies DEF CopyInv, Patched, Card
      <4>3. CASE b = a
        <5>1. \A d \in Caller : ~HasCopy(d, a)
          BY <1>1, <2>2, <4>3 DEF Begin
        <5>2. cache[a] = relays[a] /\ \A d \in Caller \ {c} : ~HasCopy(d, a)'
          BY <4>1, <4>3, <5>1, <2>0, OtherCopies DEF CopyInv
        <5>3. payload'[c] = Patched(c)' /\ cache'[a] = relays'[a]
          BY <3>1, <5>2 DEF Patched, Card
        <5>4. QED
          BY <3>1, <3>2, <4>3, <5>2, <5>3 DEF CopyInv
      <4>4. QED
        BY <4>2, <4>3
    <3>5. QED
      BY <3>1, <3>4 DEF CardInv, OrdersOf
  <2>3. QED
    BY <2>1, <2>2
<1>2. ASSUME NEW c \in Caller, Store(c) PROVE CardInv'
  <2>0. CallStep(c) /\ TypeOK /\ pc[c] = "store" /\ pc'[c] = "slaveFrame"
    BY <1>2 DEF CallStep, CardInv, Store, TypeOK
  <2>1. /\ UNCHANGED <<room, target, payload, relays, ordered>> /\ upset \subseteq upset'
        /\ \/ cache' = [cache EXCEPT ![Card(c)] = payload[c]]
           \/ cache' = cache /\ Card(c) \in upset'
    BY <1>2, <2>0 DEF Store, TypeOK
  <2>2. \A b \in Address : HasCopy(c, b)' <=> HasCopy(c, b)
    BY <2>0, <2>1 DEF HasCopy, Card
  <2>3. ASSUME NEW b \in Address \ upset' PROVE CopyInv(b)'
    <3>1. CopyInv(b)
      BY <2>1 DEF CardInv
    <3>2. CASE b # Card(c)
      <4>1. cache'[b] = cache[b] /\ ~HasCopy(c, b)
        BY <2>0, <2>1, <3>2 DEF TypeOK, HasCopy
      <4>2. QED
        BY <4>1, <3>1, <2>0, <2>1, <2>2, OtherCopies DEF CopyInv, Patched, Card
    <3>3. CASE b = Card(c)
      <4>1. cache'[b] = payload[c] /\ HasCopy(c, b)
        BY <2>0, <2>1, <3>3 DEF TypeOK, HasCopy
      <4>2. \A d \in Caller \ {c} : ~HasCopy(d, b)'
        BY <4>1, <3>1, <2>0, OtherCopies DEF CopyInv
      <4>3. payload'[c] = Patched(c)'
        BY <4>1, <3>1, <2>1 DEF CopyInv, Patched, Card
      <4>4. QED
        BY <4>1, <4>2, <4>3, <2>0, <2>1, <2>2 DEF CopyInv
    <3>4. QED
      BY <3>2, <3>3
  <2>4. QED
    BY <2>1, <2>3 DEF CardInv, OrdersOf
<1>3. ASSUME NEW c \in Caller, PutSlaveFrame(c) PROVE CardInv'
  <2> DEFINE a == Card(c)
  <2>0. CallStep(c) /\ TypeOK /\ pc[c] = "slaveFrame" /\ pc'[c] = "slaveGap"
    BY <1>3 DEF CallStep, CardInv, PutSlaveFrame, TypeOK
  <2>1. /\ UNCHANGED <<cache, room, target>> /\ upset \subseteq upset'
        /\ ordered' = IF On(c) THEN ordered \cup {room[c]} ELSE ordered \ {room[c]}
        /\ \/ relays' = [relays EXCEPT ![a] = payload[c]]
           \/ relays' = relays /\ a \in upset'
    BY <1>3, <2>0 DEF PutSlaveFrame, TypeOK
  <2>2. HasCopy(c, a) /\ \A b \in Address : ~HasCopy(c, b)'
    BY <2>0 DEF HasCopy
  <2>3. ASSUME NEW b \in Address \ upset' PROVE CopyInv(b)' /\ relays'[b] = OrdersOf(b)'
    <3>1. CopyInv(b) /\ relays[b] = OrdersOf(b)
      BY <2>1 DEF CardInv
    <3>2. CASE b # a
      <4>1. relays'[b] = relays[b] /\ ~HasCopy(c, b)
        BY <2>0, <2>1, <3>2 DEF TypeOK, HasCopy
      <4>2. CopyInv(b)'
        <5>1. \A d \in Caller : HasCopy(d, b) => d # c /\ Card(d) = b
          BY <4>1 DEF HasCopy
        <5>2. \A d \in Caller : HasCopy(d, b)' <=> HasCopy(d, b)
          BY <4>1, <2>0, <2>2, OtherCopies
        <5>3. \A d \in Caller : HasCopy(d, b) => Patched(d)' = Patched(d)
          BY <4>1, <5>1, <2>0, OtherCopies DEF Patched
        <5>4. QED
          BY <3>1, <4>1, <5>1, <5>2, <5>3, <2>0, <2>1, OtherCopies DEF CopyInv
      <4>3. {q \in ordered' : AddressOf[q] = b} = {q \in ordered : AddressOf[q] = b}
        BY <2>1, <3>2 DEF Card
      <4>4. QED
        BY <4>1, <4>2, <4>3, <3>1 DEF OrdersOf
    <3>3. CASE b = a
      <4>1. relays'[b] = payload[c] /\ payload[c] = Patched(c) /\ cache[b] = payload[c]
        BY <2>0, <2>1, <2>2, <3>1, <3>3 DEF CopyInv, TypeOK
      <4>2. \A d \in Caller : ~HasCopy(d, b)'
        BY <2>0, <2>2, <3>1, <3>3, OtherCopies DEF CopyInv
      <4>3. CopyInv(b)'
        BY <4>1, <4>2, <2>1 DEF CopyInv
      <4>4. Patched(c) = OrdersOf(b)'
        <5>1. Patched(c) = SetPortStatus(OrdersOf(b), PortOf[room[c]], RoomStatusOf(target[c]))
          BY <3>1, <3>3 DEF Patched
        <5>2. room[c] \in Room /\ ordered \in SUBSET Room /\ b = AddressOf[room[c]]
          BY <2>0, <3>3 DEF TypeOK, Card
        <5>3. ordered' = IF Energising(RoomStatusOf(target[c]))
                           THEN ordered \cup {room[c]} ELSE ordered \ {room[c]}
          BY <2>1 DEF On
        <5>4. SetPortStatus({PortOf[q] : q \in {x \in ordered : AddressOf[x] = AddressOf[room[c]]}},
                            PortOf[room[c]], RoomStatusOf(target[c]))
                = {PortOf[q] : q \in {x \in ordered' : AddressOf[x] = AddressOf[room[c]]}}
          BY <5>2, <5>3, OrderPatchesPort
        <5>5. QED
          BY <5>1, <5>2, <5>4 DEF OrdersOf
      <4>5. QED
        BY <4>1, <4>3, <4>4, <3>3
    <3>4. QED
      BY <3>2, <3>3
  <2>4. QED
    BY <2>3 DEF CardInv
<1>4. ASSUME NEW c \in Caller, PutDisplayFrame(c) PROVE CardInv'
  BY <1>4, OtherCopies, CardInvFrame DEF CallStep, CardInv, PutDisplayFrame, HasCopy, TypeOK
<1>5. ASSUME NEW c \in Caller, WriteFails(c) PROVE CardInv'
  BY <1>5, OtherCopies, CardInvFrame DEF CallStep, CardInv, WriteFails, HasCopy, TypeOK
<1>6. ASSUME NEW c \in Caller, GapEnds(c) PROVE CardInv'
  BY <1>6, OtherCopies, CardInvFrame DEF CallStep, CardInv, GapEnds, HasCopy, TypeOK
<1>7. ASSUME NEW c \in Caller, GapCancelled(c) PROVE CardInv'
  BY <1>7, OtherCopies, CardInvFrame DEF CallStep, CardInv, GapCancelled, HasCopy, TypeOK
<1>8. ASSUME NEW c \in Caller, Collect(c) PROVE CardInv'
  BY <1>8, OtherCopies, CardInvFrame DEF CallStep, CardInv, Collect, HasCopy, TypeOK
<1>9. CASE Restart
  <2>1. \A a \in Address \ upset' : cache'[a] = {} /\ relays'[a] = {} /\ OrdersOf(a)' = {}
    BY <1>9 DEF Restart, OrdersOf
  <2>2. \A c \in Caller, a \in Address : ~HasCopy(c, a)'
    BY <1>9 DEF Restart, HasCopy
  <2>3. QED
    BY <2>1, <2>2 DEF CardInv, CopyInv
<1>10. CASE UNCHANGED vars
  BY <1>10, CardInvFrame DEF vars, calls, HasCopy, Card
<1>11. QED
  BY <1>1, <1>2, <1>3, <1>4, <1>5, <1>6, <1>7, <1>8, <1>9, <1>10 DEF Next

\* CardInv holds in every behaviour.
LEMMA CardInvariant == Spec => []CardInv
<1>1. Init /\ TypeOK => CardInv
  BY DEF Init, CardInv, CopyInv, OrdersOf, HasCopy
<1>2. QED
  BY <1>1, CardStep, TypeCorrect, PTL DEF Spec

(***************************************************************************)
(* The cache is right about every quiet card nothing happened to.          *)
(***************************************************************************)
THEOREM ImageCorrect == Spec => []ImageIsCard
<1>1. CardInv => ImageIsCard
  BY DEF CardInv, CopyInv, ImageIsCard
<1>2. QED
  BY <1>1, CardInvariant, PTL

(***************************************************************************)
(* The relays of a card nothing happened to are the rooms ordered on.      *)
(***************************************************************************)
THEOREM OrdersFollowed == Spec => []CardFollowsOrders
<1>1. CardInv => CardFollowsOrders
  BY DEF CardInv, OrdersOf, CardFollowsOrders
<1>2. QED
  BY <1>1, CardInvariant, PTL

\* Only a call for a room changes what is ordered of it.
LEMMA OnlyServedOrdered ==
  ASSUME TypeOK, [Next]_vars, NEW r \in Room, AtRest(r)
  PROVE  r \in ordered' <=> r \in ordered
BY DEF TypeOK, Next, vars, calls, AtRest, Serves, Begin, Store, PutSlaveFrame, PutDisplayFrame,
       WriteFails, GapEnds, GapCancelled, Collect, Restart

\* The step that makes a card doubtful switches no relay.
LEMMA UpsetOnlyByOwnFrame ==
  ASSUME TypeOK, [Next]_vars, NEW a \in Address, a \notin upset, a \in upset'
  PROVE  relays' = relays
BY DEF TypeOK, Next, vars, calls, Begin, Store, PutSlaveFrame, PutDisplayFrame,
       WriteFails, GapEnds, GapCancelled, Collect, Restart

\* On a card nothing happened to, a relay is what was ordered of its room.
LEMMA RelayIsOrder ==
  ASSUME CardInv, NEW r \in Room, AddressOf[r] \notin upset
  PROVE  PortOf[r] \in relays[AddressOf[r]] <=> r \in ordered
<1>1. AddressOf[r] \in Address /\ ordered \subseteq Room
  BY TransportAssumption DEF CardInv, TypeOK
<1>2. relays[AddressOf[r]] = {PortOf[q] : q \in {x \in ordered : AddressOf[x] = AddressOf[r]}}
  BY <1>1 DEF CardInv, OrdersOf
<1>3. QED
  BY <1>1, <1>2, PlacesDistinct

(***************************************************************************)
(* No call for one room switches the relay of another, as long as nothing  *)
(* happened to the card: its relays are its orders before and after, and   *)
(* only a call for a room changes the order of the room.                   *)
(***************************************************************************)
THEOREM NeighboursUntouched == Spec => NeighboursKeptUnlessUpset
<1>1. ASSUME CardInv, CardInv', [Next]_vars, NEW r \in Room,
             AtRest(r), AddressOf[r] \notin upset
      PROVE  RelayKept(r)
  <2>0. TypeOK /\ AddressOf[r] \in Address
    BY <1>1, TransportAssumption DEF CardInv
  <2>1. CASE AddressOf[r] \in upset'
    BY <1>1, <2>0, <2>1, UpsetOnlyByOwnFrame DEF RelayKept
  <2>2. CASE AddressOf[r] \notin upset'
    <3>1. PortOf[r] \in relays[AddressOf[r]] <=> r \in ordered
      BY <1>1, RelayIsOrder
    <3>2. PortOf[r] \in relays'[AddressOf[r]] <=> r \in ordered'
      <4>1. AddressOf[r] \in Address /\ ordered' \subseteq Room
        BY <1>1, TransportAssumption DEF CardInv, TypeOK
      <4>2. relays'[AddressOf[r]]
              = {PortOf[q] : q \in {x \in ordered' : AddressOf[x] = AddressOf[r]}}
        BY <1>1, <2>2, <4>1 DEF CardInv, OrdersOf
      <4>3. QED
        BY <4>1, <4>2, PlacesDistinct
    <3>3. QED
      BY <1>1, <2>0, <3>1, <3>2, OnlyServedOrdered DEF RelayKept
  <2>3. QED
    BY <2>1, <2>2
<1>2. CardInv /\ CardInv' /\ [Next]_vars
        => [\A r \in Room : AtRest(r) /\ AddressOf[r] \notin upset => RelayKept(r)]_relays
  BY <1>1
<1>3. QED
  BY <1>2, CardInvariant, PTL DEF Spec, NeighboursKeptUnlessUpset
-----------------------------------------------------------------------------
(***************************************************************************)
(* Of a room whose calls never overlapped and never stopped half-way, the  *)
(* LED lags behind the order only from the slave frame to the display      *)
(* frame of the one call that serves it.                                   *)
(***************************************************************************)
Lit(r) == leds[r] = DisplayOn

RoomInv(r) ==
  /\ \A c, d \in Caller : Serves(c, r) /\ Serves(d, r) => c = d
  /\ AtRest(r) => (Lit(r) <=> r \in ordered)
  /\ \A c \in Caller :
       Serves(c, r) =>
         IF pc[c] \in {"slaveGap", "displayFrame"}
           THEN r \in ordered <=> On(c)
           ELSE Lit(r) <=> r \in ordered

LedInv == TypeOK /\ \A r \in Room \ mixed : RoomInv(r)

\* Every action keeps LedInv.
LEMMA LedStep == LedInv /\ TypeOK' /\ [Next]_vars => LedInv'
<1> SUFFICES ASSUME LedInv, TypeOK', [Next]_vars, NEW r \in Room \ mixed'
             PROVE  RoomInv(r)'
  BY DEF LedInv
<1> USE TransportAssumption
<1>0. TypeOK /\ mixed \subseteq mixed' /\ r \in Room
  BY DEF LedInv, Next, vars, calls, Begin, Store, PutSlaveFrame, PutDisplayFrame, WriteFails,
         GapEnds, GapCancelled, Collect, Restart
<1>00. RoomInv(r)
  BY <1>0 DEF LedInv
<1> USE <1>0, <1>00 DEF RoomInv, AtRest, Serves, Lit, On, TypeOK
<1>1. ASSUME NEW c \in Caller, NEW q \in Room, NEW t \in Target, Begin(c, q, t)
      PROVE  RoomInv(r)'
  BY <1>1 DEF Begin
<1>2. ASSUME NEW c \in Caller, Store(c) PROVE RoomInv(r)'
  BY <1>2 DEF Store
<1>3. ASSUME NEW c \in Caller, PutSlaveFrame(c) PROVE RoomInv(r)'
  BY <1>3 DEF PutSlaveFrame
<1>4. ASSUME NEW c \in Caller, PutDisplayFrame(c) PROVE RoomInv(r)'
  <2>1. DisplayModeOf(target[c]) = DisplayOn <=> Energising(RoomStatusOf(target[c]))
    BY LedMeansPower
  <2>2. QED
    BY <1>4, <2>1 DEF PutDisplayFrame
<1>5. ASSUME NEW c \in Caller, WriteFails(c) PROVE RoomInv(r)'
  BY <1>5 DEF WriteFails
<1>6. ASSUME NEW c \in Caller, GapEnds(c) PROVE RoomInv(r)'
  BY <1>6 DEF GapEnds
<1>7. ASSUME NEW c \in Caller, GapCancelled(c) PROVE RoomInv(r)'
  BY <1>7 DEF GapCancelled
<1>8. ASSUME NEW c \in Caller, Collect(c) PROVE RoomInv(r)'
  BY <1>8 DEF Collect
<1>9. CASE Restart
  BY <1>9 DEF Restart
<1>10. CASE UNCHANGED vars
  BY <1>10 DEF vars, calls
<1>11. QED
  BY <1>1, <1>2, <1>3, <1>4, <1>5, <1>6, <1>7, <1>8, <1>9, <1>10 DEF Next

\* LedInv holds in every behaviour.
LEMMA LedInvariant == Spec => []LedInv
<1>1. Init /\ TypeOK => LedInv
  BY DEF Init, LedInv, RoomInv, AtRest, Serves, Lit, DisplayOn, DisplayOff
<1>2. QED
  BY <1>1, LedStep, TypeCorrect, PTL DEF Spec

(***************************************************************************)
(* The LED of a room at rest tells whether its relay is on, unless calls   *)
(* for the room overlapped or stopped half-way or its card is upset.       *)
(***************************************************************************)
THEOREM LedCorrect == Spec => []LedAgreesWithRelay
<1>1. CardInv /\ LedInv => LedAgreesWithRelay
  BY RelayIsOrder DEF LedInv, RoomInv, Lit, LedAgreesWithRelay
<1>2. QED
  BY <1>1, CardInvariant, LedInvariant, PTL
=============================================================================
