---------------------------- MODULE PayloadWord -----------------------------
(***************************************************************************)
(* The bytes behind LegacyFrames: SlavePayload is a uint16, and            *)
(* BuildSlaveFrame and BuildDisplayFrame turn it, and a room's place, into *)
(* the bytes of a frame.  A behaviour is a sequence of ApplyIntent calls   *)
(* on one card, each of which patches the card's word and builds the two   *)
(* frames of one room; `image` is the abstract card of LegacyFrames, which *)
(* the word and the frames must agree with whatever the sequence was.      *)
(***************************************************************************)
EXTENDS LegacyFrames, Sequences

CONSTANTS
  Address,    \* the card's RS-485 address, a byte
  Place       \* the [card, port] pairs of the room map; nothing validates them

Byte == 0 .. 255
Word == 0 .. 256 * 256 - 1

ASSUME PlaceAssumption ==
  /\ Address \in Byte
  /\ \A p \in Place : p.card \in Byte /\ p.port \in Int

VARIABLES
  word,       \* SlavePayload.Bitmask
  slave,      \* the last slave frame, <<>> before the first call
  display,    \* the last display frame
  image,      \* the set LegacyFrames!SetPortStatus makes of the same calls
  last        \* [place, state] of the last call, <<>> before the first

vars == <<word, slave, display, image, last>>

Colon == 58

\* uint16(1) << port
Mask[port \in Port] == IF port = 0 THEN 1 ELSE 2 * Mask[port - 1]

Bit(w, port) == (w \div Mask[port]) % 2

\* p.Bitmask |= mask and p.Bitmask &^= mask.
BugToggle(w, port, status) ==
  IF Energising(status)
    THEN IF Bit(w, port) = 1 THEN w ELSE w + Mask[port]
    ELSE IF Bit(w, port) = 1 THEN w - Mask[port] ELSE (w + Mask[port]) % 2^16
WordAfter(w, port, status) ==
  IF Energising(status)
    THEN IF Bit(w, port) = 1 THEN w ELSE w + Mask[port]
    ELSE IF Bit(w, port) = 1 THEN w - Mask[port] ELSE w

LowByte(w)  == w % 256
HighByte(w) == (w \div 256) % 256

\* The sum of the bytes, in a byte.
ByteSum(bytes) ==
  LET sum[n \in 0 .. Len(bytes)] == IF n = 0 THEN 0 ELSE (sum[n - 1] + bytes[n]) % 256
  IN  sum[Len(bytes)]

BugOnesComplement(bytes) == 255 - ByteSum(bytes)
Checksum(bytes) == (255 - ByteSum(bytes) + 1) % 256

BugHighByteFirst(address, w) ==
  LET body == <<Colon, address, HighByte(w), LowByte(w)>>
  IN  Append(body, Checksum(body))
BuildSlaveFrame(address, w) ==
  LET body == <<Colon, address, LowByte(w), HighByte(w)>>
  IN  Append(body, Checksum(body))

BugFifteenPorts(card, port, mode) == <<Colon, 254, (card * 15 + port) % 256, mode>>
BugNoByteCast(card, port, mode) == <<Colon, 254, card * 16 + port, mode>>
BuildDisplayFrame(card, port, mode) == <<Colon, 254, (card * 16 + port) % 256, mode>>
-----------------------------------------------------------------------------
\* What a receiver of the bus makes of the bytes (the boards are not in the
\* repository): a slave card takes a frame whose bytes sum to zero, the display
\* takes the room reference apart into a card and a port.
Accepted(frame) == Len(frame) = 5 /\ frame[1] = Colon /\ ByteSum(frame) = 0
ReadImage(frame) ==
  {p \in Port : Bit(IF p < 8 THEN frame[3] ELSE frame[4], p % 8) = 1}
ReadPlace(frame) == [card |-> frame[3] \div 16, port |-> frame[3] % 16]
-----------------------------------------------------------------------------
Init ==
  /\ word = 0                    \* EmptyPayload
  /\ image = {}
  /\ slave = <<>> /\ display = <<>> /\ last = <<>>

\* ApplyIntent on a room of this card whose port SetPortStatus accepts.
Patch(place, state) ==
  LET status == RoomStatusOf(state)
  IN  /\ Settable(place.port, status)
      /\ word' = WordAfter(word, place.port, status)
      /\ slave' = BuildSlaveFrame(Address, word')
      /\ display' = BuildDisplayFrame(place.card, place.port, DisplayModeOf(state))
      /\ image' = SetPortStatus(image, place.port, status)
      /\ last' = [place |-> place, state |-> state]

\* A port outside 0..15: SetPortStatus returns an error, no frame is built.
Refuse(place, state) ==
  /\ ~Settable(place.port, RoomStatusOf(state))
  /\ UNCHANGED vars

Next == \E place \in Place, state \in SemanticState : Patch(place, state) \/ Refuse(place, state)

Spec == Init /\ [][Next]_vars
-----------------------------------------------------------------------------
TypeOK ==
  /\ word \in Word
  /\ image \subseteq Port
  /\ slave = <<>> \/ (Len(slave) = 5 /\ \A i \in 1 .. 5 : slave[i] \in Byte)
  /\ display = <<>> \/ (Len(display) = 4 /\ \A i \in 1 .. 4 : display[i] \in Byte)

(***************************************************************************)
(* After any sequence of calls the frame last built is accepted by the     *)
(* card and read as exactly the set of ports the calls left energised:     *)
(* nothing is lost between the masks of SetPortStatus, the split into two  *)
(* bytes and the checksum.                                                 *)
(***************************************************************************)
CardReadsImage == slave # <<>> => Accepted(slave) /\ ReadImage(slave) = image

(***************************************************************************)
(* One byte of the slave frame changed on the wire, whichever and into     *)
(* whatever, never makes a card switch other relays: the sum catches it.   *)
(***************************************************************************)
DamageRejected ==
  slave # <<>> =>
    /\ Accepted(slave)
    /\ \A i \in 1 .. 5 : \A b \in Byte \ {slave[i]} : ~Accepted([slave EXCEPT ![i] = b])

(***************************************************************************)
(* The display frame names the room of the call as long as the card index  *)
(* fits the high nibble of the reference; byte(card*16 + port) drops the   *)
(* rest, so card 16 is displayed as card 0.                                *)
(***************************************************************************)
DisplayNamesRoom ==
  display # <<>> =>
    ReadPlace(display) = [card |-> last.place.card % 16, port |-> last.place.port]
=============================================================================
