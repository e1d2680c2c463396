---------------------------- MODULE LegacyFrames ----------------------------
(***************************************************************************)
(* What the package legacy computes, on the level the rest of the backend  *)
(* needs it: which legacy status and display mode a semantic room state    *)
(* becomes, and what SetPortStatus does to the relay image of a card.  An  *)
(* image is the set of ports whose bit is 1; module PayloadWord shows that *)
(* the uint16 of the code and the bytes of the frames carry this set.      *)
(*                                                                         *)
(* Here and in the other modules a definition named Bug... is a wrong form *)
(* of the definition that follows it.  No specification uses one: the      *)
(* README ("Mutants") says which property each of them breaks.             *)
(***************************************************************************)
EXTENDS Integers

Port == 0 .. 15

SemanticState == {"vacant", "occupied", "cleaning", "overstay"}

\* RoomStatus: the bytes of types.go.
StatusNone     == 0
StatusVacant   == 1
StatusOccupied == 2
StatusCleaning == 3
StatusOverstay == 4

\* DisplayMode: the two modes the mapping uses.
DisplayOff == 0
DisplayOn  == 3
DisplayMode == {DisplayOff, DisplayOn}

RoomStatusOf(state) ==
  CASE state = "vacant"   -> StatusVacant
    [] state = "occupied" -> StatusOccupied
    [] state = "cleaning" -> StatusCleaning
    [] state = "overstay" -> StatusOverstay

BugDisplayModeOf(state) == IF state = "overstay" THEN DisplayOff ELSE DisplayOn
DisplayModeOf(state) == IF state = "vacant" THEN DisplayOff ELSE DisplayOn

\* The statuses that energise the relay, and those that release it.
Energising(status) == StatusOccupied <= status /\ status <= StatusOverstay
Releasing(status)  == status \in {StatusNone, StatusVacant}

\* SetPortStatus fails, and leaves the payload alone, outside this domain.
BugSettable(port, status) == 0 <= port /\ port <= 16
Settable(port, status) ==
  /\ port \in Port
  /\ Energising(status) \/ Releasing(status)

BugOverwrite(image, port, status) == IF Energising(status) THEN {port} ELSE image \ {port}
SetPortStatus(image, port, status) ==
  IF Energising(status) THEN image \cup {port} ELSE image \ {port}
=============================================================================
