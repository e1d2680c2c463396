------------------------------- MODULE MCStore ------------------------------
(* Store and the reports on it, with two rooms, and request ids that may    *)
(* be used again.  The two seconds are the last of a month and the first of *)
(* the next; requests carry them, and their ids, in any order, so later     *)
(* stays may sort first as they would when the clock is set back.  Nothing  *)
(* but Room tells the two rooms apart, so they may be exchanged.            *)
EXTENDS Reports, TLC

CONSTANTS r101, r102

RoomSymmetry == Permutations(Room)
=============================================================================
