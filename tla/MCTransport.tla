----------------------------- MODULE MCTransport ----------------------------
(* Transport on the card of roommap.example.json that r101 and r102 share;  *)
(* rBad is a room whose port index is no port of a card, which the loader   *)
(* accepts.                                                                 *)
EXTENDS Transport

CONSTANTS r101, r102, rBad, card1

MCAddressOf == [r \in Room |-> card1]
MCPortOf == [r \in Room |-> CASE r = r101 -> 0 [] r = r102 -> 1 [] r = rBad -> 16]
=============================================================================
