--------------------------- MODULE MCPayloadWord ----------------------------
(* PayloadWord on a card with rooms on the ports next to the byte boundary  *)
(* and at both ends, two card indices that differ by 16 and two ports the   *)
(* payload has no bit for.                                                  *)
EXTENDS PayloadWord

MCAddress == 3
MCPlace == {[card |-> c, port |-> p] : c \in {3, 19}, p \in {-1, 0, 1, 7, 8, 15, 16}}
=============================================================================
