------------------------------- MODULE MCServer -----------------------------
(* Server with two handlers, which may be exchanged, and one room: the room *)
(* is what they meet in.                                                    *)
EXTENDS Server, TLC

CONSTANTS r101, h1, h2

HandlerSymmetry == Permutations(Handler)

\* What the handlers did before matters to no step and to no invariant that
\* does not name it.
Untold == <<record, locals, relay, owner, strayed, adrift, unmoded, forgotten>>
=============================================================================
