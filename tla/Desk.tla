--------------------------------- MODULE Desk -------------------------------
(***************************************************************************)
(* What the backend promises the people at the desk: a request is booked   *)
(* durably once or not at all; only what is booked is told to the other    *)
(* screens; only what was told is answered with "accepted".  Requests that *)
(* fail, crashes and restarts are no steps here.                           *)
(***************************************************************************)
CONSTANT Entry          \* accepted requests: who asked for what, for which room

VARIABLES
  booked,               \* entries in the database
  told,                 \* entries the screens were told of
  answered              \* entries whose client got "accepted"

vars == <<booked, told, answered>>

Init == booked = {} /\ told = {} /\ answered = {}

\* The request id is the key of the book.
Book(e) ==
  /\ \A b \in booked : b.id # e.id
  /\ booked' = booked \cup {e}
  /\ UNCHANGED <<told, answered>>

Tell(e) ==
  /\ e \in booked \ told
  /\ told' = told \cup {e}
  /\ UNCHANGED <<booked, answered>>

Answer(e) ==
  /\ e \in told \ answered
  /\ answered' = answered \cup {e}
  /\ UNCHANGED <<booked, told>>

Next == \E e \in Entry : Book(e) \/ Tell(e) \/ Answer(e)

Spec == Init /\ [][Next]_vars
=============================================================================
