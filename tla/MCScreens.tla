------------------------------ MODULE MCScreens -----------------------------
(* Screens with one app, of either kind, against any of the servers: the    *)
(* other apps are the commands that come from elsewhere.                    *)
EXTENDS Screens

CONSTANTS r101, s1
=============================================================================
