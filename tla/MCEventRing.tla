---------------------------- MODULE MCEventRing ----------------------------
(* TLC instance of EventRing: two connection threads race each other and    *)
(* the game thread on a ring of four slots, so that it wraps and fills.     *)
EXTENDS EventRing
=============================================================================
