------------------------------- MODULE MCTimer -------------------------------
(* Three heartbeats that decay, and an ambient interval longer than they are. *)
EXTENDS Timer, TLC

Decaying == <<1, 2, 3>>
=============================================================================
