----------------------------- MODULE MCCongestion -----------------------------
(* A bitmap shorter than the numbers sent, and two ACKs that may overtake.    *)
EXTENDS Congestion, TLC
=============================================================================
