----------------------------- MODULE MCSession -----------------------------
(* Three packets through windows of two: the source purges the first, and one *)
(* or two packets are in the network at a time.                               *)
EXTENDS Session

=============================================================================
