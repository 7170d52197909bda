---------------------------- MODULE MCNakRepair ----------------------------
(***************************************************************************)
(* Instances of NakRepair: a session of single packets across the wrap of  *)
(* the sequence numbers.                                                   *)
(***************************************************************************)
EXTENDS NakRepair

Single(s) == [sqn |-> s, first |-> s, len |-> 1]

WrapSent == {14, 15, 0}

WrapTpdus == {Single(s) : s \in WrapSent}
=============================================================================
