----------------------------- MODULE MCReceiver -----------------------------
(***************************************************************************)
(* Instances of Receiver, with APDUs around the wrap of the sequence       *)
(* numbers.                                                                *)
(***************************************************************************)
EXTENDS Receiver

\* single-packet APDUs
Singles(S) == {[sqn |-> s, first |-> s, len |-> 1] : s \in S}

\* two sources of three packets; SPMs and NCFs name the number before the first
\* packet or the last one
TwoSent == {15, 2}
TwoTpdus == Singles({0, 1, 2})

\* one source of four packets
OneSent == {14, 15, 0, 1}
OneTpdus == Singles(OneSent)

\* the peers are interchangeable
PeerSymmetry == Permutations(Peers)
=============================================================================
