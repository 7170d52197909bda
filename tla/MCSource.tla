------------------------------ MODULE MCSource ------------------------------
(* Three messages of one to three fragments, each sent by any of the calls    *)
(* that may carry it, and groups of two packets.                             *)
EXTENDS Source, TLC

CONSTANTS t1, t2, a, b, c

MCThreads == {t1, t2}
MCApdus == {a, b, c}
MCFragments == (a :> 1) @@ (b :> 2) @@ (c :> 3)

One(op, m) == [op |-> op, vec |-> <<m>>]

MCCalls ==
    {One(op, a) : op \in Single} \cup {One(op, m) : op \in Pieces, m \in {b, c}}
    \cup {[op |-> "vector", vec |-> v] : v \in {<<a, b>>, <<b, c>>}}

\* only vectors of messages
VectorCalls == {[op |-> "vector", vec |-> v] : v \in {<<a, b>>, <<b, c>>, <<c>>}}
=============================================================================
