---------------------------- MODULE MCRwSpinlock ----------------------------
(* Three threads and tickets that wrap at four: the smallest modulus that    *)
(* the assumption allows, so that every reuse of a ticket value is met.      *)
EXTENDS RwSpinlock
CONSTANTS t1, t2, t3
MCThreads == {t1, t2, t3}
=============================================================================
