---------------------------- MODULE MCLifecycle ----------------------------
(* Two application threads, two sockets, one source and one administration   *)
(* thread.                                                                   *)
EXTENDS Lifecycle, TLC

CONSTANTS t1, t2, s1, s2, src, adm

MCThreads == {t1, t2}
MCSocks == {s1, s2}
MCSources == {src}
MCAdmins == {adm}
BothWays == {"wait", "dontwait"}
=============================================================================
