--------------------------- MODULE MCReceiveWindow ---------------------------
(***************************************************************************)
(* Instances of ReceiveWindow.  The source's APDU layout is fixed: each    *)
(* sequence number is a TPDU of one APDU of the layout.                    *)
(***************************************************************************)
EXTENDS ReceiveWindow

\* an APDU of n fragments starting at s
Fragments(s, n) == {[sqn |-> Plus(s, k), first |-> s, len |-> n] : k \in 0 .. (n - 1)}

\* a session across the wrap of a 16-number space: 13, 14-15, 0, 1-2
WrapTpdus == Fragments(13, 1) \cup Fragments(14, 2) \cup Fragments(0, 1) \cup Fragments(1, 2)

\* single packets around the wrap, for a window size that does not divide 16
OddTpdus == UNION {Fragments(s, 1) : s \in {14, 15, 0, 1}}

WrapSent == {p.sqn : p \in WrapTpdus}
=============================================================================
