-------------------------- MODULE MCTransmitWindow --------------------------
(***************************************************************************)
(* Instances of TransmitWindow: two transmission groups of two packets fit *)
(* the window, sequence numbers wrap after two windows.                    *)
(***************************************************************************)
EXTENDS TransmitWindow

\* requests for any packet but two, and parity requests for two groups
MixedNaks == [sqn : Sqn \ {6, 7}, is_parity : {FALSE}]
             \cup [sqn : {0, 1, 6, 7}, is_parity : {TRUE}]
=============================================================================
