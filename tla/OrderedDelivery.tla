--------------------------- MODULE OrderedDelivery ---------------------------
(***************************************************************************)
(* What a receiver is promised about one source: whole APDUs in sequence   *)
(* order, each at most once, and no gap without a notice.  next is the     *)
(* next sequence number the application can be given and lossy holds when  *)
(* a loss notice is due.                                                   *)
(***************************************************************************)
EXTENDS SerialNumbers

CONSTANT Apdus              \* the APDUs of the source: [first, len]

VARIABLES joined, next, lossy

vars == <<joined, next, lossy>>

Init == joined = FALSE /\ next \in Sqn /\ lossy = FALSE

\* The first packet heard from the source fixes where delivery starts.
Join == /\ ~joined
        /\ joined' = TRUE
        /\ next' \in Sqn
        /\ lossy' \in BOOLEAN

\* One complete APDU, starting exactly where the previous one ended.
Deliver == /\ joined
           /\ \E a \in Apdus : next = a.first /\ next' = Plus(next, a.len)
           /\ lossy' \in {lossy, TRUE}
           /\ UNCHANGED joined

\* Sequence numbers are given up; the application will be told.
Lose == /\ joined
        /\ next' \in Sqn
        /\ lossy' = TRUE
        /\ UNCHANGED joined

\* The application is told of the loss.
Notify == lossy /\ lossy' = FALSE /\ UNCHANGED <<joined, next>>

Next == Join \/ Deliver \/ Lose \/ Notify

Spec == Init /\ [][Next]_vars

=============================================================================
