---------------------------- MODULE ReceiveWindow ----------------------------
(***************************************************************************)
(* The receive window of one source under everything that can happen to    *)
(* it: arriving data, SPMs and NAK confirmations in any order, the repair  *)
(* timers, and an application that reads, keeps the committed buffers for  *)
(* a while and is told of losses.  The callers' conditions that do not     *)
(* concern the window are left open here and modelled in Receiver.         *)
(***************************************************************************)
EXTENDS Rxw

CONSTANTS
    Sent,           \* sequence numbers packets of the session carry
    Trails          \* trailing edges the source advertises

ASSUME ArrivalAssumption == Sent \subseteq Sqn /\ Trails \subseteq Sqn

VARIABLES window,
          is_reset      \* a loss notice is due to the application

vars == <<window, is_reset>>

\* pgm_rxw_create
RxwCreate ==
    [lead |-> SqnMod - 1, trail |-> 0, commit_lead |-> 0,
     rxw_trail |-> 0, rxw_trail_init |-> 0,
     is_defined |-> FALSE, is_constrained |-> TRUE, has_event |-> FALSE,
     lost_count |-> 0, fragment_count |-> 0, committed_count |-> 0,
     cumulative_losses |-> 0,
     pdata |-> [i \in Slot |-> Free],
     abort |-> "none"]

Init == window = RxwCreate /\ is_reset = FALSE

Running == window.abort = "none"

\* on_data: ODATA or RDATA
OnData == /\ Running
          /\ \E p \in Tpdus, t \in Trails : window' = Add(window, p, t).window
          /\ UNCHANGED is_reset

\* on_spm
OnSpm == /\ Running
         /\ \E lead \in Sent, trail \in Trails :
               window' = Update(window, lead, trail)
         /\ UNCHANGED is_reset

\* on_ncf
OnNcf == /\ Running
         /\ \E s \in Sent : window' = Confirm(window, s).window
         /\ UNCHANGED is_reset

\* the back-off interval of a placeholder ends, a NAK is sent
NakRbExpiry == /\ Running
               /\ \E s \in Incoming(window) :
                     /\ StateAt(window, s) = "BACK_OFF"
                     /\ window' = SetState(window, s, "WAIT_NCF")
               /\ UNCHANGED is_reset

\* no NCF, or no data, in time: back off again
NakRetry == /\ Running
            /\ \E s \in Incoming(window) :
                  /\ StateAt(window, s) \in {"WAIT_NCF", "WAIT_DATA"}
                  /\ window' = SetState(window, s, "BACK_OFF")
            /\ UNCHANGED is_reset

\* the retries are exhausted, or the source has no valid address
NakCancel == /\ Running
             /\ \E s \in Incoming(window) :
                   /\ StateAt(window, s) \in Recovering
                   /\ window' = Lost(window, s)
             /\ UNCHANGED is_reset

\* pgm_flush_peers_pending for this peer; release is its last_commit test
Flush == /\ Running /\ ~is_reset
         /\ \E release \in BOOLEAN :
               LET w == Readv(IF release THEN RemoveCommit(window) ELSE window)
               IN  /\ window'   = [w EXCEPT !.cumulative_losses = 0]
                   /\ is_reset' = (w.cumulative_losses # 0)

\* pgm_recvmsgv reports the loss
ReportReset == /\ Running /\ is_reset
               /\ is_reset' = FALSE
               /\ UNCHANGED window

Next == \/ OnData \/ OnSpm \/ OnNcf
        \/ NakRbExpiry \/ NakRetry \/ NakCancel
        \/ Flush \/ ReportReset

Spec == Init /\ [][Next]_vars

-----------------------------------------------------------------------------
(***************************************************************************)
(* Properties.                                                             *)
(***************************************************************************)

\* The window's fields stay within their C types.
TypeOK == window \in Window /\ is_reset \in BOOLEAN

(***************************************************************************)
(* The sections of the window stay in order and every sequence number of   *)
(* the window finds its own skb, committed exactly below commit_lead: what *)
(* every lookup in rxw.c takes for granted (_pgm_rxw_peek and its          *)
(* callers' NULL != skb assertions), through wrapping, purging and jumps.  *)
(***************************************************************************)
RingConsistent ==
    /\ SectionsOK(window)
    /\ \A s \in Sqn : Minus(s, window.trail) < Length(window) => SlotOK(window, s)

\* The counters of pgm_rxw_t are the numbers of slots in their state.
CountersMatch ==
    LET Slots(st) == {i \in Slot : window.pdata[i].state = st}
    IN  window.abort = "none" =>
        /\ window.fragment_count  = Cardinality(Slots("HAVE_DATA"))
        /\ window.lost_count      = Cardinality(Slots("LOST_DATA"))
        /\ window.committed_count = Cardinality(Slots("COMMIT_DATA"))

\* The only assertion of rxw.c that can fail is the one in pgm_rxw_lost.
OnlyLostAborts == window.abort \in {"none", "lost"}

(***************************************************************************)
(* What the assertions claim and the code does not keep (violation runs).  *)
(***************************************************************************)

\* pgm_rxw_lost is only called for a sequence number that can still be lost.
LostOnlyOnce == window.abort # "lost"

\* The commit leading edge never stands on data that was already committed.
NothingReadTwice == window.abort # "readv"

(***************************************************************************)
(* Buffers the application still holds stay where they are, whatever       *)
(* arrives or expires: only the application's next read releases them.     *)
(***************************************************************************)
CommittedKept ==
    [][~Flush => \A i \in Slot : window.pdata[i].state = "COMMIT_DATA"
                                  => window'.pdata[i] = window.pdata[i]]_vars

\* The window implements ordered, gap-announcing delivery of whole APDUs.
Delivery == INSTANCE OrderedDelivery WITH
    Apdus  <- {[first |-> p.first, len |-> p.len] : p \in Tpdus},
    joined <- window.is_defined,
    next   <- window.commit_lead,
    lossy  <- is_reset \/ window.cumulative_losses # 0

DeliversInOrder == Delivery!Spec

=============================================================================
