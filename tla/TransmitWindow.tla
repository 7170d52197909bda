--------------------------- MODULE TransmitWindow ---------------------------
(***************************************************************************)
(* The transmit window and its retransmit queue (pgm/txw.c) with the two   *)
(* threads that share them: the sender (the send functions of source.c,    *)
(* under source_mutex) and the receiver (recv.c, under receiver_mutex),    *)
(* which queues repairs on NAKs and sends them as deferred NAKs.           *)
(*                                                                         *)
(* Only send_odata and pgm_send_skbv take a reference of their own to the  *)
(* skb they send; send_odata_copy, send_odatav, send_apdu and pgm_sendv    *)
(* hand their only one to the window, and its users count stays 1 while    *)
(* they transmit.                                                          *)
(*                                                                         *)
(* txw_spinlock covers pgm_txw_add and pgm_txw_retransmit_try_peek but     *)
(* not the push of a request nor pgm_txw_retransmit_remove_head, and the   *)
(* RDATA is sent between the last two with no lock: the atomic steps here  *)
(* are those calls.  (Interleavings inside an unlocked call are left out.) *)
(*                                                                         *)
(* Abstractions.  Payloads, headers and rate limits are left out: a send   *)
(* that would block is a repair handed back (RDataBlocked) or an original  *)
(* packet that stays in transit.  pkt_cnt_requested and pkt_cnt_sent are   *)
(* uint8_t in the code and wrap at CntMod here.  The assertions of txw.c   *)
(* are compiled in with TXW_DEBUG only; they check what TypeOK, OwnSlots   *)
(* and QueueIsWaiting say.                                                 *)
(***************************************************************************)
EXTENDS SerialNumbers, FiniteSets, SequencesExt

CONSTANTS
    Alloc,          \* window size in sequence numbers, window->alloc
    TgSize,         \* packets of a transmission group, rs_k = 2^tg_sqn_shift
    ProactiveH,     \* rs_proactive_h, 0 without pro-active parity
    CntMod,         \* 2^8, the range of the packet counts
    Naks,           \* requests receivers make: [sqn, is_parity]
    None            \* no packet

ASSUME AllocAssumption == Alloc \in Nat /\ Alloc > 0 /\ Alloc < SignBit

ASSUME GroupAssumption ==
    /\ TgSize \in Nat \ {0} /\ SqnMod % TgSize = 0
    /\ ProactiveH \in 0 .. (TgSize - 1)
    /\ CntMod \in Nat /\ CntMod > TgSize

ASSUME NakAssumption == Naks \subseteq [sqn : Sqn, is_parity : BOOLEAN]

ASSUME NoneAssumption == None \notin Sqn

VARIABLES
    lead, trail,    \* edges of the window
    pdata,          \* the skbs, by slot
    queue,          \* retransmit_queue, head first: sequence numbers of skbs
    transit,        \* the skb the sender is transmitting
    held,           \* the sender has a reference to it, users = 2
    rdata,          \* the repair the receiver thread is sending
    abort           \* where a NULL skb was dereferenced, or "none"

vars == <<lead, trail, pdata, queue, transit, held, rdata, abort>>

Slot == 0 .. (Alloc - 1)

Count == 0 .. (CntMod - 1)

\* an skb with its pgm_txw_state_t
Skb == [sqn : Sqn, waiting : BOOLEAN, requested : Count, sent : Count]

\* A repair: of a packet still in the window, of one that has left it, or
\* the parity packet built in parity_buffer.
Repair == [kind : {"selective", "purged", "parity"}, sqn : Sqn]

NoRepair == [kind |-> "none"]

-----------------------------------------------------------------------------
(***************************************************************************)
(* The window.                                                             *)
(***************************************************************************)

Idx(s) == s % Alloc

Length == Minus(Plus(1, lead), trail)

IsEmpty == Length = 0

\* Mutant: full only when one packet too many is in the window.
IsFullLate == Length > Alloc

IsFull == Length = Alloc

\* pgm_txw_peek returns an skb
InWindow(s) == ~IsEmpty /\ Gte(s, trail) /\ Lte(s, lead)

At(s) == pdata[Idx(s)]

\* the sequence numbers from trail to lead
Members == {s \in Sqn : Minus(s, trail) < Length}

\* leading packet of the transmission group of s
TgLead(s) == s - (s % TgSize)

\* every packet of the group has been sent and is in the window
GroupComplete(s) == \A k \in 0 .. (TgSize - 1) : InWindow(TgLead(s) + k)

\* Mutant: the packet leaves the window but not the retransmit queue.
QueueKeepsPurged == queue

\* retransmit_queue after pgm_txw_remove_tail, which unlinks the skb of the trail
QueueWithoutTrail ==
    IF At(trail).waiting
    THEN RemoveAt(queue, CHOOSE i \in DOMAIN queue : queue[i] = trail)
    ELSE queue

\* the repair being sent keeps its skb alive when the window lets it go
RepairWithoutTrail ==
    IF rdata # NoRepair /\ rdata.kind = "selective" /\ rdata.sqn = trail
    THEN [rdata EXCEPT !.kind = "purged"] ELSE rdata

-----------------------------------------------------------------------------
(***************************************************************************)
(* pgm_txw_retransmit_push: the skb that answers the request, and whether  *)
(* the request is eliminated.                                              *)
(***************************************************************************)

\* the new queue and window are assigned here for an skb with the key s
Enqueue(s, skb) == /\ queue' = <<s>> \o queue
                   /\ pdata' = [pdata EXCEPT ![Idx(s)] = [skb EXCEPT !.waiting = TRUE]]

PushSelective(s) ==
    IF InWindow(s) /\ ~At(s).waiting
    THEN Enqueue(s, At(s))
    ELSE UNCHANGED <<queue, pdata>>

\* n = group leader | packet count
PushParity(n) ==
    LET s   == TgLead(n)
        cnt == n % TgSize
    IN  CASE ~InWindow(s) -> UNCHANGED <<queue, pdata>>
          [] InWindow(s) /\ ~At(s).waiting ->
                Enqueue(s, [At(s) EXCEPT !.requested = (@ + 1) % CntMod])
          [] OTHER ->
                /\ pdata' = IF At(s).requested < cnt
                            THEN [pdata EXCEPT ![Idx(s)].requested = cnt] ELSE pdata
                /\ UNCHANGED queue

-----------------------------------------------------------------------------
Running == abort = "none"

\* pgm_txw_create
Init == /\ lead = SqnMod - 1
        /\ trail = 0
        /\ pdata = [i \in Slot |-> [sqn |-> 0, waiting |-> FALSE,
                                    requested |-> 0, sent |-> 0]]
        /\ queue = <<>>
        /\ transit = None
        /\ held = FALSE
        /\ rdata = NoRepair
        /\ abort = "none"

(***************************************************************************)
(* Sender.                                                                 *)
(***************************************************************************)

\* a send function up to pgm_txw_add, under txw_spinlock; some take their own
\* reference to the skb before
AddOData ==
    LET s == Plus(1, lead)
    IN  /\ Running /\ transit = None
        /\ IF IsFull
           THEN queue' = QueueWithoutTrail /\ rdata' = RepairWithoutTrail
                /\ trail' = Plus(1, trail)
           ELSE UNCHANGED <<queue, rdata, trail>>
        /\ lead' = s
        /\ pdata' = [pdata EXCEPT ![Idx(s)] =
               [sqn |-> s, waiting |-> FALSE, requested |-> 0, sent |-> 0]]
        /\ transit' = s
        /\ held' \in BOOLEAN
        /\ UNCHANGED abort

\* the packet is accepted by the network: schedule pro-active parity at the
\* end of a group, drop the reference if there is one
ODataSent ==
    /\ Running /\ transit # None
    /\ IF ProactiveH > 0 /\ (transit + 1) % TgSize = 0
       THEN PushParity(TgLead(transit) + ProactiveH)
       ELSE UNCHANGED <<queue, pdata>>
    /\ transit' = None
    /\ held' = FALSE
    /\ UNCHANGED <<lead, trail, rdata, abort>>

(***************************************************************************)
(* Receiver thread.                                                        *)
(***************************************************************************)

\* pgm_on_nak for one sequence number of its list.  A receiver only asks
\* for parity of a group before the current one (receiver.c:1536), and never
\* for the number half the sequence space away, which serial comparison puts
\* both before and after a window of one packet.
OnNak ==
    /\ Running /\ rdata = NoRepair /\ ~IsEmpty
    /\ \E n \in Naks :
          /\ Minus(n.sqn, lead) # SignBit
          /\ IF n.is_parity
             THEN GroupComplete(n.sqn) /\ PushParity(n.sqn)
             ELSE PushSelective(n.sqn)
    /\ UNCHANGED <<lead, trail, transit, held, rdata, abort>>

\* Mutant: the user count is not looked at.
TailReadyInTransit == queue # <<>>

\* the request at the tail can be served: it has one user, the window
TailReady == queue # <<>> /\ ~(held /\ Last(queue) = transit)

\* pgm_on_deferred_nak, pgm_txw_retransmit_try_peek under txw_spinlock
PeekRequest ==
    /\ Running /\ rdata = NoRepair /\ TailReady
    /\ LET s == Last(queue)
       IN  IF At(s).requested = 0
           THEN rdata' = [kind |-> "selective", sqn |-> s] /\ UNCHANGED abort
           ELSE IF GroupComplete(s)
           THEN rdata' = [kind |-> "parity", sqn |-> s] /\ UNCHANGED abort
           ELSE abort' = "try_peek" /\ UNCHANGED rdata
    /\ UNCHANGED <<lead, trail, pdata, queue, transit, held>>

\* send_rdata would block or is rate limited: the request stays queued
RDataBlocked ==
    /\ Running /\ rdata # NoRepair /\ rdata' = NoRepair
    /\ UNCHANGED <<lead, trail, pdata, queue, transit, held, abort>>

\* Mutant: the count of parity packets sent is not kept.
AfterSendUncounted(skb) == skb

\* the state of the tail skb once a repair was sent for it
AfterSend(skb) ==
    IF skb.requested = 0 THEN skb ELSE [skb EXCEPT !.sent = (@ + 1) % CntMod]

\* send_rdata succeeded; pgm_txw_retransmit_remove_head, without a lock,
\* takes whatever is at the tail of the queue by now
RemoveRequest ==
    /\ Running /\ rdata # NoRepair
    /\ rdata' = NoRepair
    /\ IF queue = <<>>
       THEN abort' = "remove_head" /\ UNCHANGED <<queue, pdata>>
       ELSE LET s    == Last(queue)
                skb  == AfterSend(At(s))
                done == skb.requested = 0 \/ skb.sent = skb.requested
            IN  /\ queue' = IF done THEN Front(queue) ELSE queue
                /\ pdata' = [pdata EXCEPT ![Idx(s)] = [skb EXCEPT !.waiting = ~done]]
                /\ UNCHANGED abort
    /\ UNCHANGED <<lead, trail, transit, held>>

Next == AddOData \/ ODataSent \/ OnNak \/ PeekRequest \/ RDataBlocked \/ RemoveRequest

(***************************************************************************)
(* The application keeps calling recv and retries an interrupted send, and *)
(* a repair that is tried again and again is accepted in the end: the rate *)
(* limiters refill and the socket buffer drains.                           *)
(***************************************************************************)
Fairness == WF_vars(ODataSent) /\ WF_vars(PeekRequest) /\ SF_vars(RemoveRequest)

Spec == Init /\ [][Next]_vars

FairSpec == Spec /\ Fairness

-----------------------------------------------------------------------------
(***************************************************************************)
(* Properties.                                                             *)
(***************************************************************************)

\* Every field stays within its C type, the window within its array.
TypeOK ==
    /\ lead \in Sqn /\ trail \in Sqn /\ Length <= Alloc
    /\ pdata \in [Slot -> Skb]
    /\ queue \in Seq(Sqn)
    /\ transit \in Sqn \cup {None}
    /\ held \in BOOLEAN
    /\ rdata \in Repair \cup {NoRepair}
    /\ abort \in {"none", "remove_head", "try_peek"}

\* Every sequence number between the edges selects the slot of its own skb.
OwnSlots == \A s \in Members : At(s).sqn = s

(***************************************************************************)
(* The retransmit queue holds each packet that waits for its repair, once, *)
(* and no other: the elimination of repeated NAKs relies on the flag and   *)
(* the link agreeing, although one thread purges packets while the other   *)
(* queues and serves requests.                                             *)
(***************************************************************************)
QueueIsWaiting ==
    /\ IsInjective(queue)
    /\ ToSet(queue) = {s \in Members : At(s).waiting}

(***************************************************************************)
(* A send that holds a reference of its own (send_odata, pgm_send_skbv)    *)
(* has its packet to itself: no repair is built from it, for which         *)
(* send_rdata rewrites the header, although the window changes, the queue  *)
(* turns over and a NAK may ask for the packet before it was ever sent.    *)
(* The other send functions have no such protection (OnlySentRepaired).    *)
(***************************************************************************)
HeldNotRepaired ==
    (rdata # NoRepair /\ rdata.kind = "selective") => ~(held /\ rdata.sqn = transit)

\* A parity request is only served with all packets of its group at hand.
GroupAtHand == abort # "try_peek"

(***************************************************************************)
(* A queued request does not stay for ever: it is served or its packet     *)
(* leaves the window (or the receiver thread has crashed).                 *)
(***************************************************************************)
RequestLeaves ==
    \A s \in Sqn : (s \in ToSet(queue)) ~> (s \notin ToSet(queue) \/ ~Running)

(***************************************************************************)
(* What comments claim and the code does not keep (violation runs).        *)
(***************************************************************************)

\* "the transmit window MUST check the user count to ensure it does not attempt
\* to send a repair-data packet based on in transit original data."
OnlySentRepaired ==
    (rdata # NoRepair /\ rdata.kind = "selective") => rdata.sqn # transit

\* "tail link is valid without lock": there is a request to remove.
TailLinkValid == abort # "remove_head"

\* "remove if all requested parity packets have been sent": never more.
SentWithinRequested ==
    \A s \in Members : At(s).waiting => At(s).sent <= At(s).requested

=============================================================================
