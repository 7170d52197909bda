----------------------------- MODULE NakRepair -----------------------------
(***************************************************************************)
(* The repair of lost packets of one source: the NAK state timers of       *)
(* pgm/receiver.c (pgm_check_peer_state and the three queue scans under    *)
(* it), the deadline sock->next_poll they and the packet handlers keep for *)
(* pgm_timer_check, and pgm/timer.c's dispatch for a receive-only socket.  *)
(*                                                                         *)
(*              back-off over, NAK         NCF or a peer's NAK             *)
(*    BACK_OFF ----------------> WAIT_NCF ------------> WAIT_DATA          *)
(*       ^ |                        |                     |  |             *)
(*       | `------------------------|---------------------'  |             *)
(*       `--------------------------+------------------------'             *)
(*                  no answer in time, fewer than the retries              *)
(*                                                                         *)
(* A queue lists sequence numbers, newest first: packets enter at the head *)
(* and timers are looked at from the tail.  Times are relative to now and  *)
(* stay at 0 once they are over, all that "now >= expiry" can tell; time   *)
(* may pass beyond them because dispatch waits for the application's next  *)
(* call.                                                                   *)
(*                                                                         *)
(* Left out: the ACK queue of PGMCC, parity NAKs, the expiry of the peer   *)
(* (Receiver has it) and a socket that may not send NAKs.                  *)
(***************************************************************************)
EXTENDS Rxw, SequencesExt

CONSTANTS
    Sent,           \* sequence numbers packets of the session carry
    Trails,         \* trailing edges the source advertises
    BoIvl,          \* nak_bo_ivl: a back-off is a random time below it
    RptIvl,         \* nak_rpt_ivl: how long to wait for an NCF
    RdataIvl,       \* nak_rdata_ivl: how long to wait for the data
    SpmrIvl,        \* spmr_expiry: how long to wait for a first SPM
    PeerExpiry,     \* peer_expiry: the longest time between two dispatches
    NcfRetries,     \* nak_ncf_retries
    DataRetries,    \* nak_data_retries
    NakListLen      \* sequence numbers of one NAK packet, 63

ASSUME ArrivalAssumption == Sent \subseteq Sqn /\ Trails \subseteq Sqn

ASSUME IntervalAssumption ==
    {BoIvl, RptIvl, RdataIvl, SpmrIvl, PeerExpiry,
     NcfRetries, DataRetries, NakListLen} \subseteq Nat \ {0} /\ BoIvl > 1

VARIABLES
    window,         \* the source's receive window
    queue,          \* nak_backoff_queue, wait_ncf_queue and wait_data_queue
    due,            \* timer_expiry of each slot
    tries,          \* ncf_retry_count and data_retry_count
    naks,           \* history: NAKs sent that name it since a try was counted
    next_poll,      \* sock->next_poll
    spmr,           \* spmr_expiry of the peer, or Off
    nla,            \* the source's address is known, from an SPM
    heard,          \* history: the rest of RdataIvl since a confirmation
    unsent          \* history: packets waiting for an NCF to a NAK never sent

repair == <<window, queue, due, tries, naks, heard, unsent>>

vars == <<repair, next_poll, spmr, nla>>

Off == -1

\* bound of the history naks, one more than a try may take
NakCap == 3

Untried == [ncf |-> 0, data |-> 0]

\* pgm_rxw_create
RxwCreate ==
    [lead |-> SqnMod - 1, trail |-> 0, commit_lead |-> 0,
     rxw_trail |-> 0, rxw_trail_init |-> 0,
     is_defined |-> FALSE, is_constrained |-> TRUE, has_event |-> FALSE,
     lost_count |-> 0, fragment_count |-> 0, committed_count |-> 0,
     cumulative_losses |-> 0,
     pdata |-> [i \in Slot |-> Free],
     abort |-> "none"]

\* pgm_new_peer
Init == /\ window = RxwCreate
        /\ queue = [st \in Recovering |-> <<>>]
        /\ due = [i \in Slot |-> 0]
        /\ tries = [i \in Slot |-> Untried]
        /\ naks = [i \in Slot |-> 0]
        /\ next_poll = (IF SpmrIvl < PeerExpiry THEN SpmrIvl ELSE PeerExpiry)
        /\ spmr = SpmrIvl
        /\ nla = FALSE
        /\ heard = [i \in Slot |-> 0]
        /\ unsent = {}

Running == window.abort = "none"

Sooner(s, t) == IF s < t THEN s ELSE t

-----------------------------------------------------------------------------
(***************************************************************************)
(* What the receive window does to the queues and timers.                  *)
(***************************************************************************)

\* sequence numbers of window w in recovery state st
InState(w, st) == {skb.sqn : skb \in {w.pdata[i] : i \in {j \in Slot : w.pdata[j].state = st}}}

NewestFirst(w, S) ==
    SetToSortSeq(S, LAMBDA s, t : Minus(s, w.trail) > Minus(t, w.trail))

\* _pgm_rxw_state and _pgm_rxw_unlink: who enters a state goes to the head of
\* its queue, in the order of the window's loops; who leaves is unlinked
Requeue(w) ==
    [st \in Recovering |->
        NewestFirst(w, InState(w, st) \ ToSet(queue[st]))
        \o SelectSeq(queue[st], LAMBDA s : Peek(w, s).sqn = s /\ StateAt(w, s) = st)]

\* slot i of w holds the placeholder it held before
SamePlaceholder(w, i) ==
    /\ {w.pdata[i].state, window.pdata[i].state} \subseteq Recovering
    /\ w.pdata[i].sqn = window.pdata[i].sqn

\* slots where w waits for the data of a confirmed packet s (if any)
Confirmed(w, s) ==
    {i \in Slot : /\ w.pdata[i].state = "WAIT_DATA"
                  /\ w.pdata[i].sqn = s \/ ~SamePlaceholder(w, i)}

\* Mutant: a confirmation moves the packet but does not restart its timer.
DueUnconfirmed(w, rb, confirmed) ==
    [i \in Slot |-> IF SamePlaceholder(w, i) THEN due[i]
                    ELSE IF w.pdata[i].state = "BACK_OFF" THEN rb ELSE 0]

\* timer_expiry of each slot when the window becomes w
DueIn(w, rb, confirmed) ==
    [i \in Slot |-> IF i \in confirmed THEN RdataIvl
                    ELSE IF SamePlaceholder(w, i) THEN due[i]
                    ELSE IF w.pdata[i].state = "BACK_OFF" THEN rb ELSE 0]

(***************************************************************************)
(* The window becomes w: new placeholders back off for rb, the confirmed   *)
(* ones wait for their data.                                               *)
(***************************************************************************)
Become(w, rb, confirmed) ==
    /\ window' = w
    /\ queue' = Requeue(w)
    /\ due' = DueIn(w, rb, confirmed)
    /\ tries' = [i \in Slot |-> IF SamePlaceholder(w, i) THEN tries[i] ELSE Untried]
    /\ naks' = [i \in Slot |-> IF SamePlaceholder(w, i) THEN naks[i] ELSE 0]
    /\ heard' = [i \in Slot |-> IF i \in confirmed THEN RdataIvl
                                ELSE IF SamePlaceholder(w, i) THEN heard[i]
                                ELSE 0]
    /\ unsent' = unsent \cap InState(w, "WAIT_NCF")

BackOffs == 1 .. (BoIvl - 1)    \* nak_rb_ivl

\* pgm_on_data
OnData ==
    /\ Running
    /\ \E p \in Tpdus, t \in Trails, rb \in BackOffs :
          LET added == Add(window, p, t)
          IN  /\ Become(added.window, rb, {})
              /\ next_poll' = IF added.status = "MISSING" THEN Sooner(next_poll, rb)
                                                          ELSE next_poll
    /\ UNCHANGED <<spmr, nla>>

\* the window w waits for packets it did not wait for before
AddsPlaceholders(w) ==
    \E i \in Slot : w.pdata[i].state = "BACK_OFF" /\ ~SamePlaceholder(w, i)

\* pgm_on_spm, for an SPM that is not a duplicate
OnSpm ==
    /\ Running
    /\ \E lead \in Sent, trail \in Trails, rb \in BackOffs :
          LET w == Update(window, lead, trail)
          IN  /\ Become(w, rb, {})
              /\ next_poll' = IF AddsPlaceholders(w) THEN Sooner(next_poll, rb)
                                                     ELSE next_poll
    /\ nla' = TRUE
    /\ spmr' = Off

\* pgm_on_ncf, for one sequence number
OnNcf ==
    /\ Running
    /\ \E s \in Sent, rb \in BackOffs :
          LET r == Confirm(window, s)
          IN  /\ Become(r.window, rb, Confirmed(r.window, s))
              /\ next_poll' = CASE r.status = "UPDATED"  -> Sooner(next_poll, RdataIvl)
                                [] r.status = "APPENDED" -> Sooner(next_poll, rb)
                                [] OTHER                 -> next_poll
    /\ UNCHANGED <<spmr, nla>>

\* pgm_on_peer_nak, for one sequence number: it leaves next_poll alone
OnPeerNak ==
    /\ Running
    /\ \E s \in Sent, rb \in BackOffs :
          LET w == Confirm(window, s).window
          IN  Become(w, rb, Confirmed(w, s))
    /\ UNCHANGED <<next_poll, spmr, nla>>

\* pgm_flush_peers_pending for this peer; release is its last_commit test
Flush ==
    /\ Running
    /\ \E release \in BOOLEAN :
          LET w == Readv(IF release THEN RemoveCommit(window) ELSE window)
          IN  Become([w EXCEPT !.cumulative_losses = 0], 0, {})
    /\ UNCHANGED <<next_poll, spmr, nla>>

-----------------------------------------------------------------------------
(***************************************************************************)
(* The timers.                                                             *)
(***************************************************************************)

\* the fields the scans change, as a record
Repair == [window |-> window, queue |-> queue, due |-> due, tries |-> tries,
           naks |-> naks, heard |-> heard, unsent |-> unsent]

Becomes(S) == /\ window' = S.window /\ queue' = S.queue /\ due' = S.due
              /\ tries' = S.tries /\ naks' = S.naks /\ heard' = S.heard /\ unsent' = S.unsent

\* how many packets at the tail of q have expired: where a scan stops
ExpiredCount(S, q) ==
    CHOOSE n \in 0 .. Len(q) :
        /\ \A k \in (Len(q) - n + 1) .. Len(q) : S.due[Idx(q[k])] = 0
        /\ n < Len(q) => S.due[Idx(q[Len(q) - n])] > 0

\* the last n packets of a queue
LastOf(q, n) == SubSeq(q, Len(q) - n + 1, Len(q))

Expired(S, st) == LastOf(S.queue[st], ExpiredCount(S, S.queue[st]))

Slots(q) == {Idx(s) : s \in ToSet(q)}

\* Mutant: a packet that changes its state keeps its link in the old queue.
WithoutNone(q, gone) == q

\* pgm_queue_unlink
Without(q, gone) == SelectSeq(q, LAMBDA s : s \notin ToSet(gone))

\* Mutant: the timer is not restarted.
NotRestarted(t, q, ivl) == t

\* timers t with those of the packets q set to ivl[slot]
Restarted(t, q, ivl) == [i \in Slot |-> IF i \in Slots(q) THEN ivl[i] ELSE t[i]]

\* Mutant: the try is not counted.
NotCounted(t, q, c) == t

\* counts t with field c of the packets q one higher
Counted(t, q, c) ==
    [i \in Slot |-> IF i \in Slots(q) THEN [t[i] EXCEPT ![c] = @ + 1] ELSE t[i]]

\* Mutant: one try too many.
OutOfTriesLate(n, limit) == n > limit

OutOfTries(n, limit) == n >= limit

\* pgm_rxw_state for packets q of queue from, which expire after ivl[slot]:
\* each goes to the head of its new queue, the tail first
Move(S, q, from, to, ivl) ==
    [S EXCEPT
      !.window.pdata = [i \in Slot |-> IF i \in Slots(q) THEN [@[i] EXCEPT !.state = to]
                                                         ELSE @[i]],
      !.queue[from] = Without(@, q),
      !.queue[to]   = q \o @,
      !.due = Restarted(@, q, ivl)]

\* pgm_rxw_lost for packets q of queue from
GiveUp(S, q, from) ==
    [S EXCEPT
      !.window = MarkLost(@, ToSet(q)),
      !.queue[from] = Without(@, q),
      !.due   = [i \in Slot |-> IF i \in Slots(q) THEN 0 ELSE @[i]],
      !.tries = [i \in Slot |-> IF i \in Slots(q) THEN Untried ELSE @[i]],
      !.naks  = [i \in Slot |-> IF i \in Slots(q) THEN 0 ELSE @[i]],
      !.heard = [i \in Slot |-> IF i \in Slots(q) THEN 0 ELSE @[i]],
      !.unsent = @ \ ToSet(q)]

\* the list sent last when q are NAKed: the others went out as full lists
LastList(q) == SubSeq(q, 1, Len(q) % NakListLen)

\* the packets that a NAK of one number names when q have been put on lists: of
\* a list of several that was sent, the first number is NAKed once more
NakedAlone(q) == IF Len(LastList(q)) > 1 THEN {Last(LastList(q))} ELSE {}

\* history n when NAKs naming the packets q are sent, once each and the ones
\* in twice another time
Naked(n, q, twice) ==
    [i \in Slot |-> LET again == IF \E s \in twice : Idx(s) = i THEN 2 ELSE 1
                    IN  IF i \in Slots(q) THEN Sooner(n[i] + again, NakCap) ELSE n[i]]

\* the packets q go from back-off to the wait for an NCF: sent were NAKed, the
\* ones in twice by a second NAK
SendNaks(S, q, sent, twice) ==
    [Move(S, q, "BACK_OFF", "WAIT_NCF", [i \in Slot |-> RptIvl]) EXCEPT
      !.naks = Naked(@, sent, twice),
      !.unsent = @ \cup (ToSet(q) \ ToSet(sent))]

\* nak_rb_state when no send blocks
NakRbState(S) ==
    LET q == Expired(S, "BACK_OFF")
    IN  IF nla THEN SendNaks(S, q, q, NakedAlone(q)) ELSE GiveUp(S, q, "BACK_OFF")

\* nak_rpt_state and nak_rdata_state: packets expired in queue st are counted
\* in field c, and given up at the limit or back off for rb[slot]
Retry(S, st, c, limit, rb) ==
    LET q       == Expired(S, st)
        counted == [S EXCEPT !.tries = Counted(@, q, c), !.unsent = @ \ ToSet(q)]
        lost    == SelectSeq(q, LAMBDA s : OutOfTries(counted.tries[Idx(s)][c], limit))
        asked   == [i \in Slot |-> IF counted.tries[i] = S.tries[i] THEN S.naks[i] ELSE 0]
    IN  IF nla THEN Move(GiveUp([counted EXCEPT !.naks = asked], lost, st),
                         Without(q, lost), st, "BACK_OFF", rb)
               ELSE GiveUp(S, q, st)

NakRptState(S, rb) == Retry(S, "WAIT_NCF", "ncf", NcfRetries, rb)

NakRdataState(S, rb) == Retry(S, "WAIT_DATA", "data", DataRetries, rb)

\* the tail of a queue: the packet its expiry is taken from
Tails(S) == {Last(S.queue[st]) : st \in {r \in Recovering : S.queue[r] # <<>>}}

\* pgm_min_receiver_expiry, with the peer expiry as the latest answer
MinReceiverExpiry(S, spmr_left) ==
    Min({PeerExpiry} \cup {S.due[Idx(s)] : s \in Tails(S)}
                     \cup ({spmr_left} \ {Off}))

\* pgm_timer_check
TimerExpired == next_poll = 0

\* spmr_expiry after the SPMR, if it was due, was sent
SpmrSent == IF spmr = 0 THEN Off ELSE spmr

\* pgm_timer_dispatch: all timers are served and the next deadline is set
Dispatch ==
    /\ Running /\ TimerExpired
    /\ \E rb \in [Slot -> BackOffs] :
          LET S == NakRdataState(NakRptState(NakRbState(Repair), rb), rb)
          IN  /\ Becomes(S)
              /\ next_poll' = MinReceiverExpiry(S, SpmrSent)
    /\ spmr' = SpmrSent
    /\ UNCHANGED nla

(***************************************************************************)
(* pgm_timer_dispatch when a NAK would block: the scan ends after n of its *)
(* packets, at a full list or at the end of the queue.  Either the last    *)
(* list is not sent, and its packets wait for an NCF all the same, or it   *)
(* is sent and the NAK that repeats its first number is not.  When it is   *)
(* the SPMR that would block, nothing changes.                             *)
(***************************************************************************)
DispatchBlocks ==
    /\ Running /\ TimerExpired /\ nla
    /\ LET q == Expired(Repair, "BACK_OFF")
       IN  \E n \in 1 .. Len(q) :
              /\ n % NakListLen = 0 \/ n = Len(q)
              /\ LET moved == LastOf(q, n)
                     list  == IF n % NakListLen = 0 THEN NakListLen ELSE n % NakListLen
                 IN  \/ Becomes(SendNaks(Repair, moved, LastOf(moved, n - list), {}))
                     \/ /\ NakedAlone(moved) # {}
                        /\ Becomes(SendNaks(Repair, moved, moved, {}))
    /\ spmr' = SpmrSent
    /\ UNCHANGED <<next_poll, nla>>

Elapse(t) == IF t > 0 THEN t - 1 ELSE t

\* time passes
Tick == /\ Running
        /\ due' = [i \in Slot |-> Elapse(due[i])]
        /\ heard' = [i \in Slot |-> Elapse(heard[i])]
        /\ next_poll' = Elapse(next_poll)
        /\ spmr' = Elapse(spmr)
        /\ UNCHANGED <<window, queue, tries, naks, unsent, nla>>

Next == \/ OnData \/ OnSpm \/ OnNcf \/ OnPeerNak \/ Flush
        \/ Dispatch \/ DispatchBlocks \/ Tick

Spec == Init /\ [][Next]_vars

(***************************************************************************)
(* Fairness, of an application with a non-blocking socket that goes on     *)
(* calling pgm_recvmsgv, also when nothing arrives: every call begins with *)
(* pgm_timer_check and the dispatch (recv.c:707), which ends with a        *)
(* deadline in the future unless a NAK would block, and no NAK is blocked  *)
(* for ever.  A blocking call guarantees nothing of the kind once it waits *)
(* (BlockingFairness).  Time passes.  Confirmations that keep coming       *)
(* without the data would postpone the retry each time; they come to an    *)
(* end.                                                                    *)
(***************************************************************************)
Fairness == /\ WF_vars(Tick) /\ []<>~TimerExpired
            /\ <>[][\A i \in Slot : heard'[i] <= heard[i]]_vars

FairSpec == Spec /\ Fairness

(***************************************************************************)
(* A blocking call that found nothing to read: wait_for_event returns      *)
(* EINTR only while no timer has expired (recv.c:623) and EAGAIN for       *)
(* packets, neither of which dispatches a timer that has.  So time passes  *)
(* and no dispatch is to be relied on.                                     *)
(***************************************************************************)
BlockingFairness == /\ WF_vars(Tick)
                    /\ <>[][\A i \in Slot : heard'[i] <= heard[i]]_vars

BlockingSpec == Spec /\ BlockingFairness

-----------------------------------------------------------------------------
(***************************************************************************)
(* Properties.                                                             *)
(***************************************************************************)

\* Fields have their types, and each queue lists the packets in its state once.
TypeOK ==
    /\ window \in Window
    /\ \A st \in Recovering : /\ IsInjective(queue[st])
                              /\ ToSet(queue[st]) = InState(window, st)
    /\ due \in [Slot -> 0 .. PeerExpiry]
    /\ tries \in [Slot -> [ncf : 0 .. NcfRetries, data : 0 .. DataRetries]]
    /\ naks \in [Slot -> 0 .. NakCap]
    /\ next_poll \in 0 .. PeerExpiry
    /\ spmr \in {Off} \cup 0 .. SpmrIvl
    /\ nla \in BOOLEAN
    /\ heard \in [Slot -> 0 .. RdataIvl]
    /\ unsent \subseteq InState(window, "WAIT_NCF")

Live(s) == Peek(window, s).sqn = s /\ StateAt(window, s) \in Recovering

(***************************************************************************)
(* NAKs are paid for by failed tries: for each NCF or repair that did not  *)
(* come, and for the first try, a lost packet is named by at most two of   *)
(* the NAKs sent (the second because nak_rb_state repeats the first number *)
(* of a list), whatever other receivers and the source confirm in between  *)
(* and whatever would block.  So a receiver asks fewer than 2 (NcfRetries  *)
(* + DataRetries) times for it.                                            *)
(***************************************************************************)
NaksBounded ==
    \A s \in Sqn : Live(s) =>
        /\ tries[Idx(s)].ncf < NcfRetries
        /\ tries[Idx(s)].data < DataRetries
        /\ naks[Idx(s)] <= IF StateAt(window, s) = "BACK_OFF" THEN 0 ELSE 2

(***************************************************************************)
(* NAK suppression: a packet some receiver's NAK or the source's NCF spoke *)
(* of is not NAKed until the source had RdataIvl to repair it.             *)
(***************************************************************************)
Suppressed ==
    [][\A s \in InState(window, "BACK_OFF") :
          s \in InState(window, "WAIT_NCF")' => heard[Idx(s)] = 0]_vars

(***************************************************************************)
(* A dispatch that is not blocked leaves a deadline in the future: no      *)
(* packet stays expired at a tail, so that a non-blocking application that *)
(* polls for pgm_timer_expiration sleeps between two dispatches.           *)
(***************************************************************************)
DispatchSettles == [][Dispatch => next_poll' > 0]_vars

(***************************************************************************)
(* Every lost packet is repaired, given up or purged, of an application    *)
(* that goes on calling a non-blocking socket: repair never hangs.         *)
(***************************************************************************)
RepairEnds == \A s \in Sent : Live(s) ~> ~Live(s)

(***************************************************************************)
(* What comments claim and the code does not keep (violation runs).        *)
(***************************************************************************)


\* "on expiration send a NAK": who waits for an NCF has had its NAK sent.
NakIsSent == unsent = {}

=============================================================================
