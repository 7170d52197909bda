------------------------------ MODULE Receiver ------------------------------
(***************************************************************************)
(* pgm_recvmsgv (pgm/recv.c) and the part of pgm/receiver.c that connects  *)
(* the receive windows of the peers to the application: the pending list,  *)
(* the release of committed buffers, the loss notice and the wake-up of    *)
(* the application.  The socket is non-blocking and level-triggered.       *)
(*                                                                         *)
(* A call is a series of steps: RecvBegin; the timers (phase "timers");    *)
(* RecvFlush, which flushes what earlier calls left; packets, each handled *)
(* and flushed in turn (phase "packets"); and the return.  The receiver    *)
(* mutex is held throughout, and the application's own steps are the       *)
(* moments between calls (phase "out").                                    *)
(*                                                                         *)
(* Abstractions.  A window's cumulative_losses is relative to the peer's   *)
(* last_cumulative_losses (see Rxw).  peer->last_commit is compared with   *)
(* zero and with the socket's last_commit only: it is "zero", "now" (the   *)
(* current call) or "before".  The recovery states a placeholder goes      *)
(* through while it waits are those of ReceiveWindow; here the only timer  *)
(* is the one that gives up.                                               *)
(***************************************************************************)
EXTENDS Rxw, SequencesExt

CONSTANTS
    Peers,
    MsgLen,         \* messages the application's vector holds
    Sent,           \* sequence numbers packets of the sessions carry
    Trails          \* trailing edges the sources advertise

ASSUME VectorAssumption == MsgLen \in Nat \ {0}

ASSUME ArrivalAssumption == Sent \subseteq Sqn /\ Trails \subseteq Sqn

VARIABLES
    window,             \* receive window of each peer
    last,               \* last_commit of each peer
    pending,            \* peers_pending, head first
    is_reset,           \* a loss notice is due
    is_pending_read,    \* the pending notification is signalled
    phase,              \* where the call is, "out" between calls
    room,               \* messages the vector can still take
    data_read,          \* some peer delivered in this call
    handed,             \* history: what each peer handed over in this call
    losers              \* history: the peers whose losses the notice stands for
                        \* that is due, or that the last call gave

sock == <<window, last, pending, is_reset, room, data_read, handed, losers>>

vars == <<sock, is_pending_read, phase>>

\* pgm_rxw_create
RxwCreate ==
    [lead |-> SqnMod - 1, trail |-> 0, commit_lead |-> 0,
     rxw_trail |-> 0, rxw_trail_init |-> 0,
     is_defined |-> FALSE, is_constrained |-> TRUE, has_event |-> FALSE,
     lost_count |-> 0, fragment_count |-> 0, committed_count |-> 0,
     cumulative_losses |-> 0,
     pdata |-> [i \in Slot |-> Free],
     abort |-> "none"]

\* the socket as the functions below see it; stop tells a flush that ended at a
\* full vector or a loss from one that emptied the list
Sock == [window |-> window, last |-> last, pending |-> pending,
         is_reset |-> is_reset, room |-> room, data_read |-> data_read,
         handed |-> handed, losers |-> losers, stop |-> FALSE]

Become(S) == /\ window' = S.window /\ last' = S.last /\ pending' = S.pending
             /\ is_reset' = S.is_reset /\ room' = S.room
             /\ data_read' = S.data_read /\ handed' = S.handed /\ losers' = S.losers

-----------------------------------------------------------------------------
(***************************************************************************)
(* Pending peers.                                                          *)
(***************************************************************************)

\* pgm_peer_set_pending
SetPending(S, p) ==
    IF p \in ToSet(S.pending) THEN S ELSE [S EXCEPT !.pending = <<p>> \o @]

\* a loss of peer p becomes the loss notice to give (lost_count, last_cumulative_losses)
SetReset(S, p) == [S EXCEPT !.is_reset = TRUE, !.losers = @ \cup {p},
                            !.window[p].cumulative_losses = 0]

\* the end of the SPM, NCF and NAK handlers: a loss marks the peer pending
\* unless it already is
NoticeLoss(S, p) ==
    IF S.window[p].cumulative_losses # 0 /\ p \notin ToSet(S.pending)
    THEN SetPending(SetReset(S, p), p) ELSE S

\* pgm_peer_has_pending and its caller
NoticeEvent(S, p) ==
    IF S.window[p].has_event /\ p \notin ToSet(S.pending)
    THEN SetPending([S EXCEPT !.window[p].has_event = FALSE], p) ELSE S

-----------------------------------------------------------------------------
(***************************************************************************)
(* pgm_flush_peers_pending.                                                *)
(***************************************************************************)

\* pgm_rxw_readv looks at the head of the incoming window once, and goes on
\* only from data to data (_pgm_rxw_incoming_read)
ReadsOn(w, k) == k = 1 \/ (~IncomingIsEmpty(w) /\ StateAt(w, w.commit_lead) = "HAVE_DATA")

\* the read so far and the window after one more turn
Taken(r, w) == IF w.committed_count > r.window.committed_count
               THEN [r EXCEPT !.window = w, !.read = @ + 1]
               ELSE [r EXCEPT !.window = w, !.more = FALSE]

\* the k-th turn
ReadMore(r, k) == IF r.more /\ ReadsOn(r.window, k) THEN Taken(r, Readv(r.window)) ELSE r

\* pgm_rxw_readv with room for n messages: the window and how many were read
ReadMessages(w, n) ==
    FoldLeft(ReadMore, [window |-> w, read |-> 0, more |-> TRUE], [k \in 1 .. n |-> k])

\* Mutant: buffers of the current call are released as well.
ReleasableEarly(S, p) == S.last[p] # "zero"

\* peer->last_commit && peer->last_commit < sock->last_commit
Releasable(S, p) == S.last[p] = "before"

Committed(w) == {s \in Sqn : Minus(s, w.trail) < CommitLength(w)}

\* buffers of an earlier call are released before reading
Released(S, p) == IF Releasable(S, p) THEN RemoveCommit(S.window[p]) ELSE S.window[p]

\* a read r of peer p enters the vector
AfterRead(S, p, r) ==
    [S EXCEPT !.window[p] = r.window, !.room = @ - r.read,
              !.data_read = @ \/ r.read > 0,
              !.last[p] = IF r.read > 0 THEN "now" ELSE "zero",
              !.handed[p] = @ \cup (Committed(r.window) \ Committed(S.window[p]))]

AfterLoss(S, p) == IF S.window[p].cumulative_losses # 0 THEN SetReset(S, p) ELSE S

\* Mutant: the peer leaves the list before the loss is looked at.
PopsFirst(S) == [S EXCEPT !.pending = Tail(@), !.stop = S.room = 0 \/ S.is_reset]

\* a full vector or a loss ends the loop with the peer still at the head
PopUnlessStopped(S) ==
    IF S.room = 0 \/ S.is_reset THEN [S EXCEPT !.stop = TRUE] ELSE [S EXCEPT !.pending = Tail(@)]

\* one turn of the loop, for the peer at the head of the list
FlushPeer(S, p) ==
    IF S.stop THEN S
    ELSE PopUnlessStopped(AfterLoss(AfterRead(S, p, ReadMessages(Released(S, p), S.room)), p))

FlushPending(S) == FoldLeft(FlushPeer, S, S.pending)

-----------------------------------------------------------------------------
Running == \A p \in Peers : window[p].abort = "none"

Init == /\ window = [p \in Peers |-> RxwCreate]
        /\ last = [p \in Peers |-> "zero"]
        /\ pending = <<>>
        /\ is_reset = FALSE
        /\ is_pending_read = FALSE
        /\ phase = "out"
        /\ room = MsgLen
        /\ data_read = FALSE
        /\ handed = [p \in Peers |-> {}]
        /\ losers = {}

(***************************************************************************)
(* The end of a call: the label out of pgm_recvmsgv.  A loss is reported   *)
(* if nothing was read, else by the next call.                             *)
(***************************************************************************)
Return(S) ==
    /\ Become(IF S.data_read THEN S ELSE [S EXCEPT !.is_reset = FALSE])
    /\ is_pending_read' = (S.data_read /\ (S.pending # <<>> \/ is_pending_read))
    /\ phase' = "out"

\* a call starts by reporting the loss the previous one found, and returns
RecvReset == /\ Running /\ phase = "out" /\ is_reset
             /\ is_reset' = FALSE
             /\ UNCHANGED <<window, last, pending, room, data_read, handed, losers,
                            is_pending_read, phase>>

\* a call goes on to the timers
RecvBegin == /\ Running /\ phase = "out" /\ ~is_reset
             /\ phase' = "timers"
             /\ handed' = [p \in Peers |-> {}]
             /\ room' = MsgLen
             /\ data_read' = FALSE
             /\ losers' = {}
             /\ UNCHANGED <<window, last, pending, is_reset, is_pending_read>>

\* the placeholders of peer p whose timer may expire
Repairing(p) == {s \in Incoming(window[p]) : StateAt(window[p], s) \in Recovering}

\* nak_rpt_state, nak_rdata_state: the retries are exhausted, cancel_skb (or
\* nak_rb_state, the source's address is not known); the peer is pending by
\* the time the function looks for losses, which are left to the flush
NakCancel ==
    /\ Running /\ phase = "timers"
    /\ \E p \in Peers : \E s \in Repairing(p) :
          Become(NoticeLoss(SetPending([Sock EXCEPT !.window[p] = Lost(@, s)], p), p))
    /\ UNCHANGED <<is_pending_read, phase>>

\* nak_rpt_state, nak_rdata_state have only repairs to try again: they end by
\* noticing a loss that was found before
NakRetry ==
    /\ Running /\ phase = "timers"
    /\ \E p \in Peers : Repairing(p) # {} /\ Become(NoticeLoss(Sock, p))
    /\ UNCHANGED <<is_pending_read, phase>>

\* pgm_check_peer_state: nothing was heard of the peer for peer_expiry, and
\* it is neither pending nor holds committed buffers
PeerExpiry ==
    /\ Running /\ phase = "timers"
    /\ \E p \in Peers \ ToSet(pending) :
          /\ window[p].is_defined /\ window[p].committed_count = 0
          /\ window' = [window EXCEPT ![p] = RxwCreate]
          /\ last' = [last EXCEPT ![p] = "zero"]
    /\ UNCHANGED <<pending, is_reset, room, data_read, handed, losers, is_pending_read, phase>>

\* the end of pgm_check_peer_state, unless it gave up on a NAK it could not send
ProdReader ==
    /\ Running /\ phase = "timers"
    /\ pending # <<>> /\ ~is_pending_read
    /\ is_pending_read' = TRUE
    /\ UNCHANGED <<sock, phase>>

\* count the call (++last_commit) and flush what earlier calls left
RecvFlush ==
    /\ Running /\ phase = "timers"
    /\ LET S == FlushPending([Sock EXCEPT
                   !.last = [p \in Peers |-> IF @[p] = "now" THEN "before" ELSE @[p]]])
       IN  IF S.stop THEN Return(S)
           ELSE Become(S) /\ phase' = "packets" /\ UNCHANGED is_pending_read

\* what follows a packet that was not discarded
Handled(S, p) ==
    LET flushed == FlushPending(NoticeEvent(S, p))
    IN  IF flushed.stop THEN Return(flushed)
        ELSE Become(flushed) /\ UNCHANGED <<is_pending_read, phase>>

\* a packet that was discarded after it changed the window: pgm_recvmsgv goes
\* on with the next one (recv_again), without a flush
Discarded(S) == Become(S) /\ UNCHANGED <<is_pending_read, phase>>

\* pgm_on_data; a discarded packet leaves its event and losses for later
OnData ==
    /\ Running /\ phase = "packets"
    /\ \E p \in Peers, tpdu \in Tpdus, t \in Trails :
          LET r == Add(window[p], tpdu, t)
              S == [Sock EXCEPT !.window[p] = r.window]
          IN  IF r.status \in {"MISSING", "INSERTED", "APPENDED"}
              THEN Handled(S, p)
              ELSE Discarded(S)

\* pgm_on_spm, for an SPM that is not a duplicate; its options are parsed last
OnSpm ==
    /\ Running /\ phase = "packets"
    /\ \E p \in Peers, lead \in Sent, trail \in Trails :
          LET S == NoticeLoss([Sock EXCEPT !.window[p] = Update(@, lead, trail)], p)
          IN  Handled(S, p) \/ Discarded(S)

\* pgm_on_ncf for one sequence number (and pgm_on_peer_nak); the list of
\* further numbers is parsed after the first one was confirmed
OnNcf ==
    /\ Running /\ phase = "packets"
    /\ \E p \in Peers, s \in Sent :
          LET S == [Sock EXCEPT !.window[p] = Confirm(@, s).window]
          IN  Handled(NoticeLoss(S, p), p) \/ Discarded(S)

\* no packet left to read
RecvEmpty == Running /\ phase = "packets" /\ Return(Sock)

Next == \/ RecvReset \/ RecvBegin \/ NakCancel \/ NakRetry \/ PeerExpiry \/ ProdReader
        \/ RecvFlush \/ OnData \/ OnSpm \/ OnNcf \/ RecvEmpty

Spec == Init /\ [][Next]_vars

-----------------------------------------------------------------------------
(***************************************************************************)
(* Properties.                                                             *)
(***************************************************************************)

(***************************************************************************)
(* Every peer whose loss a notice stands for is on the pending list from   *)
(* the moment the loss is noticed until the notice has been given, through *)
(* each handler, timer and flush: the report takes its peer from the head  *)
(* of that list, and asserts that there is one.  (Which peer it names is   *)
(* another matter: see ResetNamesLoser.)                                   *)
(***************************************************************************)
LosersPending == /\ is_reset => losers # {}
                 /\ losers \subseteq ToSet(pending)

(***************************************************************************)
(* What a call hands to the application stays committed for the rest of    *)
(* that call and until the next one, although each packet read in the      *)
(* call flushes the same windows again.                                    *)
(***************************************************************************)
HandedIsKept ==
    \A p \in Peers : \A s \in handed[p] :
        Peek(window[p], s).sqn = s /\ StateAt(window[p], s) = "COMMIT_DATA"

Readable(w) == /\ ~IncomingIsEmpty(w)
               /\ StateAt(w, w.commit_lead) = "HAVE_DATA"
               /\ IsApduComplete(w, Peek(w, w.commit_lead).first) = "complete"

(***************************************************************************)
(* Data that can be read is not forgotten between calls: its peer is       *)
(* pending, or still has the event or the loss by which the next packet    *)
(* of that peer makes it pending.                                          *)
(***************************************************************************)
ReadableNoticed ==
    phase = "out" => \A p \in Peers : Readable(window[p]) =>
        \/ p \in ToSet(pending)
        \/ window[p].has_event
        \/ window[p].cumulative_losses # 0

(***************************************************************************)
(* What comments claim and the code does not keep (violation runs).        *)
(***************************************************************************)

\* "unrecoverable loss from" the peer at the head of the list: it lost data.
ResetNamesLoser == (phase = "out" /\ losers # {}) => Head(pending) \in losers

\* The loss of each peer has a notice of its own.
NoticePerLoser == phase = "out" => \A p, q \in losers : p = q

\* "set event notification for additional available data": a call that leaves
\* a pending peer with data to read leaves the notification signalled.
ReadableIsSignalled ==
    (phase = "out" /\ \E p \in ToSet(pending) : Readable(window[p]))
        => is_pending_read \/ is_reset

LostAtHead(p) == /\ ~IncomingIsEmpty(window[p])
                 /\ StateAt(window[p], window[p].commit_lead) = "LOST_DATA"

(***************************************************************************)
(* The application keeps calling, and packets of both kinds keep coming in *)
(* from the source: what OpenPGM's users and a live source do.  Nothing is *)
(* assumed of losses.                                                      *)
(***************************************************************************)
Fairness == /\ WF_vars(RecvBegin)
            /\ []<><<RecvFlush>>_vars /\ []<><<OnData>>_vars /\ []<><<OnSpm>>_vars

FairSpec == Spec /\ Fairness

\* "mark receiver window for flushing on next recv()": delivery gets past a loss.
LossIsPassed == \A p \in Peers : LostAtHead(p) ~> ~LostAtHead(p)

=============================================================================
