------------------------------- MODULE Source -------------------------------
(* The send calls of source.c: pgm_send, pgm_sendv and pgm_send_skbv over    *)
(* send_odata, send_odata_copy, send_odatav and send_apdu, with the state    *)
(* that lets a call that was rate limited, congested or refused by the       *)
(* kernel be repeated (sock->is_apdu_eagain and sock->pkt_dontwait_state).   *)
(* An APDU is a name with a length in fragments.  What the rate buckets, the *)
(* congestion window and the kernel answer is left open.                     *)
EXTENDS Integers, Sequences, SequencesExt

CONSTANTS Threads,       \* application threads
          Apdus,         \* messages the application sends, each once
          Fragments,     \* TPDUs of each message
          Calls,         \* the calls made: records [op, vec]
          UseRate,       \* is_controlled_odata
          GroupSize,     \* packets of a transmission group
          Careful        \* keeps clear of the two calls that lose their
                         \* place: see Avoided

Single == {"odata", "odatav"}           \* one TPDU
Pieces == {"apdu", "apduv", "skbv"}     \* one APDU of several TPDUs
Ops    == Single \cup Pieces \cup {"vector"}

ASSUME SourceAssumption ==
    /\ Fragments \in [Apdus -> Nat \ {0}]
    /\ GroupSize \in Nat \ {0}
    /\ UseRate \in BOOLEAN /\ Careful \in BOOLEAN
    /\ \A c \in Calls :
        /\ c.op \in Ops
        /\ c.vec \in Seq(Apdus) \ {<<>>}
        /\ c.op # "vector" => Len(c.vec) = 1
        /\ c.op \in Single => Fragments[c.vec[1]] = 1

VARIABLES nonblocking, \* sock->is_nonblocking, set before the first send
          pgmcc,       \* sock->use_pgmcc, set before the first send
          again,       \* sock->is_apdu_eagain
          state,       \* sock->pkt_dontwait_state
          log,         \* packets added to the transmit window, in order
          sent,        \* indices of log handed to the network
          paid,        \* indices of log let through by the rate buckets
          parity,      \* groups whose proactive parity was asked for
          restless,    \* data went out after the last reset_heartbeat_spm
          call,        \* what each thread is calling, NoCall when nothing
          pc,          \* where in it
          progress,    \* bytes_sent # 0 in this invocation
          accepted     \* APDUs of calls that returned PGM_IO_STATUS_NORMAL

vars == <<nonblocking, pgmcc, again, state, log, sent, paid, parity, restless,
          call, pc, progress, accepted>>

NoCall == [op |-> "none", vec |-> <<>>]
Points == {"idle", "blocked", "check", "add", "late", "send", "done", "crashed"}

Init ==
    /\ nonblocking \in BOOLEAN /\ pgmcc \in BOOLEAN
    /\ again = FALSE
    /\ state = [skb |-> 0, limited |-> FALSE, offset |-> 0, index |-> 0, pkt |-> 1]
    /\ log = <<>> /\ sent = {} /\ paid = {} /\ parity = {}
    /\ restless = FALSE
    /\ call = [t \in Threads |-> NoCall]
    /\ pc = [t \in Threads |-> "idle"]
    /\ progress = FALSE
    /\ accepted = <<>>

\* pgm_rate_check2 is asked before the packets are sent
ChecksFirst == nonblocking /\ UseRate

(* The source mutex: one thread at a time is inside a call. *)
Outside == \A t \in Threads : pc[t] \in {"idle", "blocked"}

\* the APDU that a call is at, and its length
Current(t) == call[t].vec[IF call[t].op = "vector" THEN state.pkt ELSE 1]
Length(t)  == Fragments[Current(t)]

Goto(t, p) == pc' = [pc EXCEPT ![t] = p]

-----------------------------------------------------------------------------
(* Entering a call.  A socket that is non-blocking or under congestion       *)
(* control is driven by one thread, which repeats a call that did not return *)
(* PGM_IO_STATUS_NORMAL: whatever call comes next, of whatever thread,       *)
(* resumes the packet that is_apdu_eagain was left set for.  On a socket     *)
(* that never made a packet STATE(skb) is NULL, and the process ends where   *)
(* its tail is read (source.c:1722): the source mutex is never given back.   *)

Enter(t, c) ==
    IF again
    THEN Goto(t, IF state.skb = 0 THEN "crashed" ELSE "send") /\ UNCHANGED state
    ELSE /\ Goto(t, IF c.op \in Single THEN "add" ELSE "check")
         /\ state' = [state EXCEPT !.pkt = 1]

(* send_skbv does not reset data_bytes_offset, and pgm_sendv sets            *)
(* is_apdu_eagain for an APDU that send_apdu has not begun.                  *)
Avoided(c) ==
    /\ Careful
    /\ \/ c.op = "skbv" /\ state.offset # 0
       \/ c.op = "vector" /\ ChecksFirst

Begin(t, c) ==
    /\ Outside /\ pc[t] = "idle" /\ ~Avoided(c)
    /\ nonblocking \/ pgmcc => \A s \in Threads : pc[s] = "idle"
    /\ \A a \in Range(c.vec) :
        /\ a \notin Range(accepted)
        /\ \A s \in Threads : a \notin Range(call[s].vec)
    /\ call' = [call EXCEPT ![t] = c]
    /\ Enter(t, c)
    /\ UNCHANGED <<nonblocking, pgmcc, again, log, sent, paid, parity, restless,
                   progress, accepted>>

Repeat(t) ==
    /\ Outside /\ pc[t] = "blocked"
    /\ Enter(t, call[t])
    /\ UNCHANGED <<nonblocking, pgmcc, again, log, sent, paid, parity, restless,
                   call, progress, accepted>>

(* A call returns a status that asks for it to be repeated; what it sent     *)
(* since it was entered restarts the heartbeat.                              *)
GiveUp(t) ==
    /\ Goto(t, "blocked")
    /\ restless' = (restless /\ ~progress)
    /\ progress' = FALSE
    /\ UNCHANGED <<nonblocking, pgmcc, log, sent, parity, call, accepted>>

-----------------------------------------------------------------------------
(* The rate check of a whole APDU, before its first packet is made.          *)

Started(t, limited) ==
    [state EXCEPT !.limited = limited,
                  !.offset = IF call[t].op = "skbv" THEN @ ELSE 0,
                  !.index = 0]

RateAllows(t) ==
    /\ pc[t] = "check"
    /\ state' = Started(t, ChecksFirst)
    /\ paid' = IF ChecksFirst
               THEN paid \cup (Len(log) + 1 .. Len(log) + Length(t)) ELSE paid
    /\ Goto(t, "add")
    /\ UNCHANGED <<nonblocking, pgmcc, again, log, sent, parity, restless, call,
                   progress, accepted>>

RateRefuses(t) ==
    /\ pc[t] = "check" /\ ChecksFirst
    /\ state' = [state EXCEPT !.limited = FALSE]
    /\ again' = (again \/ call[t].op = "vector")
    /\ GiveUp(t)
    /\ UNCHANGED paid

\* Mutant: the state names a packet that the window does not have yet.
AddPacketEarly(t) ==
    /\ pc[t] = "add"
    /\ state' = [state EXCEPT !.skb = Len(log) + 1]
    /\ Goto(t, "send")
    /\ UNCHANGED <<nonblocking, pgmcc, again, log, sent, paid, parity, restless,
                   call, progress, accepted>>

(* A packet is made and added to the transmit window. *)
AddPacket(t) ==
    /\ pc[t] = "add"
    /\ LET single == call[t].op \in Single
           offset == IF single THEN 0 ELSE state.offset
           piece  == IF call[t].op = "skbv" THEN state.index ELSE offset
       IN /\ log' = Append(log, [apdu |-> Current(t), piece |-> piece,
                                 offset |-> offset])
          /\ Goto(t, IF single THEN "late" ELSE "send")
    /\ state' = [state EXCEPT !.skb = Len(log) + 1]
    /\ UNCHANGED <<nonblocking, pgmcc, again, sent, paid, parity, restless, call,
                   progress, accepted>>

(* A single packet is checked after it was added, "at last moment". *)
LateAllows(t) ==
    /\ pc[t] = "late"
    /\ state' = [state EXCEPT !.limited = ChecksFirst]
    /\ paid' = IF ChecksFirst THEN paid \cup {state.skb} ELSE paid
    /\ Goto(t, "send")
    /\ UNCHANGED <<nonblocking, pgmcc, again, log, sent, parity, restless, call,
                   progress, accepted>>

\* Mutant: the packet is taken for one that was let through.
LateRefusesLimited(t) ==
    /\ pc[t] = "late" /\ ChecksFirst
    /\ state' = [state EXCEPT !.limited = TRUE]
    /\ again' = TRUE
    /\ GiveUp(t)
    /\ UNCHANGED paid

\* Mutant: the call does not note that its packet is in the window already.
LateRefusesForgets(t) ==
    /\ pc[t] = "late" /\ ChecksFirst
    /\ state' = [state EXCEPT !.limited = FALSE]
    /\ GiveUp(t)
    /\ UNCHANGED <<again, paid>>

LateRefuses(t) ==
    /\ pc[t] = "late" /\ ChecksFirst
    /\ state' = [state EXCEPT !.limited = FALSE]
    /\ again' = TRUE
    /\ GiveUp(t)
    /\ UNCHANGED paid

-----------------------------------------------------------------------------
(* pgm_sendto, and what follows a packet that went out. *)

Congested(t) ==
    /\ pc[t] = "send" /\ call[t].op = "odata" /\ pgmcc
    /\ again' = TRUE
    /\ GiveUp(t)
    /\ UNCHANGED <<state, paid>>

\* the rate buckets (ENOBUFS) or, after them, the kernel (EAGAIN) refuse
SendRefused(t) ==
    /\ pc[t] = "send" /\ nonblocking
    /\ again' = TRUE
    /\ \/ UseRate /\ ~state.limited /\ UNCHANGED paid
       \/ paid' = paid \cup (IF state.limited THEN {} ELSE {state.skb})
    /\ GiveUp(t)
    /\ UNCHANGED state

Group(i) == (i - 1) \div GroupSize

\* Mutant: parity is asked for one packet late.
AfterSendLate(i) == IF i % GroupSize = 1 % GroupSize /\ i > 1
                    THEN parity \cup {Group(i - 1)} ELSE parity

AfterSend(i) == IF i % GroupSize = 0 THEN parity \cup {Group(i)} ELSE parity

\* ok: sendto took the packet; any other error than the two above is ignored
Send(t, ok) ==
    /\ pc[t] = "send"
    /\ sent' = sent \cup {state.skb}
    /\ paid' = paid \cup (IF state.limited THEN {} ELSE {state.skb})
    /\ parity' = AfterSend(state.skb)
    /\ restless' = (restless \/ ok)
    /\ progress' = (progress \/ ok)
    /\ IF call[t].op \in Single
       THEN Goto(t, "done") /\ UNCHANGED state
       ELSE /\ state' = [state EXCEPT !.offset = @ + 1, !.index = @ + 1]
            /\ LET made == IF call[t].op = "skbv" THEN state.index ELSE state.offset
               IN Goto(t, IF made + 1 < Length(t) THEN "add" ELSE "done")
    /\ UNCHANGED <<nonblocking, pgmcc, again, log, call, accepted>>

(* The APDU is complete: reset_heartbeat_spm, and the call returns           *)
(* PGM_IO_STATUS_NORMAL unless its vector holds another APDU.                *)
Done(t) ==
    /\ pc[t] = "done"
    /\ again' = FALSE
    /\ restless' = FALSE
    /\ progress' = FALSE
    /\ IF call[t].op = "vector" /\ state.pkt < Len(call[t].vec)
       THEN /\ state' = [state EXCEPT !.pkt = @ + 1]
            /\ Goto(t, "check")
            /\ UNCHANGED <<call, accepted>>
       ELSE /\ Goto(t, "idle")
            /\ call' = [call EXCEPT ![t] = NoCall]
            /\ accepted' = accepted \o call[t].vec
            /\ UNCHANGED state
    /\ UNCHANGED <<nonblocking, pgmcc, log, sent, paid, parity>>

-----------------------------------------------------------------------------
Step(t) ==
    \/ Repeat(t) \/ AddPacket(t) \/ Done(t)
    \/ RateAllows(t) \/ RateRefuses(t) \/ LateAllows(t) \/ LateRefuses(t)
    \/ Congested(t) \/ SendRefused(t) \/ \E ok \in BOOLEAN : Send(t, ok)

Next == \E t \in Threads : Step(t) \/ \E c \in Calls : Begin(t, c)

Spec == Init /\ [][Next]_vars

-----------------------------------------------------------------------------
TypeOK ==
    /\ nonblocking \in BOOLEAN /\ pgmcc \in BOOLEAN /\ again \in BOOLEAN
    /\ restless \in BOOLEAN /\ progress \in BOOLEAN
    /\ state \in [skb : 0 .. Len(log), limited : BOOLEAN, offset : Nat,
                  index : Nat, pkt : Nat]
    /\ log \in Seq([apdu : Apdus, piece : Nat, offset : Nat])
    /\ sent \subseteq 1 .. Len(log)
    /\ pc \in [Threads -> Points]
    /\ call \in [Threads -> Calls \cup {NoCall}]
    /\ accepted \in Seq(Apdus)

PacketsOf(a) ==
    [i \in 1 .. Fragments[a] |-> [apdu |-> a, piece |-> i - 1, offset |-> i - 1]]

(* Between calls the transmit window holds the messages that calls reported  *)
(* as sent, each once, whole and in the order the calls returned, and every  *)
(* packet of them was handed to the network: no resumed call skips or        *)
(* repeats a fragment.                                                       *)
AcceptedOnce ==
    (\A t \in Threads : pc[t] = "idle") =>
        /\ log = FlattenSeq([i \in 1 .. Len(accepted) |-> PacketsOf(accepted[i])])
        /\ sent = 1 .. Len(log)

(* No packet goes to the network past the rate buckets, however often the    *)
(* call was refused by buckets, window or kernel before (source.c, the       *)
(* is_rate_limited that a resumed call inherits).                            *)
PaidBeforeSent == UseRate => sent \subseteq paid

(* When a call has returned, with any status, the heartbeat has been         *)
(* restarted after the last data packet, and the group of the last packet    *)
(* has its proactive parity if it is full.                                   *)
SentIsFollowedUp ==
    Outside => /\ ~restless
               /\ \A i \in sent : i % GroupSize = 0 => Group(i) \in parity

(* pgm_assert (STATE(data_bytes_offset) == apdu_length) at the end of        *)
(* send_apdu, pgm_sendv and, with TRANSPORT_DEBUG, pgm_send_skbv.            *)
OffsetAtEnd ==
    \A t \in Threads :
        pc[t] = "done" /\ call[t].op \notin Single => state.offset = Length(t)
=============================================================================
