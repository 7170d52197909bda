------------------------------ MODULE Session ------------------------------
(* One source and one receiver with a network between them: the transmit      *)
(* window of TransmitWindow, the receive window of Rxw, and the handlers that  *)
(* connect them (on_downstream and on_upstream of recv.c with what they call   *)
(* in receiver.c and source.c).  The network loses packets, delivers them      *)
(* twice and in any order.                                                     *)
(*                                                                             *)
(*     source                                receiver                          *)
(*     AddOData, ODataSent ----- data -----> OnData         Flush              *)
(*     PeekRequest, SendRData -- data -----> OnData                            *)
(*     ReadTrail, SendSpm ------ spm ------> OnSpm                             *)
(*     OnNak <------------------ nak ------- NakRbExpiry    NakRetry, NakCancel *)
(*     OnNak ------------------- ncf ------> OnNcf                             *)
(*                                                                             *)
(* Every APDU is one TPDU.  The receiver's timers may expire at any moment;    *)
(* NakRepair has their times and counts.                                       *)
EXTENDS Rxw

CONSTANTS
    TxAlloc,    \* sequence numbers of the transmit window
    MaxSent,    \* bound: packets the source sends
    MaxNet,     \* bound: packets in the network
    None        \* no packet, no SPM

ASSUME SessionAssumption ==
    /\ TxAlloc \in Nat \ {0} /\ TxAlloc < SignBit
    /\ MaxSent \in Nat /\ MaxSent < SignBit
    /\ MaxNet \in Nat \ {0}
    /\ None \notin Sqn

VARIABLES
    lead, trail, pdata, queue, transit, held, rdata, abort,  \* TransmitWindow
    header,     \* data_trail of the packet in transit
    spm,        \* spm_trail of the SPM being built
    net,        \* packets under way
    window,     \* the receive window
    newest      \* edges of the newest SPM received, None before the first

txw == <<lead, trail, pdata, queue, transit, held, rdata, abort>>
source == <<txw, header, spm>>
receiver == <<window, newest>>
vars == <<source, net, receiver>>

Tx == INSTANCE TransmitWindow WITH
    Alloc <- TxAlloc, TgSize <- 1, ProactiveH <- 0, CntMod <- 2, Naks <- {}

DataPacket(s, t) == [type |-> "data", sqn |-> s, trail |-> t]
SpmPacket(l, t) == [type |-> "spm", lead |-> l, trail |-> t]
NakPacket(s) == [type |-> "nak", sqn |-> s]
NcfPacket(s) == [type |-> "ncf", sqn |-> s]

\* pgm_rxw_create
RxwCreate ==
    [lead |-> SqnMod - 1, trail |-> 0, commit_lead |-> 0,
     rxw_trail |-> 0, rxw_trail_init |-> 0,
     is_defined |-> FALSE, is_constrained |-> TRUE, has_event |-> FALSE,
     lost_count |-> 0, fragment_count |-> 0, committed_count |-> 0,
     cumulative_losses |-> 0,
     pdata |-> [i \in Slot |-> Free],
     abort |-> "none"]

Init ==
    /\ Tx!Init
    /\ header = None /\ spm = None
    /\ net = {}
    /\ window = RxwCreate /\ newest = None

-----------------------------------------------------------------------------
(* The network *)

Room == Cardinality(net) < MaxNet

\* packet p leaves while the network holds the packets in rest, and may be lost
Transmit(rest, p) ==
    \/ Room /\ net' = rest \cup {p}
    \/ net' = rest

\* packet p arrives for the last time, or will arrive again
After(p) == {net \ {p}, net}

Received(p) == p \in net /\ net' \in After(p)

Lose(p) == p \in net /\ net' = net \ {p} /\ UNCHANGED <<source, receiver>>

-----------------------------------------------------------------------------
(* The sending thread of the source *)

\* Mutant: the packet is announced as the oldest one.
AddODataAlone ==
    /\ Minus(lead, SqnMod - 1) < MaxSent
    /\ Tx!AddOData /\ ~held'
    /\ header' = Plus(1, lead)
    /\ UNCHANGED <<spm, net, receiver>>

\* a send function up to pgm_txw_add: data_trail is the trail before it.  Of the
\* two kinds TransmitWindow has, the one whose packet may be repaired while it is
\* in transit is taken: it allows all that the other does.
AddOData ==
    /\ Minus(lead, SqnMod - 1) < MaxSent
    /\ Tx!AddOData /\ ~held'
    /\ header' = trail
    /\ UNCHANGED <<spm, net, receiver>>

ODataSent ==
    /\ Tx!ODataSent
    /\ Transmit(net, DataPacket(transit, header))
    /\ header' = None
    /\ UNCHANGED <<spm, receiver>>

-----------------------------------------------------------------------------
(* Its receiving thread: SPMs, NAKs, repairs *)

\* the receiving thread has an SPM or a repair in hand, or may take a packet
IsFree == Tx!Running /\ spm = None /\ rdata = Tx!NoRepair

\* Mutant: the lead is taken as the next number to send.
SendSpmNextLead ==
    /\ spm # None
    /\ Transmit(net, SpmPacket(Plus(1, lead), spm))
    /\ spm' = None
    /\ UNCHANGED <<txw, header, receiver>>

\* pgm_send_spm reads the trail, then the lead, without a lock
ReadTrail ==
    /\ IsFree
    /\ spm' = trail
    /\ UNCHANGED <<txw, header, net, receiver>>

SendSpm ==
    /\ Tx!Running /\ spm # None
    /\ Transmit(net, SpmPacket(lead, spm))
    /\ spm' = None
    /\ UNCHANGED <<txw, header, receiver>>

\* pgm_on_nak: the NCF is sent whether or not the window has the packet
OnNak(s) ==
    /\ IsFree
    /\ NakPacket(s) \in net
    /\ \E rest \in After(NakPacket(s)) : Transmit(rest, NcfPacket(s))
    /\ Tx!PushSelective(s)
    /\ UNCHANGED <<lead, trail, transit, held, rdata, abort, header, spm, receiver>>

PeekRequest ==
    /\ spm = None
    /\ Tx!PeekRequest
    /\ UNCHANGED <<header, spm, net, receiver>>

RDataBlocked ==
    /\ Tx!RDataBlocked
    /\ UNCHANGED <<header, spm, net, receiver>>

SendRData ==
    /\ Tx!RemoveRequest
    /\ Transmit(net, DataPacket(rdata.sqn, trail))
    /\ UNCHANGED <<header, spm, receiver>>

-----------------------------------------------------------------------------
(* The receiver *)

\* what announces data and losses to the application is left out
Kept(w) == [w EXCEPT !.has_event = FALSE, !.cumulative_losses = 0]

Tpdu(s) == [sqn |-> s, first |-> s, len |-> 1]

OnData(s) ==
    /\ \E p \in net :
          /\ p.type = "data" /\ p.sqn = s
          /\ Received(p)
          /\ window' = Kept(Add(window, Tpdu(s), p.trail).window)
    /\ UNCHANGED <<source, newest>>

\* spm_sqn grows from SPM to SPM, and with it neither edge goes back
IsNewer(p) ==
    newest # None => Gte(p.lead, newest.lead) /\ Gte(p.trail, newest.trail)

OnSpm ==
    /\ \E p \in net :
          /\ p.type = "spm"
          /\ Received(p)
          /\ IF IsNewer(p)
             THEN /\ window' = Kept(Update(window, p.lead, p.trail))
                  /\ newest' = [lead |-> p.lead, trail |-> p.trail]
             ELSE UNCHANGED <<window, newest>>
    /\ UNCHANGED source

OnNcf(s) ==
    /\ Received(NcfPacket(s))
    /\ window' = Kept(Confirm(window, s).window)
    /\ UNCHANGED <<source, newest>>

\* nak_rb_state: a NAK needs the address that the first SPM brings
NakRbExpiry(s) ==
    /\ newest # None
    /\ s \in Incoming(window) /\ StateAt(window, s) = "BACK_OFF"
    /\ Transmit(net, NakPacket(s))
    /\ window' = SetState(window, s, "WAIT_NCF")
    /\ UNCHANGED <<source, newest>>

\* nak_rpt_state, nak_rdata_state: no answer came in time
NakRetry(s) ==
    /\ newest # None
    /\ s \in Incoming(window) /\ StateAt(window, s) \in {"WAIT_NCF", "WAIT_DATA"}
    /\ window' = SetState(window, s, "BACK_OFF")
    /\ UNCHANGED <<source, net, newest>>

\* the retries are exhausted, or the source's address is not known
NakCancel(s) ==
    /\ s \in Incoming(window) /\ StateAt(window, s) \in Recovering
    /\ window' = Kept(Lost(window, s))
    /\ UNCHANGED <<source, net, newest>>

\* pgm_flush_peers_pending; release is its last_commit test
Flush(release) ==
    /\ window' = Kept(Readv(IF release THEN RemoveCommit(window) ELSE window))
    /\ UNCHANGED <<source, net, newest>>

-----------------------------------------------------------------------------
Numbers == 0 .. (MaxSent - 1)

Sends == AddOData \/ ODataSent \/ ReadTrail \/ SendSpm
         \/ PeekRequest \/ RDataBlocked \/ SendRData

Next ==
    \/ Sends
    \/ OnSpm
    \/ \E release \in BOOLEAN : Flush(release)
    \/ \E p \in net : Lose(p)
    \/ \E s \in Numbers : \/ OnNak(s) \/ OnData(s) \/ OnNcf(s)
                          \/ NakRbExpiry(s) \/ NakRetry(s) \/ NakCancel(s)

Spec == Init /\ [][Next]_vars

-----------------------------------------------------------------------------
\* s was sent, and the receiver has neither read it nor given it up
Awaited(w, s) ==
    /\ w.is_defined /\ Gte(s, w.commit_lead)
    /\ InWindow(w, s) => StateAt(w, s) # "LOST_DATA"

(***************************************************************************)
(* The receiver never takes a packet for sent that was not: nothing the    *)
(* network repeats or reorders, and no SPM whose edges were read at two    *)
(* moments, moves its lead past the source's.                              *)
(***************************************************************************)
NeverAhead == window.is_defined => Lte(window.lead, lead)

\* a receive window of packets was announced after s: the window full of them
\* has no room for s
Outrun(w, s) == Minus(w.lead, s) >= Alloc

(***************************************************************************)
(* The receiver stops waiting for a packet of the session for one of four  *)
(* reasons, whatever was lost, repeated or reordered on the way: it hands  *)
(* the packet to the application; the source has purged it and can no      *)
(* longer repair it; the receiver cancels the repair; or more packets were *)
(* announced after it than its own window holds.  Nothing makes a receive  *)
(* window as large as the transmit window; when it is, the last reason     *)
(* implies that the source has purged the packet (LosesOnlyPurged).        *)
(***************************************************************************)
StopsWaiting(s) == Awaited(window, s) /\ ~Awaited(window', s)

Explained(s) == \/ InWindow(window', s) /\ StateAt(window', s) = "COMMIT_DATA"
                \/ Lt(s, trail)
                \/ NakCancel(s)

LossesExplained ==
    [][\A s \in Numbers : StopsWaiting(s) => Explained(s) \/ Outrun(window', s)]_vars

\* The same without the last reason, which only holds when Alloc >= TxAlloc:
\* the smaller window of SessionSmall.cfg loses what the source still holds.
LosesOnlyPurged == [][\A s \in Numbers : StopsWaiting(s) => Explained(s)]_vars

=============================================================================
