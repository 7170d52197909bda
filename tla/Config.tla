-------------------------------- MODULE Config --------------------------------
(* One socket from its options to its destruction: pgm_setsockopt, pgm_bind3, *)
(* pgm_connect and pgm_close (socket.c), and what the operations of a bound   *)
(* socket demand of the options and of the structures bind made from them:    *)
(* the assertions of txw.c, rxw.c, rate_control.c, recv.c, receiver.c.        *)
EXTENDS Integers, FiniteSets

CONSTANTS Settings,        \* pairs <<option, value>> the application may set
          Preset,          \* the options it has already set, with their values
          Groups,          \* multicast groups
          Careful,         \* what pgm_bind3 does not check is kept, see Sensible
          MaxLost,         \* bound: no further bind once this much is lost
          Uint16, MaxFragments, MaxApdu,
          IpHeader, UdpHeader, PgmHeader, DataHeader,
          OptionHeaders, FragmentOption, CongestionOption

NoFec == [k |-> 0, n |-> 0, var |-> FALSE]

(* Options of setsockopt that take any positive number, and those that bind   *)
(* demands of a socket that sends, and of one that receives.                  *)
Positive == {"ambient_spm", "txw_secs", "txw_max_rte", "odata_max_rte",
             "rdata_max_rte", "peer_expiry", "spmr_expiry", "rxw_secs",
             "rxw_max_rte", "nak_bo_ivl", "nak_rpt_ivl", "nak_rdata_ivl"}
Retries == {"nak_data_retries", "nak_ncf_retries"}
ToSend == {"ambient_spm", "heartbeat_spm"}
\* the back-off interval of NAKs is not asked for
ToReceiveNoBackOff == Retries \cup {"peer_expiry", "spmr_expiry", "nak_rpt_ivl",
                                    "nak_rdata_ivl"}
ToReceive == Retries \cup {"peer_expiry", "spmr_expiry", "nak_bo_ivl",
                           "nak_rpt_ivl", "nak_rdata_ivl"}
Numbers == Positive \cup Retries \cup {"mtu", "heartbeat_spm", "txw_sqns",
                                       "rxw_sqns", "ack_c", "ack_bo_ivl"}
Options == Numbers \cup {"can_send", "can_recv", "fec"}
Notifies == {"ack", "rdata", "pending"}

ASSUME ConfigAssumption ==
    /\ \A s \in Settings : s[1] \in Options
    /\ DOMAIN Preset \subseteq Options
    /\ Careful \in BOOLEAN
    /\ {Uint16, MaxFragments, MaxApdu, MaxLost, IpHeader, UdpHeader, PgmHeader,
        DataHeader, OptionHeaders, FragmentOption, CongestionOption} \subseteq Nat

VARIABLES phase,     \* "open", "bound", "connected" or "closed"
          opt,       \* the options of pgm_sock_t
          joined,    \* recv_gsr
          window,    \* the transmit window: slots, the tpdu it was made for, FEC
          table,     \* peers_hashtable exists
          buffer,    \* rx_buffer exists
          seg,       \* max_tsdu, max_tsdu_fragment and max_apdu
          fd,        \* the descriptor of each notification channel
          lost,      \* windows, tables and descriptors nobody can release
          foreign,   \* a descriptor that is not the socket's was closed
          aborted    \* an assertion has failed

vars == <<phase, opt, joined, window, table, buffer, seg, fd, lost, foreign,
          aborted>>

NoWindow == [slots |-> 0, tpdu |-> 0, fec |-> NoFec]

\* pgm_new0: every field is 0, the descriptors of the channels included
Defaults == [o \in Options |-> CASE o \in {"can_send", "can_recv"} -> TRUE
                                 [] o = "fec" -> NoFec
                                 [] OTHER -> 0]

Init ==
    /\ phase = "open"
    /\ opt = [o \in Options |-> IF o \in DOMAIN Preset THEN Preset[o]
                                                       ELSE Defaults[o]]
    /\ joined = {}
    /\ window = NoWindow
    /\ table = FALSE
    /\ buffer = FALSE
    /\ seg = [tsdu |-> 0, fragment |-> 0, apdu |-> 0]
    /\ fd = [n \in Notifies |-> "zero"]
    /\ lost = 0
    /\ foreign = FALSE
    /\ aborted = FALSE

-----------------------------------------------------------------------------
(* setsockopt *)

Legal(o, v) ==
    \/ o \in Positive /\ v > 0
    \/ o \in Retries /\ v \in 1..255
    \/ o \in {"txw_sqns", "rxw_sqns"} /\ v > 0 /\ v < 2147483646
    \/ o = "mtu" /\ v >= IpHeader + PgmHeader /\ v < Uint16
    \/ o = "fec" /\ v.k \in {2, 4, 8, 16, 32, 64, 128} /\ v.k <= v.n /\ v.n < 256
    \/ o \in {"heartbeat_spm", "ack_c", "ack_bo_ivl", "can_send", "can_recv"}

Made == table \/ window # NoWindow \/ \E n \in Notifies : fd[n] = "open"

\* a second array of heartbeat intervals is stored over the first
Forgets(o) == o = "heartbeat_spm" /\ opt[o] > 0

SetOption(o, v) ==
    /\ phase \in {"open", "bound"}
    /\ Careful => ~Made /\ ~Forgets(o)
    /\ Legal(o, v)
    /\ opt' = [opt EXCEPT ![o] = v]
    /\ lost' = lost + (IF Forgets(o) THEN 1 ELSE 0)
    /\ UNCHANGED <<phase, joined, window, table, buffer, seg, fd, foreign, aborted>>

(* A second join of a group is refused by the kernel, not by the check for a *)
(* duplicate, whose break only ends its own loop.                            *)
Join(g) ==
    /\ phase \in {"open", "bound"}
    /\ g \notin joined
    /\ joined' = joined \cup {g}
    /\ UNCHANGED <<phase, opt, window, table, buffer, seg, fd, lost, foreign,
                   aborted>>

Leave(g) ==
    /\ phase \in {"open", "bound"}
    /\ g \in joined
    /\ joined' = joined \ {g}
    /\ UNCHANGED <<phase, opt, window, table, buffer, seg, fd, lost, foreign,
                   aborted>>

-----------------------------------------------------------------------------
(* pgm_bind3 *)

HeaderLength == IpHeader + UdpHeader
PacketOffset(fragment) == PgmHeader + DataHeader
    + (IF fragment \/ opt["ack_c"] > 0 THEN OptionHeaders ELSE 0)
    + (IF fragment THEN FragmentOption ELSE 0)
    + (IF opt["ack_c"] > 0 THEN CongestionOption ELSE 0)

Segment(fragment) == (opt["mtu"] - HeaderLength - PacketOffset(fragment)) % Uint16

LesserOf(a, b) == IF a < b THEN a ELSE b

\* or not by the packets of the window
SegmentsByCount ==
    [tsdu |-> Segment(FALSE), fragment |-> Segment(TRUE),
     apdu |-> LesserOf(MaxApdu, MaxFragments * Segment(TRUE))]

Segments ==
    LET fragments == IF opt["txw_sqns"] > 0
                     THEN LesserOf(MaxFragments, opt["txw_sqns"])
                     ELSE MaxFragments
    IN  [tsdu |-> Segment(FALSE), fragment |-> Segment(TRUE),
         apdu |-> LesserOf(MaxApdu, fragments * Segment(TRUE))]

Measured(sqns, secs, rte) ==
    opt[sqns] > 0 \/ (opt[secs] > 0 /\ opt[rte] > 0)

BindChecks ==
    /\ opt["mtu"] >= IpHeader + PgmHeader
    /\ opt["can_send"] => /\ \A o \in ToSend : opt[o] > 0
                          /\ Measured("txw_sqns", "txw_secs", "txw_max_rte")
    /\ opt["can_recv"] => /\ \A o \in ToReceive : opt[o] > 0
                          /\ Measured("rxw_sqns", "rxw_secs", "rxw_max_rte")

Slots(sqns, secs, rte) == IF opt[sqns] > 0 THEN opt[sqns]
                          ELSE (opt[secs] * opt[rte]) \div opt["mtu"]

UsesFec == opt["fec"] # NoFec

\* a window of packets is made without a TPDU size, its parity buffer included
NewWindow == [slots |-> Slots("txw_sqns", "txw_secs", "txw_max_rte"),
              tpdu |-> IF opt["txw_sqns"] > 0 THEN 0 ELSE opt["mtu"],
              fec |-> opt["fec"]]

\* the pre- and postconditions of pgm_txw_create, and those of pgm_rate_create
WindowAsserts == /\ Measured("txw_sqns", "txw_secs", "txw_max_rte")
                 /\ NewWindow.slots > 0
Rates == {"txw_max_rte", "odata_max_rte", "rdata_max_rte"}
RateAsserts == \A o \in Rates : opt[o] > 0 => opt[o] >= opt["mtu"]

\* the channels bind opens, in this order
ToOpen == {n \in Notifies : \/ n = "pending"
                            \/ opt["can_send"] /\ n = "rdata"
                            \/ opt["can_send"] /\ opt["ack_c"] > 0 /\ n = "ack"}
Before(n) == CASE n = "ack" -> {} [] n = "rdata" -> {"ack"}
               [] n = "pending" -> {"ack", "rdata"}

Opened(s) == [n \in Notifies |-> IF n \in s THEN "open" ELSE fd[n]]

\* what an earlier bind that failed has left, and this one writes over
Overwritten(s) == Cardinality({n \in s : fd[n] = "open"})
Rewritten == (IF opt["can_send"] /\ window # NoWindow THEN 1 ELSE 0)
             + (IF opt["can_recv"] /\ table THEN 1 ELSE 0)

(* What the options must satisfy beyond BindChecks for the socket to work: a *)
(* receive window measured in one way; windows and rates that hold the       *)
(* packets; no parity from a window of packets, nor from a block without     *)
(* parity packets, nor packets of variable length; ...                       *)
Sensible ==
    /\ opt["mtu"] > HeaderLength + PacketOffset(TRUE)
    /\ opt["can_send"] \/ opt["can_recv"]
    /\ opt["rxw_sqns"] > 0 => opt["rxw_secs"] = 0 /\ opt["rxw_max_rte"] = 0
    /\ opt["can_recv"] => Slots("rxw_sqns", "rxw_secs", "rxw_max_rte") > 0
    /\ opt["can_send"] /\ opt["txw_sqns"] = 0 =>
          Slots("txw_sqns", "txw_secs", "txw_max_rte") >= MaxFragments
    /\ RateAsserts
    /\ opt["nak_bo_ivl"] # 1
    /\ opt["ack_c"] > 0 => opt["ack_bo_ivl"] > 1
    /\ UsesFec => /\ opt["txw_sqns"] = 0
                  /\ opt["fec"].n > opt["fec"].k
                  /\ ~opt["fec"].var

MayBind ==
    /\ phase = "open"
    /\ lost <= MaxLost
    /\ BindChecks
    /\ Careful => Sensible /\ ~Made

\* a notification channel cannot be created
BindLacksNotify(n) ==
    /\ MayBind
    /\ n \in ToOpen
    /\ Careful => Before(n) \cap ToOpen = {}
    /\ LET s == Before(n) \cap ToOpen
       IN  /\ fd' = [Opened(s) EXCEPT ![n] = "invalid"]
           /\ lost' = lost + Overwritten(s \cup {n})
    /\ UNCHANGED <<phase, opt, joined, window, table, buffer, seg, foreign, aborted>>

(* The channels, the segment sizes, the window and the peer table, made      *)
(* before the three bind calls whose failure ends pgm_bind3.                 *)
BindMakes ==
    /\ fd' = Opened(ToOpen)
    /\ seg' = Segments
    /\ window' = IF opt["can_send"] THEN NewWindow ELSE window
    /\ table' = (table \/ opt["can_recv"])
    /\ lost' = lost + Overwritten(ToOpen) + Rewritten

BindLacksAddress ==
    /\ MayBind
    /\ BindMakes
    /\ aborted' = (opt["can_send"] /\ ~WindowAsserts)
    /\ UNCHANGED <<phase, opt, joined, buffer, foreign>>

Bind ==
    /\ MayBind
    /\ BindMakes
    /\ aborted' = (opt["can_send"] /\ ~(WindowAsserts /\ RateAsserts))
    /\ buffer' = TRUE
    /\ phase' = "bound"
    /\ UNCHANGED <<opt, joined, foreign>>

-----------------------------------------------------------------------------
(* pgm_connect, and the operations of a bound or connected socket *)

SpmAsserts == window # NoWindow

ReceiveWindowAsserts ==
    /\ Measured("rxw_sqns", "rxw_secs", "rxw_max_rte")
    /\ opt["rxw_sqns"] > 0 => opt["rxw_secs"] = 0 /\ opt["rxw_max_rte"] = 0
    /\ Slots("rxw_sqns", "rxw_secs", "rxw_max_rte") > 0

\* a packet of segment size is put into a buffer of max_tpdu bytes
SendAsserts ==
    /\ window # NoWindow
    /\ seg.tsdu + PacketOffset(FALSE) <= opt["mtu"]
    /\ seg.fragment + PacketOffset(TRUE) <= opt["mtu"]

\* txw.c: headers and payload go into parity_buffer, rs_h is modulo n - k
ParityAsserts ==
    /\ window.fec.n > window.fec.k
    /\ window.tpdu > 0

ReceiveAsserts ==
    /\ buffer
    /\ opt["can_recv"] => /\ table
                          /\ opt["nak_bo_ivl"] > 1
                          /\ fd["pending"] # "invalid"

Connect ==
    /\ phase = "bound"
    /\ joined # {}
    /\ phase' = "connected"
    /\ aborted' = ~(IF opt["can_send"] THEN SpmAsserts ELSE opt["can_recv"])
    /\ UNCHANGED <<opt, joined, window, table, buffer, seg, fd, lost, foreign>>

Operate(wanted, asserts) ==
    /\ phase \in {"bound", "connected"}
    /\ wanted
    /\ aborted' = ~asserts
    /\ UNCHANGED <<phase, opt, joined, window, table, buffer, seg, fd, lost, foreign>>

\* pgm_send does not ask whether the socket is one that sends
Send == Operate(Careful => opt["can_send"], SendAsserts)
SendParity == Operate(opt["can_send"] /\ UsesFec /\ phase = "connected", ParityAsserts)
Receive == Operate(TRUE, ReceiveAsserts)
HearSource == Operate(opt["can_recv"] /\ ReceiveAsserts, ReceiveWindowAsserts)
SendAck == Operate(opt["can_recv"] /\ opt["ack_c"] > 0, opt["ack_bo_ivl"] > 1)

-----------------------------------------------------------------------------
(* pgm_close *)

\* the source's channels are closed whichever way the socket faces
ToCloseEvery == Notifies

\* a descriptor that was never made is 0, and is closed all the same
ToClose == {n \in Notifies : \/ n = "pending"
                             \/ opt["can_send"] /\ n = "rdata"
                             \/ opt["can_send"] /\ opt["ack_c"] > 0 /\ n = "ack"}

Close ==
    /\ phase \in {"open", "bound", "connected"}
    /\ Careful => fd["pending"] = "open"
    /\ phase' = "closed"
    /\ window' = NoWindow
    /\ table' = FALSE
    /\ buffer' = FALSE
    /\ fd' = [n \in Notifies |-> IF n \in ToClose THEN "invalid" ELSE fd[n]]
    /\ foreign' = (\E n \in ToClose : fd[n] = "zero")
    /\ UNCHANGED <<opt, joined, seg, lost, aborted>>

Next ==
    /\ ~aborted
    /\ \/ \E s \in Settings : SetOption(s[1], s[2])
       \/ \E g \in Groups : Join(g)
       \/ \E g \in Groups : Leave(g)
       \/ \E n \in Notifies : BindLacksNotify(n)
       \/ BindLacksAddress
       \/ Bind
       \/ Connect
       \/ Send
       \/ SendParity
       \/ Receive
       \/ HearSource
       \/ SendAck
       \/ Close

Spec == Init /\ [][Next]_vars

-----------------------------------------------------------------------------
(* Properties *)

(* What bind accepts, with what Sensible adds, is enough: the windows and the *)
(* rate buckets can be made, the first packet of a source finds a receive     *)
(* window that can be made, every packet fits its buffer, and connect, send   *)
(* and receive find the structures they use.                                  *)
AssertionsHold == ~aborted

(* pgm_close releases what bind made, all of it, and closes no descriptor     *)
(* that is not the socket's own.                                              *)
NothingLeaks ==
    phase = "closed" => /\ lost = 0 /\ ~foreign
                        /\ \A n \in Notifies : fd[n] # "open"

Fragments == LET size == seg.fragment - (IF opt["fec"].var THEN 2 ELSE 0)
             IN  (seg.apdu + size - 1) \div size

(* The largest APDU that pgm_send takes (PGM_PDU) is sent in no more packets  *)
(* than a receiver assembles, and than the transmit window holds for repair,  *)
(* and its length fits the field that carries it.                             *)
FragmentsFit ==
    phase = "connected" /\ opt["can_send"] =>
        /\ seg.apdu <= MaxApdu
        /\ Fragments <= LesserOf(MaxFragments, window.slots)

=============================================================================
