------------------------------- MODULE MCConfig -------------------------------
(* A UDP-encapsulated IPv4 socket with the header sizes of packet.h, whose    *)
(* application has set the timers and chooses the windows, the rates, the     *)
(* packet size, FEC, congestion control and the direction.                    *)
EXTENDS Config, TLC

Timers == ("ambient_spm" :> 5) @@ ("peer_expiry" :> 9) @@ ("spmr_expiry" :> 3)
          @@ ("nak_rpt_ivl" :> 2) @@ ("nak_rdata_ivl" :> 2)
          @@ ("nak_data_retries" :> 5) @@ ("nak_ncf_retries" :> 5)

\* 1700 = 17 packets of 100 bytes, 9 of 172
Choices == {<<"mtu", 60>>, <<"mtu", 100>>, <<"mtu", 172>>, <<"heartbeat_spm", 1>>,
            <<"txw_sqns", 4>>, <<"txw_secs", 1>>,
            <<"txw_max_rte", 1700>>, <<"txw_max_rte", 50>>,
            <<"rxw_sqns", 4>>, <<"rxw_secs", 1>>, <<"rxw_max_rte", 150>>,
            <<"nak_bo_ivl", 1>>, <<"nak_bo_ivl", 2>>,
            <<"fec", [k |-> 2, n |-> 3, var |-> FALSE]>>,
            <<"fec", [k |-> 2, n |-> 2, var |-> FALSE]>>,
            <<"ack_c", 1>>, <<"ack_bo_ivl", 2>>,
            <<"can_send", FALSE>>, <<"can_recv", FALSE>>}

\* a complete configuration, to which packets of variable length may be added
Complete == Timers @@ ("mtu" :> 200) @@ ("heartbeat_spm" :> 1) @@ ("txw_secs" :> 1)
            @@ ("txw_max_rte" :> 20000) @@ ("rxw_sqns" :> 50) @@ ("nak_bo_ivl" :> 2)
VariableLength == {<<"fec", [k |-> 2, n |-> 3, var |-> TRUE]>>}
=============================================================================
