------------------------------ MODULE Congestion ------------------------------
(* PGMCC at a source (source.c, timer.c): a window of tokens in fixed-point   *)
(* arithmetic, the history of what the ACKer acknowledged, and the timeout    *)
(* that starts again with one token.  Two threads change it without a common  *)
(* lock: one sends original data (source_mutex); the other, in pgm_recv,      *)
(* handles ACKs, sends repairs and runs the timer (receiver_mutex).  Only     *)
(* single-fragment messages need a token.                                     *)
EXTENDS Integers, FiniteSets

CONSTANTS One,        \* pgm_fp8 (1), a power of two
          BitmapLen,  \* bits of a bitmap, 32 in the code
          Wrap,       \* 2^32, of the uint32_t tokens
          MaxSent,    \* bound: original data packets
          MaxAcks     \* bound: ACKs on their way

ASSUME CongestionAssumption ==
    /\ {One, BitmapLen, Wrap, MaxSent, MaxAcks} \subseteq Nat \ {0}
    /\ One % 2 = 0

VARIABLES tokens, cwnd,     \* tokens, cwnd_size
          ackRxMax, held,   \* ack_rx_max, and the numbers whose bit is set
          afterLoss,        \* acks_after_loss
          congested, suspended,  \* is_congested, suspended_sqn
          expiry,           \* ack_expiry is set
          sent,             \* original data packets sent: 0..sent - 1
          received,         \* those the ACKer has
          acks,             \* ACKs on their way, in any order
          pc,               \* per thread: "idle", past its "send" check, or to "spend"
          seen,             \* per thread: the tokens it has read, to take one off
          raced,            \* history: a thread changed the tokens amid another's send
          credit            \* history: how often each number counted as newly acknowledged

vars == <<tokens, cwnd, ackRxMax, held, afterLoss, congested, suspended, expiry,
          sent, received, acks, pc, seen, raced, credit>>
window == <<cwnd, ackRxMax, held, afterLoss, congested, suspended>>

Thread == {"sender", "receiver"}
Other(t) == IF t = "sender" THEN "receiver" ELSE "sender"

Ssthresh == 4 * One
Times(a, b) == (a * b + One \div 2) \div One
Over(a, b) == ((a * 2 * One) \div b + 1) \div 2
Lesser(a, b) == IF a < b THEN a ELSE b
Greater(a, b) == IF a > b THEN a ELSE b

\* the numbers that the bitmap of an ACK up to n stands for
Span(n) == n - BitmapLen + 1 .. n

\* pgm_connect
Init ==
    /\ tokens = One /\ cwnd = One
    /\ ackRxMax = 0 /\ held = Span(0)
    /\ afterLoss = 0 /\ congested = FALSE /\ suspended = 0
    /\ expiry = FALSE
    /\ sent = 0 /\ received = {} /\ acks = {}
    /\ pc = [t \in Thread |-> "idle"] /\ seen = [t \in Thread |-> 0]
    /\ raced = FALSE /\ credit = [n \in 0..MaxSent - 1 |-> 0]

-----------------------------------------------------------------------------
(* The network and the ACKer: its window starts with a full bitmap, and it    *)
(* answers every packet that is new to it.                                    *)

IsLead(n, numbers) == \A m \in numbers : m <= n

\* n is the latest of the numbers received
Ack(n, numbers) ==
    [max |-> n,
     bits |-> {m \in Span(n) : m \in numbers \/ \A k \in numbers : m < k}]

Carry(n) ==
    \/ UNCHANGED <<received, acks>>                  \* the packet is lost
    \/ /\ n \notin received
       /\ received' = received \cup {n}
       /\ \/ UNCHANGED acks                          \* its ACK is lost
          \/ /\ Cardinality(acks) < MaxAcks
             /\ \E lead \in received' :
                   /\ IsLead(lead, received')
                   /\ acks' = acks \cup {Ack(lead, received')}

-----------------------------------------------------------------------------
(* Packets that need a token *)

HasToken == tokens >= One

\* thread t changes the tokens; capped: it leaves no more than the window
Change(t, capped) == raced' = (pc[Other(t)] # "idle" \/ (raced /\ ~capped))

\* numbers that are missing at the ACKer, and that it asks for
Missing == {n \in 0..MaxSent - 1 \ received :
               \E first, last \in received : first < n /\ n < last}

\* send_odata, send_odata_copy and send_rdata begin with a check
CheckToken(t) ==
    /\ pc[t] = "idle"
    /\ IF t = "sender" THEN sent < MaxSent ELSE Missing # {}
    /\ HasToken
    /\ pc' = [pc EXCEPT ![t] = "send"]
    /\ UNCHANGED <<tokens, window, expiry, sent, received, acks, seen, raced, credit>>

\* the packet is out, and the thread reads the tokens to take one off
Sent(t, n) ==
    /\ pc[t] = "send"
    /\ Carry(n)
    /\ seen' = [seen EXCEPT ![t] = tokens]
    /\ pc' = [pc EXCEPT ![t] = "spend"]
    /\ UNCHANGED <<tokens, window, expiry, raced, credit>>

SendData == sent' = sent + 1 /\ Sent("sender", sent)

SendRepair == UNCHANGED sent /\ \E n \in Missing : Sent("receiver", n)

\* tokens -= 1, and the ACK timer is set
Spend(t) ==
    /\ pc[t] = "spend"
    /\ tokens' = (seen[t] - One) % Wrap
    /\ expiry' = TRUE
    /\ pc' = [pc EXCEPT ![t] = "idle"]
    /\ seen' = [seen EXCEPT ![t] = 0]
    /\ Change(t, FALSE)
    /\ UNCHANGED <<window, sent, received, acks, credit>>

\* the same, but what the other thread computed meanwhile is stored after it
SpendLost(t) ==
    /\ pc[t] = "spend" /\ raced
    /\ expiry' = TRUE
    /\ pc' = [pc EXCEPT ![t] = "idle"]
    /\ seen' = [seen EXCEPT ![t] = 0]
    /\ UNCHANGED <<tokens, window, sent, received, acks, raced, credit>>

\* the network or the rate limit refuses the packet: the token is kept
SendRefused(t) ==
    /\ pc[t] = "send"
    /\ pc' = [pc EXCEPT ![t] = "idle"]
    /\ UNCHANGED <<tokens, window, expiry, sent, received, acks, seen, raced, credit>>

\* send_odatav and the fragments of an APDU: no check, no token, no timeout
SendFragment ==
    /\ pc["sender"] = "idle"
    /\ sent < MaxSent
    /\ sent' = sent + 1
    /\ Carry(sent)
    /\ UNCHANGED <<tokens, window, expiry, pc, seen, raced, credit>>

-----------------------------------------------------------------------------
(* ACKs, and the timeout; the receiving thread is between two repairs *)

\* Mutant: the timeout clears the bitmap instead of filling it.
TimeoutForgets ==
    /\ pc["receiver"] = "idle"
    /\ ~HasToken /\ expiry
    /\ tokens' = One /\ cwnd' = One
    /\ held' = {}
    /\ expiry' = FALSE
    /\ Change("receiver", TRUE)
    /\ UNCHANGED <<ackRxMax, afterLoss, congested, suspended, sent, received, acks, pc, seen,
                   credit>>

\* pgm_timer_dispatch, once ack_expiry has passed
Timeout ==
    /\ pc["receiver"] = "idle"
    /\ ~HasToken /\ expiry
    /\ tokens' = One /\ cwnd' = One
    /\ held' = Span(ackRxMax)
    /\ expiry' = FALSE
    /\ Change("receiver", TRUE)
    /\ UNCHANGED <<ackRxMax, afterLoss, congested, suspended, sent, received, acks, pc, seen,
                   credit>>

LoseAck(a) ==
    /\ acks' = acks \ {a}
    /\ UNCHANGED <<tokens, window, expiry, sent, received, pc, seen, raced, credit>>

(* The bitmap shifted to end at the later of the two numbers.  A shift by all *)
(* its bits is undefined in C: nothing is left, or the bits stay as they are. *)
Shifted(a) ==
    {held \cap Span(Greater(a.max, ackRxMax))}
        \cup (IF a.max - ackRxMax = BitmapLen THEN {{n + BitmapLen : n \in held}} ELSE {})

Acked(a) == a.bits \cap Span(Greater(a.max, ackRxMax))
NewAcks(a, bits) == Cardinality(Acked(a) \ bits)

Count(numbers) ==
    credit' = [n \in 0..MaxSent - 1 |-> IF n \in numbers THEN credit[n] + 1 ELSE credit[n]]

\* the window is as it was, tokens come back for what was acknowledged
Suspended(new) ==
    /\ tokens' = Lesser(tokens + Times(new * One, One + Over(One, cwnd)), cwnd)
    /\ Change("receiver", TRUE)
    /\ UNCHANGED <<cwnd, afterLoss, congested, suspended>>

(* Slow start doubles the window up to ssthresh, then it grows by one packet  *)
(* for each window acknowledged.                                              *)
Grow(new) ==
    LET n  == (new + afterLoss) * One
        d  == IF cwnd < Ssthresh THEN Lesser(n, Ssthresh - cwnd) ELSE 0
        iw == Over(One, cwnd + d)
    IN  /\ cwnd' = cwnd + d + Times(n - d, iw)
        /\ tokens' = Lesser(tokens + 2 * d + Times(n - d, One + iw), cwnd')
        /\ Change("receiver", TRUE)
        /\ afterLoss' = 0 /\ congested' = FALSE
        /\ UNCHANGED suspended

\* Mutant: the window is halved, the tokens are not.
HalveWindowOnly(max) ==
    /\ cwnd' = Over(cwnd, 2 * One)
    /\ UNCHANGED <<tokens, raced>>
    /\ afterLoss' = 0 /\ congested' = TRUE /\ suspended' = max

Halve(max) ==
    /\ cwnd' = Over(cwnd, 2 * One)
    /\ tokens' = IF cwnd' > tokens THEN 0 ELSE tokens - cwnd'
    /\ Change("receiver", FALSE)
    /\ afterLoss' = 0 /\ congested' = TRUE /\ suspended' = max

\* fewer than three ACKs since the loss: it may be reordering
Wait(new) ==
    /\ afterLoss' = afterLoss + new
    /\ congested' = FALSE
    /\ UNCHANGED <<tokens, cwnd, suspended, raced>>

\* the branches of pgm_on_ack that give up an ACK without a new number
NothingNew(bits, a) ==
    /\ NewAcks(a, bits) = 0
    /\ held' = bits
    /\ UNCHANGED <<tokens, cwnd, afterLoss, congested, suspended, raced, credit>>

Judge(bits, a) ==
    LET new == NewAcks(a, bits)
        got == bits \cup Acked(a)
        all == Span(Greater(a.max, ackRxMax))
    IN  /\ new > 0
        /\ Count(Acked(a) \ bits)
        /\ \/ /\ congested /\ a.max <= suspended
              /\ Suspended(new) /\ held' = got
           \/ /\ ~(congested /\ a.max <= suspended)
              /\ \/ got = all /\ Grow(new) /\ held' = got
                 \/ /\ got # all /\ afterLoss + new < 3
                    /\ Wait(new) /\ held' = got
                 \/ /\ got # all /\ afterLoss + new >= 3
                    /\ Halve(a.max) /\ held' = all

\* pgm_on_ack, from the ACKer
OnAck(a) ==
    /\ pc["receiver"] = "idle"
    /\ acks' = acks \ {a}
    /\ ackRxMax' = Greater(a.max, ackRxMax)
    /\ \E bits \in Shifted(a) : NothingNew(bits, a) \/ Judge(bits, a)
    /\ UNCHANGED <<expiry, sent, received, pc, seen>>

Next ==
    \/ \E t \in Thread : CheckToken(t) \/ Spend(t) \/ SpendLost(t) \/ SendRefused(t)
    \/ SendData
    \/ SendRepair
    \/ SendFragment
    \/ Timeout
    \/ \E a \in acks : LoseAck(a) \/ OnAck(a)

Spec == Init /\ [][Next]_vars

\* a receiver that does not block calls pgm_recvmsgv again and again, and so
\* dispatches the timer; a send that began goes on
FairSpec == Spec /\ WF_vars(Timeout) /\ WF_vars(SendData)
                 /\ \A t \in Thread : WF_vars(Spend(t) \/ SpendLost(t))

-----------------------------------------------------------------------------
(* Properties *)

(* The window never falls to zero, by which it is divided, and the tokens     *)
(* exceed it only when the two threads overlapped: when an ACK or a packet of *)
(* the one changed the tokens between the check and the decrement of the      *)
(* other (source.c:1201, 1238).  Then a decrement may wrap below zero or undo *)
(* an ACK; the next ACK that brings tokens, or the timeout, ends that.        *)
TypeOK ==
    /\ cwnd \in Nat \ {0} /\ tokens \in Nat
    /\ raced \in BOOLEAN /\ (raced \/ tokens <= cwnd)
    /\ ackRxMax \in 0..MaxSent - 1 /\ held \subseteq Span(ackRxMax)
    /\ afterLoss \in 0..2 /\ congested \in BOOLEAN /\ suspended \in 0..MaxSent - 1
    /\ expiry \in BOOLEAN
    /\ sent \in 0..MaxSent /\ received \subseteq 0..sent - 1
    /\ \A a \in acks : a.max \in received /\ a.bits \subseteq Span(a.max)
    /\ pc \in [Thread -> {"idle", "send", "spend"}] /\ seen \in [Thread -> Nat]
    /\ credit \in [0..MaxSent - 1 -> Nat]

(* No packet counts twice as newly acknowledged, and so none opens the window *)
(* twice, although every ACK repeats what the 32 before it said, ACKs overtake *)
(* each other, and the bitmap they are compared with is shifted, filled by a  *)
(* loss and filled by the timeout (source.c:576-588, 660, timer.c:159).       *)
CreditedOnce == \A n \in 0..MaxSent - 1 : credit[n] <= 1

(* What the code does not keep (CongestionClaims.cfg).                        *)

(* The tokens are never more than the window, as every place that gives some  *)
(* back caps them (source.c:629, 650).                                        *)
TokensInWindow == tokens <= cwnd

(* A source without a token gets one again (timer.c:144, source.c:1206).      *)
Unblocks == ~HasToken ~> HasToken

=============================================================================
