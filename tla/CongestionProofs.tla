--------------------------- MODULE CongestionProofs ---------------------------
(* The window of a PGMCC source is sound for every scale of its arithmetic    *)
(* and every length of its bitmap, however its two threads interleave.        *)
(*                                                                            *)
(* The inductive invariant has four parts that hardly need each other: what   *)
(* is on its way (Network), the tokens and the threads that take them         *)
(* (Purse), the history of ACKs (History), and what was counted (Credits).    *)
EXTENDS Congestion, FiniteSetTheorems, TLAPS

-----------------------------------------------------------------------------
(* Fixed-point arithmetic *)

LEMMA DivType ==
    ASSUME NEW a \in Nat, NEW b \in Nat \ {0}
    PROVE  a \div b \in Nat
OBVIOUS

LEMMA ModBound ==
    ASSUME NEW a \in Nat, NEW b \in Nat \ {0}
    PROVE  a % b \in 0..a
OBVIOUS

LEMMA MulType ==
    ASSUME NEW a \in Nat, NEW b \in Nat
    PROVE  a * b \in Nat
OBVIOUS

LEMMA DivCancel ==
    ASSUME NEW a \in Nat, NEW b \in Nat \ {0}
    PROVE  (a * b) \div b = a
OBVIOUS

LEMMA OneType == One \in Nat \ {0} /\ 2 * One \in Nat \ {0}
BY CongestionAssumption

LEMMA TimesType ==
    ASSUME NEW a \in Nat, NEW b \in Nat
    PROVE  Times(a, b) \in Nat
<1>1. a * b \in Nat
  BY MulType
<1>2. One \div 2 \in Nat
  BY OneType, DivType
<1>3. a * b + One \div 2 \in Nat
  BY <1>1, <1>2
<1>4. QED BY <1>3, OneType, DivType DEF Times

LEMMA OverType ==
    ASSUME NEW a \in Nat, NEW b \in Nat \ {0}
    PROVE  Over(a, b) \in Nat
<1>1. a * 2 * One \in Nat
  BY OneType, MulType
<1>2. (a * 2 * One) \div b \in Nat
  BY <1>1, DivType
<1>3. (a * 2 * One) \div b + 1 \in Nat
  BY <1>2
<1>4. QED BY <1>3, DivType DEF Over

(* Half a window rounds up: it is never nothing, and twice it is no less than *)
(* the window.                                                                *)
LEMMA HalfType ==
    ASSUME NEW c \in Nat \ {0}
    PROVE  /\ Over(c, 2 * One) \in Nat \ {0}
           /\ c <= 2 * Over(c, 2 * One)
<1>1. c * 2 * One = c * (2 * One)
  BY OneType
<1>2. (c * 2 * One) \div (2 * One) = c
  BY <1>1, OneType, DivCancel
<1>3. Over(c, 2 * One) = (c + 1) \div 2
  BY <1>2 DEF Over
<1>4. QED BY <1>3

LEMMA WrapType ==
    ASSUME NEW a \in Int
    PROVE  a % Wrap \in Nat
BY CongestionAssumption

-----------------------------------------------------------------------------
(* The inductive invariant.                                                   *)

\* what is on its way was sent, and says what the ACKer has
Network ==
    /\ sent \in 0..MaxSent /\ received \subseteq 0..sent - 1
    /\ \A a \in acks : a.max \in received /\ a.bits \subseteq Span(a.max)
    /\ pc["sender"] = "send" => sent < MaxSent

\* as long as no thread changed the tokens amid the send of the other, a thread past
\* its check finds its token, and the tokens are those it has read
Purse ==
    /\ cwnd \in Nat \ {0} /\ tokens \in Nat /\ raced \in BOOLEAN
    /\ pc \in [Thread -> {"idle", "send", "spend"}] /\ seen \in [Thread -> Nat]
    /\ ~raced => /\ tokens <= cwnd
                 /\ \A t \in Thread : /\ pc[t] # "idle" => tokens >= One
                                      /\ pc[t] = "spend" => seen[t] = tokens

History ==
    /\ ackRxMax \in 0..MaxSent - 1 /\ held \subseteq Span(ackRxMax)
    /\ afterLoss \in 0..2 /\ suspended \in 0..MaxSent - 1
    /\ congested \in BOOLEAN /\ expiry \in BOOLEAN

\* a number that counted is behind the bitmap, or its bit is set
Remembered(n) == n <= ackRxMax /\ (n \in Span(ackRxMax) => n \in held)

Credits ==
    /\ credit \in [0..MaxSent - 1 -> Nat]
    /\ \A n \in 0..MaxSent - 1 : credit[n] = 0 \/ (credit[n] = 1 /\ Remembered(n))

IInv == Network /\ Purse /\ History /\ Credits

LEMMA Started == Init => IInv
<1> SUFFICES ASSUME Init PROVE IInv
  OBVIOUS
<1>1. MaxSent \in Nat \ {0} /\ One \in Nat \ {0}
  BY CongestionAssumption
<1>2. /\ pc \in [Thread -> {"idle", "send", "spend"}] /\ seen \in [Thread -> Nat]
      /\ \A t \in Thread : pc[t] = "idle"
  BY DEF Init
<1>3. Network
  BY <1>1, <1>2 DEF Init, Network, Thread
<1>4. raced = FALSE /\ tokens = One /\ cwnd = One
  BY DEF Init
<1>a. raced \in BOOLEAN /\ ~raced
  BY <1>4, Zenon
<1>5. Purse
  BY <1>1, <1>2, <1>4, <1>a DEF Purse
<1>6. congested \in BOOLEAN /\ expiry \in BOOLEAN
  BY DEF Init
<1>7. History
  BY <1>1, <1>6 DEF Init, History
<1>8. Credits
  BY DEF Init, Credits
<1>9. QED BY <1>3, <1>5, <1>7, <1>8 DEF IInv

-----------------------------------------------------------------------------
(* Packets and ACKs on their way.                                             *)

\* what the network and the ACKer may change
LEMMA CarryType ==
    ASSUME Network, NEW n \in 0..MaxSent - 1, Carry(n),
           NEW m \in 0..MaxSent, n < m, sent <= m
    PROVE  /\ received' \subseteq 0..m - 1
           /\ \A a \in acks' : a.max \in received' /\ a.bits \subseteq Span(a.max)
<1>1. /\ received \subseteq 0..m - 1 /\ n \in 0..m - 1
      /\ \A a \in acks : a.max \in received /\ a.bits \subseteq Span(a.max)
  <2>1. MaxSent \in Nat /\ sent \in Nat /\ received \subseteq 0..sent - 1
    BY CongestionAssumption DEF Network
  <2>2. m \in Nat /\ n \in Nat
    BY <2>1
  <2>3. received \subseteq 0..m - 1
    BY <2>1, <2>2
  <2>4. n \in 0..m - 1
    BY <2>1, <2>2
  <2>5. \A a \in acks : a.max \in received /\ a.bits \subseteq Span(a.max)
    BY Zenon DEF Network
  <2>6. QED BY <2>3, <2>4, <2>5
<1>2. received' = received \/ received' = received \cup {n}
  BY DEF Carry
<1>3. acks' = acks \/ \E lead \in received' : acks' = acks \cup {Ack(lead, received')}
  BY DEF Carry
<1>4. ASSUME NEW lead \in received'
      PROVE  /\ Ack(lead, received').max \in received'
             /\ Ack(lead, received').bits \subseteq Span(Ack(lead, received').max)
  BY DEF Ack
<1>5. received' \subseteq 0..m - 1 /\ received \subseteq received'
  BY <1>1, <1>2
<1>6. ASSUME NEW a \in acks'
      PROVE  a.max \in received' /\ a.bits \subseteq Span(a.max)
  <2>1. CASE a \in acks
    BY <1>1, <1>5, <2>1, Zenon
  <2>2. ASSUME NEW lead \in received', a = Ack(lead, received')
        PROVE  a.max \in received' /\ a.bits \subseteq Span(a.max)
    BY <1>4, <2>2, Zenon
  <2>3. QED BY <1>3, <2>1, <2>2, Zenon
<1>7. QED BY <1>5, <1>6

LEMMA NetworkKept ==
    ASSUME Network, Purse, [Next]_vars
    PROVE  Network'
<1>1. MaxSent \in Nat \ {0} /\ sent \in 0..MaxSent
  BY CongestionAssumption DEF Network
<1>2. CASE UNCHANGED <<sent, received, acks>> /\ (pc'["sender"] = "send" => sent < MaxSent)
  BY <1>2 DEF Network, Span
<1>3. ASSUME NEW n \in 0..MaxSent - 1, Carry(n), sent' \in 0..MaxSent, n < sent',
             sent <= sent', pc'["sender"] # "send"
      PROVE  Network'
  <2>1. /\ received' \subseteq 0..sent' - 1
        /\ \A a \in acks' : a.max \in received' /\ a.bits \subseteq Span(a.max)
    BY <1>3, CarryType
  <2>2. QED BY <1>3, <2>1 DEF Network, Span
<1>4. CASE UNCHANGED vars
  BY <1>2, <1>4 DEF vars, Network
<1>5. ASSUME NEW t \in Thread, CheckToken(t) \/ Spend(t) \/ SpendLost(t) \/ SendRefused(t)
      PROVE  Network'
  <2>1. pc'["sender"] = "send" => sent < MaxSent
    BY <1>5 DEF CheckToken, Spend, SpendLost, SendRefused, Network, Purse, Thread
  <2>2. QED BY <1>2, <1>5, <2>1 DEF CheckToken, Spend, SpendLost, SendRefused
<1>6. CASE SendData
  <2>1. /\ pc["sender"] = "send" /\ pc'["sender"] = "spend" /\ sent' = sent + 1
        /\ Carry(sent)
    BY <1>6 DEF SendData, Sent, Purse, Thread
  <2>2. sent \in 0..MaxSent - 1 /\ sent' \in 0..MaxSent
    BY <1>1, <2>1 DEF Network
  <2>3. QED BY <1>3, <2>1, <2>2
<1>7. CASE SendRepair
  <2>1. PICK n \in Missing : Sent("receiver", n)
    BY <1>7 DEF SendRepair
  <2>2. /\ Carry(n) /\ sent' = sent /\ pc["receiver"] = "send"
        /\ pc'["sender"] = pc["sender"]
    BY <1>7, <2>1 DEF SendRepair, Sent, Purse, Thread
  <2>3. n \in 0..MaxSent - 1 /\ n < sent
    <3>1. PICK last \in received : n < last
      BY DEF Missing
    <3>2. last \in 0..sent - 1 /\ n \in 0..MaxSent - 1
      BY DEF Network, Missing
    <3>3. QED BY <1>1, <3>1, <3>2
  <2>4. /\ received' \subseteq 0..sent - 1
        /\ \A a \in acks' : a.max \in received' /\ a.bits \subseteq Span(a.max)
    BY <1>1, <2>2, <2>3, CarryType
  <2>5. QED BY <2>2, <2>4 DEF Network, Span
<1>8. CASE SendFragment
  <2>1. /\ pc'["sender"] = "idle" /\ sent' = sent + 1 /\ Carry(sent)
        /\ sent \in 0..MaxSent - 1 /\ sent' \in 0..MaxSent
    BY <1>1, <1>8 DEF SendFragment
  <2>2. QED BY <1>3, <2>1
<1>9. CASE Timeout
  BY <1>2, <1>9 DEF Timeout, Network
<1>10. ASSUME NEW a \in acks, LoseAck(a) \/ OnAck(a)
       PROVE  Network'
  <2>1. UNCHANGED <<sent, received, pc>> /\ acks' \subseteq acks
    BY <1>10 DEF LoseAck, OnAck
  <2>2. QED BY <2>1 DEF Network, Span
<1>11. QED BY <1>4, <1>5, <1>6, <1>7, <1>8, <1>9, <1>10 DEF Next

-----------------------------------------------------------------------------
(* The history of ACKs.                                                       *)

\* the numbers of the history and of an ACK on its way
LEMMA AckFacts ==
    ASSUME Network, History, NEW a \in acks
    PROVE  /\ MaxSent \in Nat /\ BitmapLen \in Nat \ {0}
           /\ ackRxMax \in 0..MaxSent - 1 /\ held \subseteq Span(ackRxMax)
           /\ a.max \in 0..MaxSent - 1
<1>1. MaxSent \in Nat /\ BitmapLen \in Nat \ {0}
  BY CongestionAssumption
<1>2. /\ ackRxMax \in 0..MaxSent - 1 /\ held \subseteq Span(ackRxMax)
      /\ sent \in 0..MaxSent /\ received \subseteq 0..sent - 1 /\ a.max \in received
  BY Zenon DEF Network, History
<1>3. a.max \in 0..sent - 1
  BY <1>2, Zenon
<1>4. a.max \in 0..MaxSent - 1
  BY <1>1, <1>2, <1>3
<1>5. QED BY <1>1, <1>2, <1>4

LEMMA NewAcksType ==
    ASSUME Network, History, NEW a \in acks, NEW bits
    PROVE  NewAcks(a, bits) \in Nat
<1>1. Greater(a.max, ackRxMax) \in Int /\ BitmapLen \in Int
  BY AckFacts DEF Greater
<1>2. IsFiniteSet(Span(Greater(a.max, ackRxMax)))
  BY <1>1, FS_Interval DEF Span
<1>3. IsFiniteSet(Acked(a) \ bits)
  BY <1>2, FS_Subset DEF Acked
<1>4. QED BY <1>3, FS_CardinalityType DEF NewAcks

LEMMA AckedWithin ==
    ASSUME Network, History, NEW a \in acks, NEW bits \in Shifted(a)
    PROVE  /\ Greater(a.max, ackRxMax) \in 0..MaxSent - 1
           /\ a.max \in 0..MaxSent - 1
           /\ bits \subseteq Span(Greater(a.max, ackRxMax))
           /\ Acked(a) \subseteq Span(Greater(a.max, ackRxMax))
<1>1. /\ MaxSent \in Nat /\ BitmapLen \in Nat \ {0}
      /\ ackRxMax \in 0..MaxSent - 1 /\ held \subseteq Span(ackRxMax)
      /\ a.max \in 0..MaxSent - 1
  BY AckFacts
<1>2. Greater(a.max, ackRxMax) \in 0..MaxSent - 1
  BY <1>1 DEF Greater
<1>3. Acked(a) \subseteq Span(Greater(a.max, ackRxMax))
  BY DEF Acked
<1>4. bits \subseteq Span(Greater(a.max, ackRxMax))
  <2>1. CASE bits = held \cap Span(Greater(a.max, ackRxMax))
    BY <2>1
  <2>2. CASE /\ a.max - ackRxMax = BitmapLen
             /\ bits = {n + BitmapLen : n \in held}
    <3>1. Greater(a.max, ackRxMax) = ackRxMax + BitmapLen
      BY <1>1, <2>2 DEF Greater
    <3>2. \A n \in held : n + BitmapLen \in Span(ackRxMax + BitmapLen)
      BY <1>1 DEF Span
    <3>3. QED BY <2>2, <3>1, <3>2
  <2>3. QED BY <2>1, <2>2 DEF Shifted
<1>5. QED BY <1>1, <1>2, <1>3, <1>4

LEMMA HistoryKept ==
    ASSUME Network, History, [Next]_vars
    PROVE  History'
<1>1. /\ MaxSent \in Nat \ {0} /\ BitmapLen \in Nat \ {0} /\ ackRxMax \in 0..MaxSent - 1
      /\ afterLoss \in 0..2 /\ suspended \in 0..MaxSent - 1
  BY CongestionAssumption DEF History
<1>2. congested \in BOOLEAN /\ expiry \in BOOLEAN
  BY Zenon DEF History
<1>3. CASE UNCHANGED window /\ expiry' \in BOOLEAN
  BY <1>3 DEF window, History, Span
<1>4. CASE UNCHANGED vars
  BY <1>2, <1>3, <1>4 DEF vars, window
<1>5. ASSUME NEW t \in Thread, CheckToken(t) \/ Spend(t) \/ SpendLost(t) \/ SendRefused(t)
      PROVE  History'
  BY <1>2, <1>3, <1>5 DEF CheckToken, Spend, SpendLost, SendRefused
<1>6. CASE SendData \/ SendRepair \/ SendFragment
  BY <1>2, <1>3, <1>6 DEF SendData, SendRepair, SendFragment, Sent
<1>7. CASE Timeout
  <2>1. /\ held' = Span(ackRxMax) /\ expiry' \in BOOLEAN
        /\ UNCHANGED <<ackRxMax, afterLoss, congested, suspended>>
    BY <1>7 DEF Timeout
  <2>2. QED BY <1>1, <1>2, <2>1 DEF History, Span
<1>8. ASSUME NEW a \in acks, LoseAck(a)
      PROVE  History'
  BY <1>2, <1>3, <1>8 DEF LoseAck
<1>9. ASSUME NEW a \in acks, OnAck(a)
      PROVE  History'
  <2> DEFINE all == Span(Greater(a.max, ackRxMax))
  <2>1. ackRxMax' = Greater(a.max, ackRxMax) /\ expiry' = expiry
    BY <1>9 DEF OnAck
  <2>2. PICK bits \in Shifted(a) : NothingNew(bits, a) \/ Judge(bits, a)
    BY <1>9 DEF OnAck
  <2>3. /\ ackRxMax' \in 0..MaxSent - 1 /\ a.max \in 0..MaxSent - 1
        /\ bits \subseteq all /\ Acked(a) \subseteq all
    BY <2>1, AckedWithin
  <2>4. held' \subseteq all
    <3> HIDE DEF all
    <3>1. held' = bits \/ held' = bits \cup Acked(a) \/ held' = all
      BY <2>2 DEF NothingNew, Judge, all
    <3>2. QED BY <2>3, <3>1
  <2>5. /\ afterLoss' \in 0..2 /\ suspended' \in 0..MaxSent - 1
        /\ congested' = congested \/ congested' = TRUE \/ congested' = FALSE
    <3> DEFINE new == NewAcks(a, bits)
    <3>1. new \in Nat
      BY NewAcksType
    <3> HIDE DEF new
    <3>2. \/ /\ UNCHANGED <<afterLoss, congested, suspended>>
          \/ afterLoss' = 0 /\ congested' = FALSE /\ suspended' = suspended
          \/ /\ afterLoss + new < 3 /\ afterLoss' = afterLoss + new
             /\ congested' = FALSE /\ suspended' = suspended
          \/ afterLoss' = 0 /\ congested' = TRUE /\ suspended' = a.max
      BY <2>2 DEF NothingNew, Judge, Suspended, Grow, Wait, Halve, new
    <3>3. QED BY <1>1, <2>3, <3>1, <3>2
  <2>6. congested' \in BOOLEAN /\ expiry' \in BOOLEAN
    BY <1>2, <2>1, <2>5, Zenon
  <2>7. QED BY <2>1, <2>3, <2>4, <2>5, <2>6 DEF History, Span
<1>10. QED BY <1>4, <1>5, <1>6, <1>7, <1>8, <1>9 DEF Next

-----------------------------------------------------------------------------
(* What was counted: bits are set when a number counts, and stay set until    *)
(* the bitmap has moved past it.                                              *)

LEMMA CreditsKept ==
    ASSUME Network, History, Credits, [Next]_vars
    PROVE  Credits'
<1>1. /\ MaxSent \in Nat \ {0} /\ BitmapLen \in Nat \ {0} /\ ackRxMax \in 0..MaxSent - 1
      /\ credit \in [0..MaxSent - 1 -> Nat]
  BY CongestionAssumption DEF History, Credits
<1>2. CASE UNCHANGED <<ackRxMax, held, credit>>
  BY <1>2 DEF Credits, Remembered, Span
<1>3. CASE UNCHANGED vars
  BY <1>2, <1>3 DEF vars
<1>4. ASSUME NEW t \in Thread, CheckToken(t) \/ Spend(t) \/ SpendLost(t) \/ SendRefused(t)
      PROVE  Credits'
  BY <1>2, <1>4 DEF CheckToken, Spend, SpendLost, SendRefused, window
<1>5. CASE SendData \/ SendRepair \/ SendFragment
  BY <1>2, <1>5 DEF SendData, SendRepair, SendFragment, Sent, window
<1>6. CASE Timeout
  <2>1. held' = Span(ackRxMax) /\ ackRxMax' = ackRxMax /\ credit' = credit
    BY <1>6 DEF Timeout
  <2>2. QED BY <2>1 DEF Credits, Remembered, Span
<1>7. ASSUME NEW a \in acks, LoseAck(a)
      PROVE  Credits'
  BY <1>2, <1>7 DEF LoseAck, window
<1>8. ASSUME NEW a \in acks, OnAck(a)
      PROVE  Credits'
  <2> DEFINE all == Span(Greater(a.max, ackRxMax))
  <2>1. ackRxMax' = Greater(a.max, ackRxMax)
    BY <1>8 DEF OnAck
  <2>2. PICK bits \in Shifted(a) : NothingNew(bits, a) \/ Judge(bits, a)
    BY <1>8 DEF OnAck
  <2> DEFINE new == Acked(a) \ bits
  <2>3. /\ a.max \in 0..MaxSent - 1 /\ Acked(a) \subseteq all
        /\ ackRxMax' \in 0..MaxSent - 1 /\ ackRxMax <= ackRxMax'
    BY <1>1, <2>1, AckedWithin DEF Greater
  <2>4. ASSUME NEW n \in 0..MaxSent - 1, Remembered(n)
        PROVE  n <= ackRxMax' /\ (n \in all => n \in bits)
    <3>1. n <= ackRxMax'
      BY <1>1, <2>3, <2>4 DEF Remembered
    <3>2. ASSUME n \in all PROVE n \in bits
      <4>1. CASE bits = held \cap all
        <5>1. n \in Span(ackRxMax)
          BY <1>1, <2>1, <2>3, <2>4, <3>2 DEF Span, Remembered
        <5>2. QED BY <2>4, <3>2, <4>1, <5>1 DEF Remembered
      <4>2. CASE a.max - ackRxMax = BitmapLen
        <5>1. Greater(a.max, ackRxMax) = ackRxMax + BitmapLen
          <6>1. a.max \in Nat /\ ackRxMax \in Nat /\ BitmapLen \in Nat
            BY AckFacts
          <6>2. QED BY <4>2, <6>1 DEF Greater
        <5>2. QED BY <1>1, <2>4, <3>2, <5>1 DEF Span, Remembered
      <4>3. QED BY <4>1, <4>2 DEF Shifted
    <3>3. QED BY <3>1, <3>2
  <2>5. all = Span(ackRxMax')
    BY <2>1
  <2> DEFINE Marked(n) == n <= ackRxMax' /\ (n \in all => n \in held')
  <2>6. ASSUME NEW n \in 0..MaxSent - 1, Marked(n)
        PROVE  Remembered(n)'
    BY <2>5, <2>6 DEF Remembered, Span
  <2>7. CASE NothingNew(bits, a)
    <3>1. held' = bits /\ credit' = credit
      BY <2>7 DEF NothingNew
    <3>2. QED BY <2>4, <2>6, <3>1 DEF Credits
  <2>8. CASE Judge(bits, a)
    <3>1. Count(new)
      BY <2>8 DEF Judge
    <3>2. held' = bits \cup Acked(a) \/ held' = all
      BY <2>8 DEF Judge
    <3>3. \A n \in 0..MaxSent - 1 :
             credit'[n] = IF n \in new THEN credit[n] + 1 ELSE credit[n]
      BY <3>1 DEF Count
    <3>4. credit' \in [0..MaxSent - 1 -> Nat]
      BY <1>1, <3>1 DEF Count
    <3>5. ASSUME NEW n \in 0..MaxSent - 1
          PROVE  credit'[n] = 0 \/ (credit'[n] = 1 /\ Remembered(n)')
      <4>1. CASE n \in new
        <5>1. n \in all /\ n \in Acked(a) /\ n \notin bits
          BY <2>3, <4>1
        <5>2. ~Remembered(n)
          BY <2>4, <5>1
        <5>a. credit[n] = 0
          BY <5>2 DEF Credits
        <5>3. credit'[n] = 1
          BY <3>3, <4>1, <5>a
        <5>4. n <= ackRxMax'
          <6>1. n \in Span(ackRxMax') /\ ackRxMax' \in 0..MaxSent - 1
            BY <2>3, <2>5, <5>1
          <6>2. \A x \in Int : n \in Span(x) => n <= x
            BY <1>1 DEF Span
          <6>3. ackRxMax' \in Int
            BY <1>1, <6>1
          <6>4. QED BY <6>1, <6>2, <6>3
        <5>5. Marked(n)
          <6> HIDE DEF all
          <6>1. QED BY <3>2, <5>1, <5>4
        <5>6. QED BY <2>6, <5>3, <5>5
      <4>2. CASE n \notin new
        <5>1. credit'[n] = credit[n]
          BY <3>3, <4>2
        <5>2. CASE credit[n] = 0
          BY <5>1, <5>2
        <5>3. CASE credit[n] = 1 /\ Remembered(n)
          <6>1. n <= ackRxMax' /\ (n \in all => n \in bits)
            BY <2>4, <5>3
          <6>2. Marked(n)
            <7> HIDE DEF all
            <7>1. QED BY <3>2, <6>1
          <6>3. QED BY <2>6, <5>1, <5>3, <6>2
        <5>4. QED BY <5>2, <5>3 DEF Credits
      <4>3. QED BY <4>1, <4>2
    <3>6. QED BY <3>4, <3>5 DEF Credits
  <2>9. QED BY <2>2, <2>7, <2>8
<1>9. QED BY <1>3, <1>4, <1>5, <1>6, <1>7, <1>8 DEF Next

-----------------------------------------------------------------------------
(* The tokens.                                                                *)

LEMMA GrowType ==
    ASSUME Purse, History, NEW new \in Nat, Grow(new)
    PROVE  cwnd' \in Nat \ {0} /\ tokens' \in 0..cwnd'
<1> DEFINE n  == (new + afterLoss) * One
           d  == IF cwnd < Ssthresh THEN Lesser(n, Ssthresh - cwnd) ELSE 0
           iw == Over(One, cwnd + d)
<1>1. /\ One \in Nat \ {0} /\ cwnd \in Nat \ {0} /\ tokens \in Nat
      /\ afterLoss \in Nat
  BY OneType DEF Purse, History
<1>2. n \in Nat
  BY <1>1, MulType
<1>3. d \in Nat /\ n - d \in Nat
  <2>1. Ssthresh \in Nat
    BY <1>1 DEF Ssthresh
  <2>2. QED BY <1>1, <1>2, <2>1 DEF Lesser
<1>4. iw \in Nat /\ One + iw \in Nat
  <2>1. cwnd + d \in Nat \ {0}
    BY <1>1, <1>3
  <2>2. iw \in Nat
    BY <1>1, <2>1, OverType
  <2>3. QED BY <1>1, <2>2
<1>5. Times(n - d, iw) \in Nat /\ Times(n - d, One + iw) \in Nat
  BY <1>1, <1>3, <1>4, TimesType
<1>6. /\ cwnd' = cwnd + d + Times(n - d, iw)
      /\ tokens' = Lesser(tokens + 2 * d + Times(n - d, One + iw), cwnd')
  BY DEF Grow
<1>7. cwnd' \in Nat \ {0}
  <2> HIDE DEF n, d, iw
  <2>1. QED BY <1>1, <1>3, <1>5, <1>6
<1>8. tokens + 2 * d + Times(n - d, One + iw) \in Nat
  <2> HIDE DEF n, d, iw
  <2>1. QED BY <1>1, <1>3, <1>5
<1>9. tokens' \in 0..cwnd'
  <2> HIDE DEF n, d, iw
  <2>1. QED BY <1>6, <1>7, <1>8 DEF Lesser
<1>10. QED BY <1>7, <1>9

LEMMA SuspendedType ==
    ASSUME Purse, History, NEW new \in Nat, Suspended(new)
    PROVE  cwnd' \in Nat \ {0} /\ tokens' \in 0..cwnd'
<1>1. One \in Nat /\ cwnd \in Nat \ {0} /\ tokens \in Nat
  BY OneType DEF Purse
<1>2. Over(One, cwnd) \in Nat /\ One + Over(One, cwnd) \in Nat
  <2>1. Over(One, cwnd) \in Nat
    BY <1>1, OverType
  <2>2. QED BY <1>1, <2>1
<1>3. new * One \in Nat
  BY <1>1, MulType
<1>4. Times(new * One, One + Over(One, cwnd)) \in Nat
  BY <1>1, <1>2, <1>3, TimesType
<1>5. QED BY <1>1, <1>4 DEF Suspended, Lesser

LEMMA HalveType ==
    ASSUME Purse, NEW max, Halve(max)
    PROVE  /\ cwnd' \in Nat \ {0} /\ tokens' \in Nat
           /\ tokens <= cwnd => tokens' <= cwnd'
<1>1. cwnd \in Nat \ {0} /\ tokens \in Nat
  BY DEF Purse
<1>2. cwnd' \in Nat \ {0} /\ cwnd <= 2 * cwnd'
  BY <1>1, HalfType DEF Halve
<1>3. QED BY <1>1, <1>2 DEF Halve

\* an unraced change comes while the other thread is idle
LEMMA Unraced ==
    ASSUME Purse, NEW t \in Thread, NEW capped \in BOOLEAN, Change(t, capped)
    PROVE  /\ raced' \in BOOLEAN
           /\ ~raced' => pc[Other(t)] = "idle" /\ (raced => capped)
<1>1. raced \in BOOLEAN
  BY Zenon DEF Purse
<1>2. QED BY <1>1 DEF Change

LEMMA PurseKept ==
    ASSUME Purse, Network, History, [Next]_vars
    PROVE  Purse'
<1>1. /\ One \in Nat \ {0} /\ cwnd \in Nat \ {0} /\ tokens \in Nat
      /\ pc \in [Thread -> {"idle", "send", "spend"}] /\ seen \in [Thread -> Nat]
  BY CongestionAssumption DEF Purse
<1>2. raced \in BOOLEAN
  BY Zenon DEF Purse
<1>3. "sender" \in Thread /\ "receiver" \in Thread
      /\ Other("sender") = "receiver" /\ Other("receiver") = "sender"
      /\ \A t, u \in Thread : u = t \/ u = Other(t)
  BY DEF Thread, Other
<1>4. CASE UNCHANGED <<cwnd, tokens, raced, pc, seen>>
  BY <1>4 DEF Purse
<1>5. CASE UNCHANGED vars
  BY <1>4, <1>5 DEF vars
<1>6. ASSUME NEW t \in Thread, CheckToken(t)
      PROVE  Purse'
  <2>1. /\ pc' = [pc EXCEPT ![t] = "send"] /\ tokens >= One
        /\ UNCHANGED <<cwnd, tokens, raced, seen>>
    BY <1>6 DEF CheckToken, HasToken, window
  <2>2. pc' \in [Thread -> {"idle", "send", "spend"}]
    BY <1>1, <2>1
  <2>3. \A u \in Thread : pc'[u] = IF u = t THEN "send" ELSE pc[u]
    BY <1>1, <2>1
  <2>4. QED BY <1>1, <1>2, <2>1, <2>2, <2>3 DEF Purse
<1>7. ASSUME NEW t \in Thread, SendRefused(t) \/ SpendLost(t)
      PROVE  Purse'
  <2>1. /\ pc' = [pc EXCEPT ![t] = "idle"]
        /\ seen' = seen \/ seen' = [seen EXCEPT ![t] = 0]
        /\ UNCHANGED <<cwnd, tokens, raced>>
    BY <1>7 DEF SendRefused, SpendLost, window
  <2>2. pc' \in [Thread -> {"idle", "send", "spend"}] /\ seen' \in [Thread -> Nat]
    BY <1>1, <2>1
  <2>3. \A u \in Thread : /\ pc'[u] = IF u = t THEN "idle" ELSE pc[u]
                          /\ u # t => seen'[u] = seen[u]
    BY <1>1, <2>1
  <2>4. QED BY <1>1, <1>2, <2>1, <2>2, <2>3 DEF Purse
<1>8. ASSUME NEW t \in Thread, NEW n, Sent(t, n)
      PROVE  Purse'
  <2>1. /\ pc' = [pc EXCEPT ![t] = "spend"] /\ seen' = [seen EXCEPT ![t] = tokens]
        /\ pc[t] = "send" /\ UNCHANGED <<cwnd, tokens, raced>>
    BY <1>8 DEF Sent, window
  <2>2. pc' \in [Thread -> {"idle", "send", "spend"}] /\ seen' \in [Thread -> Nat]
    BY <1>1, <2>1
  <2>3. \A u \in Thread : /\ pc'[u] = IF u = t THEN "spend" ELSE pc[u]
                          /\ seen'[u] = IF u = t THEN tokens ELSE seen[u]
    BY <1>1, <2>1
  <2>4. QED BY <1>1, <1>2, <2>1, <2>2, <2>3 DEF Purse
<1>9. ASSUME NEW t \in Thread, Spend(t)
      PROVE  Purse'
  <2>1. /\ pc' = [pc EXCEPT ![t] = "idle"] /\ seen' = [seen EXCEPT ![t] = 0]
        /\ pc[t] = "spend" /\ tokens' = (seen[t] - One) % Wrap
        /\ Change(t, FALSE) /\ cwnd' = cwnd
    BY <1>9 DEF Spend, window
  <2>2. /\ raced' \in BOOLEAN
        /\ ~raced' => pc[Other(t)] = "idle" /\ ~raced
    BY <2>1, Unraced
  <2>3. pc' \in [Thread -> {"idle", "send", "spend"}] /\ seen' \in [Thread -> Nat]
    BY <1>1, <2>1
  <2>4. \A u \in Thread : pc'[u] = IF u = t THEN "idle" ELSE pc[u]
    BY <1>1, <2>1
  <2>5. tokens' \in Nat
    BY <1>1, <2>1, WrapType
  <2>6. ASSUME ~raced'
        PROVE  tokens' <= cwnd' /\ \A u \in Thread : pc'[u] = "idle"
    <3>1. seen[t] = tokens /\ tokens >= One /\ tokens <= cwnd
      BY <2>1, <2>2, <2>6 DEF Purse
    <3>2. tokens - One \in Nat /\ Wrap \in Nat \ {0}
      BY <1>1, <3>1, CongestionAssumption
    <3>3. (tokens - One) % Wrap \in 0..tokens - One
      BY <3>2, ModBound
    <3>4. tokens' <= cwnd'
      BY <1>1, <2>1, <3>1, <3>2, <3>3
    <3>5. QED BY <1>3, <2>2, <2>4, <2>6, <3>4
  <2>7. QED BY <1>1, <2>1, <2>2, <2>3, <2>5, <2>6 DEF Purse
<1>10. CASE SendData \/ SendRepair
  BY <1>3, <1>8, <1>10 DEF SendData, SendRepair
<1>11. CASE SendFragment
  BY <1>4, <1>11 DEF SendFragment, window
<1>12. ASSUME UNCHANGED <<pc, seen>>, pc["receiver"] = "idle",
              cwnd' \in Nat \ {0}, tokens' \in Nat,
              NEW capped \in BOOLEAN, Change("receiver", capped),
              (capped \/ tokens <= cwnd) => tokens' <= cwnd'
       PROVE  Purse'
  <2>1. /\ raced' \in BOOLEAN
        /\ ~raced' => pc["sender"] = "idle" /\ (raced => capped)
    BY <1>3, <1>12, Unraced
  <2>2. ASSUME ~raced'
        PROVE  tokens' <= cwnd' /\ \A u \in Thread : pc'[u] = "idle"
    <3>1. capped \/ tokens <= cwnd
      BY <2>1, <2>2 DEF Purse
    <3>2. QED BY <1>3, <1>12, <2>1, <2>2, <3>1
  <2>3. QED BY <1>1, <1>12, <2>1, <2>2 DEF Purse
<1>13. CASE Timeout
  <2>1. /\ tokens' = One /\ cwnd' = One /\ UNCHANGED <<pc, seen>>
        /\ pc["receiver"] = "idle" /\ Change("receiver", TRUE)
    BY <1>13 DEF Timeout
  <2>2. cwnd' \in Nat \ {0} /\ tokens' \in Nat /\ tokens' <= cwnd'
    BY <1>1, <2>1
  <2>3. QED BY <1>12, <2>1, <2>2
<1>14. ASSUME NEW a \in acks, LoseAck(a)
       PROVE  Purse'
  BY <1>4, <1>14 DEF LoseAck, window
<1>15. ASSUME NEW a \in acks, OnAck(a)
       PROVE  Purse'
  <2>1. UNCHANGED <<pc, seen>> /\ pc["receiver"] = "idle"
    BY <1>15 DEF OnAck
  <2>2. PICK bits \in Shifted(a) : NothingNew(bits, a) \/ Judge(bits, a)
    BY <1>15 DEF OnAck
  <2> DEFINE new == NewAcks(a, bits)
  <2>3. new \in Nat
    BY NewAcksType
  <2> HIDE DEF new
  <2>4. \/ UNCHANGED <<cwnd, tokens, raced>>
        \/ Suspended(new) \/ Grow(new) \/ Halve(a.max)
    BY <2>2 DEF NothingNew, Judge, Wait, new
  <2>5. CASE UNCHANGED <<cwnd, tokens, raced>>
    BY <1>4, <2>1, <2>5
  <2>6. CASE Suspended(new)
    <3>1. cwnd' \in Nat \ {0} /\ tokens' \in 0..cwnd' /\ Change("receiver", TRUE)
      BY <2>3, <2>6, SuspendedType DEF Suspended
    <3>2. tokens' \in Nat /\ tokens' <= cwnd'
      BY <3>1
    <3>3. QED BY <1>12, <2>1, <3>1, <3>2
  <2>7. CASE Grow(new)
    <3>1. cwnd' \in Nat \ {0} /\ tokens' \in 0..cwnd' /\ Change("receiver", TRUE)
      BY <2>3, <2>7, GrowType DEF Grow
    <3>2. tokens' \in Nat /\ tokens' <= cwnd'
      BY <3>1
    <3>3. QED BY <1>12, <2>1, <3>1, <3>2
  <2>8. CASE Halve(a.max)
    <3>1. /\ cwnd' \in Nat \ {0} /\ tokens' \in Nat
          /\ tokens <= cwnd => tokens' <= cwnd'
      BY <2>8, HalveType
    <3>2. Change("receiver", FALSE)
      BY <2>8 DEF Halve
    <3>3. QED BY <1>12, <2>1, <3>1, <3>2
  <2>9. QED BY <2>4, <2>5, <2>6, <2>7, <2>8
<1>16. QED BY <1>5, <1>6, <1>7, <1>9, <1>10, <1>11, <1>13, <1>14, <1>15 DEF Next

-----------------------------------------------------------------------------
(* The theorems.                                                              *)

LEMMA InvHolds == Spec => []IInv
<1>1. Init => IInv
  BY Started
<1>2. IInv /\ [Next]_vars => IInv'
  BY NetworkKept, HistoryKept, CreditsKept, PurseKept DEF IInv
<1>3. QED BY <1>1, <1>2, PTL DEF Spec

(* The window of a source is never halved to nothing, and its tokens exceed   *)
(* it only after a decrement overlapped with the other thread (pgm_on_ack,    *)
(* send_odata, send_rdata, pgm_timer_dispatch): for every unit of the         *)
(* arithmetic, length of the bitmap and number of packets.                    *)
THEOREM TypeCorrect == Spec => []TypeOK
<1>1. Spec => []IInv
  BY InvHolds
<1>2. IInv => TypeOK
  <2> SUFFICES ASSUME IInv PROVE TypeOK
    OBVIOUS
  <2>1. raced \in BOOLEAN /\ congested \in BOOLEAN /\ expiry \in BOOLEAN
    BY Zenon DEF IInv, Purse, History
  <2>2. raced \/ tokens <= cwnd
    BY DEF IInv, Purse
  <2>3. QED BY <2>1, <2>2 DEF IInv, Network, Purse, History, Credits, TypeOK
<1>3. QED BY <1>1, <1>2, PTL

(* No packet counts twice as newly acknowledged (pgm_on_ack), whatever the    *)
(* order, number and delay of the ACKs, whether the shift by all bits clears  *)
(* the bitmap or leaves it, and whatever halvings and timeouts fill it.       *)
THEOREM CreditTheorem == Spec => []CreditedOnce
<1>1. Spec => []IInv
  BY InvHolds
<1>2. IInv => CreditedOnce
  BY DEF IInv, Credits, CreditedOnce
<1>3. QED BY <1>1, <1>2, PTL

=============================================================================
