------------------------ MODULE TransmitWindowProofs ------------------------
(***************************************************************************)
(* The safety properties of TransmitWindow for every window size that      *)
(* divides the sequence space, whatever the two threads and the receivers  *)
(* do.                                                                     *)
(*                                                                         *)
(* The invariant has a part for the ring (WindowInv), which requests do    *)
(* not touch since they change flags and counts of an skb and never its    *)
(* slot; one for the retransmit queue (QueueInv); one for the groups of    *)
(* parity requests (GroupsHeld); and one for each thread's packet.         *)
(***************************************************************************)
EXTENDS TransmitWindow, SequenceTheorems, TLAPS

-----------------------------------------------------------------------------
(* Serial numbers and rings; RxwLemmas has the same facts for the receive window. *)

\* Sums and differences of sequence numbers are sequence numbers (the uint32_t
\* arithmetic of rxw.c), and so natural numbers below 2^32.
LEMMA SqnArith ==
    ASSUME NEW s \in Sqn, NEW t \in Sqn
    PROVE  /\ Plus(s, t) \in Sqn
           /\ Minus(s, t) \in Sqn
           /\ Minus(s, t) \in Nat /\ s \in Nat
           /\ Minus(s, t) < SqnMod /\ s < SqnMod /\ SqnMod \in Nat
BY SignBitAssumption DEF Sqn, SqnMod, Plus, Minus

\* Zero is the only multiple of A strictly between -A and A.
LEMMA MultipleInRange ==
    ASSUME NEW A \in Nat \ {0}, NEW z \in Int, -A < A * z, A * z < A
    PROVE  z = 0
<1>1. z >= 1 => A * z >= A
  BY Z3
<1>2. z <= -1 => A * z <= -A
  BY Z3
<1> QED
  BY <1>1, <1>2

\* Two sequence numbers less than N from the same edge with the same remainder by
\* N are equal, when N divides the sequence space: the slots of a ring of N packets
\* (_pgm_rxw_peek, _pgm_txw_peek) are distinct for the packets of its window.
LEMMA RingIndex ==
    ASSUME NEW N \in Nat \ {0}, N < SignBit, SqnMod % N = 0,
           NEW t \in Sqn, NEW a \in Sqn, NEW b \in Sqn,
           Minus(a, t) < N, Minus(b, t) < N, a % N = b % N
    PROVE  a = b
<1> DEFINE qa == a \div N
           qb == b \div N
           K  == SqnMod \div N
<1>0. SqnMod \in Nat /\ a \in Nat /\ b \in Nat /\ t \in Nat
  BY SignBitAssumption DEF Sqn, SqnMod
<1>1. a = N * qa + (a % N) /\ qa \in Int
  BY <1>0
<1>2. b = N * qb + (b % N) /\ qb \in Int
  BY <1>0
<1>3. SqnMod = N * K /\ K \in Int
  BY <1>0
<1> HIDE DEF qa, qb, K
<1>4. a - b = N * (qa - qb)
  BY <1>0, <1>1, <1>2
<1>5. PICK e \in {-1, 0, 1} : -N < a - b + e * SqnMod /\ a - b + e * SqnMod < N
  BY <1>0 DEF Minus, Sqn
<1>6. a - b + e * SqnMod = N * (qa - qb + e * K)
  BY <1>0, <1>1, <1>2, <1>3, <1>4, <1>5
<1>7. qa - qb + e * K = 0
  BY <1>0, <1>1, <1>2, <1>3, <1>5, <1>6, MultipleInRange
<1>8. a - b + e * SqnMod = 0
  BY <1>6, <1>7, <1>0
<1> QED
  BY <1>0, <1>5, <1>8 DEF Sqn

-----------------------------------------------------------------------------
(* Sequences that list each of their elements once. *)

\* A sequence that lists each of its elements once keeps doing so when another is put in
\* front.
LEMMA PrependOnce ==
    ASSUME NEW S, NEW q \in Seq(S), NEW e \in S, IsInjective(q), e \notin ToSet(q)
    PROVE  /\ <<e>> \o q \in Seq(S)
           /\ IsInjective(<<e>> \o q)
           /\ ToSet(<<e>> \o q) = ToSet(q) \cup {e}
<1> DEFINE p == <<e>> \o q
<1>1. Len(q) \in Nat /\ DOMAIN q = 1 .. Len(q)
  BY LenProperties
<1>2. /\ p \in Seq(S) /\ Len(p) = Len(q) + 1
      /\ \A i \in 1 .. Len(p) : p[i] = IF i = 1 THEN e ELSE q[i - 1]
  BY <1>1, ConcatProperties, <<e>> \in Seq(S), Len(<<e>>) = 1, <<e>>[1] = e
<1>3. DOMAIN p = 1 .. Len(q) + 1
  BY <1>2, LenProperties
<1> HIDE DEF p
<1>a. \A i \in 1 .. Len(q) : q[i] \in ToSet(q) /\ q[i] # e
  BY <1>1 DEF ToSet
<1>4. IsInjective(p)
  <2>1. ASSUME NEW i \in 1 .. Len(q) + 1, NEW j \in 1 .. Len(q) + 1, p[i] = p[j]
        PROVE  i = j
    <3>1. CASE i = 1 \/ j = 1
      BY <1>1, <1>2, <1>a, <2>1, <3>1
    <3>2. CASE i # 1 /\ j # 1
      <4>1. i - 1 \in 1 .. Len(q) /\ j - 1 \in 1 .. Len(q) /\ q[i - 1] = q[j - 1]
        BY <1>1, <1>2, <2>1, <3>2
      <4> QED
        BY <1>1, <4>1 DEF IsInjective
    <3> QED
      BY <3>1, <3>2
  <2> QED
    BY <1>3, <2>1 DEF IsInjective
<1>5. ToSet(p) = ToSet(q) \cup {e}
  <2>1. \A i \in 1 .. Len(q) : q[i] = p[i + 1] /\ i + 1 \in 1 .. Len(q) + 1
    BY <1>1, <1>2
  <2>2. ASSUME NEW x \in ToSet(q) \cup {e} PROVE x \in ToSet(p)
    <3>1. CASE x = e
      BY <1>1, <1>2, <1>3, <3>1 DEF ToSet
    <3>2. CASE x \in ToSet(q)
      BY <1>1, <1>3, <2>1, <3>2 DEF ToSet
    <3> QED
      BY <3>1, <3>2
  <2>3. ASSUME NEW x \in ToSet(p) PROVE x \in ToSet(q) \cup {e}
    BY <1>1, <1>2, <1>3 DEF ToSet
  <2> QED
    BY <2>2, <2>3
<1> QED
  BY <1>2, <1>4, <1>5 DEF p

\* So it does when one is taken out.
LEMMA RemoveAtOnce ==
    ASSUME NEW S, NEW q \in Seq(S), IsInjective(q), NEW k \in 1 .. Len(q)
    PROVE  /\ RemoveAt(q, k) \in Seq(S)
           /\ IsInjective(RemoveAt(q, k))
           /\ ToSet(RemoveAt(q, k)) = ToSet(q) \ {q[k]}
<1> DEFINE p == RemoveAt(q, k)
           l == SubSeq(q, 1, k - 1)
           r == SubSeq(q, k + 1, Len(q))
<1>1. Len(q) \in Nat /\ DOMAIN q = 1 .. Len(q) /\ \A i \in 1 .. Len(q) : q[i] \in S
  BY LenProperties, ElementOfSeq
<1>2. l \in Seq(S) /\ Len(l) = k - 1 /\ \A i \in 1 .. k - 1 : l[i] = q[i]
  BY <1>1, SubSeqProperties
<1>0. Len(q) \in Nat /\ k \in Nat /\ 1 <= k /\ k <= Len(q)
  BY <1>1
<1>3. r \in Seq(S) /\ Len(r) = Len(q) - k /\ \A i \in 1 .. Len(q) - k : r[i] = q[k + i]
  <2>1. \A i \in (k + 1) .. Len(q) : q[i] \in S
    BY <1>1
  <2>2. /\ r \in Seq(S)
        /\ Len(r) = IF k + 1 <= Len(q) THEN Len(q) - (k + 1) + 1 ELSE 0
        /\ \A i \in 1 .. Len(q) - (k + 1) + 1 : r[i] = q[(k + 1) + i - 1]
    BY <1>1, <2>1, SubSeqProperties
  <2> HIDE DEF r
  <2>3. \A i \in 1 .. Len(q) - k : (k + 1) + i - 1 = k + i
    BY <1>1
  <2>4. Len(q) - (k + 1) + 1 = Len(q) - k
    BY <1>1
  <2>5. ASSUME NEW i \in 1 .. Len(q) - k PROVE r[i] = q[k + i]
    <3>1. r[i] = q[(k + 1) + i - 1]
      BY <2>2, <2>4
    <3> QED
      BY <2>3, <3>1
  <2>6. Len(r) = IF k + 1 <= Len(q) THEN Len(q) - (k + 1) + 1 ELSE 0
    BY <2>2
  <2>7. Len(r) = Len(q) - k
    BY <1>0, <2>6
  <2> QED
    BY <2>2, <2>5, <2>7
<1> HIDE DEF l, r
<1>4. /\ p \in Seq(S) /\ Len(p) = Len(q) - 1
      /\ \A i \in 1 .. Len(q) - 1 : p[i] = IF i < k THEN q[i] ELSE q[i + 1]
  <2>1. p = l \o r
    BY DEF p, RemoveAt, l, r
  <2>2. l \o r \in Seq(S) /\ Len(l \o r) = Len(q) - 1
    <3>1. l \o r \in Seq(S) /\ Len(l \o r) = Len(l) + Len(r)
      BY <1>2, <1>3, ConcatProperties
    <3> QED
      BY <1>1, <1>2, <1>3, <3>1
  <2>3. ASSUME NEW i \in 1 .. Len(q) - 1 PROVE (l \o r)[i] = IF i < k THEN q[i] ELSE q[i + 1]
    <3>1. (l \o r)[i] = IF i <= Len(l) THEN l[i] ELSE r[i - Len(l)]
      BY <1>0, <1>2, <1>3, ConcatProperties
    <3>2. CASE i < k
      BY <1>0, <1>2, <3>1, <3>2
    <3>3. CASE i >= k
      <4>1. r[i - (k - 1)] = q[k + (i - (k - 1))]
        BY <1>0, <1>3, <3>3
      <4>2. k + (i - (k - 1)) = i + 1
        BY <1>0
      <4> QED
        BY <1>0, <1>2, <3>1, <3>3, <4>1, <4>2
    <3>4. i < k \/ i >= k
      BY <1>0
    <3> QED
      BY <3>2, <3>3, <3>4, Zenon
  <2> QED
    BY <2>1, <2>2, <2>3
<1>5. DOMAIN p = 1 .. Len(q) - 1
  BY <1>4, LenProperties
<1> HIDE DEF p
<1>6. IsInjective(p)
  BY <1>1, <1>4, <1>5 DEF IsInjective
<1>7. ToSet(p) = ToSet(q) \ {q[k]}
  <2>1. ASSUME NEW i \in 1 .. Len(q), i # k
        PROVE  q[i] = p[IF i < k THEN i ELSE i - 1]
               /\ (IF i < k THEN i ELSE i - 1) \in 1 .. Len(q) - 1
    BY <1>1, <1>4, <2>1
  <2>2. ASSUME NEW x \in ToSet(q) \ {q[k]} PROVE x \in ToSet(p)
    BY <1>1, <1>5, <2>1 DEF ToSet
  <2>3. ASSUME NEW i \in 1 .. Len(q) - 1 PROVE p[i] \in ToSet(q) \ {q[k]}
    <3>1. PICK j \in 1 .. Len(q) : p[i] = q[j] /\ j # k
      BY <1>1, <1>4
    <3> QED
      BY <1>1, <3>1 DEF ToSet, IsInjective
  <2>4. ASSUME NEW x \in ToSet(p) PROVE x \in ToSet(q) \ {q[k]}
    BY <1>5, <2>3 DEF ToSet
  <2> QED
    BY <2>2, <2>4
<1> QED
  BY <1>4, <1>6, <1>7 DEF p

\* The last element can be served and taken off.
LEMMA FrontOnce ==
    ASSUME NEW S, NEW q \in Seq(S), IsInjective(q), q # <<>>
    PROVE  /\ Front(q) \in Seq(S) /\ Last(q) \in ToSet(q)
           /\ IsInjective(Front(q))
           /\ ToSet(Front(q)) = ToSet(q) \ {Last(q)}
<1>1. Len(q) \in Nat \ {0} /\ DOMAIN q = 1 .. Len(q) /\ \A i \in 1 .. Len(q) : q[i] \in S
  BY LenProperties, ElementOfSeq, EmptySeq
<1>2. RemoveAt(q, Len(q)) = Front(q)
  <2>1. SubSeq(q, Len(q) + 1, Len(q)) = <<>>
    BY <1>1, SubSeqEmpty
  <2>2. SubSeq(q, 1, Len(q) - 1) \in Seq(S)
    BY <1>1, SubSeqProperties
  <2> QED
    BY <2>1, <2>2, ConcatEmptySeq DEF RemoveAt, Front
<1>3. /\ RemoveAt(q, Len(q)) \in Seq(S) /\ IsInjective(RemoveAt(q, Len(q)))
      /\ ToSet(RemoveAt(q, Len(q))) = ToSet(q) \ {q[Len(q)]}
  BY <1>1, RemoveAtOnce
<1>4. Last(q) = q[Len(q)] /\ Last(q) \in ToSet(q)
  BY <1>1 DEF Last, ToSet
<1> QED
  BY <1>2, <1>3, <1>4

-----------------------------------------------------------------------------
(* The window. *)

\* What the functions of txw.c keep of the window.
WindowInv ==
    /\ lead \in Sqn /\ trail \in Sqn
    /\ Length <= Alloc
    /\ pdata \in [Slot -> Skb]
    /\ OwnSlots

\* The retransmit queue lists the packets of the window that wait.
QueueInv == queue \in Seq(Sqn) /\ QueueIsWaiting

\* s leads a transmission group that is all in the window.
LeadsGroup(s) == s % TgSize = 0 /\ Minus(s, trail) + TgSize <= Length

\* Parity is only asked of a packet that leads such a group.
GroupsHeld == \A s \in Members : At(s).requested # 0 => LeadsGroup(s)

\* The sender's packet is the newest one.
SenderInv == /\ transit \in Sqn \cup {None} /\ held \in BOOLEAN
             /\ transit # None => transit = lead /\ ~IsEmpty

\* The skb a selective repair is built from is in the window and not one the sender
\* has a reference to.
RepairInv == /\ rdata \in Repair \cup {NoRepair}
             /\ (rdata # NoRepair /\ rdata.kind = "selective") => rdata.sqn \in Members
             /\ HeldNotRepaired

\* The inductive invariant.
IInv == /\ WindowInv /\ QueueInv /\ GroupsHeld /\ SenderInv /\ RepairInv
        /\ abort \in {"none", "remove_head"}

\* The index _pgm_txw_peek computes is within pdata.
LEMMA IdxType ==
    ASSUME NEW s \in Sqn
    PROVE  Idx(s) \in Slot
BY AllocAssumption DEF Idx, Slot, Sqn

\* A step that leaves the edges alone and keeps the sequence number of every skb
\* keeps the invariant.
LEMMA SameSqns ==
    ASSUME WindowInv, UNCHANGED <<lead, trail>>, pdata' \in [Slot -> Skb],
           \A i \in Slot : pdata'[i].sqn = pdata[i].sqn
    PROVE  WindowInv'
<1>1. \A s \in Sqn : Idx(s) \in Slot
  BY IdxType
<1> QED
  BY <1>1 DEF WindowInv, OwnSlots, Members, Length, At, Idx

\* A packet is queued for repair in its own slot.
LEMMA EnqueueInv ==
    ASSUME WindowInv, NEW s \in Sqn, NEW skb \in Skb, skb.sqn = At(s).sqn,
           Enqueue(s, skb), UNCHANGED <<lead, trail>>
    PROVE  WindowInv'
<1>1. pdata' = [pdata EXCEPT ![Idx(s)] = [skb EXCEPT !.waiting = TRUE]]
  BY DEF Enqueue
<1>2. [skb EXCEPT !.waiting = TRUE] \in Skb /\ [skb EXCEPT !.waiting = TRUE].sqn = skb.sqn
  BY DEF Skb
<1>3. pdata' \in [Slot -> Skb] /\ \A i \in Slot : pdata'[i].sqn = pdata[i].sqn
  BY <1>1, <1>2 DEF WindowInv, At
<1> QED
  BY <1>3, SameSqns

\* pgm_txw_retransmit_push_selective keeps the invariant.
LEMMA PushSelectiveInv ==
    ASSUME WindowInv, NEW s \in Sqn, PushSelective(s), UNCHANGED <<lead, trail>>
    PROVE  WindowInv'
<1>1. At(s) \in Skb
  BY IdxType DEF WindowInv, At
<1>2. CASE InWindow(s) /\ ~At(s).waiting
  BY <1>1, <1>2, EnqueueInv DEF PushSelective
<1>3. CASE ~(InWindow(s) /\ ~At(s).waiting)
  BY <1>3, SameSqns DEF PushSelective, WindowInv
<1> QED
  BY <1>2, <1>3

\* pgm_txw_retransmit_push_parity keeps the invariant.
LEMMA PushParityInv ==
    ASSUME WindowInv, NEW n \in Sqn, PushParity(n), UNCHANGED <<lead, trail>>
    PROVE  WindowInv'
<1> DEFINE s   == TgLead(n)
           cnt == n % TgSize
<1>1. cnt \in 0 .. (TgSize - 1) /\ cnt <= n
  BY GroupAssumption, SignBitAssumption DEF Sqn, SqnMod
<1>2. s \in Sqn /\ cnt \in Count
  BY <1>1, GroupAssumption, SignBitAssumption DEF TgLead, Sqn, SqnMod, Count
<1> HIDE DEF s, cnt
<1>3. At(s) \in Skb
  BY <1>2, IdxType DEF WindowInv, At
<1>4. CASE ~InWindow(s)
  BY <1>4, SameSqns DEF PushParity, WindowInv, s
<1>5. CASE InWindow(s) /\ ~At(s).waiting
  <2> DEFINE skb == [At(s) EXCEPT !.requested = (@ + 1) % CntMod]
  <2>1. skb \in Skb /\ skb.sqn = At(s).sqn
    BY <1>3, GroupAssumption DEF Skb, Count
  <2>2. Enqueue(s, skb)
    BY <1>5 DEF PushParity, s
  <2> QED
    BY <1>2, <2>1, <2>2, EnqueueInv
<1>6. CASE InWindow(s) /\ At(s).waiting
  <2>1. CASE UNCHANGED pdata
    BY <2>1, SameSqns DEF WindowInv
  <2>2. CASE pdata' = [pdata EXCEPT ![Idx(s)].requested = cnt]
    <3>1. pdata' \in [Slot -> Skb] /\ \A i \in Slot : pdata'[i].sqn = pdata[i].sqn
      BY <1>2, <2>2 DEF WindowInv, Skb
    <3> QED
      BY <3>1, SameSqns
  <2> QED
    BY <1>6, <2>1, <2>2 DEF PushParity, s, cnt
<1> QED
  BY <1>4, <1>5, <1>6

\* Two packets of the window have two slots.
LEMMA MembersApart ==
    ASSUME SqnMod % Alloc = 0, WindowInv, NEW r \in Members, NEW s \in Members, r # s
    PROVE  Idx(r) # Idx(s)
<1>1. r \in Sqn /\ s \in Sqn /\ trail \in Sqn /\ Length \in Int
  BY SignBitAssumption DEF Members, WindowInv, Length, Plus, Minus, Sqn, SqnMod
<1>2. Minus(r, trail) < Alloc /\ Minus(s, trail) < Alloc
  BY <1>1, AllocAssumption, SqnArith DEF Members, WindowInv
<1> QED
  BY <1>1, <1>2, RingIndex, AllocAssumption DEF Idx

\* pgm_txw_add puts the packet past the lead into the window and, when the window is
\* full, lets the trailing one go.
LEMMA AddODataMembers ==
    ASSUME WindowInv, AddOData
    PROVE  /\ Plus(1, lead) \in Sqn /\ Plus(1, lead) \notin Members
           /\ Members' = (IF IsFull THEN Members \ {trail} ELSE Members) \cup {Plus(1, lead)}
           /\ IsFull => trail \in Members
           /\ trail' \in Sqn /\ Length' \in 1 .. Alloc
           /\ \A r \in Members' \ {Plus(1, lead)} :
                 Length' - Minus(r, trail') = Length - Minus(r, trail) + 1
<1>1. lead \in Sqn /\ trail \in Sqn /\ Length <= Alloc
  BY DEF WindowInv
<1>2. lead' = Plus(1, lead) /\ trail' = IF IsFull THEN Plus(1, trail) ELSE trail
  BY DEF AddOData
<1>3. Plus(1, lead) \in Sqn /\ Plus(1, lead) \notin Members
  BY <1>1, AllocAssumption, SignBitAssumption
  DEF Members, Length, Plus, Minus, Sqn, SqnMod
<1>4. trail' \in Sqn
  BY <1>1, <1>2, SignBitAssumption DEF Plus, Sqn, SqnMod
<1>5. Length' = (IF IsFull THEN Length ELSE Length + 1) /\ Length \in 0 .. Alloc
  BY <1>1, <1>2, AllocAssumption, SignBitAssumption
  DEF Length, IsFull, Plus, Minus, Sqn, SqnMod
<1>6. IsFull => trail \in Members
  BY <1>1, <1>5, AllocAssumption, SignBitAssumption DEF IsFull, Members, Minus, Sqn, SqnMod
<1>7. ASSUME NEW r \in Sqn, r # Plus(1, lead)
      PROVE  /\ (Minus(r, trail') < Length') <=> (Minus(r, trail) < Length /\ ~(IsFull /\ r = trail))
             /\ Minus(r, trail') < Length' => Length' - Minus(r, trail') = Length - Minus(r, trail) + 1
  BY <1>1, <1>2, <1>5, <1>7, AllocAssumption, SignBitAssumption
  DEF Length, IsFull, Plus, Minus, Sqn, SqnMod
<1>8. Minus(Plus(1, lead), trail') < Length'
  BY <1>1, <1>2, <1>5, AllocAssumption, SignBitAssumption
  DEF Length, IsFull, Plus, Minus, Sqn, SqnMod
<1>9. Members' = (IF IsFull THEN Members \ {trail} ELSE Members) \cup {Plus(1, lead)}
  BY <1>3, <1>7, <1>8 DEF Members
<1> QED
  BY <1>3, <1>4, <1>5, <1>6, <1>7, <1>9, AllocAssumption DEF Members, IsFull

\* pgm_txw_add writes the slot of its own packet; the packets that stay in the window
\* have other slots.
LEMMA AddODataSlots ==
    ASSUME SqnMod % Alloc = 0, WindowInv, AddOData
    PROVE  /\ pdata' \in [Slot -> Skb]
           /\ pdata'[Idx(Plus(1, lead))] = [sqn |-> Plus(1, lead), waiting |-> FALSE,
                                            requested |-> 0, sent |-> 0]
           /\ \A r \in Members' \ {Plus(1, lead)} : r \in Members /\ pdata'[Idx(r)] = At(r)
<1> DEFINE s   == Plus(1, lead)
           skb == [sqn |-> s, waiting |-> FALSE, requested |-> 0, sent |-> 0]
<1>1. pdata' = [pdata EXCEPT ![Idx(s)] = skb] /\ pdata \in [Slot -> Skb]
  BY DEF AddOData, WindowInv
<1>2. s \in Sqn /\ s \in Members' /\ trail' \in Sqn /\ Length' \in 1 .. Alloc
  BY AddODataMembers
<1>3. skb \in Skb /\ Idx(s) \in Slot
  BY <1>2, IdxType, GroupAssumption DEF Skb, Count
<1>4. \A r \in Members' : Minus(r, trail') < Alloc /\ r \in Sqn
  BY <1>2, AllocAssumption, SqnArith DEF Members
<1>5. ASSUME NEW r \in Members', r # s PROVE Idx(r) # Idx(s)
  BY <1>2, <1>4, <1>5, RingIndex, AllocAssumption DEF Idx
<1>6. \A r \in Members' \ {s} : r \in Members
  BY AddODataMembers
<1> QED
  BY <1>1, <1>3, <1>4, <1>5, <1>6, IdxType DEF At

\* pgm_txw_add keeps the invariant.
LEMMA AddODataInv ==
    ASSUME SqnMod % Alloc = 0, WindowInv, AddOData
    PROVE  WindowInv'
<1>1. /\ lead' = Plus(1, lead) /\ lead' \in Sqn /\ trail' \in Sqn
      /\ Length' <= Alloc
  BY AddODataMembers, AllocAssumption DEF AddOData
<1>2. ASSUME NEW r \in Members' PROVE pdata'[Idx(r)].sqn = r
  <2>1. CASE r = Plus(1, lead)
    BY <2>1, AddODataSlots
  <2>2. CASE r # Plus(1, lead)
    BY <2>2, AddODataSlots DEF WindowInv, OwnSlots
  <2> QED
    BY <2>1, <2>2
<1>3. OwnSlots'
  BY <1>2 DEF OwnSlots, At, Idx
<1> QED
  BY <1>1, <1>3, AddODataSlots DEF WindowInv

\* pgm_txw_retransmit_remove_head, whatever skb it finds at the tail, keeps the
\* invariant.
LEMMA RemoveRequestInv ==
    ASSUME WindowInv, RemoveRequest
    PROVE  WindowInv'
<1>1. CASE queue = <<>>
  BY <1>1, SameSqns DEF RemoveRequest, WindowInv
<1>2. CASE queue # <<>>
  <2> DEFINE i    == Idx(Last(queue))
             skb  == AfterSend(At(Last(queue)))
             done == skb.requested = 0 \/ skb.sent = skb.requested
  <2>1. pdata' = [pdata EXCEPT ![i] = [skb EXCEPT !.waiting = ~done]]
    BY <1>2 DEF RemoveRequest
  <2>2. i \in Slot => /\ [skb EXCEPT !.waiting = ~done] \in Skb
                      /\ [skb EXCEPT !.waiting = ~done].sqn = pdata[i].sqn
    <3> SUFFICES ASSUME i \in Slot
                 PROVE  /\ [skb EXCEPT !.waiting = ~done] \in Skb
                        /\ [skb EXCEPT !.waiting = ~done].sqn = pdata[i].sqn
      OBVIOUS
    <3>1. At(Last(queue)) \in Skb /\ At(Last(queue)) = pdata[i]
      BY DEF WindowInv, At
    <3>2. skb \in Skb /\ skb.sqn = pdata[i].sqn
      BY <3>1, GroupAssumption DEF AfterSend, Skb, Count
    <3> QED
      BY <3>2 DEF Skb
  <2> HIDE DEF i, skb, done
  <2>3. /\ pdata' \in [Slot -> Skb]
        /\ \A j \in Slot : pdata'[j].sqn = pdata[j].sqn
    BY <2>1, <2>2 DEF WindowInv
  <2> QED
    BY <2>3, SameSqns DEF RemoveRequest
<1> QED
  BY <1>1, <1>2

\* The group of a sequence number lies within the sequence space, and whatever packet
\* count is put into a parity request names the same group.
LEMMA GroupFits ==
    ASSUME NEW s \in Sqn
    PROVE  /\ TgLead(s) \in Sqn /\ TgLead(s) % TgSize = 0
           /\ TgLead(s) + TgSize <= SqnMod
           /\ TgLead(s) <= s /\ s < TgLead(s) + TgSize
           /\ \A h \in 0 .. (TgSize - 1) : /\ TgLead(s) + h \in Sqn
                                           /\ TgLead(TgLead(s) + h) = TgLead(s)
<1> DEFINE q == s \div TgSize
           K == SqnMod \div TgSize
<1>1. TgSize \in Nat \ {0} /\ SqnMod \in Nat /\ s \in Nat /\ s < SqnMod
  BY GroupAssumption, SignBitAssumption DEF Sqn, SqnMod
<1>2. s = TgSize * q + (s % TgSize) /\ q \in Int /\ s % TgSize \in 0 .. (TgSize - 1)
  BY <1>1
<1>3. SqnMod = TgSize * K /\ K \in Int
  BY <1>1, GroupAssumption
<1> HIDE DEF q, K
<1>4. TgLead(s) = TgSize * q /\ TgSize * q <= s /\ TgSize * q \in Int
  <2>1. TgSize * q \in Int
    BY <1>1, <1>2, Z3
  <2> DEFINE m == TgSize * q
  <2>2. m \in Int /\ s = m + (s % TgSize)
    BY <1>2, <2>1
  <2> HIDE DEF m
  <2>3. s - (s % TgSize) = m /\ m <= s
    BY <1>1, <1>2, <2>2
  <2> QED
    BY <2>1, <2>3 DEF m, TgLead
<1>5. q + 1 <= K
  <2>1. SUFFICES ASSUME K <= q PROVE FALSE
    BY <1>2, <1>3
  <2>2. TgSize * K <= TgSize * q
    BY <1>1, <1>2, <1>3, <2>1, Z3
  <2>3. SqnMod <= s
    BY <1>1, <1>3, <1>4, <2>2, Z3
  <2> QED
    BY <1>1, <2>3
<1>6. TgSize * (q + 1) <= TgSize * K /\ TgSize * (q + 1) = TgSize * q + TgSize
  BY <1>1, <1>2, <1>3, <1>5, Z3
<1>7. q >= 0
  <2>1. SUFFICES ASSUME q <= -1 PROVE FALSE
    BY <1>2
  <2>2. TgSize * q <= -TgSize
    BY <1>1, <1>2, <2>1, Z3
  <2> QED
    BY <1>1, <1>2, <2>2
<1>8. TgSize * q >= 0 /\ TgSize * q \in Int
  BY <1>1, <1>2, <1>7, Z3
<1>9. ASSUME NEW h \in 0 .. (TgSize - 1) PROVE (TgSize * q + h) % TgSize = h
  <2> DEFINE n == TgSize * q + h
             d == n \div TgSize
  <2>1. n \in Nat /\ h \in Int /\ h < TgSize
    BY <1>1, <1>8
  <2>2. n = TgSize * d + (n % TgSize) /\ d \in Int /\ n % TgSize \in 0 .. (TgSize - 1)
    BY <1>1, <2>1
  <2> HIDE DEF d
  <2>3. TgSize * (q - d) = TgSize * q - TgSize * d /\ TgSize * d \in Int
    BY <1>1, <1>2, <2>2, Z3
  <2>4. TgSize * (q - d) = (n % TgSize) - h
    BY <1>1, <1>8, <2>1, <2>2, <2>3
  <2>5. q - d = 0
    BY <1>1, <1>2, <2>1, <2>2, <2>4, MultipleInRange
  <2> QED
    BY <1>1, <2>1, <2>2, <2>4, <2>5
<1> DEFINE m == TgSize * q
<1>10. m \in Nat /\ m <= s /\ s < m + TgSize /\ m + TgSize <= SqnMod /\ TgLead(s) = m
  BY <1>1, <1>2, <1>3, <1>4, <1>6, <1>8
<1>11. \A h \in 0 .. (TgSize - 1) : (m + h) % TgSize = h
  BY <1>9
<1> HIDE DEF m
<1>12. m % TgSize = 0
  BY <1>1, <1>10, <1>11
<1>13. ASSUME NEW h \in 0 .. (TgSize - 1) PROVE m + h \in Sqn /\ TgLead(m + h) = m
  BY <1>1, <1>10, <1>11 DEF Sqn, TgLead
<1> QED
  BY <1>1, <1>10, <1>12, <1>13 DEF Sqn

\* The packets pgm_txw_peek finds are those between the edges.
LEMMA InWindowMember ==
    ASSUME WindowInv, NEW s \in Sqn
    PROVE  /\ s \in Members => InWindow(s)
           /\ InWindow(s) /\ (Length # 1 \/ Minus(s, lead) # SignBit) => s \in Members
BY AllocAssumption, SignBitAssumption
DEF WindowInv, InWindow, IsEmpty, Members, Length, Gte, Lte, Plus, Minus, Sqn, SqnMod

\* A group whose packets are all found is between the edges (pgm_on_nak with parity).
LEMMA CompleteWithin ==
    ASSUME WindowInv, NEW s \in Sqn, GroupComplete(s), Minus(s, lead) # SignBit
    PROVE  TgLead(s) \in Members /\ LeadsGroup(TgLead(s))
<1> DEFINE x == TgLead(s)
           a == Minus(x, trail)
<1>1. /\ x \in Sqn /\ x % TgSize = 0 /\ x + TgSize <= SqnMod /\ x <= s /\ s < x + TgSize
      /\ \A k \in 0 .. (TgSize - 1) : x + k \in Sqn
  BY GroupFits
<1>2. /\ TgSize \in Nat \ {0} /\ SqnMod \in Nat /\ lead \in Sqn /\ trail \in Sqn
      /\ Length \in 0 .. Alloc /\ Length # 0 /\ Alloc < SignBit /\ Alloc \in Nat
  <2>1. ~IsEmpty
    BY <1>1, GroupAssumption DEF GroupComplete, InWindow
  <2> QED
    BY <2>1, GroupAssumption, AllocAssumption, SignBitAssumption
    DEF WindowInv, IsEmpty, Length, Plus, Minus, Sqn, SqnMod
<1> HIDE DEF x
<1>3. \A k \in 0 .. (TgSize - 1) : InWindow(x + k)
  BY DEF GroupComplete, x
<1>4. CASE Length = 1
  <2>1. \A r \in Sqn : InWindow(r) => r = trail \/ Minus(r, lead) = SignBit
    BY <1>2, <1>4, SignBitAssumption
    DEF InWindow, Length, Gte, Lte, Plus, Minus, Sqn, SqnMod
  <2>2. lead = trail
    BY <1>2, <1>4, SignBitAssumption DEF Length, Plus, Minus, Sqn, SqnMod
  <2>3. TgSize = 1
    <3>1. SUFFICES ASSUME TgSize > 1 PROVE FALSE
      BY <1>2
    <3>2. InWindow(x) /\ InWindow(x + 1) /\ x + 1 \in Sqn
      <4>1. InWindow(x + 0) /\ x + 0 = x
        BY <1>1, <1>2, <1>3 DEF Sqn
      <4> QED
        BY <1>1, <1>2, <1>3, <3>1, <4>1
    <3> QED
      BY <1>1, <1>2, <2>1, <2>2, <3>2, SignBitAssumption DEF Minus, Sqn, SqnMod
  <2>4. x = s
    BY <1>1, <2>3 DEF Sqn
  <2>5. x = trail
    BY <1>1, <1>3, <2>1, <2>3, <2>4 DEF Sqn
  <2> QED
    BY <1>1, <1>2, <1>4, <2>3, <2>5, SignBitAssumption
    DEF LeadsGroup, Members, Minus, Sqn, SqnMod, x
<1>5. CASE Length # 1
  <2>1. \A k \in 0 .. (TgSize - 1) : Minus(x + k, trail) < Length
    BY <1>1, <1>3, <1>5, InWindowMember DEF Members
  <2>2. x + 0 = x /\ Minus(x, trail) < Length
    <3>1. x + 0 = x
      BY <1>1 DEF Sqn
    <3> QED
      BY <1>2, <2>1, <3>1
  <2>3. a + TgSize <= Length
    <3>1. SUFFICES ASSUME a + TgSize > Length PROVE FALSE
      BY <1>1, <1>2, SqnArith
    <3>2. a \in Nat /\ Length - a \in 0 .. (TgSize - 1)
      BY <1>1, <1>2, <2>2, <3>1, SqnArith
    <3>3. Minus(x + (Length - a), trail) < Length /\ x + (Length - a) \in Sqn
      BY <1>1, <2>1, <3>2
    <3> QED
      BY <1>1, <1>2, <2>2, <3>2, <3>3, SignBitAssumption DEF Minus, Sqn, SqnMod
  <2> QED
    BY <1>1, <2>2, <2>3 DEF Members, LeadsGroup, x
<1> QED
  BY <1>4, <1>5

\* The last packet of a group, just sent, has the whole group behind it once the leader
\* is found (send_odata with pro-active parity).
LEMMA ProactiveWithin ==
    ASSUME WindowInv, ~IsEmpty, (lead + 1) % TgSize = 0, InWindow(TgLead(lead))
    PROVE  TgLead(lead) \in Members /\ LeadsGroup(TgLead(lead))
<1> DEFINE x == TgLead(lead)
<1>1. /\ lead \in Sqn /\ trail \in Sqn /\ TgSize \in Nat \ {0}
      /\ Length \in 1 .. Alloc /\ Alloc < SignBit /\ Alloc \in Nat
  BY GroupAssumption, AllocAssumption, SignBitAssumption
  DEF WindowInv, IsEmpty, Length, Plus, Minus, Sqn, SqnMod
<1>2. x \in Sqn /\ x % TgSize = 0 /\ x + TgSize <= SqnMod
  BY <1>1, GroupFits
<1>3. x + TgSize = lead + 1
  <2>1. lead % TgSize = TgSize - 1
    <3> DEFINE r == lead % TgSize
               q == lead \div TgSize
    <3>1. lead = TgSize * q + r /\ q \in Int /\ r \in 0 .. (TgSize - 1) /\ lead \in Int
      BY <1>1 DEF Sqn
    <3> DEFINE e == (lead + 1) \div TgSize
    <3>2. lead + 1 = TgSize * e /\ e \in Int
      BY <1>1 DEF Sqn
    <3> HIDE DEF r, q, e
    <3>3. TgSize * (e - q) = TgSize * e - TgSize * q /\ TgSize * q \in Int
      BY <1>1, <3>1, <3>2, Z3
    <3>4. TgSize * (e - q) = r + 1
      BY <1>1, <3>1, <3>2, <3>3
    <3>5. SUFFICES ASSUME r < TgSize - 1 PROVE FALSE
      BY <1>1, <3>1 DEF r
    <3>6. e - q = 0
      BY <1>1, <3>1, <3>2, <3>4, <3>5, MultipleInRange
    <3> QED
      BY <1>1, <3>1, <3>4, <3>6
  <2> QED
    BY <1>1, <2>1 DEF TgLead, Sqn
<1> HIDE DEF x
<1>4. InWindow(x)
  BY DEF x
<1>5. x \in Members
  <2>1. Minus(x, lead) # SignBit
    <3>1. SUFFICES ASSUME TgSize = SignBit + 1 PROVE FALSE
      BY <1>1, <1>2, <1>3, SignBitAssumption DEF Minus, Sqn, SqnMod
    <3> DEFINE K == SqnMod \div TgSize
    <3>2. TgSize * K = SqnMod /\ K \in Int /\ SqnMod \in Nat
      BY <1>1, GroupAssumption, SignBitAssumption DEF SqnMod
    <3> HIDE DEF K
    <3>3. K >= 2 => TgSize * K >= 2 * TgSize
      BY <1>1, <3>2, Z3
    <3>4. K <= 1 => TgSize * K <= TgSize
      BY <1>1, <3>2, Z3
    <3> QED
      BY <3>1, <3>2, <3>3, <3>4, SignBitAssumption DEF SqnMod
  <2> QED
    BY <1>2, <1>4, <2>1, InWindowMember
<1>6. Minus(x, trail) + TgSize <= Length
  BY <1>1, <1>2, <1>3, <1>5, SignBitAssumption
  DEF Members, Length, Plus, Minus, Sqn, SqnMod
<1> QED
  BY <1>2, <1>5, <1>6 DEF LeadsGroup, x

\* Within such a group every packet is found (pgm_txw_retransmit_try_peek).
LEMMA WithinComplete ==
    ASSUME WindowInv, NEW s \in Members, LeadsGroup(s)
    PROVE  GroupComplete(s)
<1>1. /\ s \in Sqn /\ lead \in Sqn /\ trail \in Sqn /\ TgSize \in Nat \ {0}
      /\ Length \in 0 .. Alloc /\ Alloc < SignBit /\ Alloc \in Nat /\ s % TgSize = 0
  BY GroupAssumption, AllocAssumption, SignBitAssumption
  DEF WindowInv, Members, LeadsGroup, Length, Plus, Minus, Sqn, SqnMod
<1>2. TgLead(s) = s
  BY <1>1 DEF TgLead, Sqn
<1>3. ASSUME NEW k \in 0 .. (TgSize - 1) PROVE InWindow(s + k)
  <2>1. s + k \in Sqn
    BY <1>1, <1>2, GroupFits
  <2>2. Minus(s + k, trail) < Length
    BY <1>1, <2>1, SignBitAssumption DEF LeadsGroup, Minus, Sqn, SqnMod
  <2> QED
    BY <2>1, <2>2, InWindowMember DEF Members
<1> QED
  BY <1>2, <1>3 DEF GroupComplete

-----------------------------------------------------------------------------
(* The retransmit queue. *)

\* A step that leaves edges, skbs and queue alone keeps what is said of them.
LEMMA SameQueue ==
    ASSUME QueueInv, GroupsHeld, UNCHANGED <<lead, trail, pdata, queue>>
    PROVE  QueueInv' /\ GroupsHeld' /\ Members' = Members
BY DEF QueueInv, QueueIsWaiting, GroupsHeld, LeadsGroup, Members, Length, At, Idx

\* Writing the slot of a packet of the window leaves the other packets alone.
LEMMA WriteSlot ==
    ASSUME SqnMod % Alloc = 0, WindowInv, UNCHANGED <<lead, trail>>,
           NEW s \in Members, NEW skb \in Skb, pdata' = [pdata EXCEPT ![Idx(s)] = skb]
    PROVE  /\ Members' = Members
           /\ \A r \in Members : At(r)' = IF r = s THEN skb ELSE At(r)
           /\ \A r : LeadsGroup(r)' <=> LeadsGroup(r)
<1>1. Members' = Members /\ Length' = Length
  BY DEF Members, Length
<1>2. \A r \in Members : Idx(r) \in Slot
  BY IdxType DEF Members
<1>3. \A r \in Members : r # s => Idx(r) # Idx(s)
  BY MembersApart
<1> QED
  BY <1>1, <1>2, <1>3 DEF WindowInv, At, Idx, LeadsGroup

\* A packet of the window that does not wait can be queued, with a parity count if it
\* leads a group (Enqueue).
LEMMA EnqueueQueue ==
    ASSUME SqnMod % Alloc = 0, WindowInv, QueueInv, GroupsHeld,
           UNCHANGED <<lead, trail>>, NEW s \in Members, ~At(s).waiting,
           NEW skb \in Skb, Enqueue(s, skb), skb.requested # 0 => LeadsGroup(s)
    PROVE  QueueInv' /\ GroupsHeld' /\ Members' = Members
<1> DEFINE w == [skb EXCEPT !.waiting = TRUE]
<1>1. w \in Skb /\ w.waiting /\ w.requested = skb.requested
  BY DEF Skb
<1>2. queue' = <<s>> \o queue /\ pdata' = [pdata EXCEPT ![Idx(s)] = w]
  BY DEF Enqueue
<1> HIDE DEF w
<1>3. /\ Members' = Members
      /\ \A r \in Members : At(r)' = IF r = s THEN w ELSE At(r)
      /\ \A r : LeadsGroup(r)' <=> LeadsGroup(r)
  BY <1>1, <1>2, WriteSlot
<1>4. queue \in Seq(Sqn) /\ IsInjective(queue)
      /\ ToSet(queue) = {r \in Members : At(r).waiting}
  BY DEF QueueInv, QueueIsWaiting
<1>5. s \in Sqn /\ s \notin ToSet(queue)
  BY <1>4 DEF Members
<1>6. /\ queue' \in Seq(Sqn) /\ IsInjective(queue')
      /\ ToSet(queue') = ToSet(queue) \cup {s}
  BY <1>2, <1>4, <1>5, PrependOnce
<1>7. ToSet(queue') = {r \in Members' : At(r)'.waiting}
  BY <1>1, <1>3, <1>4, <1>6
<1>8. QueueInv'
  BY <1>6, <1>7 DEF QueueInv, QueueIsWaiting
<1>9. GroupsHeld'
  BY <1>1, <1>3 DEF GroupsHeld
<1> QED
  BY <1>3, <1>8, <1>9

\* pgm_txw_retransmit_push_selective, for a sequence number that is not 2^31 from the
\* lead.
LEMMA PushSelectiveQueue ==
    ASSUME SqnMod % Alloc = 0, WindowInv, QueueInv, GroupsHeld,
           UNCHANGED <<lead, trail>>, NEW s \in Sqn, Minus(s, lead) # SignBit,
           PushSelective(s)
    PROVE  QueueInv' /\ GroupsHeld' /\ Members' = Members
<1>1. CASE InWindow(s) /\ ~At(s).waiting
  <2>1. s \in Members
    BY <1>1, InWindowMember
  <2>2. At(s) \in Skb
    BY IdxType DEF WindowInv, At
  <2>3. Enqueue(s, At(s))
    BY <1>1 DEF PushSelective
  <2>4. At(s).requested # 0 => LeadsGroup(s)
    BY <2>1 DEF GroupsHeld
  <2> QED
    BY <1>1, <2>1, <2>2, <2>3, <2>4, EnqueueQueue
<1>2. CASE ~(InWindow(s) /\ ~At(s).waiting)
  BY <1>2, SameQueue DEF PushSelective
<1> QED
  BY <1>1, <1>2

\* pgm_txw_retransmit_push_parity, for a group that is in the window if its leader is.
LEMMA PushParityQueue ==
    ASSUME SqnMod % Alloc = 0, WindowInv, QueueInv, GroupsHeld,
           UNCHANGED <<lead, trail>>, NEW n \in Sqn, PushParity(n),
           InWindow(TgLead(n)) => TgLead(n) \in Members /\ LeadsGroup(TgLead(n))
    PROVE  QueueInv' /\ GroupsHeld' /\ Members' = Members
<1> DEFINE s   == TgLead(n)
           cnt == n % TgSize
<1>1. cnt \in Count /\ s \in Sqn
  <2>1. cnt \in 0 .. (TgSize - 1)
    BY GroupAssumption, SignBitAssumption DEF Sqn, SqnMod
  <2> QED
    BY <2>1, GroupFits, GroupAssumption DEF Count
<1>2. At(s) \in Skb
  BY <1>1, IdxType DEF WindowInv, At
<1> HIDE DEF s, cnt
<1>3. CASE ~InWindow(s)
  BY <1>3, SameQueue DEF PushParity, s
<1>4. CASE InWindow(s) /\ ~At(s).waiting
  <2> DEFINE skb == [At(s) EXCEPT !.requested = (@ + 1) % CntMod]
  <2>1. skb \in Skb
    BY <1>2, GroupAssumption DEF Skb, Count
  <2>2. Enqueue(s, skb)
    BY <1>4 DEF PushParity, s
  <2> QED
    BY <1>4, <2>1, <2>2, EnqueueQueue DEF s
<1>5. CASE InWindow(s) /\ At(s).waiting
  <2>1. UNCHANGED queue /\ (UNCHANGED pdata \/ pdata' = [pdata EXCEPT ![Idx(s)].requested = cnt])
    BY <1>5 DEF PushParity, s, cnt
  <2>2. CASE UNCHANGED pdata
    BY <2>1, <2>2, SameQueue
  <2>3. CASE pdata' = [pdata EXCEPT ![Idx(s)].requested = cnt]
    <3> DEFINE w == [At(s) EXCEPT !.requested = cnt]
    <3>1. w \in Skb /\ w.waiting = At(s).waiting
      BY <1>1, <1>2 DEF Skb
    <3>2. pdata' = [pdata EXCEPT ![Idx(s)] = w]
      BY <2>3 DEF At
    <3> HIDE DEF w
    <3>3. s \in Members /\ LeadsGroup(s)
      BY <1>5 DEF s
    <3>4. /\ Members' = Members
          /\ \A r \in Members : At(r)' = IF r = s THEN w ELSE At(r)
          /\ \A r : LeadsGroup(r)' <=> LeadsGroup(r)
      BY <3>1, <3>2, <3>3, WriteSlot
    <3>5. GroupsHeld'
      BY <3>3, <3>4 DEF GroupsHeld
    <3>6. \A r \in Members : At(r)'.waiting = At(r).waiting
      BY <3>1, <3>4
    <3>7. QueueInv'
      BY <2>1, <3>4, <3>6 DEF QueueInv, QueueIsWaiting
    <3> QED
      BY <3>4, <3>5, <3>7
  <2> QED
    BY <2>1, <2>2, <2>3
<1> QED
  BY <1>3, <1>4, <1>5

\* pgm_txw_add takes the packet that leaves the window off the queue.
LEMMA AddODataQueue ==
    ASSUME SqnMod % Alloc = 0, WindowInv, QueueInv, GroupsHeld, AddOData
    PROVE  QueueInv' /\ GroupsHeld'
<1>0. PICK s \in Sqn : s = Plus(1, lead)
  BY AddODataMembers
<1>1. /\ queue \in Seq(Sqn) /\ IsInjective(queue)
      /\ ToSet(queue) = {r \in Members : At(r).waiting}
  BY DEF QueueInv, QueueIsWaiting
<1>2. queue' = IF IsFull THEN QueueWithoutTrail ELSE queue
  BY DEF AddOData
<1>3. /\ queue' \in Seq(Sqn) /\ IsInjective(queue')
      /\ ToSet(queue') = IF IsFull THEN ToSet(queue) \ {trail} ELSE ToSet(queue)
  <2>1. CASE ~IsFull
    BY <1>1, <1>2, <2>1
  <2>2. CASE IsFull /\ ~At(trail).waiting
    BY <1>1, <1>2, <2>2 DEF QueueWithoutTrail
  <2>3. CASE IsFull /\ At(trail).waiting
    <3> DEFINE k == CHOOSE i \in DOMAIN queue : queue[i] = trail
    <3>1. trail \in ToSet(queue)
      BY <1>1, <2>3, AddODataMembers
    <3>2. k \in DOMAIN queue /\ queue[k] = trail
      BY <3>1 DEF ToSet
    <3>3. DOMAIN queue = 1 .. Len(queue)
      BY <1>1, LenProperties
    <3>4. queue' = RemoveAt(queue, k)
      BY <1>2, <2>3 DEF QueueWithoutTrail
    <3> HIDE DEF k
    <3> QED
      BY <1>1, <2>3, <3>2, <3>3, <3>4, RemoveAtOnce
  <2> QED
    BY <2>1, <2>2, <2>3
<1>4. /\ s \notin Members
      /\ Members' = (IF IsFull THEN Members \ {trail} ELSE Members) \cup {s}
      /\ \A r \in Members' \ {s} : Length' - Minus(r, trail') = Length - Minus(r, trail) + 1
  BY <1>0, AddODataMembers
<1>5. /\ At(s)'.waiting = FALSE /\ At(s)'.requested = 0
      /\ \A r \in Members' \ {s} : r \in Members /\ At(r)' = At(r)
  BY <1>0, AddODataSlots DEF At, Idx
<1>6. ToSet(queue') = {r \in Members' : At(r)'.waiting}
  BY <1>1, <1>3, <1>4, <1>5
<1>7. ASSUME NEW r \in Members', At(r)'.requested # 0 PROVE LeadsGroup(r)'
  <2>1. r \in Members /\ r # s /\ At(r).requested # 0
    BY <1>5, <1>7
  <2>2. r % TgSize = 0 /\ Minus(r, trail) + TgSize <= Length
    BY <2>1 DEF GroupsHeld, LeadsGroup
  <2>3. Length' - Minus(r, trail') = Length - Minus(r, trail) + 1
    BY <1>4, <2>1
  <2>4. {Length, Minus(r, trail), Length', Minus(r, trail')} \subseteq Int /\ TgSize \in Nat
    <3>1. {r, trail, trail', lead, lead'} \subseteq Sqn
      BY AddODataInv, <2>1 DEF WindowInv, Members
    <3> QED
      BY <3>1, GroupAssumption, SignBitAssumption DEF Length, Plus, Minus, Sqn, SqnMod
  <2>5. Minus(r, trail') + TgSize <= Length'
    BY <2>2, <2>3, <2>4
  <2> QED
    BY <2>2, <2>5 DEF LeadsGroup
<1>8. QueueInv'
  BY <1>3, <1>6 DEF QueueInv, QueueIsWaiting
<1>9. GroupsHeld'
  BY <1>7 DEF GroupsHeld
<1> QED
  BY <1>8, <1>9

\* pgm_txw_retransmit_remove_head serves whatever packet is at the tail.
LEMMA RemoveRequestQueue ==
    ASSUME SqnMod % Alloc = 0, WindowInv, QueueInv, GroupsHeld, RemoveRequest
    PROVE  QueueInv' /\ GroupsHeld' /\ Members' = Members
<1>1. CASE queue = <<>>
  BY <1>1, SameQueue DEF RemoveRequest
<1>2. CASE queue # <<>>
  <2> DEFINE s    == Last(queue)
             skb  == AfterSend(At(s))
             done == skb.requested = 0 \/ skb.sent = skb.requested
             w    == [skb EXCEPT !.waiting = ~done]
  <2>1. /\ queue \in Seq(Sqn) /\ IsInjective(queue)
        /\ ToSet(queue) = {r \in Members : At(r).waiting}
    BY DEF QueueInv, QueueIsWaiting
  <2>2. /\ Front(queue) \in Seq(Sqn) /\ s \in ToSet(queue) /\ IsInjective(Front(queue))
        /\ ToSet(Front(queue)) = ToSet(queue) \ {s}
    BY <1>2, <2>1, FrontOnce
  <2>3. s \in Members /\ At(s).waiting
    BY <2>1, <2>2
  <2>4. At(s) \in Skb
    BY <2>3, IdxType DEF WindowInv, At, Members
  <2>5. w \in Skb /\ w.waiting = ~done /\ w.requested = At(s).requested
    <3>1. skb \in Skb /\ skb.requested = At(s).requested
      BY <2>4, GroupAssumption DEF AfterSend, Skb, Count
    <3> QED
      BY <3>1 DEF Skb
  <2>6. /\ queue' = IF done THEN Front(queue) ELSE queue
        /\ pdata' = [pdata EXCEPT ![Idx(s)] = w]
        /\ UNCHANGED <<lead, trail>>
    BY <1>2 DEF RemoveRequest
  <2> HIDE DEF s, done, w
  <2>7. /\ Members' = Members
        /\ \A r \in Members : At(r)' = IF r = s THEN w ELSE At(r)
        /\ \A r : LeadsGroup(r)' <=> LeadsGroup(r)
    BY <2>3, <2>5, <2>6, WriteSlot
  <2>8. ToSet(queue') = {r \in Members' : At(r)'.waiting}
    BY <2>1, <2>2, <2>3, <2>5, <2>6, <2>7
  <2>9. QueueInv'
    BY <2>1, <2>2, <2>6, <2>8 DEF QueueInv, QueueIsWaiting
  <2>10. GroupsHeld'
    BY <2>3, <2>5, <2>7 DEF GroupsHeld
  <2> QED
    BY <2>7, <2>9, <2>10
<1> QED
  BY <1>1, <1>2

-----------------------------------------------------------------------------
(* The two threads. *)

\* The repair under way keeps its skb when the window lets it go, and is not the packet
\* that is added.
LEMMA AddODataRepair ==
    ASSUME WindowInv, RepairInv, AddOData
    PROVE  RepairInv'
<1> DEFINE s == Plus(1, lead)
<1>1. /\ s \notin Members
      /\ Members' = (IF IsFull THEN Members \ {trail} ELSE Members) \cup {s}
  BY AddODataMembers
<1>2. transit' = s /\ rdata' = IF IsFull THEN RepairWithoutTrail ELSE rdata
  BY DEF AddOData
<1>3. rdata \in Repair \cup {NoRepair}
      /\ (rdata # NoRepair /\ rdata.kind = "selective" => rdata.sqn \in Members)
  BY DEF RepairInv
<1> HIDE DEF s
<1>4. rdata' = rdata \/ rdata' = [rdata EXCEPT !.kind = "purged"]
  BY <1>2 DEF RepairWithoutTrail
<1>5. CASE rdata = NoRepair
  BY <1>2, <1>5 DEF RepairWithoutTrail, RepairInv, HeldNotRepaired
<1>6. CASE rdata # NoRepair
  <2>1. rdata \in Repair /\ \A x \in Repair : x.kind \in {"selective", "purged", "parity"}
    BY <1>3, <1>6 DEF Repair
  <2>2. rdata' \in Repair
    BY <1>4, <2>1 DEF Repair
  <2>3. ASSUME rdata'.kind = "selective" PROVE rdata'.sqn \in Members' /\ rdata'.sqn # s
    <3>1. rdata' = rdata
      BY <1>4, <2>1, <2>3 DEF Repair
    <3>2. IsFull => rdata.sqn # trail
      BY <1>2, <1>6, <2>1, <2>3, <3>1 DEF RepairWithoutTrail, Repair
    <3> QED
      BY <1>1, <1>3, <1>6, <2>3, <3>1, <3>2
  <2> QED
    BY <1>2, <2>2, <2>3 DEF RepairInv, HeldNotRepaired
<1> QED
  BY <1>5, <1>6

\* A window as pgm_txw_create makes it satisfies the invariant.
LEMMA InitInv == Init => IInv
<1> SUFFICES ASSUME Init PROVE IInv
  OBVIOUS
<1>1. lead = SqnMod - 1 /\ trail = 0 /\ lead \in Sqn /\ trail \in Sqn
  BY SignBitAssumption DEF Init, Sqn, SqnMod
<1>2. Length = 0
  BY <1>1, SignBitAssumption DEF Length, Plus, Minus, SqnMod
<1>3. pdata \in [Slot -> Skb]
  BY SignBitAssumption, GroupAssumption DEF Init, Skb, Sqn, SqnMod, Count
<1>4. Members = {}
  <2>1. \A s \in Sqn : Minus(s, trail) \in Nat
    BY <1>1, SqnArith
  <2> QED
    BY <1>2, <2>1 DEF Members
<1>5. WindowInv
  BY <1>1, <1>2, <1>3, <1>4, AllocAssumption DEF WindowInv, OwnSlots
<1>6. QueueInv
  <2>1. queue = <<>> /\ queue \in Seq(Sqn) /\ Len(queue) = 0
    BY DEF Init
  <2>2. DOMAIN queue = {}
    BY <2>1, LenProperties
  <2> QED
    BY <1>4, <2>1, <2>2 DEF QueueInv, QueueIsWaiting, IsInjective, ToSet
<1>7. GroupsHeld
  BY <1>4 DEF GroupsHeld
<1> QED
  BY <1>5, <1>6, <1>7
  DEF Init, IInv, SenderInv, RepairInv, HeldNotRepaired

\* A repair stays what it is while the window does and the sender takes no packet.
LEMMA SameRepair ==
    ASSUME RepairInv, UNCHANGED rdata, Members' = Members,
           UNCHANGED <<transit, held>> \/ held' = FALSE
    PROVE  RepairInv'
<1>1. Members \subseteq Sqn
  BY DEF Members
<1> QED
  BY <1>1 DEF RepairInv, HeldNotRepaired

\* Every step keeps the invariant: one case per action.
LEMMA NextInv ==
    ASSUME SqnMod % Alloc = 0
    PROVE  IInv /\ [Next]_vars => IInv'
<1> SUFFICES ASSUME IInv, [Next]_vars PROVE IInv'
  OBVIOUS
<1>0. /\ WindowInv /\ QueueInv /\ GroupsHeld /\ SenderInv /\ RepairInv
      /\ abort \in {"none", "remove_head"} /\ pdata \in [Slot -> Skb] /\ lead \in Sqn
  BY DEF IInv, WindowInv
<1>a. SenderInv' <=> /\ transit' \in Sqn \cup {None} /\ held' \in BOOLEAN
                     /\ transit' # None => transit' = lead' /\ Length' # 0
  BY DEF SenderInv, IsEmpty
<1>1. CASE AddOData
  <2>1. WindowInv' /\ QueueInv' /\ GroupsHeld' /\ RepairInv'
    BY <1>0, <1>1, AddODataInv, AddODataQueue, AddODataRepair
  <2>2. /\ transit' = Plus(1, lead) /\ lead' = Plus(1, lead) /\ UNCHANGED abort
        /\ held' \in BOOLEAN
    BY <1>1 DEF AddOData
  <2>3. transit' \in Sqn /\ Length' # 0
    BY <1>0, <1>1, <2>2, AddODataMembers, AllocAssumption
  <2>4. SenderInv'
    BY <1>a, <2>2, <2>3
  <2> QED
    BY <1>0, <2>1, <2>2, <2>4 DEF IInv
<1>2. CASE ODataSent
  <2>0. /\ transit = lead /\ ~IsEmpty /\ transit' = None /\ held' = FALSE
        /\ UNCHANGED <<lead, trail, rdata, abort>>
    BY <1>0, <1>2 DEF ODataSent, SenderInv
  <2>1. WindowInv' /\ QueueInv' /\ GroupsHeld' /\ Members' = Members
    <3>1. CASE UNCHANGED <<queue, pdata>>
      BY <1>0, <2>0, <3>1, SameSqns, SameQueue
    <3>2. CASE /\ (transit + 1) % TgSize = 0
               /\ PushParity(TgLead(transit) + ProactiveH)
      <4> DEFINE n == TgLead(transit) + ProactiveH
      <4>1. n \in Sqn /\ TgLead(n) = TgLead(lead)
        BY <1>0, <2>0, GroupFits, GroupAssumption
      <4>2. InWindow(TgLead(n)) => TgLead(n) \in Members /\ LeadsGroup(TgLead(n))
        BY <1>0, <2>0, <3>2, <4>1, ProactiveWithin
      <4> HIDE DEF n
      <4>3. PushParity(n)
        BY <3>2 DEF n
      <4> QED
        BY <1>0, <2>0, <4>1, <4>2, <4>3, PushParityInv, PushParityQueue
    <3> QED
      BY <1>2, <3>1, <3>2 DEF ODataSent
  <2>2. RepairInv'
    BY <1>0, <2>0, <2>1, SameRepair
  <2>3. SenderInv'
    BY <1>a, <2>0
  <2> QED
    BY <1>0, <2>0, <2>1, <2>2, <2>3 DEF IInv
<1>3. CASE OnNak
  <2>0. UNCHANGED <<lead, trail, transit, held, rdata, abort>>
    BY <1>3 DEF OnNak
  <2>1. PICK n \in Naks : /\ Minus(n.sqn, lead) # SignBit
                          /\ IF n.is_parity THEN GroupComplete(n.sqn) /\ PushParity(n.sqn)
                                            ELSE PushSelective(n.sqn)
    BY <1>3 DEF OnNak
  <2>2. n.sqn \in Sqn
    BY NakAssumption
  <2>3. WindowInv' /\ QueueInv' /\ GroupsHeld' /\ Members' = Members
    <3>1. CASE n.is_parity
      <4>1. TgLead(n.sqn) \in Members /\ LeadsGroup(TgLead(n.sqn))
        BY <1>0, <2>1, <2>2, <3>1, CompleteWithin
      <4> QED
        BY <1>0, <2>0, <2>1, <2>2, <3>1, <4>1, PushParityInv, PushParityQueue
    <3>2. CASE ~n.is_parity
      BY <1>0, <2>0, <2>1, <2>2, <3>2, PushSelectiveInv, PushSelectiveQueue
    <3> QED
      BY <3>1, <3>2
  <2>4. RepairInv'
    BY <1>0, <2>0, <2>3, SameRepair
  <2>5. SenderInv'
    <3>1. Length' = Length
      BY <2>0 DEF Length
    <3> QED
      BY <1>0, <1>a, <2>0, <3>1 DEF SenderInv, IsEmpty
  <2> QED
    BY <1>0, <2>0, <2>3, <2>4, <2>5 DEF IInv
<1>4. CASE PeekRequest
  <2>0. UNCHANGED <<lead, trail, pdata, queue, transit, held>>
    BY <1>4 DEF PeekRequest
  <2>1. WindowInv' /\ QueueInv' /\ GroupsHeld' /\ Members' = Members
    BY <1>0, <2>0, SameSqns, SameQueue
  <2> DEFINE s == Last(queue)
  <2>2. s \in Members /\ ~(held /\ s = transit)
    <3>1. queue # <<>> /\ ~(held /\ s = transit)
      BY <1>4 DEF PeekRequest, TailReady
    <3>2. s \in ToSet(queue)
      BY <1>0, <3>1, FrontOnce DEF QueueInv, QueueIsWaiting
    <3> QED
      BY <1>0, <3>1, <3>2 DEF QueueInv, QueueIsWaiting
  <2>3. At(s).requested # 0 => GroupComplete(s)
    BY <1>0, <2>2, WithinComplete DEF GroupsHeld
  <2>4. UNCHANGED abort /\ \/ rdata' = [kind |-> "selective", sqn |-> s]
                           \/ rdata' = [kind |-> "parity", sqn |-> s]
    BY <1>4, <2>3 DEF PeekRequest
  <2> HIDE DEF s
  <2>5. RepairInv'
    <3>1. s \in Sqn
      BY <2>2 DEF Members
    <3> QED
      BY <2>0, <2>1, <2>2, <2>4, <3>1 DEF RepairInv, HeldNotRepaired, Repair
  <2>6. SenderInv'
    <3>1. Length' = Length
      BY <2>0 DEF Length
    <3> QED
      BY <1>0, <1>a, <2>0, <3>1 DEF SenderInv, IsEmpty
  <2> QED
    BY <1>0, <2>1, <2>4, <2>5, <2>6 DEF IInv
<1>5. CASE RDataBlocked
  <2>0. UNCHANGED <<lead, trail, pdata, queue, transit, held, abort>> /\ rdata' = NoRepair
    BY <1>5 DEF RDataBlocked
  <2>1. WindowInv' /\ QueueInv' /\ GroupsHeld'
    BY <1>0, <2>0, SameSqns, SameQueue
  <2>2. Length' = Length
    BY <2>0 DEF Length
  <2> QED
    BY <1>0, <2>0, <2>1, <2>2
    DEF IInv, SenderInv, IsEmpty, RepairInv, HeldNotRepaired
<1>6. CASE RemoveRequest
  <2>0. UNCHANGED <<lead, trail, transit, held>> /\ rdata' = NoRepair
        /\ abort' \in {abort, "remove_head"}
    BY <1>6 DEF RemoveRequest
  <2>1. WindowInv' /\ QueueInv' /\ GroupsHeld'
    BY <1>0, <1>6, RemoveRequestInv, RemoveRequestQueue
  <2>2. Length' = Length
    BY <2>0 DEF Length
  <2> QED
    BY <1>0, <2>0, <2>1, <2>2
    DEF IInv, SenderInv, IsEmpty, RepairInv, HeldNotRepaired
<1>7. CASE UNCHANGED vars
  <2>1. WindowInv' /\ QueueInv' /\ GroupsHeld' /\ Members' = Members
    BY <1>0, <1>7, SameSqns, SameQueue DEF vars
  <2>2. RepairInv'
    BY <1>0, <1>7, <2>1, SameRepair DEF vars
  <2>3. Length' = Length
    BY <1>7 DEF Length, vars
  <2> QED
    BY <1>0, <1>7, <2>1, <2>2, <2>3 DEF IInv, SenderInv, IsEmpty, vars
<1> QED
  BY <1>1, <1>2, <1>3, <1>4, <1>5, <1>6, <1>7 DEF Next

\* The invariant says what the runs check.
LEMMA InvImplies ==
    IInv => TypeOK /\ OwnSlots /\ QueueIsWaiting /\ HeldNotRepaired /\ GroupAtHand
BY DEF IInv, WindowInv, QueueInv, SenderInv, RepairInv, TypeOK, GroupAtHand

(***************************************************************************)
(* For every window size that divides the sequence space, every            *)
(* transmission group size and every order of sends, NAKs and repairs:     *)
(*                                                                         *)
(* Fields keep their types, and the window never outgrows its array.       *)
(***************************************************************************)
THEOREM TypeCorrect ==
    ASSUME SqnMod % Alloc = 0
    PROVE  Spec => []TypeOK
BY InitInv, NextInv, InvImplies, PTL DEF Spec

\* Every sequence number of the window finds its own skb (_pgm_txw_peek).
THEOREM OwnSlotsTheorem ==
    ASSUME SqnMod % Alloc = 0
    PROVE  Spec => []OwnSlots
BY InitInv, NextInv, InvImplies, PTL DEF Spec

\* The retransmit queue and the flags agree: a request is eliminated exactly when its
\* repair is queued, and no purged packet stays queued (pgm_txw_retransmit_push,
\* pgm_txw_remove_tail, pgm_txw_retransmit_remove_head).
THEOREM QueueTheorem ==
    ASSUME SqnMod % Alloc = 0
    PROVE  Spec => []QueueIsWaiting
BY InitInv, NextInv, InvImplies, PTL DEF Spec

\* send_rdata never rewrites the header of a packet to which send_odata or pgm_send_skbv
\* has taken its own reference and which it has yet to hand to the network.
THEOREM RepairTheorem ==
    ASSUME SqnMod % Alloc = 0
    PROVE  Spec => []HeldNotRepaired
BY InitInv, NextInv, InvImplies, PTL DEF Spec

\* pgm_txw_retransmit_try_peek finds every packet of the group it encodes.
THEOREM GroupTheorem ==
    ASSUME SqnMod % Alloc = 0
    PROVE  Spec => []GroupAtHand
BY InitInv, NextInv, InvImplies, PTL DEF Spec

=============================================================================
