------------------------------ MODULE RxwLemmas ------------------------------
(***************************************************************************)
(* What each function of rxw.c (module Rxw) does to a window.              *)
(*                                                                         *)
(* WInv states for a window w the types of its fields and the consistency  *)
(* of its ring; the first part shows that the functions that write slots   *)
(* or move edges take a window satisfying WInv to another.  The argument   *)
(* is about slots: IdxInjective says that the sequence numbers of the      *)
(* window have distinct slots, so that a function that writes the slots of *)
(* some leaves the skbs of the others in place.  The second part is about  *)
(* contents, counters, committed data and commit_lead, the third about     *)
(* reading.                                                                *)
(***************************************************************************)
EXTENDS Rxw, FiniteSetTheorems, WellFoundedInduction, TLAPS

-----------------------------------------------------------------------------
(* Serial numbers and rings. *)

\* Sums and differences of sequence numbers are sequence numbers (the uint32_t
\* arithmetic of rxw.c), and so natural numbers below 2^32.
LEMMA SqnArith ==
    ASSUME NEW s \in Sqn, NEW t \in Sqn
    PROVE  /\ Plus(s, t) \in Sqn
           /\ Minus(s, t) \in Sqn
           /\ Minus(s, t) \in Nat /\ s \in Nat
           /\ Minus(s, t) < SqnMod /\ s < SqnMod /\ SqnMod \in Nat
BY SignBitAssumption DEF Sqn, SqnMod, Plus, Minus

\* Adding one before or after n is the same.
LEMMA PlusOne ==
    ASSUME NEW a \in Sqn, NEW n \in Sqn
    PROVE  Plus(Plus(a, n), 1) = Plus(Plus(a, 1), n) /\ Plus(a, 1) \in Sqn
BY SignBitAssumption DEF Sqn, SqnMod, Plus

\* Zero is the only multiple of A strictly between -A and A.
LEMMA MultipleInRange ==
    ASSUME NEW A \in Nat \ {0}, NEW z \in Int, -A < A * z, A * z < A
    PROVE  z = 0
<1>1. z >= 1 => A * z >= A
  BY Z3
<1>2. z <= -1 => A * z <= -A
  BY Z3
<1> QED
  BY <1>1, <1>2

\* Two sequence numbers less than N from the same edge with the same remainder by
\* N are equal, when N divides the sequence space: the slots of a ring of N packets
\* (_pgm_rxw_peek, _pgm_txw_peek) are distinct for the packets of its window.
LEMMA RingIndex ==
    ASSUME NEW N \in Nat \ {0}, N < SignBit, SqnMod % N = 0,
           NEW t \in Sqn, NEW a \in Sqn, NEW b \in Sqn,
           Minus(a, t) < N, Minus(b, t) < N, a % N = b % N
    PROVE  a = b
<1> DEFINE qa == a \div N
           qb == b \div N
           K  == SqnMod \div N
<1>0. SqnMod \in Nat /\ a \in Nat /\ b \in Nat /\ t \in Nat
  BY SignBitAssumption DEF Sqn, SqnMod
<1>1. a = N * qa + (a % N) /\ qa \in Int
  BY <1>0
<1>2. b = N * qb + (b % N) /\ qb \in Int
  BY <1>0
<1>3. SqnMod = N * K /\ K \in Int
  BY <1>0
<1> HIDE DEF qa, qb, K
<1>4. a - b = N * (qa - qb)
  BY <1>0, <1>1, <1>2
<1>5. PICK e \in {-1, 0, 1} : -N < a - b + e * SqnMod /\ a - b + e * SqnMod < N
  BY <1>0 DEF Minus, Sqn
<1>6. a - b + e * SqnMod = N * (qa - qb + e * K)
  BY <1>0, <1>1, <1>2, <1>3, <1>4, <1>5
<1>7. qa - qb + e * K = 0
  BY <1>0, <1>1, <1>2, <1>3, <1>5, <1>6, MultipleInRange
<1>8. a - b + e * SqnMod = 0
  BY <1>6, <1>7, <1>0
<1> QED
  BY <1>0, <1>5, <1>8 DEF Sqn

-----------------------------------------------------------------------------
(* The ring of a window. *)

\* The sequence numbers of a window have distinct slots in pdata: where the window
\* size has to divide the sequence space.
LEMMA IdxInjective ==
    ASSUME SqnMod % Alloc = 0,
           NEW t \in Sqn, NEW a \in Sqn, NEW b \in Sqn,
           Minus(a, t) < Alloc, Minus(b, t) < Alloc, Idx(a) = Idx(b)
    PROVE  a = b
BY AllocAssumption, RingIndex DEF Idx

\* What the functions of rxw.c keep of a window w.
WInv(w) == /\ w \in Window
           /\ SectionsOK(w)
           /\ \A s \in Sqn : Minus(s, w.trail) < Length(w) => SlotOK(w, s)

\* A set of sequence numbers is finite and has a natural cardinality.
LEMMA CountType ==
    ASSUME NEW S \in SUBSET Sqn
    PROVE  Cardinality(S) \in Nat
<1>1. IsFiniteSet(Sqn)
  BY FS_Interval, SignBitAssumption DEF Sqn, SqnMod
<1> QED
  BY <1>1, FS_Subset, FS_CardinalityType

\* The capped loss counter stays within its bound.
LEMMA LossesType ==
    ASSUME NEW w \in Window, NEW n \in Nat
    PROVE  Losses(w, n) \in 0 .. LossCap
BY InputAssumption DEF Losses, Window

\* The lengths of rxw.h are sequence numbers (32-bit differences).
LEMMA LengthType ==
    ASSUME NEW w \in Window
    PROVE  /\ Length(w) \in Sqn /\ CommitLength(w) \in Sqn /\ IncomingLength(w) \in Sqn
           /\ NextLead(w) \in Sqn
<1>1. w.lead \in Sqn /\ w.trail \in Sqn /\ w.commit_lead \in Sqn /\ 1 \in Sqn
  BY SignBitAssumption DEF Window, Sqn, SqnMod
<1> QED
  BY <1>1, SqnArith DEF Length, CommitLength, IncomingLength, NextLead

\* The index _pgm_rxw_peek computes is within pdata.
LEMMA IdxType ==
    ASSUME NEW s \in Sqn
    PROVE  Idx(s) \in Slot
BY AllocAssumption DEF Idx, Slot, Sqn

\* What the leaves below use of the window invariant.
LEMMA WInvFacts ==
    ASSUME NEW w, WInv(w)
    PROVE  /\ w \in Window
           /\ w.lead \in Sqn /\ w.trail \in Sqn /\ w.commit_lead \in Sqn
           /\ Length(w) \in Sqn /\ CommitLength(w) \in Sqn
           /\ w.pdata \in [Slot -> Skb]
           /\ Length(w) <= Alloc /\ CommitLength(w) <= Length(w)
<1>1. w \in Window /\ SectionsOK(w)
  BY DEF WInv
<1>2. w.lead \in Sqn /\ w.trail \in Sqn /\ w.commit_lead \in Sqn /\ w.pdata \in [Slot -> Skb]
  BY <1>1 DEF Window
<1> QED
  BY <1>1, <1>2, LengthType DEF SectionsOK

\* _pgm_rxw_remove_trail, from an empty commit section or within it, keeps the
\* invariant and shortens the window by what it drops.
LEMMA RemoveTrailInv ==
    ASSUME SqnMod % Alloc = 0, NEW w, WInv(w), NEW n \in Nat, n <= Length(w),
           CommitIsEmpty(w) \/ n <= CommitLength(w)
    PROVE  /\ WInv(RemoveTrail(w, n))
           /\ Length(RemoveTrail(w, n)) = Length(w) - n
           /\ CommitIsEmpty(w) => CommitIsEmpty(RemoveTrail(w, n))
           /\ RemoveTrail(w, n).lead = w.lead
           /\ RemoveTrail(w, n).trail = Plus(w.trail, n)
<1> DEFINE v    == RemoveTrail(w, n)
           gone == {s \in Sqn : Minus(s, w.trail) < n}
<1>1. /\ w \in Window /\ w.lead \in Sqn /\ w.trail \in Sqn /\ w.commit_lead \in Sqn
      /\ Length(w) \in Sqn /\ n \in Sqn /\ CommitLength(w) \in Sqn
      /\ w.pdata \in [Slot -> Skb] /\ Length(w) <= Alloc /\ CommitLength(w) <= Length(w)
  <2>1. n \in Sqn
    BY WInvFacts, SignBitAssumption DEF Sqn, SqnMod
  <2> QED
    BY <2>1, WInvFacts
<1>2. /\ v.lead = w.lead
      /\ v.trail = Plus(w.trail, n)
      /\ v.commit_lead = IF CommitIsEmpty(w) THEN Plus(w.commit_lead, n) ELSE w.commit_lead
      /\ v.pdata = [i \in Slot |-> IF \E s \in gone : Idx(s) = i THEN Free ELSE w.pdata[i]]
  BY <1>1 DEF RemoveTrail, Window
<1>3. v \in Window
  <2>1. Plus(w.trail, n) \in Sqn /\ Plus(w.commit_lead, n) \in Sqn
    BY <1>1, SqnArith
  <2>2. Free \in Skb
    BY SignBitAssumption DEF Free, Skb, PktState, Sqn, SqnMod
  <2>3. v.pdata \in [Slot -> Skb]
    BY <1>1, <1>2, <2>2
  <2>4. /\ CountIn(w, gone, "HAVE_DATA") \in Nat
        /\ CountIn(w, gone, "LOST_DATA") \in Nat
        /\ CountIn(w, gone, "COMMIT_DATA") \in Nat
    BY CountType DEF CountIn
  <2>5. Losses(w, n) \in 0 .. LossCap
    BY <1>1, LossesType
  <2> DEFINE fc == w.fragment_count  - CountIn(w, gone, "HAVE_DATA")
             lc == w.lost_count      - CountIn(w, gone, "LOST_DATA")
             cc == w.committed_count - CountIn(w, gone, "COMMIT_DATA")
             cl == IF CommitIsEmpty(w) THEN Losses(w, n) ELSE w.cumulative_losses
             pd == v.pdata
             tr == v.trail
             cm == v.commit_lead
  <2>6. v = [w EXCEPT !.pdata = pd, !.fragment_count = fc, !.lost_count = lc,
                      !.committed_count = cc, !.trail = tr, !.commit_lead = cm,
                      !.cumulative_losses = cl]
    BY <1>1, <1>2 DEF RemoveTrail, Window
  <2>7. /\ pd \in [Slot -> Skb] /\ tr \in Sqn /\ cm \in Sqn
        /\ fc \in Int /\ lc \in Int /\ cc \in Int /\ cl \in 0 .. LossCap
    BY <1>1, <1>2, <2>1, <2>3, <2>4, <2>5 DEF Window
  <2> HIDE DEF fc, lc, cc, cl, pd, tr, cm, v
  <2>8. w \in Window
    BY <1>1
  <2> QED
    BY <2>6, <2>7, <2>8 DEF Window
<1> HIDE DEF v
<1>4. Length(v) = Length(w) - n
  BY <1>1, <1>2, SignBitAssumption DEF Length, NextLead, Plus, Minus, Sqn, SqnMod
<1>5. CommitLength(v) = IF CommitIsEmpty(w) THEN 0 ELSE CommitLength(w) - n
  BY <1>1, <1>2, SignBitAssumption DEF CommitLength, CommitIsEmpty, Plus, Minus, Sqn, SqnMod
<1>6. ASSUME NEW s \in Sqn, Minus(s, v.trail) < Length(v)
      PROVE  SlotOK(v, s)
  <2>1. /\ Minus(s, w.trail) = Minus(s, v.trail) + n
        /\ Minus(s, w.trail) \in Nat /\ Minus(s, v.trail) \in Nat
        /\ Minus(s, w.trail) < Length(w)
        /\ Length(w) \in Nat /\ Alloc \in Nat /\ CommitLength(w) \in Nat
    <3>1. /\ Minus(s, w.trail) \in Nat /\ Minus(s, v.trail) \in Nat
          /\ Length(w) \in Nat /\ Alloc \in Nat /\ CommitLength(w) \in Nat
      BY <1>1, <1>2, SqnArith, AllocAssumption
    <3>2. Minus(s, w.trail) = Minus(s, v.trail) + n
      BY <1>1, <1>2, <1>4, <1>6, SignBitAssumption DEF Plus, Minus, Sqn, SqnMod
    <3> QED
      BY <3>1, <3>2, <1>4, <1>6
  <2>2. SlotOK(w, s)
    BY <2>1 DEF WInv
  <2>3. \A g \in gone : Idx(g) # Idx(s)
    <3> SUFFICES ASSUME NEW g \in gone, Idx(g) = Idx(s) PROVE FALSE
      OBVIOUS
    <3>0. Minus(g, w.trail) \in Nat
      BY <1>1, SqnArith
    <3>1. Minus(g, w.trail) < Alloc /\ Minus(s, w.trail) < Alloc
      BY <1>1, <2>1, <3>0
    <3>2. g = s
      BY <1>1, <3>1, IdxInjective
    <3> QED
      BY <3>2, <2>1
  <2>4. Peek(v, s) = Peek(w, s)
    BY <1>2, <2>3, IdxType DEF Peek
  <2>5. Minus(s, v.trail) < CommitLength(v) <=> Minus(s, w.trail) < CommitLength(w)
    BY <1>5, <2>1 DEF CommitIsEmpty
  <2> QED
    BY <2>2, <2>4, <2>5 DEF SlotOK, StateAt
<1>7. SectionsOK(v)
  BY <1>1, <1>4, <1>5, SignBitAssumption, AllocAssumption DEF SectionsOK, CommitIsEmpty, Sqn, SqnMod
<1>8. CommitIsEmpty(w) => CommitIsEmpty(v)
  BY <1>5 DEF CommitIsEmpty
<1> QED
  BY <1>2, <1>3, <1>4, <1>6, <1>7, <1>8 DEF WInv, v

\* Sequence numbers of the incoming section
InSection(w, s) == CommitLength(w) <= Minus(s, w.trail) /\ Minus(s, w.trail) < Length(w)

\* _pgm_rxw_state (LOST_DATA) on sequence numbers that are not committed keeps the
\* invariant and moves no edge.
LEMMA MarkLostInv ==
    ASSUME NEW w, WInv(w), NEW S \in SUBSET Sqn,
           \A s \in S : StateAt(w, s) # "COMMIT_DATA"
    PROVE  /\ WInv(MarkLost(w, S))
           /\ MarkLost(w, S).lead = w.lead
           /\ MarkLost(w, S).trail = w.trail
           /\ MarkLost(w, S).commit_lead = w.commit_lead
<1> DEFINE v  == MarkLost(w, S)
           pd == [i \in Slot |-> IF \E s \in S : Idx(s) = i
                                 THEN [w.pdata[i] EXCEPT !.state = "LOST_DATA"]
                                 ELSE w.pdata[i]]
           fc == w.fragment_count - CountIn(w, S, "HAVE_DATA")
           lc == w.lost_count + Cardinality(S)
           cl == Losses(w, Cardinality(S))
           ev == w.has_event \/ S # {}
<1>1. /\ w \in Window /\ w.lead \in Sqn /\ w.trail \in Sqn /\ w.commit_lead \in Sqn
      /\ Length(w) \in Sqn /\ CommitLength(w) \in Sqn
      /\ w.pdata \in [Slot -> Skb] /\ Length(w) <= Alloc /\ CommitLength(w) <= Length(w)
  BY WInvFacts
<1>2. v = [w EXCEPT !.pdata = pd, !.fragment_count = fc, !.lost_count = lc,
                    !.cumulative_losses = cl, !.has_event = ev]
  BY <1>1 DEF MarkLost, Window
<1>3. /\ pd \in [Slot -> Skb]
      /\ fc \in Int /\ lc \in Int /\ cl \in 0 .. LossCap /\ ev \in BOOLEAN
  <2>1. \A k \in Skb : [k EXCEPT !.state = "LOST_DATA"] \in Skb
    BY DEF Skb, PktState
  <2>2. pd \in [Slot -> Skb]
    BY <1>1, <2>1
  <2>3. Cardinality(S) \in Nat /\ CountIn(w, S, "HAVE_DATA") \in Nat
    BY CountType DEF CountIn
  <2> QED
    BY <1>1, <2>2, <2>3, LossesType DEF Window
<1>4. \A i \in Slot : pd[i] = IF \E s \in S : Idx(s) = i
                                 THEN [w.pdata[i] EXCEPT !.state = "LOST_DATA"]
                                 ELSE w.pdata[i]
  OBVIOUS
<1> HIDE DEF pd, fc, lc, cl, ev, v
<1>5. /\ v \in Window /\ v.lead = w.lead /\ v.trail = w.trail
      /\ v.commit_lead = w.commit_lead /\ v.pdata = pd
  BY <1>1, <1>2, <1>3 DEF Window
<1>6. Length(v) = Length(w) /\ CommitLength(v) = CommitLength(w)
  BY <1>5 DEF Length, CommitLength, NextLead
<1>7. ASSUME NEW s \in Sqn, Minus(s, v.trail) < Length(v)
      PROVE  SlotOK(v, s)
  <2>1. SlotOK(w, s)
    BY <1>5, <1>6, <1>7 DEF WInv
  <2>2. Idx(s) \in Slot
    BY IdxType
  <2>3. CASE \E x \in S : Idx(x) = Idx(s)
    <3>2. /\ Peek(v, s).sqn = Peek(w, s).sqn
          /\ StateAt(v, s) = "LOST_DATA"
      <4>1. pd[Idx(s)] = [w.pdata[Idx(s)] EXCEPT !.state = "LOST_DATA"]
        BY <1>4, <2>2, <2>3
      <4>2. w.pdata[Idx(s)] \in Skb
        BY <1>1, <2>2
      <4> QED
        BY <1>5, <4>1, <4>2 DEF Peek, StateAt, Skb
    <3>3. ~(Minus(s, v.trail) < CommitLength(v))
      <4>1. StateAt(w, s) # "COMMIT_DATA"
        BY <2>3 DEF StateAt, Peek
      <4> QED
        BY <1>5, <1>6, <2>1, <4>1 DEF SlotOK
    <3> QED
      BY <2>1, <3>2, <3>3 DEF SlotOK
  <2>4. CASE ~ \E x \in S : Idx(x) = Idx(s)
    <3>1. Peek(v, s) = Peek(w, s)
      BY <1>4, <1>5, <2>2, <2>4 DEF Peek
    <3> QED
      BY <1>5, <1>6, <2>1, <3>1 DEF SlotOK, StateAt
  <2> QED
    BY <2>3, <2>4
<1> QED
  BY <1>1, <1>5, <1>6, <1>7 DEF WInv, SectionsOK, v

\* fields other than the five that WInv's structural part reads do not matter
LEMMA SameStructure ==
    ASSUME NEW w, WInv(w), NEW v \in Window, v.lead = w.lead, v.trail = w.trail,
           v.commit_lead = w.commit_lead, v.pdata = w.pdata
    PROVE  WInv(v)
BY DEF WInv, SectionsOK, SlotOK, Length, CommitLength, NextLead, Peek, StateAt

\* A failed assertion changes nothing the invariant speaks of.
LEMMA AbortInv ==
    ASSUME NEW w, WInv(w),
           NEW where \in {"none", "lost", "insert", "confirm", "readv", "read_apdu"}
    PROVE  WInv(Abort(w, where))
<1>1. w \in Window
  BY DEF WInv
<1>2. /\ Abort(w, where) \in Window
      /\ Abort(w, where).lead = w.lead /\ Abort(w, where).trail = w.trail
      /\ Abort(w, where).commit_lead = w.commit_lead
      /\ Abort(w, where).pdata = w.pdata
  BY <1>1 DEF Abort, Window
<1> QED
  BY <1>2, SameStructure

\* A sequence number of the window that is not committed lies in the incoming
\* section: the state tells the section.
LEMMA SectionStates ==
    ASSUME NEW w, WInv(w), NEW s \in Sqn, Minus(s, w.trail) < Length(w),
           StateAt(w, s) # "COMMIT_DATA"
    PROVE  InSection(w, s)
<1>1. SlotOK(w, s)
  BY DEF WInv
<1>2. Minus(s, w.trail) \in Int /\ CommitLength(w) \in Int
  BY WInvFacts, SqnArith
<1> QED
  BY <1>1, <1>2 DEF SlotOK, InSection

\* pgm_rxw_lost keeps the invariant.
LEMMA LostInv ==
    ASSUME NEW w, WInv(w), NEW s \in Sqn
    PROVE  WInv(Lost(w, s))
<1>1. CASE StateAt(w, s) \in Recovering \cup {"HAVE_DATA"}
  BY <1>1, MarkLostInv DEF Lost, Recovering
<1>2. CASE StateAt(w, s) \notin Recovering \cup {"HAVE_DATA"}
  BY <1>2, AbortInv DEF Lost
<1> QED
  BY <1>1, <1>2

\* _pgm_rxw_define keeps the invariant and leaves an empty window at the new lead.
LEMMA DefineInv ==
    ASSUME NEW w, WInv(w), NEW lead \in Sqn
    PROVE  /\ WInv(Define(w, lead)) /\ Define(w, lead).lead = lead
           /\ CommitIsEmpty(Define(w, lead)) /\ IsEmpty(Define(w, lead))
<1> DEFINE v == Define(w, lead)
           next == Plus(lead, 1)
<1>0. 1 \in Sqn
  BY SignBitAssumption DEF Sqn, SqnMod
<1>1. w \in Window /\ next \in Sqn
  BY <1>0, WInvFacts, SqnArith
<1>2. /\ v \in Window /\ v.lead = lead /\ v.trail = next /\ v.commit_lead = next
      /\ v.pdata = w.pdata
  <2> HIDE DEF next
  <2> QED
    BY <1>1 DEF Define, Window, next
<1> HIDE DEF v
<1>3. Length(v) = 0 /\ CommitLength(v) = 0
  BY <1>1, <1>2 DEF Length, CommitLength, NextLead, Minus, Sqn
<1>4. \A s \in Sqn : ~(Minus(s, v.trail) < 0)
  BY <1>1, <1>2, SqnArith
<1> QED
  BY <1>2, <1>3, <1>4, AllocAssumption
  DEF WInv, SectionsOK, CommitIsEmpty, IsEmpty, v

\* _pgm_rxw_update_trail keeps the invariant.
LEMMA UpdateTrailInv ==
    ASSUME NEW w, WInv(w), NEW t \in Sqn
    PROVE  WInv(UpdateTrail(w, t))
<1> DEFINE moved == [w EXCEPT !.is_constrained = FALSE, !.rxw_trail = t]
           dist  == Minus(t, w.trail)
           S     == {s \in Incoming(w) : Gt(t, s) /\ StateAt(w, s) \in Recovering}
           jump  == [moved EXCEPT !.trail = t, !.commit_lead = t,
                                  !.lead = Plus(@, dist),
                                  !.cumulative_losses = Losses(w, dist)]
<1>1. /\ w \in Window /\ w.lead \in Sqn /\ w.trail \in Sqn /\ w.commit_lead \in Sqn
      /\ Length(w) \in Sqn /\ CommitLength(w) \in Sqn
      /\ w.pdata \in [Slot -> Skb] /\ Length(w) <= Alloc /\ CommitLength(w) <= Length(w)
  BY WInvFacts
<1>2. /\ moved \in Window /\ moved.lead = w.lead /\ moved.trail = w.trail
      /\ moved.commit_lead = w.commit_lead /\ moved.pdata = w.pdata
  BY <1>1 DEF Window
<1>3. WInv(moved)
  BY <1>2, SameStructure
<1>4. CASE IsEmpty(w)
  <2>1. dist \in Sqn /\ Plus(w.lead, dist) \in Sqn /\ dist \in Nat
    BY <1>1, SqnArith
  <2>2. Losses(w, dist) \in 0 .. LossCap
    BY <1>1, <2>1, LossesType
  <2> DEFINE ld == Plus(w.lead, dist)
             cl == Losses(w, dist)
  <2>3. jump = [w EXCEPT !.is_constrained = FALSE, !.rxw_trail = t, !.trail = t,
                         !.commit_lead = t, !.lead = ld, !.cumulative_losses = cl]
    BY <1>1 DEF Window
  <2>4. ld = Plus(w.lead, dist) /\ ld \in Sqn /\ cl \in 0 .. LossCap
    BY <2>1, <2>2
  <2> HIDE DEF jump, ld, cl
  <2>5. /\ jump \in Window /\ jump.lead = ld /\ jump.trail = t
        /\ jump.commit_lead = t
    BY <1>1, <2>3, <2>4 DEF Window
  <2>6. Length(jump) = 0 /\ CommitLength(jump) = 0
    BY <1>1, <1>4, <2>4, <2>5, SignBitAssumption
    DEF IsEmpty, Length, CommitLength, NextLead, Plus, Minus, Sqn, SqnMod
  <2>7. \A s \in Sqn : ~(Minus(s, jump.trail) < 0)
    BY <2>5, SqnArith
  <2>8. WInv(jump)
    BY <2>5, <2>6, <2>7, AllocAssumption DEF WInv, SectionsOK
  <2> QED
    BY <1>3, <1>4, <2>8 DEF UpdateTrail, jump
<1>5. CASE ~IsEmpty(w)
  <2>1. \A s \in S : StateAt(moved, s) # "COMMIT_DATA"
    BY <1>2 DEF StateAt, Peek, Recovering
  <2>2. S \in SUBSET Sqn
    BY DEF Incoming
  <2>3. WInv(MarkLost(moved, S))
    BY <1>3, <2>1, <2>2, MarkLostInv
  <2> HIDE DEF S, moved
  <2> QED
    BY <1>3, <1>5, <2>3 DEF UpdateTrail, S, moved
<1> QED
  BY <1>4, <1>5

Live == Recovering \cup {"HAVE_DATA", "LOST_DATA"}

\* Replacing the skb of an incoming sequence number by another skb of that number
\* keeps the invariant: no other sequence number of the window has that slot.
LEMMA SetSlotInv ==
    ASSUME SqnMod % Alloc = 0, NEW w, WInv(w), NEW s \in Sqn, InSection(w, s),
           NEW k \in Skb, k.sqn = s, k.state \in Live,
           NEW v \in Window, v.lead = w.lead, v.trail = w.trail,
           v.commit_lead = w.commit_lead, v.pdata = [w.pdata EXCEPT ![Idx(s)] = k]
    PROVE  WInv(v)
<1>1. /\ w.trail \in Sqn /\ Length(w) \in Sqn /\ CommitLength(w) \in Sqn
      /\ w.pdata \in [Slot -> Skb] /\ Length(w) <= Alloc /\ CommitLength(w) <= Length(w)
  BY WInvFacts
<1>2. Length(v) = Length(w) /\ CommitLength(v) = CommitLength(w)
  BY DEF Length, CommitLength, NextLead
<1>3. ASSUME NEW x \in Sqn, Minus(x, v.trail) < Length(v)
      PROVE  SlotOK(v, x)
  <2>1. SlotOK(w, x)
    BY <1>2, <1>3 DEF WInv
  <2>2. Idx(x) \in Slot /\ Idx(s) \in Slot
    BY IdxType
  <2>3. CASE Idx(x) = Idx(s)
    <3>1. /\ Minus(x, w.trail) \in Nat /\ Minus(s, w.trail) \in Nat
          /\ Length(w) \in Nat /\ Alloc \in Nat /\ CommitLength(w) \in Nat
      BY <1>1, SqnArith, AllocAssumption
    <3>2. x = s
      BY <1>1, <1>2, <1>3, <2>3, <3>1, IdxInjective DEF InSection
    <3>3. ~(Minus(x, v.trail) < CommitLength(v))
      BY <1>2, <3>1, <3>2 DEF InSection
    <3> QED
      BY <1>1, <2>2, <3>2, <3>3 DEF SlotOK, Peek, StateAt, Live
  <2>4. CASE Idx(x) # Idx(s)
    <3>1. Peek(v, x) = Peek(w, x)
      BY <1>1, <2>2, <2>4 DEF Peek
    <3> QED
      BY <1>2, <2>1, <3>1 DEF SlotOK, StateAt
  <2> QED
    BY <2>3, <2>4
<1> QED
  BY <1>1, <1>2, <1>3 DEF WInv, SectionsOK

\* Storing an skb one past the lead of a window that is not full and advancing the
\* lead keeps the invariant.
LEMMA ExtendInv ==
    ASSUME SqnMod % Alloc = 0, NEW w, WInv(w), Length(w) < Alloc,
           NEW k \in Skb, k.sqn = Plus(w.lead, 1), k.state \in Live,
           NEW v \in Window, v.lead = Plus(w.lead, 1), v.trail = w.trail,
           v.commit_lead = w.commit_lead,
           v.pdata = [w.pdata EXCEPT ![Idx(Plus(w.lead, 1))] = k]
    PROVE  WInv(v) /\ Length(v) = Length(w) + 1 /\ CommitLength(v) = CommitLength(w)
<1> DEFINE s == Plus(w.lead, 1)
<1>0. 1 \in Sqn
  BY SignBitAssumption DEF Sqn, SqnMod
<1>1. /\ w.trail \in Sqn /\ Length(w) \in Sqn /\ CommitLength(w) \in Sqn
      /\ w.lead \in Sqn /\ s \in Sqn
      /\ w.pdata \in [Slot -> Skb] /\ Length(w) <= Alloc /\ CommitLength(w) <= Length(w)
  BY <1>0, WInvFacts, SqnArith
<1>2. Length(v) = Length(w) + 1 /\ CommitLength(v) = CommitLength(w)
  BY <1>1, SignBitAssumption, AllocAssumption
  DEF Length, CommitLength, NextLead, Plus, Minus, Sqn, SqnMod
<1>3. Minus(s, w.trail) = Length(w)
  BY DEF Length, NextLead
<1> HIDE DEF s
<1>4. ASSUME NEW x \in Sqn, Minus(x, v.trail) < Length(v)
      PROVE  SlotOK(v, x)
  <2>1. /\ Minus(x, w.trail) \in Nat /\ Length(w) \in Nat /\ Alloc \in Nat
        /\ CommitLength(w) \in Nat
    BY <1>1, SqnArith, AllocAssumption
  <2>2. Idx(x) \in Slot /\ Idx(s) \in Slot
    BY <1>1, IdxType
  <2>3. CASE Idx(x) = Idx(s)
    <3>1. x = s
      BY <1>1, <1>2, <1>3, <1>4, <2>1, <2>3, IdxInjective
    <3>2. ~(Minus(x, v.trail) < CommitLength(v))
      BY <1>1, <1>2, <1>3, <2>1, <3>1
    <3> QED
      BY <1>1, <2>2, <3>1, <3>2 DEF SlotOK, Peek, StateAt, Live, s
  <2>4. CASE Idx(x) # Idx(s)
    <3>1. Minus(x, w.trail) < Length(w)
      <4>1. x # s
        BY <2>4
      <4>2. Minus(x, w.trail) # Length(w)
        BY <1>1, <1>3, <4>1, SignBitAssumption DEF Minus, Sqn, SqnMod
      <4> QED
        BY <1>2, <1>4, <2>1, <4>2
    <3>2. SlotOK(w, x)
      BY <3>1 DEF WInv
    <3>3. Peek(v, x) = Peek(w, x)
      BY <1>1, <2>2, <2>4 DEF Peek, s
    <3> QED
      BY <1>2, <3>2, <3>3 DEF SlotOK, StateAt
  <2> QED
    BY <2>3, <2>4
<1>5. SectionsOK(v)
  BY <1>1, <1>2, AllocAssumption DEF SectionsOK, Sqn
<1> QED
  BY <1>2, <1>4, <1>5 DEF WInv

\* Adding placeholders with purging of the trailing edge keeps the invariant and
\* leaves at most keep sequence numbers, whether or not the loop laps the ring.
LEMMA AddPlaceholdersInv ==
    ASSUME SqnMod % Alloc = 0, NEW w, WInv(w), NEW n \in Nat, n < SignBit,
           NEW keep \in {Alloc, Alloc - 1},
           CommitIsEmpty(w) \/ Length(w) + n <= keep
    PROVE  /\ WInv(AddPlaceholders(w, n, keep))
           /\ AddPlaceholders(w, n, keep).lead = Plus(w.lead, n)
           /\ Length(AddPlaceholders(w, n, keep)) <= keep
           /\ CommitIsEmpty(w) => CommitIsEmpty(AddPlaceholders(w, n, keep))
<1> DEFINE v     == AddPlaceholders(w, n, keep)
           len   == Length(w)
           drop  == IF len + n > keep THEN len + n - keep ELSE 0
           old   == IF drop < len THEN drop ELSE len
           w1    == RemoveTrail(w, old)
           lead1 == Plus(w.lead, n)
           tr    == Plus(w.trail, drop)
           new   == {s \in Sqn : Minus(lead1, s) < n /\ Minus(lead1, s) < keep}
           pd    == [i \in Slot |-> IF \E s \in new : Idx(s) = i
                        THEN Placeholder(CHOOSE s \in new : Idx(s) = i, "BACK_OFF")
                        ELSE w1.pdata[i]]
           cm    == IF CommitIsEmpty(w) THEN tr ELSE w1.commit_lead
           cl    == IF CommitIsEmpty(w) THEN Losses(w, drop) ELSE w1.cumulative_losses
<1>1. /\ w \in Window /\ w.lead \in Sqn /\ w.trail \in Sqn /\ w.commit_lead \in Sqn
      /\ len \in Sqn /\ CommitLength(w) \in Sqn
      /\ len <= Alloc /\ CommitLength(w) <= len
  BY WInvFacts
<1>2. /\ drop \in Nat /\ drop <= n + 1 /\ drop \in Sqn /\ n \in Sqn /\ old \in Nat /\ old <= len
      /\ (CommitIsEmpty(w) \/ drop = 0) /\ keep \in Nat
  BY <1>1, SignBitAssumption, AllocAssumption DEF Sqn, SqnMod
<1>3. /\ WInv(w1) /\ w1.lead = w.lead /\ w1.trail = Plus(w.trail, old)
      /\ Length(w1) = len - old
      /\ CommitIsEmpty(w) => CommitIsEmpty(w1)
  <2>1. CommitIsEmpty(w) \/ old <= CommitLength(w)
    BY <1>1, <1>2 DEF Sqn
  <2> QED
    BY <1>2, <2>1, RemoveTrailInv
<1>4. lead1 \in Sqn /\ tr \in Sqn /\ cm \in Sqn /\ w1 \in Window
      /\ cl \in 0 .. LossCap /\ w1.pdata \in [Slot -> Skb]
  <2>1. lead1 \in Sqn /\ tr \in Sqn
    BY <1>1, <1>2, SqnArith
  <2>2. w1 \in Window /\ w1.commit_lead \in Sqn /\ w1.pdata \in [Slot -> Skb]
    BY <1>3, WInvFacts
  <2>3. Losses(w, drop) \in 0 .. LossCap
    BY <1>1, <1>2, LossesType
  <2>4. w1.cumulative_losses \in 0 .. LossCap
    BY <2>2 DEF Window
  <2> QED
    BY <2>1, <2>2, <2>3, <2>4
<1>5. v = [w1 EXCEPT !.pdata = pd, !.lead = lead1, !.trail = tr,
                     !.commit_lead = cm, !.cumulative_losses = cl]
  BY <1>4 DEF AddPlaceholders, Window
<1>6. \A i \in Slot : pd[i] = IF \E s \in new : Idx(s) = i
                        THEN Placeholder(CHOOSE s \in new : Idx(s) = i, "BACK_OFF")
                        ELSE w1.pdata[i]
  OBVIOUS
<1>7. /\ drop = IF len + n > keep THEN len + n - keep ELSE 0
      /\ old = IF drop < len THEN drop ELSE len
      /\ len = Minus(Plus(w.lead, 1), w.trail)
      /\ w1.commit_lead = IF CommitIsEmpty(w) THEN w1.commit_lead ELSE w.commit_lead
      /\ len = Length(w)
      /\ \A s : s \in new <=> (s \in Sqn /\ Minus(lead1, s) < n /\ Minus(lead1, s) < keep)
      /\ lead1 = Plus(w.lead, n) /\ tr = Plus(w.trail, drop)
      /\ cm = IF CommitIsEmpty(w) THEN tr ELSE w1.commit_lead
  <2>1. len = Minus(Plus(w.lead, 1), w.trail)
    BY DEF Length, NextLead
  <2>2. ~CommitIsEmpty(w) => w1.commit_lead = w.commit_lead
    BY <1>1 DEF RemoveTrail, Window
  <2> HIDE DEF w1
  <2> QED
    BY <2>1, <2>2
<1> HIDE DEF v, lead1, tr, cm, cl, w1, len, drop, old, new
<1>8. pd \in [Slot -> Skb]
  <2>1. \A s \in Sqn : Placeholder(s, "BACK_OFF") \in Skb
    BY DEF Placeholder, Skb, PktState, Recovering
  <2>2. ASSUME NEW i \in Slot, \E s \in new : Idx(s) = i
        PROVE  (CHOOSE s \in new : Idx(s) = i) \in Sqn
    <3>1. (CHOOSE s \in new : Idx(s) = i) \in new
      BY <2>2
    <3> QED
      BY <1>7, <3>1
  <2>3. \A i \in Slot : w1.pdata[i] \in Skb
    BY <1>4
  <2> QED
    BY <2>1, <2>2, <2>3
<1> HIDE DEF pd
<1>9. cm = IF CommitIsEmpty(w) THEN tr ELSE w.commit_lead
  BY <1>7
<1>10. /\ drop = IF len + n > keep THEN len + n - keep ELSE 0
       /\ old = IF drop < len THEN drop ELSE len
       /\ \A s : s \in new <=> (s \in Sqn /\ Minus(lead1, s) < n /\ Minus(lead1, s) < keep)
       /\ len = Minus(Plus(w.lead, 1), w.trail) /\ len = Length(w)
       /\ w1.commit_lead = IF CommitIsEmpty(w) THEN w1.commit_lead ELSE w.commit_lead
  BY <1>7
<1>11. /\ v \in Window /\ v.lead = lead1 /\ v.trail = tr /\ v.commit_lead = cm
       /\ v.pdata = pd
  BY <1>4, <1>5, <1>8 DEF Window
<1>12. Length(v) = IF len + n > keep THEN keep ELSE len + n
  <2>1. Minus(Plus(lead1, 1), tr) = len + n - drop
    <3>1. 0 <= len + n - drop /\ len + n - drop < SqnMod
      BY <1>1, <1>2, <1>10, SignBitAssumption, AllocAssumption DEF Sqn, SqnMod
    <3>2. Plus(lead1, 1) = Plus(Plus(w.lead, 1), n) /\ Plus(w.lead, 1) \in Sqn
      BY <1>1, <1>2, <1>7, PlusOne
    <3> DEFINE a == Plus(w.lead, 1)
    <3>3. a \in Sqn /\ Minus(a, w.trail) = len /\ Plus(lead1, 1) = Plus(a, n)
      BY <1>10, <3>2
    <3> HIDE DEF a
    <3>4. Minus(Plus(a, n), Plus(w.trail, drop)) = Minus(a, w.trail) + n - drop
      <4>1. 0 <= Minus(a, w.trail) + n - drop /\ Minus(a, w.trail) + n - drop < SqnMod
        BY <3>1, <3>3
      <4>2. w.trail \in Sqn /\ n \in Sqn /\ drop \in Sqn /\ a \in Sqn
        BY <1>1, <1>2, <3>3
      <4>3. Minus(a, w.trail) \in Int /\ n \in Int /\ drop \in Int /\ SqnMod \in Int
        <5>1. Minus(a, w.trail) \in Int
          BY <4>2, SignBitAssumption DEF Minus, Sqn, SqnMod
        <5>2. SqnMod \in Int
          BY SignBitAssumption DEF SqnMod
        <5> QED
          BY <1>2, <5>1, <5>2
      <4> QED
        BY <4>1, <4>2, <4>3, SignBitAssumption DEF Sqn, SqnMod, Plus, Minus
    <3> QED
      BY <1>7, <3>3, <3>4
  <2> QED
    BY <1>1, <1>2, <1>10, <1>11, <2>1 DEF Length, NextLead, Sqn
<1>13. CommitLength(v) = IF CommitIsEmpty(w) THEN 0 ELSE CommitLength(w)
  <2>1. CASE CommitIsEmpty(w)
    BY <1>4, <1>9, <1>11, <2>1 DEF CommitLength, Minus, Sqn
  <2>2. CASE ~CommitIsEmpty(w)
    <3>1. tr = w.trail
      BY <1>1, <1>2, <1>7, <2>2, SignBitAssumption DEF Plus, Sqn, SqnMod
    <3> QED
      BY <1>9, <1>11, <2>2, <3>1 DEF CommitLength
  <2> QED
    BY <2>1, <2>2
<1>14. \A x \in Sqn : Minus(lead1, x) < Length(v)
          => Minus(x, tr) = Length(v) - 1 - Minus(lead1, x)
  <2> DEFINE L == Length(v)
  <2>1. L = Minus(Plus(lead1, 1), tr) /\ L <= Alloc
    BY <1>1, <1>2, <1>11, <1>12, AllocAssumption DEF Length, NextLead
  <2> HIDE DEF L
  <2>2. \A x \in Sqn : Minus(lead1, x) < L => Minus(x, tr) = L - 1 - Minus(lead1, x)
    BY <1>4, <2>1, SignBitAssumption, AllocAssumption DEF Plus, Minus, Sqn, SqnMod
  <2> QED
    BY <2>2 DEF L
<1>15. ASSUME NEW s \in Sqn, Minus(s, v.trail) < Length(v)
       PROVE  SlotOK(v, s)
  <2>0. /\ Length(v) \in Nat /\ Length(v) <= keep /\ Length(v) <= Alloc
        /\ len \in Nat /\ Alloc \in Nat /\ CommitLength(w) \in Nat
        /\ Minus(s, tr) \in Nat /\ Minus(lead1, s) \in Nat
    <3>1. /\ len \in Nat /\ Alloc \in Nat /\ CommitLength(w) \in Nat
          /\ Minus(s, tr) \in Nat /\ Minus(lead1, s) \in Nat
      BY <1>1, <1>4, SqnArith, AllocAssumption
    <3> QED
      BY <1>1, <1>2, <1>12, <3>1
  <2>1. Idx(s) \in Slot
    BY IdxType
  <2>2. \A x \in new : /\ Minus(x, tr) < Length(v) /\ Minus(x, tr) \in Nat
                        /\ Minus(x, tr) >= CommitLength(v)
    <3> SUFFICES ASSUME NEW x \in new
                 PROVE  /\ Minus(x, tr) < Length(v) /\ Minus(x, tr) \in Nat
                        /\ Minus(x, tr) >= CommitLength(v)
      OBVIOUS
    <3>1. /\ x \in Sqn /\ Minus(lead1, x) < n /\ Minus(lead1, x) < keep
          /\ Minus(lead1, x) \in Nat
      BY <1>4, <1>10, SqnArith
    <3>2. Minus(lead1, x) < Length(v)
      BY <1>2, <1>12, <2>0, <3>1
    <3>3. Minus(x, tr) = Length(v) - 1 - Minus(lead1, x)
      BY <1>14, <3>1, <3>2
    <3>4. CommitIsEmpty(w) \/ Length(v) = len + n
      BY <1>2, <1>10, <1>12, <2>0
    <3> QED
      BY <1>1, <1>2, <1>13, <2>0, <3>1, <3>2, <3>3, <3>4
  <2>3. \A x \in new : Idx(x) = Idx(s) => x = s
    <3> SUFFICES ASSUME NEW x \in new, Idx(x) = Idx(s) PROVE x = s
      OBVIOUS
    <3>1. x \in Sqn /\ Minus(x, tr) < Alloc /\ Minus(s, tr) < Alloc
      BY <1>10, <1>11, <1>15, <2>0, <2>2
    <3> QED
      BY <1>4, <3>1, IdxInjective
  <2>4. CASE s \in new
    <3>1. (CHOOSE x \in new : Idx(x) = Idx(s)) = s
      BY <2>3, <2>4
    <3>2. Peek(v, s) = Placeholder(s, "BACK_OFF")
      BY <1>6, <1>11, <2>1, <2>4, <3>1 DEF Peek
    <3>3. ~(Minus(s, v.trail) < CommitLength(v))
      BY <1>11, <1>13, <2>0, <2>2, <2>4
    <3> QED
      BY <3>2, <3>3 DEF SlotOK, StateAt, Placeholder, Recovering
  <2>5. CASE s \notin new
    <3>1. Peek(v, s) = Peek(w1, s)
      BY <1>6, <1>11, <2>1, <2>3, <2>5 DEF Peek
    <3>2. Minus(s, tr) + n + 1 <= Length(v) /\ drop < len
      <4>1. Minus(lead1, s) = Length(v) - 1 - Minus(s, tr)
        <5> DEFINE L == Length(v)
        <5>1. L = Minus(Plus(lead1, 1), tr) /\ L <= Alloc /\ Minus(s, tr) < L
          BY <1>11, <1>15, <2>0 DEF Length, NextLead
        <5> HIDE DEF L
        <5>2. Minus(lead1, s) = L - 1 - Minus(s, tr)
          BY <1>4, <5>1, SignBitAssumption, AllocAssumption DEF Plus, Minus, Sqn, SqnMod
        <5> QED
          BY <5>2 DEF L
      <4>2. ~(Minus(lead1, s) < n /\ Minus(lead1, s) < keep)
        BY <1>10, <2>5
      <4> QED
        BY <1>2, <1>10, <1>12, <2>0, <4>1, <4>2
    <3>3. w1.trail = tr /\ Length(w1) = len - drop
      BY <1>3, <1>7, <1>10, <3>2
    <3>4. Minus(s, w1.trail) < Length(w1)
      BY <1>2, <1>10, <1>12, <2>0, <3>2, <3>3
    <3>5. SlotOK(w1, s)
      BY <1>3, <3>4 DEF WInv
    <3>6. CommitLength(w1) = CommitLength(v)
      BY <1>9, <1>10, <1>11, <1>13, <1>3, <3>3 DEF CommitLength, CommitIsEmpty
    <3> QED
      BY <1>11, <3>1, <3>3, <3>5, <3>6 DEF SlotOK, StateAt
  <2> QED
    BY <2>4, <2>5
<1>16. SectionsOK(v) /\ Length(v) <= keep
  <2>1. len \in Nat /\ CommitLength(w) \in Nat
    BY <1>1, SqnArith
  <2>2. CommitIsEmpty(w) \/ Length(v) = len + n
    BY <1>2, <1>10, <1>12, <2>1
  <2> QED
    BY <1>1, <1>2, <1>12, <1>13, <2>1, <2>2, AllocAssumption DEF SectionsOK
<1>17. CommitIsEmpty(w) => CommitIsEmpty(v)
  BY <1>13 DEF CommitIsEmpty
<1>18. WInv(v) /\ v.lead = Plus(w.lead, n)
  BY <1>7, <1>11, <1>15, <1>16 DEF WInv
<1> QED
  BY <1>16, <1>17, <1>18 DEF v

\* Changing the state of a sequence number that is not committed keeps the
\* invariant.
LEMMA RelabelInv ==
    ASSUME NEW w, WInv(w), NEW s \in Sqn, StateAt(w, s) # "COMMIT_DATA",
           NEW st \in Live
    PROVE  WInv(SetState(w, s, st))
<1> DEFINE v  == SetState(w, s, st)
           pd == [w.pdata EXCEPT ![Idx(s)].state = st]
<1>1. w \in Window /\ w.pdata \in [Slot -> Skb] /\ Idx(s) \in Slot
  BY WInvFacts, IdxType
<1>2. pd \in [Slot -> Skb]
  BY <1>1 DEF Skb, Live, PktState
<1>3. v = [w EXCEPT !.pdata = pd]
  BY <1>1 DEF SetState, Window
<1>4. \A x \in Sqn : /\ Peek(w, x).sqn = pd[Idx(x)].sqn
                     /\ pd[Idx(x)].state = IF Idx(x) = Idx(s) THEN st ELSE StateAt(w, x)
  BY <1>1, IdxType DEF Peek, StateAt, Skb
<1> HIDE DEF pd, v
<1>5. /\ v \in Window /\ v.lead = w.lead /\ v.trail = w.trail
      /\ v.commit_lead = w.commit_lead /\ v.pdata = pd
  BY <1>1, <1>2, <1>3 DEF Window
<1>6. Length(v) = Length(w) /\ CommitLength(v) = CommitLength(w)
  BY <1>5 DEF Length, CommitLength, NextLead
<1>7. ASSUME NEW x \in Sqn, Minus(x, v.trail) < Length(v)
      PROVE  SlotOK(v, x)
  <2>1. SlotOK(w, x)
    BY <1>5, <1>6, <1>7 DEF WInv
  <2>2. Peek(v, x).sqn = Peek(w, x).sqn
    BY <1>4, <1>5 DEF Peek
  <2>3. StateAt(v, x) = IF Idx(x) = Idx(s) THEN st ELSE StateAt(w, x)
    BY <1>4, <1>5 DEF Peek, StateAt
  <2>4. Idx(x) = Idx(s) => StateAt(w, x) # "COMMIT_DATA"
    BY DEF StateAt, Peek
  <2> QED
    BY <1>5, <1>6, <2>1, <2>2, <2>3, <2>4 DEF SlotOK, Live
<1> QED
  BY <1>5, <1>6, <1>7 DEF WInv, SectionsOK, v

\* What _pgm_rxw_update_lead adds, if anything: never more than fits next to
\* committed data.
LEMMA UpdateLeadStep ==
    ASSUME NEW w, WInv(w), NEW t \in Sqn, ~Lte(t, w.lead)
    PROVE  \E n \in Nat : /\ n < SignBit
                          /\ CommitIsEmpty(w) \/ Length(w) + n <= Alloc
                          /\ UpdateLead(w, t) = AddPlaceholders(w, n, Alloc)
<1> DEFINE limited == ~CommitIsEmpty(w) /\ Minus(t, w.trail) >= Alloc
           lead    == IF limited THEN Plus(w.trail, Alloc - 1) ELSE t
           n       == Minus(lead, w.lead)
<1>1. /\ w.lead \in Sqn /\ w.trail \in Sqn /\ w.commit_lead \in Sqn
      /\ Length(w) <= Alloc /\ CommitLength(w) <= Length(w)
      /\ Length(w) \in Nat /\ CommitLength(w) \in Nat /\ Alloc - 1 \in Sqn
  <2>1. /\ w.lead \in Sqn /\ w.trail \in Sqn /\ w.commit_lead \in Sqn
        /\ Length(w) <= Alloc /\ CommitLength(w) <= Length(w)
        /\ Length(w) \in Sqn /\ CommitLength(w) \in Sqn
    BY WInvFacts
  <2> QED
    BY <2>1, AllocAssumption, SignBitAssumption DEF Sqn, SqnMod
<1>2. n \in Nat /\ n < SignBit /\ (CommitIsEmpty(w) \/ Length(w) + n <= Alloc)
  <2>1. CASE limited
    BY <1>1, <2>1, AllocAssumption, SignBitAssumption
    DEF Length, NextLead, Plus, Minus, Sqn, SqnMod
  <2>2. CASE ~limited /\ CommitIsEmpty(w)
    BY <1>1, <2>2, SignBitAssumption DEF Lte, Minus, Sqn, SqnMod
  <2>3. CASE ~limited /\ ~CommitIsEmpty(w)
    <3>1. Length(w) >= 1
      BY <1>1, <2>3 DEF CommitIsEmpty
    <3>2. Minus(t, w.trail) < Alloc
      BY <1>1, <2>3, SqnArith, AllocAssumption
    <3>3. n = Minus(t, w.lead) /\ n < SignBit /\ n \in Nat
      BY <1>1, <2>3, SignBitAssumption DEF Lte, Minus, Sqn, SqnMod
    <3>4. Length(w) + Minus(t, w.lead) <= Alloc
      BY <1>1, <3>1, <3>2, AllocAssumption, SignBitAssumption
      DEF Lte, Length, NextLead, Plus, Minus, Sqn, SqnMod
    <3> QED
      BY <3>3, <3>4
  <2> QED
    BY <2>1, <2>2, <2>3
<1>3. UpdateLead(w, t) = AddPlaceholders(w, n, Alloc)
  BY DEF UpdateLead
<1> HIDE DEF n
<1> QED
  BY <1>2, <1>3

\* _pgm_rxw_update_lead keeps the invariant.
LEMMA UpdateLeadInv ==
    ASSUME SqnMod % Alloc = 0, NEW w, WInv(w), NEW t \in Sqn
    PROVE  WInv(UpdateLead(w, t))
<1>1. CASE Lte(t, w.lead)
  BY <1>1 DEF UpdateLead
<1>2. CASE ~Lte(t, w.lead)
  BY <1>2, UpdateLeadStep, AddPlaceholdersInv
<1> QED
  BY <1>1, <1>2

\* What _pgm_rxw_add_placeholder_range adds when it succeeds: the placeholders up
\* to s, leaving room for s itself next to committed data.
LEMMA AddPlaceholderRangeStep ==
    ASSUME NEW w, WInv(w), NEW s \in Sqn, ~Lte(s, w.lead)
    PROVE  \/ AddPlaceholderRange(w, s) = Result(UpdateLead(w, s), "BOUNDS")
           \/ \E n \in Nat :
                 /\ n < SignBit
                 /\ CommitIsEmpty(w) \/ Length(w) + n <= Alloc - 1
                 /\ AddPlaceholderRange(w, s)
                       = Result(AddPlaceholders(w, n, Alloc - 1), "APPENDED")
                 /\ Plus(Plus(w.lead, n), 1) = s
<1> DEFINE n == Minus(s, NextLead(w))
           bounds == ~CommitIsEmpty(w) /\ Minus(Plus(1, s), w.trail) >= Alloc
<1> SUFFICES ASSUME ~bounds
             PROVE  \E m \in Nat :
                       /\ m < SignBit
                       /\ CommitIsEmpty(w) \/ Length(w) + m <= Alloc - 1
                       /\ AddPlaceholderRange(w, s)
                             = Result(AddPlaceholders(w, m, Alloc - 1), "APPENDED")
                       /\ Plus(Plus(w.lead, m), 1) = s
  BY DEF AddPlaceholderRange
<1>1. /\ w.lead \in Sqn /\ w.trail \in Sqn
      /\ Length(w) <= Alloc /\ CommitLength(w) <= Length(w)
      /\ Length(w) \in Nat /\ CommitLength(w) \in Nat /\ 1 \in Sqn
  BY WInvFacts, SqnArith, SignBitAssumption DEF Sqn, SqnMod
<1>2. n \in Nat /\ n < SignBit
  BY <1>1, SignBitAssumption DEF NextLead, Lte, Plus, Minus, Sqn, SqnMod
<1>3. CommitIsEmpty(w) \/ Length(w) + n <= Alloc - 1
  <2> SUFFICES ASSUME ~CommitIsEmpty(w) PROVE Length(w) + n <= Alloc - 1
    OBVIOUS
  <2>1. Length(w) >= 1
    BY <1>1 DEF CommitIsEmpty
  <2>2. Minus(Plus(1, s), w.trail) < Alloc
    BY <1>1, SqnArith, AllocAssumption
  <2>3. Length(w) + n = Minus(s, w.trail) /\ Length(w) + n + 1 < SqnMod
    BY <1>1, <1>2, AllocAssumption, SignBitAssumption
    DEF Length, NextLead, Plus, Minus, Sqn, SqnMod
  <2>4. Minus(Plus(1, s), w.trail) = Minus(s, w.trail) + 1
    <3>1. Minus(s, w.trail) + 1 < SqnMod
      BY <2>3
    <3> QED
      BY <1>1, <3>1, SignBitAssumption DEF Plus, Minus, Sqn, SqnMod
  <2> QED
    BY <1>1, <1>2, <2>2, <2>3, <2>4, AllocAssumption
<1>4. AddPlaceholderRange(w, s) = Result(AddPlaceholders(w, n, Alloc - 1), "APPENDED")
  BY DEF AddPlaceholderRange
<1>5. Plus(Plus(w.lead, n), 1) = s
  BY <1>1, <1>2, SignBitAssumption DEF NextLead, Lte, Plus, Minus, Sqn, SqnMod
<1> HIDE DEF n
<1> QED
  BY <1>2, <1>3, <1>4, <1>5

\* _pgm_rxw_add_placeholder_range keeps the invariant and, when it succeeds, makes
\* s the next sequence number to append.
LEMMA AddPlaceholderRangeInv ==
    ASSUME SqnMod % Alloc = 0, NEW w, WInv(w), NEW s \in Sqn,
           ~Lte(s, w.lead)
    PROVE  LET r == AddPlaceholderRange(w, s) IN
           /\ WInv(r.window)
           /\ r.status = "APPENDED" => NextLead(r.window) = s
<1>1. CASE AddPlaceholderRange(w, s) = Result(UpdateLead(w, s), "BOUNDS")
  BY <1>1, UpdateLeadInv DEF Result
<1>2. ASSUME NEW n \in Nat, n < SignBit,
             CommitIsEmpty(w) \/ Length(w) + n <= Alloc - 1,
             AddPlaceholderRange(w, s)
               = Result(AddPlaceholders(w, n, Alloc - 1), "APPENDED"),
             Plus(Plus(w.lead, n), 1) = s
      PROVE  LET r == AddPlaceholderRange(w, s) IN
             /\ WInv(r.window)
             /\ r.status = "APPENDED" => NextLead(r.window) = s
  <2>1. /\ WInv(AddPlaceholders(w, n, Alloc - 1))
        /\ AddPlaceholders(w, n, Alloc - 1).lead = Plus(w.lead, n)
    BY <1>2, AddPlaceholdersInv
  <2> QED
    BY <1>2, <2>1 DEF Result, NextLead
<1> QED
  BY <1>1, <1>2, AddPlaceholderRangeStep

Tpdu == [sqn : Sqn, first : Sqn, len : Nat \ {0}]

\* Dropping one packet from a full window without committed data makes room for
\* another.
LEMMA MakeRoomInv ==
    ASSUME SqnMod % Alloc = 0, NEW w, WInv(w), ~IsFull(w) \/ CommitIsEmpty(w)
    PROVE  LET w1 == IF IsFull(w) THEN RemoveTrail(w, 1) ELSE w IN
           /\ WInv(w1) /\ w1 \in Window /\ w1.lead = w.lead /\ Length(w1) < Alloc
<1>1. Length(w) \in Nat /\ Length(w) <= Alloc /\ Alloc \in Nat \ {0}
  BY WInvFacts, AllocAssumption, SignBitAssumption DEF Sqn, SqnMod
<1>2. CASE IsFull(w)
  <2>1. Length(w) = Alloc /\ CommitIsEmpty(w) /\ 1 <= Length(w)
    BY <1>1, <1>2 DEF IsFull
  <2>2. /\ WInv(RemoveTrail(w, 1)) /\ Length(RemoveTrail(w, 1)) = Length(w) - 1
        /\ RemoveTrail(w, 1).lead = w.lead
    BY <2>1, RemoveTrailInv
  <2> QED
    BY <1>1, <1>2, <2>1, <2>2, WInvFacts
<1>3. CASE ~IsFull(w)
  BY <1>1, <1>3, WInvFacts DEF IsFull
<1> QED
  BY <1>2, <1>3

\* _pgm_rxw_append keeps the invariant.
LEMMA AppendInv ==
    ASSUME SqnMod % Alloc = 0, NEW w, WInv(w), NEW p \in Tpdu, NextLead(w) = p.sqn
    PROVE  WInv(AppendTpdu(w, p).window)
<1> DEFINE w1 == IF IsFull(w) THEN RemoveTrail(w, 1) ELSE w
           w2 == [w1 EXCEPT !.lead = Plus(@, 1)]
<1>1. CASE IsFull(w) /\ ~CommitIsEmpty(w)
  BY <1>1 DEF AppendTpdu, Result
<1>2. CASE ~(IsFull(w) /\ ~CommitIsEmpty(w))
  <2>1. WInv(w1) /\ w1 \in Window /\ w1.lead = w.lead /\ Length(w1) < Alloc
    BY <1>2, MakeRoomInv
  <2>2. AppendTpdu(w, p) =
          IF IsApduLost(w2, p)
          THEN Result([w2 EXCEPT
                        !.pdata = [@ EXCEPT ![Idx(p.sqn)] =
                                      Placeholder(p.sqn, "LOST_DATA")],
                        !.lost_count = @ + 1,
                        !.cumulative_losses = Losses(w2, 1),
                        !.has_event = TRUE],
                      "BOUNDS")
          ELSE Result(Store(w2, p), "APPENDED")
    BY <1>2 DEF AppendTpdu
  <2> HIDE DEF w1
  <2>3. /\ p.sqn = Plus(w1.lead, 1) /\ p.sqn \in Sqn /\ p.first \in Sqn /\ p.len \in Nat
        /\ Idx(p.sqn) \in Slot /\ w1.pdata \in [Slot -> Skb]
    BY <2>1, WInvFacts, IdxType DEF Tpdu, NextLead
  <2>4. /\ w2 \in Window /\ w2.lead = p.sqn /\ w2.trail = w1.trail
        /\ w2.commit_lead = w1.commit_lead /\ w2.pdata = w1.pdata
    BY <2>1, <2>3 DEF Window
  <2> HIDE DEF w2
  <2>5. CASE IsApduLost(w2, p)
    <3> DEFINE k  == Placeholder(p.sqn, "LOST_DATA")
               pd == [w1.pdata EXCEPT ![Idx(p.sqn)] = k]
               lc == w2.lost_count + 1
               cl == Losses(w2, 1)
               v  == [w2 EXCEPT !.pdata = pd, !.lost_count = lc,
                                !.cumulative_losses = cl, !.has_event = TRUE]
    <3>1. AppendTpdu(w, p).window = v
      BY <2>2, <2>4, <2>5 DEF Result, Window
    <3>2. k \in Skb /\ k.sqn = p.sqn /\ k.state \in Live
      BY <2>3 DEF Placeholder, Skb, PktState, Live
    <3>3. pd \in [Slot -> Skb] /\ lc \in Int /\ cl \in 0 .. LossCap
      BY <2>1, <2>3, <2>4, <3>2, LossesType DEF Window
    <3>4. pd = [w1.pdata EXCEPT ![Idx(p.sqn)] = k]
      OBVIOUS
    <3> HIDE DEF k, pd, lc, cl
    <3>5. /\ v \in Window /\ v.lead = p.sqn /\ v.trail = w1.trail
          /\ v.commit_lead = w1.commit_lead /\ v.pdata = pd
      BY <2>3, <2>4, <3>3 DEF Window
    <3> HIDE DEF v
    <3> QED
      BY <2>1, <2>3, <3>1, <3>2, <3>4, <3>5, ExtendInv
  <2>6. CASE ~IsApduLost(w2, p)
    <3> DEFINE pd == [w1.pdata EXCEPT ![Idx(p.sqn)] = Data(p)]
               fc == w2.fragment_count + 1
               v  == [w2 EXCEPT !.pdata = pd, !.fragment_count = fc]
    <3>1. AppendTpdu(w, p).window = v
      BY <2>2, <2>4, <2>6 DEF Result, Store, Window
    <3>2. Data(p) \in Skb /\ Data(p).sqn = p.sqn /\ Data(p).state \in Live
      BY <2>3 DEF Data, Skb, PktState, Live
    <3>3. pd \in [Slot -> Skb] /\ fc \in Int
      BY <2>3, <2>4, <3>2 DEF Window
    <3>4. pd = [w1.pdata EXCEPT ![Idx(p.sqn)] = Data(p)]
      OBVIOUS
    <3> HIDE DEF pd, fc
    <3>5. /\ v \in Window /\ v.lead = p.sqn /\ v.trail = w1.trail
          /\ v.commit_lead = w1.commit_lead /\ v.pdata = pd
      BY <2>3, <2>4, <3>3 DEF Window
    <3> HIDE DEF v
    <3> QED
      BY <2>1, <2>3, <3>1, <3>2, <3>4, <3>5, ExtendInv
  <2> QED
    BY <2>5, <2>6
<1> QED
  BY <1>1, <1>2

\* The serial comparisons of _pgm_rxw_peek agree with the distance from the trail,
\* except half the sequence space away, where both comparisons hold.
LEMMA InWindowLength ==
    ASSUME NEW w, WInv(w), NEW s \in Sqn, Minus(s, w.trail) # SignBit, InWindow(w, s)
    PROVE  Minus(s, w.trail) < Length(w)
<1>1. w.lead \in Sqn /\ w.trail \in Sqn /\ Length(w) <= Alloc
  BY WInvFacts
<1> QED
  BY <1>1, AllocAssumption, SignBitAssumption
  DEF InWindow, IsEmpty, Length, NextLead, Gte, Lte, Plus, Minus, Sqn, SqnMod

\* _pgm_rxw_insert keeps the invariant.
LEMMA InsertInv ==
    ASSUME SqnMod % Alloc = 0, NEW w, WInv(w), NEW p \in Tpdu,
           IsEmpty(w) \/ Minus(p.sqn, w.trail) # SignBit
    PROVE  WInv(Insert(w, p).window)
<1> DEFINE st == StateAt(w, p.sqn)
<1>0. p.sqn \in Sqn /\ p.first \in Sqn /\ p.len \in Nat
  BY DEF Tpdu
<1>1. CASE ~InWindow(w, p.sqn)
  BY <1>1, AbortInv DEF Insert, Result
<1>2. CASE InWindow(w, p.sqn) /\ st = "HAVE_DATA"
  BY <1>2 DEF Insert, Result
<1>3. CASE InWindow(w, p.sqn) /\ st # "HAVE_DATA" /\ IsApduLost(w, p)
  <2>1. Insert(w, p).window = Lost(w, p.sqn)
    BY <1>3 DEF Insert, Result
  <2> QED
    BY <1>0, <2>1, LostInv
<1>4. CASE /\ InWindow(w, p.sqn) /\ st # "HAVE_DATA" /\ ~IsApduLost(w, p)
           /\ st \in Recovering \cup {"LOST_DATA"}
  <2> DEFINE pd == [w.pdata EXCEPT ![Idx(p.sqn)] = Data(p)]
             fc == w.fragment_count + 1
             lc == IF st = "LOST_DATA" THEN w.lost_count - 1 ELSE w.lost_count
             v  == [w EXCEPT !.pdata = pd, !.fragment_count = fc, !.lost_count = lc]
  <2>0. w \in Window /\ w.pdata \in [Slot -> Skb] /\ Idx(p.sqn) \in Slot
    BY <1>0, WInvFacts, IdxType
  <2>1. Insert(w, p).window = v
    BY <1>4, <2>0 DEF Insert, Result, Store, Window
  <2>2. Data(p) \in Skb /\ Data(p).sqn = p.sqn /\ Data(p).state \in Live
    BY <1>0 DEF Data, Skb, PktState, Live
  <2>3. pd \in [Slot -> Skb] /\ fc \in Int /\ lc \in Int
    BY <2>0, <2>2 DEF Window
  <2>4. pd = [w.pdata EXCEPT ![Idx(p.sqn)] = Data(p)]
    OBVIOUS
  <2>5. InSection(w, p.sqn)
    <3>1. ~IsEmpty(w)
      BY <1>4 DEF InWindow
    <3> QED
      BY <1>0, <1>4, <3>1, InWindowLength, SectionStates DEF Recovering
  <2> HIDE DEF pd, fc, lc
  <2>6. /\ v \in Window /\ v.lead = w.lead /\ v.trail = w.trail
        /\ v.commit_lead = w.commit_lead /\ v.pdata = pd
    BY <2>0, <2>3 DEF Window
  <2> HIDE DEF v
  <2> QED
    BY <1>0, <2>1, <2>2, <2>4, <2>5, <2>6, SetSlotInv
<1>5. CASE /\ InWindow(w, p.sqn) /\ st # "HAVE_DATA" /\ ~IsApduLost(w, p)
           /\ st \notin Recovering \cup {"LOST_DATA"}
  <2>1. Insert(w, p).window = Abort(w, "insert")
    BY <1>5 DEF Insert, Result
  <2> QED
    BY <2>1, AbortInv
<1> QED
  BY <1>1, <1>2, <1>3, <1>4, <1>5

\* Setting has_event keeps the invariant.
LEMMA EventInv ==
    ASSUME NEW w, WInv(w)
    PROVE  /\ WInv([w EXCEPT !.has_event = TRUE])
           /\ [w EXCEPT !.has_event = TRUE].lead = w.lead
           /\ [w EXCEPT !.has_event = TRUE].trail = w.trail
<1> DEFINE v == [w EXCEPT !.has_event = TRUE]
<1>1. w \in Window
  BY DEF WInv
<1>2. /\ v \in Window /\ v.lead = w.lead /\ v.trail = w.trail
      /\ v.commit_lead = w.commit_lead /\ v.pdata = w.pdata
  BY <1>1 DEF Window
<1> QED
  BY <1>2, SameStructure

\* _pgm_rxw_update_trail moves the trail of an empty window only.
LEMMA UpdateTrailKeeps ==
    ASSUME NEW w, WInv(w), NEW t \in Sqn
    PROVE  \/ UpdateTrail(w, t).trail = w.trail
           \/ IsEmpty(UpdateTrail(w, t))
<1> DEFINE v == UpdateTrail(w, t)
           dist == Minus(t, w.trail)
           ld == Plus(w.lead, dist)
<1>1. w \in Window /\ w.lead \in Sqn /\ w.trail \in Sqn
  BY WInvFacts
<1>2. CASE v.trail = w.trail
  BY <1>2
<1>3. CASE v.trail # w.trail
  <2>1. IsEmpty(w) /\ v.trail = t /\ v.lead = ld
    BY <1>1, <1>3 DEF UpdateTrail, MarkLost, Window
  <2>2. Minus(Plus(ld, 1), t) = 0
    <3>1. Minus(Plus(w.lead, 1), w.trail) = 0
      BY <2>1 DEF IsEmpty, Length, NextLead
    <3> QED
      BY <1>1, <3>1, SignBitAssumption DEF Plus, Minus, Sqn, SqnMod
  <2> HIDE DEF v, ld
  <2>3. IsEmpty(v)
    BY <2>1, <2>2 DEF IsEmpty, Length, NextLead
  <2> QED
    BY <2>3 DEF v
<1> QED
  BY <1>2, <1>3

\* _pgm_rxw_recovery_append keeps the invariant.
LEMMA RecoveryAppendInv ==
    ASSUME SqnMod % Alloc = 0, NEW w, WInv(w)
    PROVE  WInv(RecoveryAppend(w).window)
<1> DEFINE w1   == IF IsFull(w) THEN RemoveTrail(w, 1) ELSE w
           lead == Plus(w1.lead, 1)
           k    == Placeholder(lead, "WAIT_DATA")
           pd   == [w1.pdata EXCEPT ![Idx(lead)] = k]
           v    == [w1 EXCEPT !.lead = lead, !.pdata = pd]
<1>1. CASE IsFull(w) /\ ~CommitIsEmpty(w)
  BY <1>1 DEF RecoveryAppend, Result
<1>2. CASE ~(IsFull(w) /\ ~CommitIsEmpty(w))
  <2>1. WInv(w1) /\ w1 \in Window /\ w1.lead = w.lead /\ Length(w1) < Alloc
    BY <1>2, MakeRoomInv
  <2>2. RecoveryAppend(w).window = v
    BY <1>2, <2>1 DEF RecoveryAppend, Result, Window
  <2> HIDE DEF w1
  <2>3. lead \in Sqn /\ w1.pdata \in [Slot -> Skb] /\ Idx(lead) \in Slot
    BY <2>1, WInvFacts, PlusOne, IdxType, SignBitAssumption DEF Sqn, SqnMod
  <2>4. k \in Skb /\ k.sqn = lead /\ k.state \in Live
    BY <2>3 DEF Placeholder, Skb, PktState, Live, Recovering
  <2>5. pd \in [Slot -> Skb]
    BY <2>3, <2>4
  <2>6. lead = Plus(w1.lead, 1) /\ pd = [w1.pdata EXCEPT ![Idx(lead)] = k]
    OBVIOUS
  <2> HIDE DEF lead, k, pd
  <2>7. /\ v \in Window /\ v.lead = lead /\ v.trail = w1.trail
        /\ v.commit_lead = w1.commit_lead /\ v.pdata = pd
    BY <2>1, <2>3, <2>5 DEF Window
  <2> HIDE DEF v
  <2> QED
    BY <2>1, <2>2, <2>4, <2>6, <2>7, ExtendInv
<1> QED
  BY <1>1, <1>2

\* _pgm_rxw_incoming_read_apdu keeps the invariant: the APDU it commits is
\* contiguous from commit_lead and within the window.
LEMMA ReadApduInv ==
    ASSUME SqnMod % Alloc = 0, NEW w, WInv(w)
    PROVE  WInv(ReadApdu(w))
<1> DEFINE n    == Peek(w, w.commit_lead).len
           apdu == {s \in Sqn : Minus(s, w.commit_lead) < n}
           pd   == [i \in Slot |-> IF \E s \in apdu : Idx(s) = i
                                   THEN [w.pdata[i] EXCEPT !.state = "COMMIT_DATA"]
                                   ELSE w.pdata[i]]
           fc   == w.fragment_count - n
           cc   == w.committed_count + n
           cm   == Plus(w.commit_lead, n)
           v    == [w EXCEPT !.pdata = pd, !.fragment_count = fc,
                             !.committed_count = cc, !.commit_lead = cm]
           bad  == \E s \in apdu : ~InWindow(w, s) \/ StateAt(w, s) # "HAVE_DATA"
<1>1. CASE bad
  BY <1>1, AbortInv DEF ReadApdu
<1>2. CASE ~bad
  <2>1. /\ w \in Window /\ w.lead \in Sqn /\ w.trail \in Sqn /\ w.commit_lead \in Sqn
        /\ Length(w) \in Nat /\ CommitLength(w) \in Nat /\ Alloc \in Nat /\ Alloc < SignBit
        /\ w.pdata \in [Slot -> Skb] /\ Length(w) <= Alloc /\ CommitLength(w) <= Length(w)
        /\ n \in Nat
    <3>1. Idx(w.commit_lead) \in Slot /\ w.pdata \in [Slot -> Skb]
      BY WInvFacts, IdxType
    <3>2. n \in Nat
      BY <3>1 DEF Peek, Skb
    <3> QED
      BY <3>2, WInvFacts, SqnArith, AllocAssumption, SignBitAssumption DEF Sqn, SqnMod
  <2>2. ReadApdu(w) = v
    BY <1>2, <2>1 DEF ReadApdu, Window
  \* the whole APDU is inside the window
  <2>3. CommitLength(w) + n <= Length(w)
    <3> SUFFICES ASSUME CommitLength(w) + n > Length(w) PROVE FALSE
      BY <2>1
    <3> DEFINE x == Plus(w.trail, Length(w))
    <3>1. x \in Sqn /\ x = NextLead(w)
      BY <2>1, SignBitAssumption DEF Length, NextLead, Plus, Minus, Sqn, SqnMod
    <3>2. Minus(x, w.commit_lead) = Length(w) - CommitLength(w)
      BY <2>1, <3>1, SignBitAssumption
      DEF Length, CommitLength, NextLead, Plus, Minus, Sqn, SqnMod
    <3>3. x \in apdu
      BY <2>1, <3>1, <3>2
    <3>4. ~InWindow(w, x)
      BY <2>1, <3>1, SignBitAssumption
      DEF InWindow, NextLead, Lte, Plus, Minus, Sqn, SqnMod
    <3> QED
      BY <1>2, <3>3, <3>4
  <2>4. \A s : s \in apdu <=> s \in Sqn /\ Minus(s, w.commit_lead) < n
    OBVIOUS
  <2>5. pd \in [Slot -> Skb]
    <3>1. \A k \in Skb : [k EXCEPT !.state = "COMMIT_DATA"] \in Skb
      BY DEF Skb, PktState
    <3> QED
      BY <2>1, <3>1
  <2>6. fc \in Int /\ cc \in Int /\ cm \in Sqn
    <3>1. n \in Sqn
      BY <2>1, <2>3, SignBitAssumption DEF Sqn, SqnMod
    <3> QED
      BY <2>1, <3>1, SqnArith DEF Window
  <2>7. \A s \in Sqn : pd[Idx(s)] = IF \E x \in apdu : Idx(x) = Idx(s)
                                    THEN [w.pdata[Idx(s)] EXCEPT !.state = "COMMIT_DATA"]
                                    ELSE w.pdata[Idx(s)]
    BY IdxType
  <2>8. cm = Plus(w.commit_lead, n)
    OBVIOUS
  <2> HIDE DEF n, apdu, pd, fc, cc, cm
  <2>9. /\ v \in Window /\ v.lead = w.lead /\ v.trail = w.trail
        /\ v.commit_lead = cm /\ v.pdata = pd
    BY <2>1, <2>5, <2>6 DEF Window
  <2> HIDE DEF v
  <2>10. Length(v) = Length(w) /\ CommitLength(v) = CommitLength(w) + n
    <3>1. Length(v) = Length(w)
      BY <2>9 DEF Length, NextLead
    <3>2. Minus(Plus(w.commit_lead, n), w.trail) = Minus(w.commit_lead, w.trail) + n
      BY <2>1, <2>3, SignBitAssumption DEF CommitLength, Plus, Minus, Sqn, SqnMod
    <3> QED
      BY <2>8, <2>9, <3>1, <3>2 DEF CommitLength
  <2>11. \A s \in Sqn : s \in apdu <=> /\ CommitLength(w) <= Minus(s, w.trail)
                                       /\ Minus(s, w.trail) < CommitLength(w) + n
    <3> SUFFICES ASSUME NEW s \in Sqn
                 PROVE  Minus(s, w.commit_lead) < n
                          <=> /\ CommitLength(w) <= Minus(s, w.trail)
                              /\ Minus(s, w.trail) < CommitLength(w) + n
      BY <2>4
    <3> QED
      BY <2>1, <2>3, SignBitAssumption DEF CommitLength, Plus, Minus, Sqn, SqnMod
  <2>12. ASSUME NEW s \in Sqn, Minus(s, v.trail) < Length(v)
         PROVE  SlotOK(v, s)
    <3>1. SlotOK(w, s) /\ Minus(s, w.trail) \in Nat
      BY <2>1, <2>9, <2>10, <2>12, SqnArith DEF WInv
    <3>2. \A x \in apdu : Idx(x) = Idx(s) => x = s
      <4> SUFFICES ASSUME NEW x \in apdu, Idx(x) = Idx(s) PROVE x = s
        OBVIOUS
      <4>1. x \in Sqn /\ Minus(x, w.trail) \in Nat
        BY <2>1, <2>4, SqnArith
      <4>2. Minus(x, w.trail) < Alloc /\ Minus(s, w.trail) < Alloc
        BY <2>1, <2>3, <2>9, <2>10, <2>11, <2>12, <3>1, <4>1
      <4> QED
        BY <2>1, <4>1, <4>2, IdxInjective
    <3>3. w.pdata[Idx(s)] \in Skb
      BY <2>1, IdxType
    <3>4. CASE s \in apdu
      <4>1. v.pdata[Idx(s)] = [w.pdata[Idx(s)] EXCEPT !.state = "COMMIT_DATA"]
        BY <2>7, <2>9, <3>4
      <4>2. Minus(s, v.trail) < CommitLength(v)
        BY <2>9, <2>10, <2>11, <3>4
      <4> QED
        BY <3>1, <3>3, <4>1, <4>2 DEF SlotOK, Peek, StateAt, Skb
    <3>5. CASE s \notin apdu
      <4>1. Peek(v, s) = Peek(w, s)
        BY <2>7, <2>9, <3>2, <3>5 DEF Peek
      <4>2. Minus(s, v.trail) < CommitLength(v) <=> Minus(s, w.trail) < CommitLength(w)
        BY <2>1, <2>9, <2>10, <2>11, <3>1, <3>5
      <4> QED
        BY <3>1, <4>1, <4>2 DEF SlotOK, StateAt
    <3> QED
      BY <3>4, <3>5
  <2> QED
    BY <2>1, <2>2, <2>3, <2>9, <2>10, <2>12 DEF WInv, SectionsOK
<1> QED
  BY <1>1, <1>2

-----------------------------------------------------------------------------
(***************************************************************************)
(* Beyond the ring: what the slots hold, what the counters count, and what *)
(* a function of rxw.c may do to committed data and to commit_lead.        *)
(*                                                                         *)
(* Sound adds to WInv that no skb is left outside the window, that data in *)
(* a slot is the data of a TPDU that arrived, and that the counters are    *)
(* right.  Safe(w, v) is what every function but the reads guarantees from *)
(* w to v; it is transitive, so that a function made of others is Safe     *)
(* because its parts are.                                                  *)
(***************************************************************************)

\* A slot whose skb is not released belongs to a sequence number of the window,
\* and a window that is not defined has none.
Tidy(w) ==
    /\ \A i \in Slot : w.pdata[i].state # "FREE"
          => \E s \in Sqn : Minus(s, w.trail) < Length(w) /\ Idx(s) = i
    /\ ~w.is_defined => IsEmpty(w)

Holding == {"HAVE_DATA", "COMMIT_DATA"}

\* The skb is a TPDU that can arrive and is not malformed.
Genuine(k) ==
    \E p \in Tpdus : /\ k.sqn = p.sqn /\ k.first = p.first /\ k.len = p.len
                     /\ ~Gt(p.first, p.sqn)

Contents(w) == \A i \in Slot : w.pdata[i].state \in Holding => Genuine(w.pdata[i])

\* number of slots in state st
Total(w, st) == Cardinality({i \in Slot : w.pdata[i].state = st})

Counts(w) == /\ w.fragment_count  = Total(w, "HAVE_DATA")
             /\ w.lost_count      = Total(w, "LOST_DATA")
             /\ w.committed_count = Total(w, "COMMIT_DATA")

Sound(w) == WInv(w) /\ Tidy(w) /\ Contents(w) /\ Counts(w)

\* commit_lead only moves together with an announcement of loss.
Announced(w, v) ==
    /\ v.is_defined = w.is_defined
    /\ w.cumulative_losses # 0 => v.cumulative_losses # 0
    /\ v.commit_lead # w.commit_lead => v.cumulative_losses # 0

\* Data handed to the application stays.
Kept(w, v) ==
    \A i \in Slot : w.pdata[i].state = "COMMIT_DATA" => v.pdata[i] = w.pdata[i]

Safe(w, v) == Sound(v) /\ Announced(w, v) /\ Kept(w, v)

\* Doing nothing is Safe.
LEMMA SafeRefl ==
    ASSUME NEW w, Sound(w)
    PROVE  Safe(w, w)
BY DEF Safe, Announced, Kept

\* Two Safe steps in a row are Safe.
LEMMA SafeTrans ==
    ASSUME NEW w, NEW u, NEW v, Safe(w, u), Safe(u, v)
    PROVE  Safe(w, v)
BY Zenon DEF Safe, Announced, Kept

\* The slots of a set of sequence numbers less than the window size from one edge
\* are as many as the numbers.
LEMMA SlotsOf ==
    ASSUME SqnMod % Alloc = 0, NEW t \in Sqn, NEW S \in SUBSET Sqn,
           \A s \in S : Minus(s, t) < Alloc
    PROVE  /\ IsFiniteSet(S)
           /\ Cardinality({i \in Slot : \E s \in S : Idx(s) = i}) = Cardinality(S)
<1> DEFINE T == {i \in Slot : \E s \in S : Idx(s) = i}
           f == [s \in S |-> Idx(s)]
<1>1. IsFiniteSet(S)
  <2>1. IsFiniteSet(Sqn)
    BY FS_Interval, SignBitAssumption DEF Sqn, SqnMod
  <2> QED
    BY <2>1, FS_Subset
<1>2. f \in [S -> T]
  BY IdxType
<1>3. \A a, b \in S : f[a] = f[b] => a = b
  <2> SUFFICES ASSUME NEW a \in S, NEW b \in S, Idx(a) = Idx(b) PROVE a = b
    OBVIOUS
  <2> QED
    BY IdxInjective
<1>4. \A i \in T : \E s \in S : f[s] = i
  OBVIOUS
<1> HIDE DEF f, T
<1>5. f \in Bijection(S, T)
  BY <1>2, <1>3, <1>4 DEF Bijection, Injection, Surjection, IsInjective
<1>6. ExistsBijection(S, T)
  BY <1>5 DEF ExistsBijection
<1> QED
  BY <1>1, <1>6, FS_Bijection DEF T

\* A total is a natural number.
LEMMA TotalType ==
    ASSUME NEW w, NEW st
    PROVE  IsFiniteSet({i \in Slot : w.pdata[i].state = st}) /\ Total(w, st) \in Nat
<1>1. IsFiniteSet(Slot)
  BY FS_Interval, AllocAssumption DEF Slot
<1> QED
  BY <1>1, FS_Subset, FS_CardinalityType DEF Total

\* The sequence numbers of S fit in one window.
Spread(S) == S \in SUBSET Sqn /\ \E t \in Sqn : \A s \in S : Minus(s, t) < Alloc

\* The slots of S, and no others, are put into one state.
Moved(w, v, S, to) ==
    \A i \in Slot : v.pdata[i].state = IF \E s \in S : Idx(s) = i
                                       THEN to ELSE w.pdata[i].state

\* Putting the slots of S into one state moves as many from state to state as the
\* counters of _pgm_rxw_state are moved by.
LEMMA MoveTotals ==
    ASSUME SqnMod % Alloc = 0, NEW w, NEW v, NEW S, Spread(S),
           NEW to, Moved(w, v, S, to), NEW st
    PROVE  /\ st = to => Total(v, st) = Total(w, st) - CountIn(w, S, st) + Cardinality(S)
           /\ st # to => Total(v, st) = Total(w, st) - CountIn(w, S, st)
<1>0. PICK t \in Sqn : S \in SUBSET Sqn /\ \A s \in S : Minus(s, t) < Alloc
  BY DEF Spread
<1> USE DEF Moved
<1> DEFINE A == {i \in Slot : w.pdata[i].state = st}
           B == {i \in Slot : v.pdata[i].state = st}
           G == {i \in Slot : \E s \in S : Idx(s) = i}
           C == {s \in S : StateAt(w, s) = st}
<1>1. IsFiniteSet(A) /\ IsFiniteSet(B)
  BY TotalType
<1>2. Cardinality(G) = Cardinality(S) /\ IsFiniteSet(G)
  <2>1. IsFiniteSet(Slot)
    BY FS_Interval, AllocAssumption DEF Slot
  <2> QED
    BY <1>0, <2>1, SlotsOf, FS_Subset
<1>3. Cardinality({i \in Slot : \E s \in C : Idx(s) = i}) = Cardinality(C)
  BY <1>0, SlotsOf
<1>4. A \cap G = {i \in Slot : \E s \in C : Idx(s) = i}
  BY DEF StateAt, Peek
<1>5. Cardinality(A \cap G) = CountIn(w, S, st)
  BY <1>3, <1>4 DEF CountIn
<1>6. /\ Cardinality(A \ G) = Cardinality(A) - Cardinality(A \cap G)
      /\ IsFiniteSet(A \ G)
  BY <1>1, FS_Difference
<1>7. CASE st # to
  <2>1. B = A \ G
    BY <1>7
  <2> QED
    BY <1>5, <1>6, <1>7, <2>1 DEF Total
<1>8. CASE st = to
  <2>1. B = (A \ G) \cup G
    BY <1>8
  <2>2. (A \ G) \cap G = {}
    OBVIOUS
  <2>3. Cardinality(B) = Cardinality(A \ G) + Cardinality(G) - 0
    <3> DEFINE D == A \ G
    <3> HIDE DEF A, B, C, G
    <3>0. IsFiniteSet(D) /\ IsFiniteSet(G)
      BY <1>2, <1>6
    <3> HIDE DEF D
    <3>1. Cardinality(D \cup G) = Cardinality(D) + Cardinality(G) - Cardinality(D \cap G)
      BY <3>0, FS_Union
    <3>2. Cardinality(D \cap G) = 0
      BY <2>2, FS_EmptySet DEF D
    <3> QED
      BY <2>1, <3>1, <3>2 DEF D
  <2>4. Cardinality(A) \in Nat /\ Cardinality(G) \in Nat /\ Cardinality(A \cap G) \in Nat
    <3>1. IsFiniteSet(A \cap G)
      BY <1>1, FS_Intersection
    <3> QED
      BY <1>1, <1>2, <3>1, FS_CardinalityType
  <2> QED
    BY <1>2, <1>5, <1>6, <1>8, <2>3, <2>4 DEF Total
<1> QED
  BY <1>7, <1>8

\* The totals after one slot is written.
LEMMA MoveOne ==
    ASSUME SqnMod % Alloc = 0, NEW w, NEW v, NEW s \in Sqn, NEW to,
           Moved(w, v, {s}, to), NEW st
    PROVE  Total(v, st) = Total(w, st) - (IF StateAt(w, s) = st THEN 1 ELSE 0)
                                       + (IF st = to THEN 1 ELSE 0)
<1>1. Minus(s, s) < Alloc
  BY AllocAssumption DEF Minus, Sqn
<1> DEFINE S == {s}
<1>2. Spread(S) /\ Moved(w, v, S, to)
  BY <1>1 DEF Spread, Moved
<1>3. Cardinality(S) = 1
  BY FS_Singleton
<1>4. /\ StateAt(w, s) = st => CountIn(w, S, st) = 1
      /\ StateAt(w, s) # st => CountIn(w, S, st) = 0
  <2>1. StateAt(w, s) = st => {x \in S : StateAt(w, x) = st} = S
    OBVIOUS
  <2>2. StateAt(w, s) # st => {x \in S : StateAt(w, x) = st} = {}
    OBVIOUS
  <2> QED
    BY <1>3, <2>1, <2>2, FS_EmptySet DEF CountIn
<1> HIDE DEF S
<1>5. /\ st = to => Total(v, st) = Total(w, st) - CountIn(w, S, st) + Cardinality(S)
      /\ st # to => Total(v, st) = Total(w, st) - CountIn(w, S, st)
  BY <1>2, MoveTotals
<1>6. Total(w, st) \in Nat
  BY TotalType
<1>7. CASE StateAt(w, s) = st
  BY <1>3, <1>4, <1>5, <1>6, <1>7
<1>8. CASE StateAt(w, s) # st
  BY <1>3, <1>4, <1>5, <1>6, <1>8
<1> QED
  BY <1>7, <1>8

\* An empty commit section means that no slot is committed.
LEMMA NoneCommitted ==
    ASSUME NEW w, Sound(w), CommitIsEmpty(w)
    PROVE  \A i \in Slot : w.pdata[i].state # "COMMIT_DATA"
<1> SUFFICES ASSUME NEW i \in Slot, w.pdata[i].state = "COMMIT_DATA" PROVE FALSE
  OBVIOUS
<1>1. PICK s \in Sqn : Minus(s, w.trail) < Length(w) /\ Idx(s) = i
  BY DEF Sound, Tidy
<1>2. SlotOK(w, s) /\ StateAt(w, s) = "COMMIT_DATA"
  BY <1>1 DEF Sound, WInv, StateAt, Peek
<1>3. Minus(s, w.trail) < CommitLength(w)
  BY <1>2 DEF SlotOK, Recovering
<1>4. Minus(s, w.trail) \in Nat
  BY WInvFacts, SqnArith DEF Sound
<1> QED
  BY <1>3, <1>4 DEF CommitIsEmpty

\* Losses are not forgotten by adding to them.
LEMMA LossesGrow ==
    ASSUME NEW w \in Window, NEW n \in Nat, w.cumulative_losses # 0 \/ n # 0
    PROVE  Losses(w, n) # 0
BY InputAssumption DEF Losses, Window

\* Fields that none of the parts of Sound reads do not matter.
LEMMA SameSound ==
    ASSUME NEW w, Sound(w), NEW v \in Window, v.lead = w.lead, v.trail = w.trail,
           v.commit_lead = w.commit_lead, v.pdata = w.pdata,
           v.is_defined = w.is_defined, v.fragment_count = w.fragment_count,
           v.lost_count = w.lost_count, v.committed_count = w.committed_count
    PROVE  /\ Sound(v)
           /\ v.cumulative_losses = w.cumulative_losses => Safe(w, v)
<1>1. WInv(v)
  BY SameStructure DEF Sound
<1>2. Tidy(v) /\ Contents(v)
  BY DEF Sound, Tidy, Contents, IsEmpty, Length, NextLead
<1>3. \A st : Total(v, st) = Total(w, st)
  BY DEF Total
<1>4. Counts(v)
  BY <1>3 DEF Sound, Counts
<1> QED
  BY <1>1, <1>2, <1>4 DEF Sound, Safe, Announced, Kept

\* A failed assertion changes nothing else.
LEMMA AbortSafe ==
    ASSUME NEW w, Sound(w),
           NEW where \in {"none", "lost", "insert", "confirm", "readv", "read_apdu"}
    PROVE  Safe(w, Abort(w, where))
<1> DEFINE v == Abort(w, where)
<1>1. w \in Window
  BY DEF Sound, WInv
<1>2. /\ v \in Window /\ v.lead = w.lead /\ v.trail = w.trail
      /\ v.commit_lead = w.commit_lead /\ v.pdata = w.pdata
      /\ v.is_defined = w.is_defined /\ v.fragment_count = w.fragment_count
      /\ v.lost_count = w.lost_count /\ v.committed_count = w.committed_count
      /\ v.cumulative_losses = w.cumulative_losses
  BY <1>1 DEF Abort, Window
<1> HIDE DEF v
<1> QED
  BY <1>2, SameSound DEF v

\* _pgm_rxw_remove_trail takes the skbs it drops off their counters and leaves no
\* skb behind; it touches committed data only when it is called within it.
LEMMA RemoveTrailSound ==
    ASSUME SqnMod % Alloc = 0, NEW w, Sound(w), NEW n \in Nat, n <= Length(w),
           CommitIsEmpty(w) \/ n <= CommitLength(w)
    PROVE  /\ Sound(RemoveTrail(w, n))
           /\ Announced(w, RemoveTrail(w, n))
           /\ CommitIsEmpty(w) \/ n = 0 => Kept(w, RemoveTrail(w, n))
           /\ CommitIsEmpty(w) /\ n # 0 => RemoveTrail(w, n).cumulative_losses # 0
           /\ CommitIsEmpty(w) \/ n = 0
                \/ RemoveTrail(w, n).commit_lead = w.commit_lead
<1> DEFINE v    == RemoveTrail(w, n)
           gone == {s \in Sqn : Minus(s, w.trail) < n}
<1>1. /\ w \in Window /\ w.lead \in Sqn /\ w.trail \in Sqn /\ w.commit_lead \in Sqn
      /\ Length(w) \in Sqn /\ n \in Sqn /\ CommitLength(w) \in Sqn
      /\ w.pdata \in [Slot -> Skb] /\ Length(w) <= Alloc /\ CommitLength(w) <= Length(w)
  <2>1. n \in Sqn
    BY WInvFacts, SignBitAssumption DEF Sqn, SqnMod, Sound
  <2> QED
    BY <2>1, WInvFacts DEF Sound
<1>2. /\ v.trail = Plus(w.trail, n) /\ v.lead = w.lead
      /\ v.is_defined = w.is_defined
      /\ v.commit_lead = IF CommitIsEmpty(w) THEN Plus(w.commit_lead, n) ELSE w.commit_lead
      /\ v.cumulative_losses = IF CommitIsEmpty(w) THEN Losses(w, n) ELSE w.cumulative_losses
      /\ v.pdata = [i \in Slot |-> IF \E s \in gone : Idx(s) = i THEN Free ELSE w.pdata[i]]
      /\ v.fragment_count  = w.fragment_count - CountIn(w, gone, "HAVE_DATA")
      /\ v.lost_count      = w.lost_count - CountIn(w, gone, "LOST_DATA")
      /\ v.committed_count = w.committed_count - CountIn(w, gone, "COMMIT_DATA")
  BY <1>1 DEF RemoveTrail, Window
<1>3. /\ WInv(v) /\ Length(v) = Length(w) - n
  BY RemoveTrailInv DEF Sound
<1>4. \A s : s \in gone <=> s \in Sqn /\ Minus(s, w.trail) < n
  OBVIOUS
<1> HIDE DEF v, gone
<1>5. \A i \in Slot : v.pdata[i] = IF \E s \in gone : Idx(s) = i THEN Free ELSE w.pdata[i]
  BY <1>2
<1>6. \A s \in gone : s \in Sqn /\ Minus(s, w.trail) < Alloc
  <2> SUFFICES ASSUME NEW s \in gone PROVE s \in Sqn /\ Minus(s, w.trail) < Alloc
    OBVIOUS
  <2>1. s \in Sqn /\ Minus(s, w.trail) < n /\ Minus(s, w.trail) \in Nat
    BY <1>1, <1>4, SqnArith
  <2> QED
    BY <1>1, <2>1, AllocAssumption DEF Sqn
<1>7. Tidy(v)
  <2>1. ASSUME NEW i \in Slot, v.pdata[i].state # "FREE"
        PROVE  \E s \in Sqn : Minus(s, v.trail) < Length(v) /\ Idx(s) = i
    <3>1. ~ \E s \in gone : Idx(s) = i
      BY <1>5, <2>1 DEF Free
    <3>2. PICK s \in Sqn : Minus(s, w.trail) < Length(w) /\ Idx(s) = i
      BY <1>5, <2>1, <3>1 DEF Sound, Tidy
    <3>3. ~(Minus(s, w.trail) < n)
      BY <1>4, <3>1, <3>2
    <3>4. Minus(s, v.trail) < Length(v)
      BY <1>1, <1>2, <1>3, <3>2, <3>3, SignBitAssumption DEF Plus, Minus, Sqn, SqnMod
    <3> QED
      BY <3>2, <3>4
  <2>2. IsEmpty(w) => IsEmpty(v)
    BY <1>1, <1>3 DEF IsEmpty, Sqn
  <2> QED
    BY <1>2, <2>1, <2>2 DEF Tidy, Sound
<1>8. Contents(v)
  BY <1>5 DEF Contents, Sound, Free, Holding
<1>9. Counts(v)
  <2>1. Moved(w, v, gone, "FREE")
    BY <1>5 DEF Free, Moved
  <2>2. Spread(gone)
    BY <1>1, <1>6 DEF Spread
  <2>4. /\ Total(v, "HAVE_DATA") = Total(w, "HAVE_DATA") - CountIn(w, gone, "HAVE_DATA")
        /\ Total(v, "LOST_DATA") = Total(w, "LOST_DATA") - CountIn(w, gone, "LOST_DATA")
        /\ Total(v, "COMMIT_DATA") = Total(w, "COMMIT_DATA") - CountIn(w, gone, "COMMIT_DATA")
    BY <2>1, <2>2, MoveTotals
  <2> QED
    BY <1>2, <2>4 DEF Counts, Sound
<1>10. CommitIsEmpty(w) /\ n # 0 => v.cumulative_losses # 0
  BY <1>1, <1>2, LossesGrow
<1>11. n = 0 => v.commit_lead = w.commit_lead
  BY <1>1, <1>2, SignBitAssumption DEF Plus, Sqn, SqnMod
<1>12. Announced(w, v)
  BY <1>1, <1>2, <1>10, <1>11, LossesGrow DEF Announced
<1>13. CommitIsEmpty(w) => Kept(w, v)
  BY NoneCommitted DEF Kept
<1>14. n = 0 => Kept(w, v)
  <2> SUFFICES ASSUME n = 0 PROVE gone = {}
    BY <1>5 DEF Kept
  <2>1. \A s \in Sqn : Minus(s, w.trail) \in Nat
    BY <1>1, SqnArith
  <2> QED
    BY <1>4, <2>1
<1> QED
  BY <1>2, <1>3, <1>7, <1>8, <1>9, <1>10, <1>11, <1>12, <1>13, <1>14 DEF Sound, v

\* Setting has_event is Safe.
LEMMA EventSafe ==
    ASSUME NEW w, Sound(w)
    PROVE  Safe(w, [w EXCEPT !.has_event = TRUE])
<1> DEFINE v == [w EXCEPT !.has_event = TRUE]
<1>1. w \in Window
  BY DEF Sound, WInv
<1>2. /\ v \in Window /\ v.lead = w.lead /\ v.trail = w.trail
      /\ v.commit_lead = w.commit_lead /\ v.pdata = w.pdata
      /\ v.is_defined = w.is_defined /\ v.fragment_count = w.fragment_count
      /\ v.lost_count = w.lost_count /\ v.committed_count = w.committed_count
      /\ v.cumulative_losses = w.cumulative_losses
  BY <1>1 DEF Window
<1> HIDE DEF v
<1> QED
  BY <1>2, SameSound DEF v

\* No sequence number of S counts for a state that none of them is in.
LEMMA CountNone ==
    ASSUME NEW w, NEW S, NEW st, \A s \in S : StateAt(w, s) # st
    PROVE  CountIn(w, S, st) = 0
<1>1. {s \in S : StateAt(w, s) = st} = {}
  OBVIOUS
<1> QED
  BY <1>1, FS_EmptySet DEF CountIn

\* Giving up sequence numbers that are recovering or held is Safe.
LEMMA MarkLostSafe ==
    ASSUME SqnMod % Alloc = 0, NEW w, Sound(w), NEW S, Spread(S),
           \A s \in S : StateAt(w, s) \in Recovering \cup {"HAVE_DATA"}
    PROVE  /\ Safe(w, MarkLost(w, S))
           /\ MarkLost(w, S).abort = w.abort
<1> DEFINE v == MarkLost(w, S)
<1>1. w \in Window /\ S \in SUBSET Sqn /\ w.pdata \in [Slot -> Skb]
  BY WInvFacts DEF Sound, Spread
<1>2. /\ v.is_defined = w.is_defined /\ v.abort = w.abort
      /\ v.cumulative_losses = Losses(w, Cardinality(S))
      /\ v.pdata = [i \in Slot |-> IF \E s \in S : Idx(s) = i
                                   THEN [w.pdata[i] EXCEPT !.state = "LOST_DATA"]
                                   ELSE w.pdata[i]]
      /\ v.fragment_count  = w.fragment_count - CountIn(w, S, "HAVE_DATA")
      /\ v.lost_count      = w.lost_count + Cardinality(S)
      /\ v.committed_count = w.committed_count
  BY <1>1 DEF MarkLost, Window
<1>3. /\ WInv(v) /\ v.lead = w.lead /\ v.trail = w.trail /\ v.commit_lead = w.commit_lead
  <2>1. \A s \in S : StateAt(w, s) # "COMMIT_DATA"
    BY DEF Recovering
  <2> QED
    BY <1>1, <2>1, MarkLostInv DEF Sound
<1> HIDE DEF v
<1>4. \A i \in Slot : v.pdata[i] = IF \E s \in S : Idx(s) = i
                                   THEN [w.pdata[i] EXCEPT !.state = "LOST_DATA"]
                                   ELSE w.pdata[i]
  BY <1>2
<1>5. \A i \in Slot : (\E s \in S : Idx(s) = i)
                         => w.pdata[i].state \in Recovering \cup {"HAVE_DATA"}
  BY DEF StateAt, Peek
<1>6. Moved(w, v, S, "LOST_DATA")
  <2>1. \A k \in Skb : [k EXCEPT !.state = "LOST_DATA"].state = "LOST_DATA"
    BY DEF Skb
  <2>2. \A i \in Slot : w.pdata[i] \in Skb
    BY <1>1
  <2> QED
    BY <1>4, <2>1, <2>2 DEF Moved
<1>7. Tidy(v)
  <2>1. \A i \in Slot : v.pdata[i].state # "FREE" => w.pdata[i].state # "FREE"
    BY <1>4, <1>5 DEF Recovering
  <2> QED
    BY <1>2, <1>3, <2>1 DEF Sound, Tidy, IsEmpty, Length, NextLead
<1>8. Contents(v)
  <2>1. \A i \in Slot : v.pdata[i].state \in Holding => v.pdata[i] = w.pdata[i]
    BY <1>4, <1>6 DEF Moved, Holding
  <2> QED
    BY <2>1 DEF Sound, Contents
<1>9. Counts(v)
  <2>1. CountIn(w, S, "LOST_DATA") = 0 /\ CountIn(w, S, "COMMIT_DATA") = 0
    BY CountNone DEF Recovering
  <2>2. /\ Total(v, "HAVE_DATA") = Total(w, "HAVE_DATA") - CountIn(w, S, "HAVE_DATA")
        /\ Total(v, "LOST_DATA") = Total(w, "LOST_DATA") - CountIn(w, S, "LOST_DATA")
                                     + Cardinality(S)
        /\ Total(v, "COMMIT_DATA") = Total(w, "COMMIT_DATA") - CountIn(w, S, "COMMIT_DATA")
    BY <1>6, MoveTotals
  <2>3. /\ Total(w, "LOST_DATA") \in Nat /\ Total(w, "COMMIT_DATA") \in Nat
    BY TotalType
  <2> QED
    BY <1>2, <2>1, <2>2, <2>3 DEF Counts, Sound
<1>10. Announced(w, v)
  BY <1>1, <1>2, <1>3, CountType, LossesGrow DEF Announced
<1>11. Kept(w, v)
  BY <1>4, <1>5 DEF Kept, Recovering
<1> QED
  BY <1>2, <1>3, <1>7, <1>8, <1>9, <1>10, <1>11 DEF Safe, Sound, v

\* pgm_rxw_lost is Safe; all it can fail is its own assertion.
LEMMA LostSafe ==
    ASSUME SqnMod % Alloc = 0, NEW w, Sound(w), NEW s \in Sqn
    PROVE  Safe(w, Lost(w, s)) /\ Lost(w, s).abort \in {w.abort, "lost"}
<1>1. CASE StateAt(w, s) \in Recovering \cup {"HAVE_DATA"}
  <2>1. Minus(s, s) < Alloc
    BY AllocAssumption DEF Minus, Sqn
  <2>2. Spread({s})
    BY <2>1 DEF Spread
  <2> QED
    BY <1>1, <2>2, MarkLostSafe DEF Lost
<1>2. CASE StateAt(w, s) \notin Recovering \cup {"HAVE_DATA"}
  <2>1. Abort(w, "lost").abort = "lost"
    BY DEF Abort, Sound, WInv, Window
  <2> QED
    BY <1>2, <2>1, AbortSafe DEF Lost
<1> QED
  BY <1>1, <1>2

\* _pgm_rxw_define on a window that is not defined yet.
LEMMA DefineSound ==
    ASSUME NEW w, Sound(w), ~w.is_defined, NEW lead \in Sqn
    PROVE  LET v == Define(w, lead) IN
           /\ Sound(v) /\ Kept(w, v) /\ v.is_defined /\ v.abort = w.abort
           /\ v.trail = Plus(lead, 1) /\ v.commit_lead = Plus(lead, 1) /\ v.lead = lead
<1> DEFINE v == Define(w, lead)
           next == Plus(lead, 1)
<1>1. w \in Window /\ IsEmpty(w) /\ w.trail \in Sqn
  BY WInvFacts DEF Sound, Tidy
<1>2. /\ v.pdata = w.pdata /\ v.is_defined /\ v.abort = w.abort
      /\ v.fragment_count = w.fragment_count
      /\ v.lost_count = w.lost_count /\ v.committed_count = w.committed_count
      /\ v.trail = next /\ v.commit_lead = next /\ v.lead = lead
  <2> HIDE DEF next
  <2> QED
    BY <1>1 DEF Define, Window, next
<1>3. WInv(v)
  BY DefineInv DEF Sound
<1> HIDE DEF v
<1>4. Tidy(v)
  <2>1. \A i \in Slot : w.pdata[i].state = "FREE"
    <3> SUFFICES ASSUME NEW i \in Slot, w.pdata[i].state # "FREE" PROVE FALSE
      OBVIOUS
    <3>1. PICK s \in Sqn : Minus(s, w.trail) < Length(w)
      BY DEF Sound, Tidy
    <3>2. Minus(s, w.trail) \in Nat
      BY <1>1, SqnArith
    <3> QED
      BY <1>1, <3>1, <3>2 DEF IsEmpty
  <2> QED
    BY <1>2, <2>1 DEF Tidy
<1>5. Contents(v) /\ Kept(w, v)
  BY <1>2 DEF Sound, Contents, Kept
<1>6. Counts(v)
  <2>1. \A st : Total(v, st) = Total(w, st)
    BY <1>2 DEF Total
  <2> QED
    BY <1>2, <2>1 DEF Sound, Counts
<1> QED
  BY <1>2, <1>3, <1>4, <1>5, <1>6 DEF Sound, v

\* _pgm_rxw_update_trail is Safe: a jump over an empty window is counted as a loss.
LEMMA UpdateTrailSafe ==
    ASSUME SqnMod % Alloc = 0, NEW w, Sound(w), NEW t \in Sqn
    PROVE  Safe(w, UpdateTrail(w, t)) /\ UpdateTrail(w, t).abort = w.abort
<1> DEFINE moved == [w EXCEPT !.is_constrained = FALSE, !.rxw_trail = t]
           dist  == Minus(t, w.trail)
           S     == {s \in Incoming(w) : Gt(t, s) /\ StateAt(w, s) \in Recovering}
           jump  == [moved EXCEPT !.trail = t, !.commit_lead = t,
                                  !.lead = Plus(@, dist),
                                  !.cumulative_losses = Losses(w, dist)]
<1>1. /\ w \in Window /\ w.lead \in Sqn /\ w.trail \in Sqn /\ w.commit_lead \in Sqn
      /\ Length(w) \in Sqn /\ CommitLength(w) \in Sqn
      /\ w.pdata \in [Slot -> Skb] /\ Length(w) <= Alloc /\ CommitLength(w) <= Length(w)
  BY WInvFacts DEF Sound
<1>2. /\ moved \in Window /\ moved.lead = w.lead /\ moved.trail = w.trail
      /\ moved.commit_lead = w.commit_lead /\ moved.pdata = w.pdata
      /\ moved.is_defined = w.is_defined /\ moved.fragment_count = w.fragment_count
      /\ moved.lost_count = w.lost_count /\ moved.committed_count = w.committed_count
      /\ moved.cumulative_losses = w.cumulative_losses /\ moved.abort = w.abort
  BY <1>1 DEF Window
<1>3. Safe(w, moved)
  <2> HIDE DEF moved
  <2> QED
    BY <1>2, SameSound
<1>4. CASE IsEmpty(w) /\ ~Lte(t, w.trail)
  <2> DEFINE v == UpdateTrail(w, t)
  <2>1. WInv(v)
    BY UpdateTrailInv DEF Sound
  <2>2. CASE v = w
    BY <2>2, SafeRefl
  <2>3. CASE v # w
    <3>1. v = jump
      BY <1>4, <2>3 DEF UpdateTrail
    <3>2. /\ jump.pdata = w.pdata /\ jump.is_defined = w.is_defined
          /\ jump.fragment_count = w.fragment_count /\ jump.abort = w.abort
          /\ jump.lost_count = w.lost_count /\ jump.committed_count = w.committed_count
          /\ jump.cumulative_losses = Losses(w, dist)
      BY <1>1 DEF Window
    <3>3. dist \in Nat /\ dist # 0
      BY <1>1, <1>4, SignBitAssumption DEF Lte, Minus, Sqn, SqnMod
    <3> HIDE DEF jump, moved, dist, v
    <3>4. v.cumulative_losses # 0
      BY <1>1, <3>1, <3>2, <3>3, LossesGrow
    <3>5. \A i \in Slot : w.pdata[i].state = "FREE"
      <4> SUFFICES ASSUME NEW i \in Slot, w.pdata[i].state # "FREE" PROVE FALSE
        OBVIOUS
      <4>1. PICK s \in Sqn : Minus(s, w.trail) < Length(w)
        BY DEF Sound, Tidy
      <4>2. Minus(s, w.trail) \in Nat
        BY <1>1, SqnArith
      <4> QED
        BY <1>4, <4>1, <4>2 DEF IsEmpty
    <3>6. IsEmpty(v)
      <4>1. v.trail = w.trail \/ IsEmpty(v)
        BY UpdateTrailKeeps DEF v, Sound
      <4>2. v.trail = t
        BY <1>1, <3>1 DEF jump, moved, Window
      <4>3. t # w.trail
        BY <1>4 DEF Lte
      <4> QED
        BY <4>1, <4>2, <4>3
    <3>7. Tidy(v) /\ Contents(v) /\ Kept(w, v)
      BY <3>1, <3>2, <3>5, <3>6 DEF Tidy, Contents, Kept, Holding
    <3>8. Counts(v)
      <4>1. \A st : Total(v, st) = Total(w, st)
        BY <3>1, <3>2 DEF Total
      <4> QED
        BY <3>1, <3>2, <4>1 DEF Sound, Counts
    <3> QED
      BY <2>1, <3>1, <3>2, <3>4, <3>7, <3>8 DEF Safe, Sound, Announced, v
  <2> QED
    BY <2>2, <2>3
<1>5. CASE ~IsEmpty(w) \/ Lte(t, w.trail)
  <2>1. Sound(moved)
    BY <1>3 DEF Safe
  <2>2. \A s \in S : StateAt(moved, s) \in Recovering \cup {"HAVE_DATA"}
    BY <1>2 DEF StateAt, Peek
  <2>3. Spread(S)
    <3>1. \A s \in Incoming(w) : Minus(s, w.commit_lead) < Alloc
      <4> SUFFICES ASSUME NEW s \in Incoming(w) PROVE Minus(s, w.commit_lead) < Alloc
        OBVIOUS
      <4>1. /\ s \in Sqn /\ Minus(s, w.commit_lead) < IncomingLength(w)
            /\ Minus(s, w.commit_lead) \in Nat
        BY <1>1, SqnArith DEF Incoming
      <4>2. IncomingLength(w) = Length(w) - CommitLength(w)
        BY <1>1, AllocAssumption, SignBitAssumption
        DEF IncomingLength, Length, CommitLength, NextLead, Plus, Minus, Sqn, SqnMod
      <4> QED
        BY <1>1, <4>1, <4>2, AllocAssumption DEF Sqn
    <3>2. Incoming(w) \in SUBSET Sqn
      BY DEF Incoming
    <3> QED
      BY <1>1, <3>1, <3>2 DEF Spread
  <2>4. Safe(moved, MarkLost(moved, S)) /\ MarkLost(moved, S).abort = moved.abort
    BY <2>1, <2>2, <2>3, MarkLostSafe
  <2> HIDE DEF S, moved
  <2>5. Safe(w, MarkLost(moved, S))
    BY <1>3, <2>4, SafeTrans
  <2> QED
    BY <1>2, <1>3, <1>5, <2>4, <2>5, SafeRefl DEF UpdateTrail, S, moved
<1> QED
  BY <1>4, <1>5

\* One skb is replaced by k, and counted.
Written(w, v, s, k) ==
    /\ v.pdata = [w.pdata EXCEPT ![Idx(s)] = k]
    /\ v.fragment_count = w.fragment_count
                            - (IF StateAt(w, s) = "HAVE_DATA" THEN 1 ELSE 0)
                            + (IF k.state = "HAVE_DATA" THEN 1 ELSE 0)
    /\ v.lost_count = w.lost_count - (IF StateAt(w, s) = "LOST_DATA" THEN 1 ELSE 0)
                                   + (IF k.state = "LOST_DATA" THEN 1 ELSE 0)
    /\ v.committed_count = w.committed_count

\* Writing one slot of the window that is not committed is Safe.
LEMMA WriteSafe ==
    ASSUME SqnMod % Alloc = 0, NEW w, Sound(w), NEW s \in Sqn, NEW k, NEW v, WInv(v),
           Written(w, v, s, k), k.state \in Live, k.state = "HAVE_DATA" => Genuine(k),
           StateAt(w, s) # "COMMIT_DATA",
           v.trail = w.trail, v.commit_lead = w.commit_lead, v.is_defined = w.is_defined,
           Length(w) <= Length(v), w.is_defined \/ Length(v) = Length(w),
           \E x \in Sqn : Minus(x, v.trail) < Length(v) /\ Idx(x) = Idx(s),
           w.cumulative_losses # 0 => v.cumulative_losses # 0
    PROVE  Safe(w, v)
<1>1. w.pdata \in [Slot -> Skb] /\ Idx(s) \in Slot /\ w.trail \in Sqn
      /\ Length(w) \in Sqn /\ Length(v) \in Sqn
  BY WInvFacts, IdxType DEF Sound
<1>2. \A i \in Slot : v.pdata[i] = IF Idx(s) = i THEN k ELSE w.pdata[i]
  BY <1>1 DEF Written
<1>3. Tidy(v)
  <2>1. ASSUME NEW i \in Slot, v.pdata[i].state # "FREE"
        PROVE  \E x \in Sqn : Minus(x, v.trail) < Length(v) /\ Idx(x) = i
    <3>1. CASE Idx(s) = i
      BY <3>1
    <3>2. CASE Idx(s) # i
      <4>1. PICK x \in Sqn : Minus(x, w.trail) < Length(w) /\ Idx(x) = i
        BY <1>2, <2>1, <3>2 DEF Sound, Tidy
      <4>2. Minus(x, w.trail) \in Nat
        BY <1>1, SqnArith
      <4>3. Minus(x, v.trail) < Length(v)
        BY <1>1, <4>1, <4>2 DEF Sqn
      <4> QED
        BY <4>1, <4>3
    <3> QED
      BY <3>1, <3>2
  <2>2. ~v.is_defined => IsEmpty(v)
    BY DEF Sound, Tidy, IsEmpty
  <2> QED
    BY <2>1, <2>2 DEF Tidy
<1>4. Contents(v)
  <2> SUFFICES ASSUME NEW i \in Slot, v.pdata[i].state \in Holding
               PROVE  Genuine(v.pdata[i])
    BY DEF Contents
  <2>1. CASE Idx(s) = i
    BY <1>2, <2>1 DEF Holding, Live, Recovering
  <2>2. CASE Idx(s) # i
    BY <1>2, <2>2 DEF Sound, Contents
  <2> QED
    BY <2>1, <2>2
<1>5. Counts(v)
  <2>1. Moved(w, v, {s}, k.state)
    BY <1>2 DEF Moved
  <2>2. ASSUME NEW st
        PROVE  Total(v, st) = Total(w, st) - (IF StateAt(w, s) = st THEN 1 ELSE 0)
                                           + (IF st = k.state THEN 1 ELSE 0)
    BY <2>1, MoveOne
  <2>3. /\ Total(w, "HAVE_DATA") \in Nat /\ Total(w, "LOST_DATA") \in Nat
        /\ Total(w, "COMMIT_DATA") \in Nat
    BY TotalType
  <2>4. Total(v, "COMMIT_DATA") = Total(w, "COMMIT_DATA")
    BY <2>2, <2>3 DEF Live, Recovering
  <2>5. Total(v, "HAVE_DATA") = w.fragment_count
                            - (IF StateAt(w, s) = "HAVE_DATA" THEN 1 ELSE 0)
                            + (IF k.state = "HAVE_DATA" THEN 1 ELSE 0)
    BY <2>2 DEF Sound, Counts
  <2>6. Total(v, "LOST_DATA") = w.lost_count
                            - (IF StateAt(w, s) = "LOST_DATA" THEN 1 ELSE 0)
                            + (IF k.state = "LOST_DATA" THEN 1 ELSE 0)
    BY <2>2 DEF Sound, Counts
  <2> QED
    BY <2>4, <2>5, <2>6 DEF Sound, Counts, Written
<1>6. Kept(w, v)
  BY <1>2 DEF Kept, StateAt, Peek
<1> QED
  BY <1>3, <1>4, <1>5, <1>6 DEF Safe, Sound, Announced

\* The slots that follow the window are released.
LEMMA FreeBeyond ==
    ASSUME SqnMod % Alloc = 0, NEW w, Sound(w), NEW s \in Sqn,
           Length(w) <= Minus(s, w.trail), Minus(s, w.trail) < Alloc
    PROVE  StateAt(w, s) = "FREE"
<1> SUFFICES ASSUME StateAt(w, s) # "FREE" PROVE FALSE
  OBVIOUS
<1>1. w.trail \in Sqn /\ Length(w) \in Sqn /\ Length(w) <= Alloc
  BY WInvFacts DEF Sound
<1>2. PICK x \in Sqn : Minus(x, w.trail) < Length(w) /\ Idx(x) = Idx(s)
  BY IdxType DEF Sound, Tidy, StateAt, Peek
<1>3. Minus(x, w.trail) \in Nat /\ Minus(s, w.trail) \in Nat
  BY <1>1, SqnArith
<1>4. x = s
  BY <1>1, <1>2, <1>3, IdxInjective, AllocAssumption DEF Sqn
<1> QED
  BY <1>1, <1>2, <1>3, <1>4 DEF Sqn

\* Adding placeholders is Safe: their slots are released ones, and the trail only
\* moves over sequence numbers that nobody holds, which is counted as a loss.
LEMMA AddPlaceholdersSafe ==
    ASSUME SqnMod % Alloc = 0, NEW w, Sound(w), NEW n \in Nat, n < SignBit,
           NEW keep \in {Alloc, Alloc - 1}, w.is_defined,
           CommitIsEmpty(w) \/ Length(w) + n <= keep
    PROVE  /\ Safe(w, AddPlaceholders(w, n, keep))
           /\ AddPlaceholders(w, n, keep).abort = w.abort
<1> DEFINE v     == AddPlaceholders(w, n, keep)
           len   == Length(w)
           drop  == IF len + n > keep THEN len + n - keep ELSE 0
           old   == IF drop < len THEN drop ELSE len
           w1    == RemoveTrail(w, old)
           lead1 == Plus(w.lead, n)
           tr    == Plus(w.trail, drop)
           new   == {s \in Sqn : Minus(lead1, s) < n /\ Minus(lead1, s) < keep}
           pd    == [i \in Slot |-> IF \E s \in new : Idx(s) = i
                        THEN Placeholder(CHOOSE s \in new : Idx(s) = i, "BACK_OFF")
                        ELSE w1.pdata[i]]
           cm    == IF CommitIsEmpty(w) THEN tr ELSE w1.commit_lead
           cl    == IF CommitIsEmpty(w) THEN Losses(w, drop) ELSE w1.cumulative_losses
<1>1. /\ w \in Window /\ w.lead \in Sqn /\ w.trail \in Sqn /\ w.commit_lead \in Sqn
      /\ len \in Sqn /\ CommitLength(w) \in Sqn /\ CommitLength(w) <= len /\ len <= Alloc
  BY WInvFacts DEF Sound
<1>2. /\ drop \in Nat /\ drop \in Sqn /\ n \in Sqn /\ old \in Nat /\ old <= len
      /\ (CommitIsEmpty(w) \/ drop = 0) /\ keep \in Nat /\ keep <= Alloc
      /\ old = 0 => drop = 0 \/ len = 0
  BY <1>1, SignBitAssumption, AllocAssumption DEF Sqn, SqnMod
<1>3. CommitIsEmpty(w) \/ old = 0
  BY <1>2
<1>4. /\ Sound(w1) /\ Announced(w, w1) /\ Kept(w, w1)
      /\ WInv(w1) /\ w1.trail = Plus(w.trail, old) /\ Length(w1) = len - old
      /\ w1.abort = w.abort /\ w1 \in Window
      /\ CommitIsEmpty(w) \/ w1.commit_lead = w.commit_lead
  <2>1. CommitIsEmpty(w) \/ old <= CommitLength(w)
    BY <1>1, <1>2 DEF Sqn
  <2>2. Sound(w1) /\ Announced(w, w1) /\ Kept(w, w1)
    BY <1>2, <1>3, <2>1, RemoveTrailSound
  <2>3. w1.trail = Plus(w.trail, old) /\ Length(w1) = len - old
    BY <1>2, <2>1, RemoveTrailInv DEF Sound
  <2>4. w1.abort = w.abort /\ (CommitIsEmpty(w) \/ w1.commit_lead = w.commit_lead)
    BY <1>1 DEF RemoveTrail, Window
  <2> HIDE DEF w1
  <2> QED
    BY <2>2, <2>3, <2>4 DEF Sound, WInv
<1>5. /\ WInv(v) /\ v.lead = lead1 /\ Length(v) <= keep
  BY <1>2, AddPlaceholdersInv DEF Sound
<1>6. /\ v.pdata = pd /\ v.trail = tr /\ v.commit_lead = cm /\ v.cumulative_losses = cl
      /\ v.is_defined = w1.is_defined /\ v.abort = w1.abort
      /\ v.fragment_count = w1.fragment_count
      /\ v.lost_count = w1.lost_count /\ v.committed_count = w1.committed_count
  <2>1. w1 \in Window
    BY <1>4
  <2> QED
    BY <2>1 DEF AddPlaceholders, Window
<1>7. /\ \A s : s \in new <=> (s \in Sqn /\ Minus(lead1, s) < n /\ Minus(lead1, s) < keep)
      /\ \A i \in Slot : pd[i] = IF \E s \in new : Idx(s) = i
                        THEN Placeholder(CHOOSE s \in new : Idx(s) = i, "BACK_OFF")
                        ELSE w1.pdata[i]
      /\ cm = IF CommitIsEmpty(w) THEN tr ELSE w1.commit_lead
      /\ cl = IF CommitIsEmpty(w) THEN Losses(w, drop) ELSE w1.cumulative_losses
  OBVIOUS
<1>8. /\ drop = IF len + n > keep THEN len + n - keep ELSE 0
      /\ old = IF drop < len THEN drop ELSE len
      /\ len = Length(w) /\ lead1 = Plus(w.lead, n) /\ tr = Plus(w.trail, drop)
  OBVIOUS
<1> HIDE DEF v, len, drop, old, w1, lead1, tr, new, pd, cm, cl
<1>9. lead1 \in Sqn /\ tr \in Sqn
  BY <1>1, <1>2, <1>8, SqnArith
<1>10. Length(v) = Minus(Plus(lead1, 1), tr) /\ Length(v) \in Sqn
  BY <1>5, <1>6, WInvFacts DEF Length, NextLead
<1>11. Length(v) = len + n - drop
  <2> DEFINE a == Plus(w.lead, 1)
  <2>1. a \in Sqn /\ Minus(a, w.trail) = len
    BY <1>1, <1>8, PlusOne, SignBitAssumption DEF Length, NextLead, Sqn, SqnMod
  <2>2. Plus(lead1, 1) = Plus(a, n)
    BY <1>1, <1>2, <1>8, PlusOne
  <2> HIDE DEF a
  <2>3. 0 <= len + n - drop /\ len + n - drop < SqnMod
    BY <1>1, <1>2, <1>8, SignBitAssumption, AllocAssumption DEF Sqn, SqnMod
  <2>4. Minus(Plus(a, n), Plus(w.trail, drop)) = Minus(a, w.trail) + n - drop
    <3>1. 0 <= Minus(a, w.trail) + n - drop /\ Minus(a, w.trail) + n - drop < SqnMod
      BY <2>1, <2>3
    <3>2. w.trail \in Sqn /\ n \in Sqn /\ drop \in Sqn /\ a \in Sqn
      BY <1>1, <1>2, <2>1
    <3> QED
      BY <3>1, <3>2, SignBitAssumption DEF Sqn, SqnMod, Plus, Minus
  <2> QED
    BY <1>8, <1>10, <2>1, <2>2, <2>4
\* a new placeholder is in the window, beyond what is left of the old one
<1>12. \A s \in new : /\ s \in Sqn /\ Minus(s, tr) \in Nat /\ Minus(s, tr) < Length(v)
                      /\ Minus(s, tr) < Alloc
                      /\ Minus(s, tr) >= len - drop
  <2> SUFFICES ASSUME NEW s \in new
               PROVE  /\ s \in Sqn /\ Minus(s, tr) \in Nat /\ Minus(s, tr) < Length(v)
                      /\ Minus(s, tr) < Alloc
                      /\ Minus(s, tr) >= len - drop
    OBVIOUS
  <2>1. /\ s \in Sqn /\ Minus(lead1, s) < n /\ Minus(lead1, s) < keep
        /\ Minus(lead1, s) \in Nat /\ Minus(s, tr) \in Nat
    BY <1>7, <1>9, SqnArith
  <2>2. Minus(lead1, s) < Length(v) /\ Length(v) <= Alloc
    BY <1>1, <1>2, <1>5, <1>8, <1>11, <2>1, AllocAssumption DEF Sqn
  <2> DEFINE L == Length(v)
  <2>3. L = Minus(Plus(lead1, 1), tr) /\ L <= Alloc /\ Minus(lead1, s) < L
    BY <1>10, <2>2
  <2>4. L = len + n - drop
    BY <1>11
  <2> HIDE DEF L
  <2>5. Minus(s, tr) = L - 1 - Minus(lead1, s)
    BY <1>9, <2>1, <2>3, SignBitAssumption, AllocAssumption DEF Plus, Minus, Sqn, SqnMod
  <2>6. L \in Nat /\ len \in Nat /\ drop \in Nat /\ Alloc \in Nat
    BY <1>1, <1>2, <1>10, AllocAssumption DEF Sqn, L
  <2>7. Minus(s, tr) < L /\ Minus(s, tr) < Alloc /\ Minus(s, tr) >= len - drop
    BY <2>1, <2>3, <2>4, <2>5, <2>6, <1>2
  <2> QED
    BY <2>1, <2>7 DEF L
<1>13. \A s \in new : StateAt(w1, s) = "FREE"
  <2> SUFFICES ASSUME NEW s \in new PROVE StateAt(w1, s) = "FREE"
    OBVIOUS
  <2>1. CASE drop < len
    <3>1. old = drop /\ w1.trail = tr /\ Length(w1) = len - drop
      BY <1>4, <1>8, <2>1
    <3> QED
      BY <1>4, <1>12, <3>1, FreeBeyond
  <2>2. CASE ~(drop < len)
    <3>1. Length(w1) = 0
      BY <1>1, <1>4, <1>8, <2>2 DEF Sqn
    <3>2. w1.trail \in Sqn
      BY <1>4, WInvFacts
    <3>3. \A x \in Sqn : ~(Minus(x, w1.trail) < Length(w1))
      BY <3>1, <3>2, SqnArith
    <3> QED
      BY <1>4, <1>12, <3>3, IdxType DEF Sound, Tidy, StateAt, Peek
  <2> QED
    BY <2>1, <2>2
<1>14. \A i \in Slot : v.pdata[i] = IF \E s \in new : Idx(s) = i
                        THEN Placeholder(CHOOSE s \in new : Idx(s) = i, "BACK_OFF")
                        ELSE w1.pdata[i]
  BY <1>6, <1>7
<1>15. Moved(w1, v, new, "BACK_OFF")
  <2>1. \A x : Placeholder(x, "BACK_OFF").state = "BACK_OFF"
    BY DEF Placeholder
  <2> QED
    BY <1>14, <2>1 DEF Moved
<1>16. Tidy(v)
  <2>1. ASSUME NEW i \in Slot, v.pdata[i].state # "FREE"
        PROVE  \E s \in Sqn : Minus(s, v.trail) < Length(v) /\ Idx(s) = i
    <3>1. CASE \E s \in new : Idx(s) = i
      BY <1>6, <1>12, <3>1
    <3>2. CASE ~ \E s \in new : Idx(s) = i
      <4>1. PICK s \in Sqn : Minus(s, w1.trail) < Length(w1) /\ Idx(s) = i
        BY <1>4, <1>14, <2>1, <3>2 DEF Sound, Tidy
      <4>2. Minus(s, w1.trail) \in Nat
        BY <1>4, WInvFacts, SqnArith
      <4>3. old = drop /\ w1.trail = tr /\ Length(w1) = len - drop
        BY <1>1, <1>2, <1>4, <1>8, <4>1, <4>2 DEF Sqn
      <4>4. Minus(s, tr) < Length(v)
        BY <1>1, <1>2, <1>11, <4>1, <4>2, <4>3 DEF Sqn
      <4> QED
        BY <1>6, <4>1, <4>4
    <3> QED
      BY <3>1, <3>2
  <2>2. v.is_defined
    BY <1>4, <1>6 DEF Announced
  <2> QED
    BY <2>1, <2>2 DEF Tidy
<1>17. Contents(v)
  <2>1. \A i \in Slot : v.pdata[i].state \in Holding => v.pdata[i] = w1.pdata[i]
    BY <1>14, <1>15 DEF Moved, Holding
  <2> QED
    BY <1>4, <2>1 DEF Contents, Sound
<1>18. Counts(v)
  <2>1. Spread(new)
    BY <1>9, <1>12 DEF Spread
  <2>2. /\ CountIn(w1, new, "HAVE_DATA") = 0 /\ CountIn(w1, new, "LOST_DATA") = 0
        /\ CountIn(w1, new, "COMMIT_DATA") = 0
    BY <1>13, CountNone
  <2>3. /\ Total(v, "HAVE_DATA") = Total(w1, "HAVE_DATA") - CountIn(w1, new, "HAVE_DATA")
        /\ Total(v, "LOST_DATA") = Total(w1, "LOST_DATA") - CountIn(w1, new, "LOST_DATA")
        /\ Total(v, "COMMIT_DATA") = Total(w1, "COMMIT_DATA") - CountIn(w1, new, "COMMIT_DATA")
    BY <1>15, <2>1, MoveTotals
  <2>4. /\ Total(w1, "HAVE_DATA") \in Nat /\ Total(w1, "LOST_DATA") \in Nat
        /\ Total(w1, "COMMIT_DATA") \in Nat
    BY TotalType
  <2> QED
    BY <1>4, <1>6, <2>2, <2>3, <2>4 DEF Counts, Sound
<1>19. Announced(w, v)
  <2>1. v.commit_lead # w.commit_lead => v.cumulative_losses # 0
    <3> SUFFICES ASSUME v.commit_lead # w.commit_lead PROVE v.cumulative_losses # 0
      OBVIOUS
    <3>1. CommitIsEmpty(w)
      BY <1>4, <1>6, <1>7
    <3>2. w.commit_lead = w.trail
      BY <1>1, <3>1, SignBitAssumption DEF CommitIsEmpty, CommitLength, Minus, Sqn, SqnMod
    <3>3. Plus(w.trail, 0) = w.trail
      BY <1>1, SignBitAssumption DEF Plus, Sqn, SqnMod
    <3>4. drop # 0
      BY <1>6, <1>7, <1>8, <3>1, <3>2, <3>3
    <3> QED
      BY <1>1, <1>2, <1>6, <1>7, <3>1, <3>4, LossesGrow
  <2>2. w.cumulative_losses # 0 => v.cumulative_losses # 0
    BY <1>1, <1>2, <1>4, <1>6, <1>7, LossesGrow DEF Announced
  <2> QED
    BY <1>4, <1>6, <2>1, <2>2 DEF Announced
<1>20. Kept(w, v)
  <2>1. \A i \in Slot : w1.pdata[i].state = "COMMIT_DATA" => v.pdata[i] = w1.pdata[i]
    BY <1>12, <1>13, <1>14 DEF StateAt, Peek
  <2> QED
    BY <1>4, <2>1 DEF Kept
<1> QED
  BY <1>4, <1>5, <1>6, <1>16, <1>17, <1>18, <1>19, <1>20 DEF Safe, Sound, v

\* _pgm_rxw_update_lead is Safe.
LEMMA UpdateLeadSafe ==
    ASSUME SqnMod % Alloc = 0, NEW w, Sound(w), w.is_defined, NEW t \in Sqn
    PROVE  Safe(w, UpdateLead(w, t)) /\ UpdateLead(w, t).abort = w.abort
<1>1. CASE Lte(t, w.lead)
  BY <1>1, SafeRefl DEF UpdateLead
<1>2. CASE ~Lte(t, w.lead)
  BY <1>2, UpdateLeadStep, AddPlaceholdersSafe DEF Sound
<1> QED
  BY <1>1, <1>2

\* _pgm_rxw_add_placeholder_range is Safe.
LEMMA AddPlaceholderRangeSafe ==
    ASSUME SqnMod % Alloc = 0, NEW w, Sound(w), w.is_defined, NEW s \in Sqn,
           ~Lte(s, w.lead)
    PROVE  LET v == AddPlaceholderRange(w, s).window IN
           Safe(w, v) /\ v.abort = w.abort
<1>1. CASE AddPlaceholderRange(w, s) = Result(UpdateLead(w, s), "BOUNDS")
  BY <1>1, UpdateLeadSafe DEF Result
<1>2. ASSUME NEW n \in Nat, n < SignBit,
             CommitIsEmpty(w) \/ Length(w) + n <= Alloc - 1,
             AddPlaceholderRange(w, s)
               = Result(AddPlaceholders(w, n, Alloc - 1), "APPENDED")
      PROVE  LET v == AddPlaceholderRange(w, s).window IN
             Safe(w, v) /\ v.abort = w.abort
  BY <1>2, AddPlaceholdersSafe DEF Result
<1> QED
  BY <1>1, <1>2, AddPlaceholderRangeStep DEF Sound

\* Purging one sequence number of a full window without committed data is Safe.
LEMMA MakeRoomSafe ==
    ASSUME SqnMod % Alloc = 0, NEW w, Sound(w), ~IsFull(w) \/ CommitIsEmpty(w)
    PROVE  LET w1 == IF IsFull(w) THEN RemoveTrail(w, 1) ELSE w IN
           Safe(w, w1) /\ w1.abort = w.abort
<1>1. CASE IsFull(w)
  <2>1. 1 <= Length(w) /\ CommitIsEmpty(w)
    BY <1>1, AllocAssumption DEF IsFull
  <2>2. Safe(w, RemoveTrail(w, 1))
    BY <2>1, RemoveTrailSound DEF Safe
  <2>3. RemoveTrail(w, 1).abort = w.abort
    BY DEF RemoveTrail, Sound, WInv, Window
  <2> QED
    BY <1>1, <2>2, <2>3
<1>2. CASE ~IsFull(w)
  BY <1>2, SafeRefl
<1> QED
  BY <1>1, <1>2

\* A TPDU that passes the check for malformed fragments.
Wellformed(p) == p \in Tpdus /\ ~(p.len > 1 /\ Gt(p.first, p.sqn))

\* The skb of a TPDU that passes is genuine.
LEMMA DataGenuine ==
    ASSUME NEW p, Wellformed(p)
    PROVE  /\ p \in Tpdu /\ Data(p) \in Skb /\ Data(p).sqn = p.sqn
           /\ Data(p).state = "HAVE_DATA" /\ Genuine(Data(p))
<1>1. p \in Tpdu /\ p.sqn \in Sqn /\ p.first \in Sqn /\ p.len \in Nat \ {0}
  BY InputAssumption DEF Wellformed, Tpdu
<1>2. ~Gt(p.first, p.sqn)
  <2>1. CASE p.len = 1
    <3>1. p.first = p.sqn
      BY <2>1, InputAssumption DEF Wellformed
    <3> QED
      BY <1>1, <3>1, SignBitAssumption DEF Gt, Minus, Sqn, SqnMod
  <2>2. CASE p.len # 1
    BY <1>1, <2>2 DEF Wellformed
  <2> QED
    BY <2>1, <2>2
<1> QED
  BY <1>1, <1>2 DEF Data, Genuine, Skb, PktState, Wellformed

\* _pgm_rxw_append is Safe.
LEMMA AppendSafe ==
    ASSUME SqnMod % Alloc = 0, NEW w, Sound(w), w.is_defined, NEW p, Wellformed(p),
           NextLead(w) = p.sqn
    PROVE  LET v == AppendTpdu(w, p).window IN Safe(w, v) /\ v.abort = w.abort
<1> DEFINE w1 == IF IsFull(w) THEN RemoveTrail(w, 1) ELSE w
           w2 == [w1 EXCEPT !.lead = Plus(@, 1)]
           v  == AppendTpdu(w, p).window
           k  == IF IsApduLost(w2, p) THEN Placeholder(p.sqn, "LOST_DATA") ELSE Data(p)
<1>0. p \in Tpdu /\ p.sqn \in Sqn
  BY DataGenuine DEF Tpdu
<1>1. WInv(v)
  BY <1>0, AppendInv DEF Sound
<1>2. CASE IsFull(w) /\ ~CommitIsEmpty(w)
  BY <1>2, SafeRefl DEF AppendTpdu, Result
<1>3. CASE ~(IsFull(w) /\ ~CommitIsEmpty(w))
  <2>1. Safe(w, w1) /\ w1.abort = w.abort
    BY <1>3, MakeRoomSafe
  <2>2. /\ WInv(w1) /\ w1 \in Window /\ w1.lead = w.lead /\ Length(w1) < Alloc
        /\ Length(w1) \in Sqn /\ w1.trail \in Sqn /\ w1.lead \in Sqn
        /\ w1.pdata \in [Slot -> Skb]
    <3>1. WInv(w1) /\ w1 \in Window /\ w1.lead = w.lead /\ Length(w1) < Alloc
      BY <1>3, MakeRoomInv DEF Sound
    <3> QED
      BY <3>1, WInvFacts
  <2>3. /\ v.pdata = [w1.pdata EXCEPT ![Idx(p.sqn)] = k]
        /\ v.lead = Plus(w1.lead, 1) /\ v.trail = w1.trail
        /\ v.commit_lead = w1.commit_lead /\ v.is_defined = w1.is_defined
        /\ v.abort = w1.abort
        /\ v.committed_count = w1.committed_count
        /\ v.fragment_count = IF IsApduLost(w2, p) THEN w1.fragment_count
                                                   ELSE w1.fragment_count + 1
        /\ v.lost_count = IF IsApduLost(w2, p) THEN w1.lost_count + 1
                                               ELSE w1.lost_count
        /\ v.cumulative_losses = IF IsApduLost(w2, p) THEN Losses(w1, 1)
                                                      ELSE w1.cumulative_losses
    <3>1. v = IF IsApduLost(w2, p)
          THEN [w2 EXCEPT
                        !.pdata = [@ EXCEPT ![Idx(p.sqn)] =
                                      Placeholder(p.sqn, "LOST_DATA")],
                        !.lost_count = @ + 1,
                        !.cumulative_losses = Losses(w2, 1),
                        !.has_event = TRUE]
          ELSE Store(w2, p)
      BY <1>3 DEF AppendTpdu, Result
    <3>2. w1 \in Window
      BY <2>2
    <3>3. Losses(w2, 1) = Losses(w1, 1)
      BY <3>2 DEF Losses, Window
    <3> HIDE DEF v, w1
    <3>4. /\ w2.pdata = w1.pdata /\ w2.lead = Plus(w1.lead, 1) /\ w2.trail = w1.trail
          /\ w2.commit_lead = w1.commit_lead /\ w2.is_defined = w1.is_defined
          /\ w2.abort = w1.abort /\ w2.committed_count = w1.committed_count
          /\ w2.fragment_count = w1.fragment_count /\ w2.lost_count = w1.lost_count
          /\ w2.cumulative_losses = w1.cumulative_losses /\ w2 \in Window
      BY <2>2, <3>2, PlusOne, SignBitAssumption DEF Window, Sqn, SqnMod
    <3> HIDE DEF w2
    <3>5. CASE IsApduLost(w2, p)
      BY <3>1, <3>3, <3>4, <3>5 DEF Window
    <3>6. CASE ~IsApduLost(w2, p)
      BY <3>1, <3>4, <3>6 DEF Window, Store
    <3> QED
      BY <3>5, <3>6
  <2>4. /\ k.state = IF IsApduLost(w2, p) THEN "LOST_DATA" ELSE "HAVE_DATA"
        /\ k.state = "HAVE_DATA" => Genuine(k)
    BY DataGenuine DEF Placeholder
  <2> HIDE DEF v, w1, w2, k
  <2>5. Sound(w1)
    BY <2>1 DEF Safe
  <2>6. p.sqn = Plus(w1.lead, 1) /\ Minus(p.sqn, w1.trail) = Length(w1)
    BY <2>2 DEF NextLead, Length
  <2>7. StateAt(w1, p.sqn) = "FREE"
    BY <1>0, <2>2, <2>5, <2>6, FreeBeyond DEF Sqn
  <2>8. Written(w1, v, p.sqn, k)
    <3>1. w1.fragment_count \in Int /\ w1.lost_count \in Int
      BY <2>2 DEF Window
    <3>2. CASE IsApduLost(w2, p)
      BY <2>3, <2>4, <2>7, <3>1, <3>2 DEF Written
    <3>3. CASE ~IsApduLost(w2, p)
      BY <2>3, <2>4, <2>7, <3>1, <3>3 DEF Written
    <3> QED
      BY <3>2, <3>3
  <2>9. Length(v) = Length(w1) + 1
    BY <2>2, <2>3, AllocAssumption, SignBitAssumption
    DEF Length, NextLead, Plus, Minus, Sqn, SqnMod
  <2>10. w1.cumulative_losses # 0 => v.cumulative_losses # 0
    BY <2>2, <2>3, LossesGrow
  <2>11. Length(w1) <= Length(v) /\ Minus(p.sqn, v.trail) < Length(v)
    BY <2>2, <2>3, <2>6, <2>9 DEF Sqn
  <2>12. w1.is_defined /\ StateAt(w1, p.sqn) # "COMMIT_DATA" /\ k.state \in Live
    BY <2>1, <2>4, <2>7 DEF Safe, Announced, Live
  <2>13. Safe(w1, v)
    BY <1>0, <1>1, <2>3, <2>4, <2>5, <2>8, <2>10, <2>11, <2>12, WriteSafe
  <2>14. Safe(w, v)
    BY <2>1, <2>13, SafeTrans
  <2> QED
    BY <2>1, <2>3, <2>14 DEF v
<1> QED
  BY <1>2, <1>3

\* A sequence number from commit_lead to lead in serial order is one of the incoming
\* section, unless it is half the sequence space from lead.
LEMMA IncomingInWindow ==
    ASSUME NEW w, WInv(w), NEW s \in Sqn, ~Lt(s, w.commit_lead), Lte(s, w.lead),
           Minus(s, w.lead) # SignBit
    PROVE  /\ InWindow(w, s) /\ InSection(w, s)
           /\ StateAt(w, s) \in Live
<1>1. /\ w.lead \in Sqn /\ w.trail \in Sqn /\ w.commit_lead \in Sqn
      /\ Length(w) \in Sqn /\ CommitLength(w) \in Sqn
      /\ Length(w) <= Alloc /\ CommitLength(w) <= Length(w)
  BY WInvFacts
<1>2. InWindow(w, s) /\ InSection(w, s)
  BY <1>1, AllocAssumption, SignBitAssumption
  DEF InWindow, InSection, IsEmpty, Length, CommitLength, NextLead, Lt, Gte, Lte,
      Plus, Minus, Sqn, SqnMod
<1>3. Minus(s, w.trail) \in Nat /\ CommitLength(w) \in Nat
  BY <1>1, SqnArith
<1>4. SlotOK(w, s)
  BY <1>2 DEF WInv, InSection
<1>5. ~(Minus(s, w.trail) < CommitLength(w))
  BY <1>2, <1>3 DEF InSection
<1> QED
  BY <1>2, <1>4, <1>5 DEF SlotOK, Live

\* _pgm_rxw_insert is Safe, and its own assertions hold for an incoming sequence
\* number that is not half the sequence space from lead.
LEMMA InsertSafe ==
    ASSUME SqnMod % Alloc = 0, NEW w, Sound(w), NEW p, Wellformed(p),
           IsEmpty(w) \/ Minus(p.sqn, w.trail) # SignBit
    PROVE  LET v == Insert(w, p).window IN
           /\ Safe(w, v)
           /\ /\ ~Lt(p.sqn, w.commit_lead) /\ Lte(p.sqn, w.lead)
              /\ Minus(p.sqn, w.lead) # SignBit
              => v.abort \in {w.abort, "lost"}
<1> DEFINE v  == Insert(w, p).window
           st == StateAt(w, p.sqn)
<1>0. p \in Tpdu /\ p.sqn \in Sqn /\ WInv(w)
  BY DataGenuine DEF Tpdu, Sound
<1>1. CASE ~InWindow(w, p.sqn)
  BY <1>0, <1>1, AbortSafe, IncomingInWindow DEF Insert, Result
<1>2. CASE InWindow(w, p.sqn) /\ st = "HAVE_DATA"
  BY <1>2, SafeRefl DEF Insert, Result
<1>3. CASE InWindow(w, p.sqn) /\ st # "HAVE_DATA" /\ IsApduLost(w, p)
  <2>1. v = Lost(w, p.sqn)
    BY <1>3 DEF Insert, Result
  <2> QED
    BY <1>0, <2>1, LostSafe
<1>4. CASE /\ InWindow(w, p.sqn) /\ st # "HAVE_DATA" /\ ~IsApduLost(w, p)
           /\ st \in Recovering \cup {"LOST_DATA"}
  <2>1. w \in Window /\ w.pdata \in [Slot -> Skb]
    BY <1>0, WInvFacts
  <2>2. v = [Store(w, p) EXCEPT
               !.lost_count = IF st = "LOST_DATA" THEN @ - 1 ELSE @]
    BY <1>4 DEF Insert, Result
  <2>3. /\ v.pdata = [w.pdata EXCEPT ![Idx(p.sqn)] = Data(p)]
        /\ v.lead = w.lead /\ v.trail = w.trail /\ v.commit_lead = w.commit_lead
        /\ v.is_defined = w.is_defined /\ v.abort = w.abort
        /\ v.committed_count = w.committed_count
        /\ v.fragment_count = w.fragment_count + 1
        /\ v.lost_count = IF st = "LOST_DATA" THEN w.lost_count - 1 ELSE w.lost_count
        /\ v.cumulative_losses = w.cumulative_losses
    BY <2>1, <2>2 DEF Store, Window
  <2>4. WInv(v)
    BY <1>0, InsertInv
  <2> HIDE DEF v
  <2>5. Written(w, v, p.sqn, Data(p))
    <3>1. w.fragment_count \in Int /\ w.lost_count \in Int
      BY <2>1 DEF Window
    <3> QED
      BY <1>4, <2>3, <3>1, DataGenuine DEF Written, Recovering
  <2>6. Length(v) = Length(w) /\ Length(w) \in Int
    BY <1>0, <2>3, WInvFacts DEF Length, NextLead, Sqn
  <2>7. \E x \in Sqn : Minus(x, v.trail) < Length(v) /\ Idx(x) = Idx(p.sqn)
    <3>1. w.pdata[Idx(p.sqn)].state # "FREE" /\ Idx(p.sqn) \in Slot
      BY <1>0, <1>4, IdxType DEF StateAt, Peek, Recovering
    <3> QED
      BY <2>3, <2>6, <3>1 DEF Sound, Tidy
  <2>8. /\ Data(p).state \in Live /\ StateAt(w, p.sqn) # "COMMIT_DATA"
        /\ Length(w) <= Length(v)
    BY <1>4, <2>6, DataGenuine DEF Live, Recovering
  <2>9. Safe(w, v)
    BY <1>0, <2>3, <2>4, <2>5, <2>6, <2>7, <2>8, DataGenuine, WriteSafe
  <2> QED
    BY <2>3, <2>9 DEF v
<1>5. CASE /\ InWindow(w, p.sqn) /\ st # "HAVE_DATA" /\ ~IsApduLost(w, p)
           /\ st \notin Recovering \cup {"LOST_DATA"}
  <2>1. v = Abort(w, "insert")
    BY <1>5 DEF Insert, Result
  <2> QED
    BY <1>0, <1>5, <2>1, AbortSafe, IncomingInWindow DEF Live
<1> QED
  BY <1>1, <1>2, <1>3, <1>4, <1>5

\* What an arrival does: a Safe step of a defined window, nothing, or the first
\* packet defines the window.
Arrival(w, v) ==
    \/ Safe(w, v) /\ (w.is_defined \/ v = w)
    \/ ~w.is_defined /\ v.is_defined /\ Sound(v) /\ Kept(w, v)

\* _pgm_rxw_update_trail moves lead only to just before the new trail.
LEMMA UpdateTrailLead ==
    ASSUME NEW w, WInv(w), NEW t \in Sqn
    PROVE  UpdateTrail(w, t).lead \in {w.lead, Minus(t, 1)}
<1>1. w \in Window /\ w.lead \in Sqn /\ w.trail \in Sqn
  BY WInvFacts
<1>2. CASE UpdateTrail(w, t).lead = w.lead
  BY <1>2
<1>3. CASE UpdateTrail(w, t).lead # w.lead
  <2>1. IsEmpty(w) /\ UpdateTrail(w, t).lead = Plus(w.lead, Minus(t, w.trail))
    BY <1>1, <1>3 DEF UpdateTrail, MarkLost, Window
  <2>2. Minus(Plus(w.lead, 1), w.trail) = 0
    BY <2>1 DEF IsEmpty, Length, NextLead
  <2>3. w.trail = Plus(w.lead, 1)
    BY <1>1, <2>2, SignBitAssumption DEF Plus, Minus, Sqn, SqnMod
  <2>4. Plus(w.lead, Minus(t, w.trail)) = Minus(t, 1)
    BY <1>1, <2>3, SignBitAssumption DEF Plus, Minus, Sqn, SqnMod
  <2> QED
    BY <2>1, <2>4
<1> QED
  BY <1>2, <1>3

\* pgm_rxw_add: an arrival that fails no assertion but pgm_rxw_lost's, for a packet
\* that is not exactly half the sequence space from either edge.
LEMMA AddSafe ==
    ASSUME SqnMod % Alloc = 0, NEW w, Sound(w), NEW p \in Tpdus, NEW t \in Sqn,
           w.is_defined => Minus(p.sqn, w.trail) # SignBit
    PROVE  LET v == Add(w, p, t).window IN
           /\ Arrival(w, v)
           /\ (w.is_defined => Minus(p.sqn, w.lead) # SignBit)
                 => v.abort \in {w.abort, "lost"}
<1> DEFINE u     == IF w.is_defined THEN UpdateTrail(w, t) ELSE Define(w, Minus(p.sqn, 1))
           event == [u EXCEPT !.has_event = TRUE]
           range == AddPlaceholderRange(u, p.sqn)
           added == AppendTpdu(range.window, p)
           v     == Add(w, p, t).window
           near  == Minus(p.sqn, u.lead) # SignBit
<1>1. p.sqn \in Sqn /\ Minus(p.sqn, 1) \in Sqn /\ w \in Window /\ WInv(w) /\ w.lead \in Sqn
  BY InputAssumption, WInvFacts, SignBitAssumption DEF Minus, Sqn, SqnMod, Sound, WInv
<1>2. CASE \/ Minus(p.sqn, t) >= FarJump
           \/ p.len > 1 /\ Gt(p.first, p.sqn)
  BY <1>2, SafeRefl DEF Add, Result, Arrival
<1>3. CASE ~(Minus(p.sqn, t) >= FarJump) /\ ~(p.len > 1 /\ Gt(p.first, p.sqn))
  <2>1. /\ Sound(u) /\ u.is_defined /\ u.abort = w.abort
        /\ w.is_defined => Safe(w, u)
        /\ ~w.is_defined => Kept(w, u)
        /\ IsEmpty(u) \/ Minus(p.sqn, u.trail) # SignBit
        /\ (w.is_defined => Minus(p.sqn, w.lead) # SignBit) => near
    <3>1. CASE w.is_defined
      <4>1. Safe(w, u) /\ u.abort = w.abort
        BY <3>1, UpdateTrailSafe
      <4>2. IsEmpty(u) \/ Minus(p.sqn, u.trail) # SignBit
        BY <1>1, <3>1, UpdateTrailKeeps
      <4>3. Minus(p.sqn, w.lead) # SignBit => near
        <5>1. u.lead \in {w.lead, Minus(t, 1)}
          BY <1>1, <3>1, UpdateTrailLead
        <5>2. Minus(p.sqn, Minus(t, 1)) # SignBit
          BY <1>1, <1>3, SignBitAssumption DEF FarJump, Minus, Sqn, SqnMod
        <5> QED
          BY <5>1, <5>2
      <4> QED
        BY <3>1, <4>1, <4>2, <4>3 DEF Safe, Announced
    <3>2. CASE ~w.is_defined
      <4>1. /\ Sound(u) /\ Kept(w, u) /\ u.is_defined /\ u.abort = w.abort
            /\ u.lead = Minus(p.sqn, 1)
        BY <1>1, <3>2, DefineSound
      <4>2. IsEmpty(u)
        BY <1>1, <3>2, DefineInv
      <4>3. near
        BY <1>1, <4>1, SignBitAssumption DEF Minus, Sqn, SqnMod
      <4> QED
        BY <3>2, <4>1, <4>2, <4>3
    <3> QED
      BY <3>1, <3>2
  <2>2. Wellformed(p)
    BY <1>3 DEF Wellformed
  <2>3. Add(w, p, t) =
          IF Lt(p.sqn, u.commit_lead)
          THEN Result(u, IF Gte(p.sqn, u.trail) THEN "DUPLICATE" ELSE "BOUNDS")
          ELSE IF Lte(p.sqn, u.lead) THEN Insert(event, p)
          ELSE IF p.sqn = NextLead(u) THEN AppendTpdu(event, p)
          ELSE IF range.status # "APPENDED" THEN range
          ELSE IF added.status = "APPENDED" THEN Result(added.window, "MISSING")
          ELSE added
    BY <1>3 DEF Add
  <2> HIDE DEF u, near
  <2>4. /\ Safe(u, event) /\ Sound(event) /\ event.is_defined
        /\ event.abort = u.abort /\ event.lead = u.lead /\ event.trail = u.trail
        /\ event.commit_lead = u.commit_lead
    <3>1. u \in Window
      BY <2>1 DEF Sound, WInv
    <3>2. event.abort = u.abort /\ event.lead = u.lead /\ event.trail = u.trail
          /\ event.commit_lead = u.commit_lead
      BY <3>1 DEF Window
    <3>3. Safe(u, event)
      BY <2>1, EventSafe
    <3> HIDE DEF event
    <3> QED
      BY <2>1, <3>2, <3>3 DEF Safe, Announced
  \* each branch is Safe from u
  <2>5. /\ Safe(u, v)
        /\ near => v.abort \in {u.abort, "lost"}
    <3>1. CASE Lt(p.sqn, u.commit_lead)
      BY <2>1, <2>3, <3>1, SafeRefl DEF Result
    <3>2. CASE ~Lt(p.sqn, u.commit_lead) /\ Lte(p.sqn, u.lead)
      <4>1. IsEmpty(event) \/ Minus(p.sqn, event.trail) # SignBit
        BY <2>1, <2>4 DEF IsEmpty, Length, NextLead
      <4>2. v = Insert(event, p).window
        BY <2>3, <3>2
      <4> HIDE DEF event, v
      <4>3. /\ Safe(event, v)
            /\ near => v.abort \in {event.abort, "lost"}
        BY <2>2, <2>4, <3>2, <4>1, <4>2, InsertSafe DEF near
      <4> QED
        BY <2>4, <4>3, SafeTrans
    <3>3. CASE /\ ~Lt(p.sqn, u.commit_lead) /\ ~Lte(p.sqn, u.lead)
               /\ p.sqn = NextLead(u)
      <4>1. v = AppendTpdu(event, p).window
        BY <2>3, <3>3
      <4>2. NextLead(event) = p.sqn
        BY <2>4, <3>3 DEF NextLead
      <4> HIDE DEF event, v
      <4>3. Safe(event, v) /\ v.abort = event.abort
        BY <2>2, <2>4, <4>1, <4>2, AppendSafe
      <4> QED
        BY <2>4, <4>3, SafeTrans
    <3>4. CASE /\ ~Lt(p.sqn, u.commit_lead) /\ ~Lte(p.sqn, u.lead)
               /\ p.sqn # NextLead(u)
      <4>1. Safe(u, range.window) /\ range.window.abort = u.abort
        BY <1>1, <2>1, <3>4, AddPlaceholderRangeSafe
      <4>2. range.status = "APPENDED" => NextLead(range.window) = p.sqn
        BY <1>1, <2>1, <3>4, AddPlaceholderRangeInv DEF Sound
      <4>3. v = IF range.status # "APPENDED" THEN range.window ELSE added.window
        BY <2>3, <3>4 DEF Result
      <4> HIDE DEF range, v
      <4>4. Sound(range.window) /\ range.window.is_defined
        BY <2>1, <4>1 DEF Safe, Announced
      <4>5. range.status = "APPENDED"
              => Safe(range.window, added.window) /\ added.window.abort = range.window.abort
        BY <2>2, <4>2, <4>4, AppendSafe
      <4> HIDE DEF added
      <4>6. range.status = "APPENDED" => Safe(u, added.window)
        BY <4>1, <4>5, SafeTrans
      <4> QED
        BY <4>1, <4>3, <4>5, <4>6
    <3> QED
      BY <3>1, <3>2, <3>3, <3>4
  <2> HIDE DEF v
  <2>6. Arrival(w, v)
    <3>1. CASE w.is_defined
      BY <2>1, <2>5, <3>1, SafeTrans DEF Arrival
    <3>2. CASE ~w.is_defined
      BY <2>1, <2>5, <3>2 DEF Arrival, Safe, Announced, Kept
    <3> QED
      BY <3>1, <3>2
  <2> QED
    BY <2>1, <2>5, <2>6 DEF v
<1> QED
  BY <1>2, <1>3

\* pgm_rxw_update: an arrival that fails no assertion.
LEMMA UpdateSafe ==
    ASSUME SqnMod % Alloc = 0, NEW w, Sound(w), NEW lead \in Sqn, NEW trail \in Sqn
    PROVE  Arrival(w, Update(w, lead, trail)) /\ Update(w, lead, trail).abort = w.abort
<1>1. CASE w.is_defined
  <2>1. Safe(w, UpdateTrail(w, trail)) /\ UpdateTrail(w, trail).abort = w.abort
    BY UpdateTrailSafe
  <2> DEFINE u == UpdateTrail(w, trail)
  <2> HIDE DEF u
  <2>2. Sound(u) /\ u.is_defined /\ Safe(w, u) /\ u.abort = w.abort
    BY <1>1, <2>1 DEF Safe, Announced, u
  <2>3. Safe(u, UpdateLead(u, lead)) /\ UpdateLead(u, lead).abort = u.abort
    BY <2>2, UpdateLeadSafe
  <2>4. Update(w, lead, trail) = UpdateLead(u, lead)
    BY <1>1 DEF Update, u
  <2> QED
    BY <1>1, <2>2, <2>3, <2>4, SafeTrans DEF Arrival
<1>2. CASE ~w.is_defined
  BY <1>2, DefineSound DEF Update, Arrival
<1> QED
  BY <1>1, <1>2

\* Moving a sequence number between the recovery queues is Safe.
LEMMA SetStateSafe ==
    ASSUME SqnMod % Alloc = 0, NEW w, Sound(w), NEW s \in Sqn,
           StateAt(w, s) \in Recovering, NEW st \in Recovering
    PROVE  Safe(w, SetState(w, s, st)) /\ SetState(w, s, st).abort = w.abort
<1> DEFINE v == SetState(w, s, st)
           k == [Peek(w, s) EXCEPT !.state = st]
<1>1. w \in Window /\ w.pdata \in [Slot -> Skb] /\ Idx(s) \in Slot /\ Length(w) \in Int
  BY WInvFacts, IdxType DEF Sound, Sqn
<1>2. WInv(v)
  BY RelabelInv DEF Sound, Recovering, Live
<1>3. /\ v.pdata = [w.pdata EXCEPT ![Idx(s)] = k]
      /\ v.lead = w.lead /\ v.trail = w.trail /\ v.commit_lead = w.commit_lead
      /\ v.is_defined = w.is_defined /\ v.abort = w.abort
      /\ v.committed_count = w.committed_count
      /\ v.fragment_count = w.fragment_count /\ v.lost_count = w.lost_count
      /\ v.cumulative_losses = w.cumulative_losses
  BY <1>1 DEF SetState, Window, Peek
<1>4. k.state = st
  BY <1>1 DEF Peek, Skb
<1> HIDE DEF v, k
<1>5. Written(w, v, s, k)
  <2>1. w.fragment_count \in Int /\ w.lost_count \in Int
    BY <1>1 DEF Window
  <2> QED
    BY <1>3, <1>4, <2>1 DEF Written, Recovering
<1>6. Length(v) = Length(w)
  BY <1>3 DEF Length, NextLead
<1>7. \E x \in Sqn : Minus(x, v.trail) < Length(v) /\ Idx(x) = Idx(s)
  <2>1. w.pdata[Idx(s)].state # "FREE"
    BY DEF StateAt, Peek, Recovering
  <2> QED
    BY <1>1, <1>3, <1>6, <2>1 DEF Sound, Tidy
<1>8. /\ k.state \in Live /\ k.state # "HAVE_DATA" /\ StateAt(w, s) # "COMMIT_DATA"
      /\ Length(w) <= Length(v)
  BY <1>1, <1>4, <1>6 DEF Live, Recovering
<1>9. Safe(w, v)
  BY <1>2, <1>3, <1>5, <1>6, <1>7, <1>8, WriteSafe
<1> QED
  BY <1>3, <1>9 DEF v

\* _pgm_rxw_recovery_append is Safe.
LEMMA RecoveryAppendSafe ==
    ASSUME SqnMod % Alloc = 0, NEW w, Sound(w), w.is_defined
    PROVE  LET v == RecoveryAppend(w).window IN Safe(w, v) /\ v.abort = w.abort
<1> DEFINE w1   == IF IsFull(w) THEN RemoveTrail(w, 1) ELSE w
           lead == Plus(w1.lead, 1)
           k    == Placeholder(lead, "WAIT_DATA")
           v    == RecoveryAppend(w).window
<1>1. WInv(v)
  BY RecoveryAppendInv DEF Sound
<1>2. CASE IsFull(w) /\ ~CommitIsEmpty(w)
  BY <1>2, SafeRefl DEF RecoveryAppend, Result
<1>3. CASE ~(IsFull(w) /\ ~CommitIsEmpty(w))
  <2>1. Safe(w, w1) /\ w1.abort = w.abort
    BY <1>3, MakeRoomSafe
  <2>2. /\ WInv(w1) /\ w1 \in Window /\ Length(w1) < Alloc
        /\ Length(w1) \in Sqn /\ w1.trail \in Sqn /\ w1.lead \in Sqn /\ lead \in Sqn
    <3>1. WInv(w1) /\ w1 \in Window /\ Length(w1) < Alloc
      BY <1>3, MakeRoomInv DEF Sound
    <3> HIDE DEF w1
    <3>2. Length(w1) \in Sqn /\ w1.trail \in Sqn /\ w1.lead \in Sqn
      BY <3>1, WInvFacts
    <3> QED
      BY <3>1, <3>2, PlusOne, SignBitAssumption DEF Sqn, SqnMod
  <2>3. /\ v.pdata = [w1.pdata EXCEPT ![Idx(lead)] = k]
        /\ v.lead = Plus(w1.lead, 1) /\ v.trail = w1.trail
        /\ v.commit_lead = w1.commit_lead /\ v.is_defined = w1.is_defined
        /\ v.abort = w1.abort
        /\ v.committed_count = w1.committed_count
        /\ v.fragment_count = w1.fragment_count
        /\ v.lost_count = w1.lost_count
        /\ v.cumulative_losses = w1.cumulative_losses
    <3>1. v = [w1 EXCEPT !.lead = lead, !.pdata = [@ EXCEPT ![Idx(lead)] = k]]
      BY <1>3 DEF RecoveryAppend, Result
    <3>2. w1 \in Window
      BY <2>2
    <3> HIDE DEF w1, v
    <3> QED
      BY <3>1, <3>2 DEF Window
  <2>4. k.state = "WAIT_DATA"
    BY DEF Placeholder
  <2>5. Sound(w1)
    BY <2>1 DEF Safe
  <2>6. Minus(lead, w1.trail) = Length(w1)
    BY DEF NextLead, Length
  <2>7. lead = Plus(w1.lead, 1)
    OBVIOUS
  <2> HIDE DEF v, w1, k, lead
  <2>8. StateAt(w1, lead) = "FREE"
    BY <2>2, <2>5, <2>6, FreeBeyond DEF Sqn
  <2>9. Written(w1, v, lead, k)
    <3>1. w1.fragment_count \in Int /\ w1.lost_count \in Int
      BY <2>2 DEF Window
    <3> QED
      BY <2>3, <2>4, <2>8, <3>1 DEF Written
  <2>10. Length(v) = Length(w1) + 1
    BY <2>2, <2>3, AllocAssumption, SignBitAssumption
    DEF Length, NextLead, Plus, Minus, Sqn, SqnMod
  <2>11. Length(w1) <= Length(v) /\ Minus(lead, v.trail) < Length(v)
    BY <2>2, <2>3, <2>6, <2>10 DEF Sqn
  <2>12. /\ w1.is_defined /\ StateAt(w1, lead) # "COMMIT_DATA" /\ k.state \in Live
         /\ k.state # "HAVE_DATA"
    BY <2>1, <2>4, <2>8 DEF Safe, Announced, Live, Recovering
  <2>13. Safe(w1, v)
    BY <1>1, <2>2, <2>3, <2>5, <2>9, <2>11, <2>12, WriteSafe
  <2>14. Safe(w, v)
    BY <2>1, <2>13, SafeTrans
  <2> QED
    BY <2>1, <2>3, <2>14 DEF v
<1> QED
  BY <1>2, <1>3

\* pgm_rxw_confirm is Safe, and its assertion holds for a sequence number that is
\* not half the sequence space from lead.
LEMMA ConfirmSafe ==
    ASSUME SqnMod % Alloc = 0, NEW w, Sound(w), NEW s \in Sqn
    PROVE  LET v == Confirm(w, s).window IN
           /\ Safe(w, v)
           /\ (w.is_defined => Minus(s, w.lead) # SignBit) => v.abort = w.abort
<1>1. CASE ~w.is_defined \/ Lt(s, w.commit_lead)
  BY <1>1, SafeRefl DEF Confirm, Result
<1>2. CASE w.is_defined /\ ~Lt(s, w.commit_lead) /\ Lte(s, w.lead)
  <2>1. Confirm(w, s).window = RecoveryUpdate(w, s).window
    BY <1>2 DEF Confirm
  <2>2. CASE ~InWindow(w, s)
    BY <1>2, <2>1, <2>2, AbortSafe, IncomingInWindow DEF RecoveryUpdate, Result, Sound
  <2>3. CASE InWindow(w, s)
    BY <2>1, <2>3, SetStateSafe, SafeRefl DEF RecoveryUpdate, Result, Recovering
  <2> QED
    BY <2>2, <2>3
<1>3. CASE w.is_defined /\ ~Lt(s, w.commit_lead) /\ ~Lte(s, w.lead)
  <2> DEFINE u == AddPlaceholderRange(w, s).window
  <2>1. Confirm(w, s) = RecoveryAppend(u)
    BY <1>3 DEF Confirm
  <2>2. Safe(w, u) /\ u.abort = w.abort
    BY <1>3, AddPlaceholderRangeSafe
  <2> HIDE DEF u
  <2>3. Sound(u) /\ u.is_defined
    BY <1>3, <2>2 DEF Safe, Announced
  <2>4. Safe(u, RecoveryAppend(u).window) /\ RecoveryAppend(u).window.abort = u.abort
    BY <2>3, RecoveryAppendSafe
  <2> QED
    BY <2>1, <2>2, <2>4, SafeTrans
<1> QED
  BY <1>1, <1>2, <1>3

\* There are n sequence numbers less than n from an edge.
LEMMA ArcSize ==
    ASSUME NEW t \in Sqn, NEW n \in Nat, n <= SqnMod
    PROVE  Cardinality({s \in Sqn : Minus(s, t) < n}) = n
<1> DEFINE S == {s \in Sqn : Minus(s, t) < n}
           K == 0 .. (n - 1)
           f == [j \in K |-> Plus(t, j)]
<1>1. IsFiniteSet(K) /\ Cardinality(K) = n
  BY FS_Interval
<1>2. \A j \in K : f[j] \in S
  <2> SUFFICES ASSUME NEW j \in K PROVE Plus(t, j) \in Sqn /\ Minus(Plus(t, j), t) < n
    OBVIOUS
  <2> QED
    BY SignBitAssumption DEF Plus, Minus, Sqn, SqnMod
<1>3. \A i, j \in K : f[i] = f[j] => i = j
  <2> SUFFICES ASSUME NEW i \in K, NEW j \in K, Plus(t, i) = Plus(t, j) PROVE i = j
    OBVIOUS
  <2> QED
    BY SignBitAssumption DEF Plus, Sqn, SqnMod
<1>4. \A s \in S : \E j \in K : f[j] = s
  <2> SUFFICES ASSUME NEW s \in S PROVE \E j \in K : Plus(t, j) = s
    OBVIOUS
  <2>1. Minus(s, t) \in K /\ Plus(t, Minus(s, t)) = s
    BY SignBitAssumption DEF Plus, Minus, Sqn, SqnMod
  <2> QED
    BY <2>1
<1>5. f \in [K -> S]
  BY <1>2
<1> HIDE DEF f, K, S
<1>6. f \in Bijection(K, S)
  BY <1>3, <1>4, <1>5 DEF Bijection, Injection, Surjection, IsInjective
<1>7. ExistsBijection(K, S)
  BY <1>6 DEF ExistsBijection
<1> QED
  BY <1>1, <1>7, FS_Bijection DEF S

\* _pgm_rxw_incoming_read_apdu commits n sequence numbers, or fails its assertion
\* and changes nothing else.
LEMMA ReadApduSound ==
    ASSUME SqnMod % Alloc = 0, NEW w, Sound(w)
    PROVE  LET v == ReadApdu(w)
               n == Peek(w, w.commit_lead).len IN
           /\ Sound(v)
           /\ v.is_defined = w.is_defined /\ v.cumulative_losses = w.cumulative_losses
           /\ \/ v.commit_lead = w.commit_lead
              \/ v.commit_lead = Plus(w.commit_lead, n)
<1> DEFINE n    == Peek(w, w.commit_lead).len
           apdu == {s \in Sqn : Minus(s, w.commit_lead) < n}
           v    == ReadApdu(w)
           bad  == \E s \in apdu : ~InWindow(w, s) \/ StateAt(w, s) # "HAVE_DATA"
<1>1. /\ w \in Window /\ w.lead \in Sqn /\ w.trail \in Sqn /\ w.commit_lead \in Sqn
      /\ w.pdata \in [Slot -> Skb] /\ Length(w) <= Alloc /\ CommitLength(w) <= Length(w)
      /\ Length(w) \in Sqn /\ CommitLength(w) \in Sqn /\ n \in Nat /\ WInv(w)
  <2>1. Idx(w.commit_lead) \in Slot /\ w.pdata \in [Slot -> Skb]
    BY WInvFacts, IdxType DEF Sound
  <2>2. n \in Nat
    BY <2>1 DEF Peek, Skb
  <2> QED
    BY <2>2, WInvFacts DEF Sound
<1>2. CASE bad
  <2>1. v = Abort(w, "read_apdu")
    BY <1>2 DEF ReadApdu
  <2>2. Sound(v)
    BY <2>1, AbortSafe DEF Safe
  <2> QED
    BY <1>1, <2>1, <2>2 DEF Abort, Window
<1>3. CASE ~bad
  <2>1. v = [w EXCEPT
               !.pdata = [i \in Slot |-> IF \E s \in apdu : Idx(s) = i
                                         THEN [@[i] EXCEPT !.state = "COMMIT_DATA"]
                                         ELSE @[i]],
               !.fragment_count  = @ - n,
               !.committed_count = @ + n,
               !.commit_lead     = Plus(@, n)]
    BY <1>3 DEF ReadApdu
  <2>2. \A s : s \in apdu <=> s \in Sqn /\ Minus(s, w.commit_lead) < n
    OBVIOUS
  <2>3. \A s \in apdu : InWindow(w, s) /\ StateAt(w, s) = "HAVE_DATA"
    BY <1>3
  <2>4. WInv(v)
    BY ReadApduInv DEF Sound
  <2>5. /\ v.pdata = [i \in Slot |-> IF \E s \in apdu : Idx(s) = i
                                     THEN [w.pdata[i] EXCEPT !.state = "COMMIT_DATA"]
                                     ELSE w.pdata[i]]
        /\ v.fragment_count = w.fragment_count - n /\ v.lost_count = w.lost_count
        /\ v.committed_count = w.committed_count + n
        /\ v.commit_lead = Plus(w.commit_lead, n)
        /\ v.lead = w.lead /\ v.trail = w.trail /\ v.is_defined = w.is_defined
        /\ v.cumulative_losses = w.cumulative_losses
    <3> HIDE DEF n, apdu, v
    <3> QED
      BY <1>1, <2>1 DEF Window
  \* the whole APDU is inside the window
  <2>6. n <= Alloc /\ n < SqnMod
    <3>1. CASE n <= Length(w)
      BY <1>1, <3>1, AllocAssumption, SignBitAssumption DEF Sqn, SqnMod
    <3>2. CASE ~(n <= Length(w))
      <4> DEFINE x == Plus(w.lead, 1)
      <4> HIDE DEF n, apdu, v, bad
      <4>1. x \in Sqn /\ Minus(x, w.commit_lead) = Length(w) - CommitLength(w)
        <5>1. Length(w) = Minus(x, w.trail) /\ CommitLength(w) = Minus(w.commit_lead, w.trail)
          BY DEF Length, CommitLength, NextLead
        <5>2. x \in Sqn
          BY <1>1, SignBitAssumption DEF Plus, Sqn, SqnMod
        <5> HIDE DEF x
        <5> QED
          BY <1>1, <5>1, <5>2, SignBitAssumption DEF Minus, Sqn, SqnMod
      <4>2. x \in apdu
        BY <1>1, <2>2, <3>2, <4>1 DEF Sqn
      <4>3. ~InWindow(w, x)
        BY <1>1, SignBitAssumption DEF InWindow, Lte, Plus, Minus, Sqn, SqnMod
      <4> QED
        BY <2>3, <4>2, <4>3
    <3> QED
      BY <3>1, <3>2
  <2>7. Cardinality(apdu) = n
    <3>1. \A k \in Nat : k <= SqnMod =>
            Cardinality({s \in Sqn : Minus(s, w.commit_lead) < k}) = k
      BY <1>1, ArcSize
    <3>2. n <= SqnMod
      BY <1>1, <2>6, SignBitAssumption DEF SqnMod
    <3> QED
      BY <1>1, <3>1, <3>2
  <2>8. Spread(apdu)
    <3>1. \A s \in apdu : Minus(s, w.commit_lead) < Alloc
      <4> SUFFICES ASSUME NEW s \in apdu PROVE Minus(s, w.commit_lead) < Alloc
        OBVIOUS
      <4>1. Minus(s, w.commit_lead) \in Nat /\ Minus(s, w.commit_lead) < n
        BY <1>1, <2>2, SqnArith
      <4> QED
        BY <1>1, <2>6, <4>1, AllocAssumption
    <3> QED
      BY <1>1, <3>1 DEF Spread
  <2> HIDE DEF n, apdu, v, bad
  <2>9. \A i \in Slot : v.pdata[i] = IF \E s \in apdu : Idx(s) = i
                                     THEN [w.pdata[i] EXCEPT !.state = "COMMIT_DATA"]
                                     ELSE w.pdata[i]
    BY <2>5
  <2>10. \A i \in Slot : (\E s \in apdu : Idx(s) = i) => w.pdata[i].state = "HAVE_DATA"
    BY <2>3 DEF StateAt, Peek
  <2>11. Moved(w, v, apdu, "COMMIT_DATA")
    <3>1. \A k \in Skb : [k EXCEPT !.state = "COMMIT_DATA"].state = "COMMIT_DATA"
      BY DEF Skb
    <3>2. \A i \in Slot : w.pdata[i] \in Skb
      BY <1>1
    <3> QED
      BY <2>9, <3>1, <3>2 DEF Moved
  <2>12. Tidy(v)
    <3>1. \A i \in Slot : v.pdata[i].state # "FREE" => w.pdata[i].state # "FREE"
      BY <2>9, <2>10
    <3> QED
      BY <2>5, <3>1 DEF Sound, Tidy, IsEmpty, Length, NextLead
  <2>13. Contents(v)
    <3> SUFFICES ASSUME NEW i \in Slot, v.pdata[i].state \in Holding
                 PROVE  Genuine(v.pdata[i])
      BY DEF Contents
    <3>1. CASE \E s \in apdu : Idx(s) = i
      <4>1. Genuine(w.pdata[i])
        BY <2>10, <3>1 DEF Sound, Contents, Holding
      <4>2. w.pdata[i] \in Skb
        BY <1>1
      <4>3. /\ v.pdata[i].sqn = w.pdata[i].sqn /\ v.pdata[i].first = w.pdata[i].first
            /\ v.pdata[i].len = w.pdata[i].len
        BY <2>9, <3>1, <4>2 DEF Skb
      <4> QED
        BY <4>1, <4>3 DEF Genuine
    <3>2. CASE ~ \E s \in apdu : Idx(s) = i
      BY <2>9, <3>2 DEF Sound, Contents
    <3> QED
      BY <3>1, <3>2
  <2>14. Counts(v)
    <3>1. CountIn(w, apdu, "LOST_DATA") = 0 /\ CountIn(w, apdu, "COMMIT_DATA") = 0
      BY <2>3, CountNone
    <3>2. CountIn(w, apdu, "HAVE_DATA") = n
      <4>1. {s \in apdu : StateAt(w, s) = "HAVE_DATA"} = apdu
        BY <2>3
      <4> QED
        BY <2>7, <4>1 DEF CountIn
    <3>3. /\ Total(v, "HAVE_DATA") = Total(w, "HAVE_DATA") - CountIn(w, apdu, "HAVE_DATA")
          /\ Total(v, "LOST_DATA") = Total(w, "LOST_DATA") - CountIn(w, apdu, "LOST_DATA")
          /\ Total(v, "COMMIT_DATA") = Total(w, "COMMIT_DATA") - CountIn(w, apdu, "COMMIT_DATA")
                                         + Cardinality(apdu)
      BY <2>8, <2>11, MoveTotals
    <3>4. /\ Total(w, "LOST_DATA") \in Nat /\ Total(w, "COMMIT_DATA") \in Nat
      BY TotalType
    <3> QED
      BY <2>5, <2>7, <3>1, <3>2, <3>3, <3>4 DEF Counts, Sound
  <2> QED
    BY <2>4, <2>5, <2>12, <2>13, <2>14 DEF Sound, v, n
<1> QED
  BY <1>2, <1>3

\* pgm_rxw_remove_commit releases committed data and nothing else.
LEMMA RemoveCommitSound ==
    ASSUME SqnMod % Alloc = 0, NEW w, Sound(w)
    PROVE  LET v == RemoveCommit(w) IN
           /\ Sound(v) /\ v.is_defined = w.is_defined /\ v.abort = w.abort
           /\ v.commit_lead = w.commit_lead /\ v.lead = w.lead
           /\ v.cumulative_losses = w.cumulative_losses
           /\ v.trail = w.commit_lead
<1>1. /\ CommitLength(w) \in Nat /\ CommitLength(w) \in Sqn /\ CommitLength(w) <= Length(w)
      /\ w \in Window /\ w.trail \in Sqn /\ w.commit_lead \in Sqn
  BY WInvFacts, SqnArith DEF Sqn, Sound
<1>2. Sound(RemoveCommit(w))
  BY <1>1, RemoveTrailSound DEF RemoveCommit
<1> DEFINE n == CommitLength(w)
<1>3. Plus(w.trail, n) = w.commit_lead
  BY <1>1, SignBitAssumption DEF CommitLength, Plus, Minus, Sqn, SqnMod
<1>4. CommitIsEmpty(w) => /\ Plus(w.commit_lead, n) = w.commit_lead
                          /\ Losses(w, n) = w.cumulative_losses
  BY <1>1, SignBitAssumption, InputAssumption
  DEF CommitIsEmpty, Plus, Losses, Window, Sqn, SqnMod
<1>5. LET v == RemoveTrail(w, n) IN
      /\ v.is_defined = w.is_defined /\ v.abort = w.abort /\ v.lead = w.lead
      /\ v.trail = Plus(w.trail, n)
      /\ v.commit_lead = IF CommitIsEmpty(w) THEN Plus(w.commit_lead, n) ELSE w.commit_lead
      /\ v.cumulative_losses = IF CommitIsEmpty(w) THEN Losses(w, n)
                                                   ELSE w.cumulative_losses
  <2> HIDE DEF n
  <2> QED
    BY <1>1 DEF RemoveTrail, Window
<1> QED
  BY <1>2, <1>3, <1>4, <1>5 DEF RemoveCommit

-----------------------------------------------------------------------------
(***************************************************************************)
(* Reading: pgm_rxw_readv hands out the APDU that starts at commit_lead,   *)
(* or announces what it gives up.                                          *)
(***************************************************************************)

\* The next packet to be read has its skb, which is not committed.
LEMMA HeadFacts ==
    ASSUME NEW w, Sound(w), ~IncomingIsEmpty(w)
    PROVE  LET head == Peek(w, w.commit_lead) IN
           /\ CommitLength(w) < Length(w)
           /\ head \in Skb /\ head.sqn = w.commit_lead /\ head.first \in Sqn
           /\ head.state \in Live
<1>1. /\ WInv(w) /\ w.lead \in Sqn /\ w.trail \in Sqn /\ w.commit_lead \in Sqn
      /\ Length(w) \in Sqn /\ CommitLength(w) \in Sqn
      /\ CommitLength(w) <= Length(w) /\ w.pdata \in [Slot -> Skb]
  BY WInvFacts DEF Sound
<1>2. CommitLength(w) # Length(w)
  <2>1. NextLead(w) \in Sqn
    BY <1>1, SignBitAssumption DEF NextLead, Plus, Sqn, SqnMod
  <2>2. NextLead(w) # w.commit_lead
    BY <1>1, SignBitAssumption DEF IncomingIsEmpty, IncomingLength, Minus, Sqn, SqnMod
  <2> QED
    BY <1>1, <2>1, <2>2, SignBitAssumption DEF Length, CommitLength, Minus, Sqn, SqnMod
<1>3. CommitLength(w) < Length(w)
  BY <1>1, <1>2 DEF Sqn
<1>4. Minus(w.commit_lead, w.trail) = CommitLength(w)
  BY DEF CommitLength
<1>5. SlotOK(w, w.commit_lead)
  BY <1>1, <1>3, <1>4 DEF WInv
<1>6. /\ Peek(w, w.commit_lead).sqn = w.commit_lead
      /\ StateAt(w, w.commit_lead) \in Live
  BY <1>1, <1>4, <1>5 DEF SlotOK, Live, Sqn
<1>7. Peek(w, w.commit_lead) \in Skb
  BY <1>1, IdxType DEF Peek
<1> QED
  BY <1>3, <1>6, <1>7 DEF Skb, StateAt

\* What follows the next packet to be read is in the window only if it comes before
\* the lead.
LEMMA AheadInWindow ==
    ASSUME NEW w, Sound(w), CommitLength(w) < Length(w), NEW k \in Nat, k <= Alloc,
           InWindow(w, Plus(w.commit_lead, k))
    PROVE  /\ Minus(Plus(w.commit_lead, k), w.trail) = CommitLength(w) + k
           /\ CommitLength(w) + k < Length(w)
<1> DEFINE t == w.trail
           c == w.commit_lead
           l == w.lead
           x == Plus(c, k)
           L == Length(w)
           C == CommitLength(w)
<1>1. /\ l \in Sqn /\ t \in Sqn /\ c \in Sqn /\ L \in Sqn /\ C \in Sqn /\ C < L /\ L <= Alloc
      /\ L = Minus(Plus(l, 1), t) /\ C = Minus(c, t)
  BY WInvFacts DEF Sound, Length, CommitLength, NextLead
<1>2. x = l \/ Minus(x, l) >= SignBit
  BY DEF InWindow, Lte
<1>3. x = Plus(c, k) /\ k \in Nat /\ k <= Alloc
  OBVIOUS
<1> HIDE DEF t, c, l, x, L, C
<1>4. x \in Sqn
  BY <1>1, <1>3, AllocAssumption, SignBitAssumption DEF Plus, Sqn, SqnMod
<1>5. C + k < L
  <2> SUFFICES ASSUME C + k >= L PROVE FALSE
    BY <1>1, <1>3 DEF Sqn
  <2>1. Minus(x, l) = C + k - L + 1
    BY <1>1, <1>3, <1>4, AllocAssumption, SignBitAssumption DEF Plus, Minus, Sqn, SqnMod
  <2>2. C + k - L + 1 > 0 /\ C + k - L + 1 <= Alloc
    BY <1>1, <1>3, AllocAssumption DEF Sqn
  <2>3. x # l
    BY <1>1, <2>1, <2>2 DEF Minus, Sqn
  <2> QED
    BY <1>1, <1>2, <2>1, <2>2, <2>3, AllocAssumption, SignBitAssumption DEF Sqn
<1>6. Minus(x, t) = C + k
  BY <1>1, <1>3, <1>4, <1>5, AllocAssumption, SignBitAssumption DEF Plus, Minus, Sqn, SqnMod
<1> QED
  BY <1>5, <1>6 DEF x, t, L, C, c

\* Only an APDU whose first packet is the next one to be read is found complete:
\* before it there is only committed data.
LEMMA CompleteFromHead ==
    ASSUME NEW w, Sound(w), ~IncomingIsEmpty(w),
           Peek(w, w.commit_lead).state = "HAVE_DATA",
           IsApduComplete(w, Peek(w, w.commit_lead).first) = "complete"
    PROVE  /\ Peek(w, w.commit_lead).first = w.commit_lead
           /\ \E p \in Tpdus : /\ p.first = w.commit_lead
                               /\ p.len = Peek(w, w.commit_lead).len
<1> DEFINE head  == Peek(w, w.commit_lead)
           first == head.first
           ends  == {k \in 0 .. Alloc : ApduCheck(w, first, k) # "more"}
<1>1. /\ CommitLength(w) < Length(w) /\ head \in Skb /\ head.sqn = w.commit_lead
      /\ first \in Sqn
  BY HeadFacts
<1>2. /\ WInv(w) /\ w.lead \in Sqn /\ w.trail \in Sqn /\ w.commit_lead \in Sqn
      /\ Length(w) \in Sqn /\ CommitLength(w) \in Sqn /\ Length(w) <= Alloc
  BY WInvFacts DEF Sound
<1>3. PICK p \in Tpdus : /\ head.sqn = p.sqn /\ first = p.first /\ head.len = p.len
                         /\ ~Gt(p.first, p.sqn)
  <2>1. Idx(w.commit_lead) \in Slot
    BY <1>2, IdxType
  <2>2. Genuine(head)
    BY <2>1 DEF Sound, Contents, Holding, Peek
  <2> QED
    BY <2>2 DEF Genuine
\* the scan's first packet does not end it as incomplete
<1>4. ApduCheck(w, first, 0) # "incomplete"
  <2> SUFFICES ASSUME ApduCheck(w, first, 0) = "incomplete" PROVE FALSE
    OBVIOUS
  <2>1. 0 \in ends
    BY AllocAssumption
  <2>2. \A k \in ends : k \in Nat
    OBVIOUS
  <2>3. IsApduComplete(w, first)
          = ApduCheck(w, first, CHOOSE k \in ends : \A j \in ends : k <= j)
    BY DEF IsApduComplete
  <2> HIDE DEF ends, first
  <2>4. (CHOOSE k \in ends : \A j \in ends : k <= j) = 0
    <3> DEFINE m == CHOOSE k \in ends : \A j \in ends : k <= j
    <3>1. \E k \in ends : \A j \in ends : k <= j
      BY <2>1, <2>2
    <3>2. m \in ends /\ \A j \in ends : m <= j
      BY <3>1
    <3> HIDE DEF m
    <3>3. m = 0
      BY <2>1, <2>2, <3>2
    <3> QED
      BY <3>3 DEF m
  <2> QED
    BY <2>3, <2>4 DEF first
<1>5. InWindow(w, first) /\ StateAt(w, first) = "HAVE_DATA"
  <2>1. Plus(first, 0) = first
    BY <1>1, SignBitAssumption DEF Plus, Sqn, SqnMod
  <2> QED
    BY <1>4, <2>1 DEF ApduCheck, StateAt
<1>6. Minus(w.commit_lead, first) < SignBit
  <2>1. Minus(w.commit_lead, first) \in Nat
    BY <1>1, <1>2, SqnArith DEF Sqn
  <2> QED
    BY <1>1, <1>3, <2>1, SignBitAssumption DEF Gt
<1> HIDE DEF head, first
<1>7. Minus(first, w.trail) # SignBit
  <2> SUFFICES ASSUME Minus(first, w.trail) = SignBit PROVE FALSE
    OBVIOUS
  <2>1. first = w.lead \/ Minus(first, w.lead) >= SignBit
    BY <1>5 DEF InWindow, Lte
  <2>2. Length(w) = Minus(Plus(w.lead, 1), w.trail) /\ CommitLength(w) = Minus(w.commit_lead, w.trail)
    BY DEF Length, CommitLength, NextLead
  <2>3. Length(w) = 1
    BY <1>1, <1>2, <2>1, <2>2, AllocAssumption, SignBitAssumption DEF Plus, Minus, Sqn, SqnMod
  <2>4. w.commit_lead = w.trail
    BY <1>1, <1>2, <2>2, <2>3, SignBitAssumption DEF Minus, Sqn, SqnMod
  <2> QED
    BY <1>1, <1>2, <1>6, <2>4, SignBitAssumption DEF Minus, Sqn, SqnMod
<1>8. Minus(first, w.trail) < Length(w)
  BY <1>1, <1>2, <1>5, <1>7, InWindowLength
<1>9. ~(Minus(first, w.trail) < CommitLength(w))
  BY <1>1, <1>2, <1>5, <1>8 DEF WInv, SlotOK
<1>10. first = w.commit_lead
  <2>1. CommitLength(w) = Minus(w.commit_lead, w.trail)
    BY DEF CommitLength
  <2> QED
    BY <1>1, <1>2, <1>6, <1>8, <1>9, <2>1, AllocAssumption, SignBitAssumption
    DEF Minus, Sqn, SqnMod
<1> QED
  BY <1>3, <1>10 DEF head, first

\* One APDU that the source sent is handed out.
Delivered(w, v) ==
    /\ w.is_defined /\ v.is_defined
    /\ v.cumulative_losses = w.cumulative_losses
    /\ \E p \in Tpdus : w.commit_lead = p.first /\ v.commit_lead = Plus(p.first, p.len)

\* pgm_rxw_readv keeps the window sound, and moves commit_lead by one APDU or
\* announces a loss.
LEMMA ReadvSound ==
    ASSUME SqnMod % Alloc = 0, NEW w, Sound(w)
    PROVE  LET v == Readv(w) IN Sound(v) /\ (Announced(w, v) \/ Delivered(w, v))
<1> DEFINE head  == Peek(w, w.commit_lead)
           check == IsApduComplete(w, head.first)
           v     == Readv(w)
<1>1. CASE IncomingIsEmpty(w) \/ head.state \in Recovering
  <2>1. v = w
    BY <1>1 DEF Readv
  <2> QED
    BY <2>1, SafeRefl DEF Safe
<1>2. CASE ~IncomingIsEmpty(w) /\ head.state \notin Recovering
  <2>1. /\ CommitLength(w) < Length(w) /\ head \in Skb /\ head.sqn = w.commit_lead
        /\ head.first \in Sqn
    BY <1>2, HeadFacts
  <2>2. /\ WInv(w) /\ Length(w) \in Nat /\ CommitLength(w) \in Nat
    BY WInvFacts DEF Sound, Sqn
  <2>3. w.is_defined
    BY <2>1, <2>2 DEF Sound, Tidy, IsEmpty
  <2>4. CASE head.state = "HAVE_DATA" /\ check = "complete"
    <3>1. v = ReadApdu(w)
      BY <1>2, <2>4 DEF Readv
    <3>2. PICK p \in Tpdus : p.first = w.commit_lead /\ p.len = head.len
      BY <1>2, <2>4, CompleteFromHead
    <3>3. /\ Sound(v) /\ v.is_defined = w.is_defined
          /\ v.cumulative_losses = w.cumulative_losses
          /\ \/ v.commit_lead = w.commit_lead
             \/ v.commit_lead = Plus(w.commit_lead, head.len)
      BY <3>1, ReadApduSound
    <3> HIDE DEF v, head
    <3>4. Announced(w, v) \/ Delivered(w, v)
      <4>1. CASE v.commit_lead = w.commit_lead
        BY <3>3, <4>1 DEF Announced
      <4>2. CASE v.commit_lead = Plus(w.commit_lead, head.len)
        BY <2>3, <3>2, <3>3, <4>2 DEF Delivered
      <4> QED
        BY <3>3, <4>1, <4>2
    <3> QED
      BY <3>3, <3>4 DEF v
  <2>5. CASE head.state = "HAVE_DATA" /\ check = "lost"
    <3>1. v = Lost(w, head.first)
      BY <1>2, <2>5 DEF Readv
    <3> QED
      BY <2>1, <3>1, LostSafe DEF Safe
  <2>6. CASE head.state = "HAVE_DATA" /\ check \notin {"complete", "lost"}
    <3>1. v = w
      BY <1>2, <2>6 DEF Readv
    <3> QED
      BY <3>1, SafeRefl DEF Safe
  <2>7. CASE head.state = "LOST_DATA" /\ CommitIsEmpty(w)
    <3>1. v = RemoveTrail(w, 1)
      BY <1>2, <2>7 DEF Readv, Recovering
    <3>2. 1 <= Length(w)
      BY <2>1, <2>2
    <3> QED
      BY <2>2, <2>7, <3>1, <3>2, RemoveTrailSound
  <2>8. CASE head.state = "LOST_DATA" /\ ~CommitIsEmpty(w)
    <3>1. v = w
      BY <1>2, <2>8 DEF Readv, Recovering
    <3> QED
      BY <3>1, SafeRefl DEF Safe
  <2>9. CASE head.state \notin {"HAVE_DATA", "LOST_DATA"}
    <3>1. v = Abort(w, "readv")
      BY <1>2, <2>9 DEF Readv
    <3> QED
      BY <3>1, AbortSafe DEF Safe
  <2> QED
    BY <2>4, <2>5, <2>6, <2>7, <2>8, <2>9
<1> QED
  BY <1>1, <1>2

\* A set of natural numbers has a least member.
LEMMA Least ==
    ASSUME NEW S \in SUBSET Nat, S # {}
    PROVE  \E x \in S : \A y \in S : x <= y
<1> DEFINE R == OpToRel(<, Nat)
<1>1. IsWellFoundedOn(R, Nat)
  BY NatLessThanWellFounded
<1>2. \A x, y \in Nat : x < y => <<x, y>> \in R
  BY DEF OpToRel
<1> HIDE DEF R
<1>3. PICK x \in S : \A y \in S : ~(<<y, x>> \in R)
  BY <1>1, WFMin, Zenon
<1>4. \A y \in S : x <= y
  <2> SUFFICES ASSUME NEW y \in S PROVE x <= y
    OBVIOUS
  <2>1. x \in Nat /\ y \in Nat /\ ~(y < x)
    BY <1>2, <1>3
  <2> QED
    BY <2>1
<1> QED
  BY <1>4

\* The TPDUs of an APDU agree on it.
Consistent ==
    \A p, q \in Tpdus : Minus(q.sqn, p.first) < p.len => q.first = p.first /\ q.len = p.len

\* _pgm_rxw_is_apdu_complete on the next APDU to be read stops at its last packet,
\* having found data everywhere.
LEMMA ScanComplete ==
    ASSUME Consistent, NEW w, Sound(w), ~IncomingIsEmpty(w),
           Peek(w, w.commit_lead).state = "HAVE_DATA",
           IsApduComplete(w, Peek(w, w.commit_lead).first) = "complete",
           NEW s \in Sqn, Minus(s, w.commit_lead) < Peek(w, w.commit_lead).len
    PROVE  InWindow(w, s) /\ StateAt(w, s) = "HAVE_DATA"
<1> DEFINE c    == w.commit_lead
           size == Peek(w, c).len
           ends == {k \in 0 .. Alloc : ApduCheck(w, c, k) # "more"}
           last == CHOOSE k \in ends : \A j \in ends : k <= j
<1>1. CommitLength(w) < Length(w)
  BY HeadFacts
<1>2. /\ WInv(w) /\ w.lead \in Sqn /\ w.trail \in Sqn /\ c \in Sqn
      /\ Length(w) \in Sqn /\ CommitLength(w) \in Sqn /\ Length(w) <= Alloc
  BY WInvFacts DEF Sound
<1>3. Peek(w, c).first = c
  BY CompleteFromHead
<1>4. PICK p \in Tpdus : p.first = c /\ p.len = size
  BY CompleteFromHead
<1>5. size \in Nat /\ size > 0
  BY <1>4, InputAssumption
<1>6. ApduCheck(w, c, last) = "complete"
  BY <1>3 DEF IsApduComplete
<1>7. Minus(s, c) \in Nat /\ Plus(c, Minus(s, c)) = s
  <2> HIDE DEF c
  <2> QED
    BY <1>2, SignBitAssumption DEF Plus, Minus, Sqn, SqnMod
\* the scan ends inside the window
<1>8. last \in ends /\ \A j \in ends : last <= j
  <2>1. Alloc \in ends
    <3> SUFFICES ASSUME ApduCheck(w, c, Alloc) = "more" PROVE FALSE
      BY AllocAssumption
    <3>1. InWindow(w, Plus(c, Alloc))
      BY DEF ApduCheck
    <3>2. Minus(Plus(c, Alloc), w.trail) = CommitLength(w) + Alloc
          /\ CommitLength(w) + Alloc < Length(w)
      BY <1>1, <3>1, AllocAssumption, AheadInWindow
    <3> QED
      BY <1>2, <3>2, AllocAssumption DEF Sqn
  <2>2. \A k \in ends : k \in Nat
    OBVIOUS
  <2> HIDE DEF ends
  <2>3. \E k \in ends : \A j \in ends : k <= j
    BY <2>1, <2>2, Least
  <2> QED
    BY <2>3
<1>9. last \in Nat /\ last <= Alloc
  BY <1>8
<1>10. \A j \in Nat : j < last => ApduCheck(w, c, j) = "more"
  <2> SUFFICES ASSUME NEW j \in Nat, j < last, j \notin ends PROVE ApduCheck(w, c, j) = "more"
    BY <1>8, <1>9
  <2> HIDE DEF last
  <2> QED
    BY <1>9, AllocAssumption
<1> HIDE DEF last, ends
\* before its last packet the scan has not reached the APDU's size
<1>11. \A j \in Nat : j < last => /\ InWindow(w, Plus(c, j))
                                  /\ StateAt(w, Plus(c, j)) = "HAVE_DATA"
                                  /\ j + 1 # size
  BY <1>3, <1>10 DEF ApduCheck, StateAt
<1>12. /\ InWindow(w, Plus(c, last)) /\ StateAt(w, Plus(c, last)) = "HAVE_DATA"
       /\ Peek(w, Plus(c, last)).len = 1 \/ last + 1 = size
  BY <1>3, <1>6 DEF ApduCheck, StateAt
<1>13. last < size
  <2> SUFFICES ASSUME ~(last < size) PROVE FALSE
    OBVIOUS
  <2>1. size - 1 \in Nat /\ size - 1 < last /\ (size - 1) + 1 = size
    <3> HIDE DEF size
    <3> QED
      BY <1>5, <1>9
  <2> QED
    BY <1>11, <2>1
\* an unfragmented packet cannot stand in the middle of the APDU
<1>14. last + 1 = size
  <2> SUFFICES ASSUME Peek(w, Plus(c, last)).len = 1 PROVE last + 1 = size
    BY <1>12
  <2> DEFINE x == Plus(c, last)
  <2>1. Minus(x, w.trail) = CommitLength(w) + last /\ CommitLength(w) + last < Length(w)
    BY <1>1, <1>9, <1>12, AheadInWindow
  <2>2. x \in Sqn
    <3> HIDE DEF c
    <3> QED
      BY <1>2, <1>9, AllocAssumption, SignBitAssumption DEF Plus, Sqn, SqnMod
  <2>3. Peek(w, x).sqn = x
    BY <1>2, <2>1, <2>2 DEF WInv, SlotOK
  <2>4. Genuine(Peek(w, x))
    <3>1. Idx(x) \in Slot
      BY <2>2, IdxType
    <3> QED
      BY <1>12, <3>1 DEF Sound, Contents, Holding, Peek, StateAt
  <2>5. PICK q \in Tpdus : q.sqn = x /\ q.len = 1
    BY <2>3, <2>4 DEF Genuine
  <2>6. Minus(x, c) = last
    <3> HIDE DEF c
    <3> QED
      BY <1>2, <1>9, <2>2, AllocAssumption, SignBitAssumption DEF Plus, Minus, Sqn, SqnMod
  <2>7. q.len = p.len
    BY <1>4, <1>13, <2>5, <2>6 DEF Consistent
  <2> HIDE DEF size
  <2> QED
    BY <1>4, <1>5, <1>9, <1>13, <2>5, <2>7
<1>15. Minus(s, c) <= last
  <2> HIDE DEF size, c
  <2> QED
    BY <1>5, <1>7, <1>9, <1>14 DEF size, c
<1>16. CASE Minus(s, c) = last
  BY <1>7, <1>12, <1>16
<1>17. CASE Minus(s, c) < last
  BY <1>7, <1>11, <1>17
<1> QED
  BY <1>7, <1>9, <1>15, <1>16, <1>17

\* The assertions of the read path hold: nothing committed or released stands at
\* commit_lead, and the packets of a complete APDU are there.
LEMMA ReadvAborts ==
    ASSUME SqnMod % Alloc = 0, Consistent, NEW w, Sound(w)
    PROVE  Readv(w).abort \in {w.abort, "lost"}
<1> DEFINE head  == Peek(w, w.commit_lead)
           check == IsApduComplete(w, head.first)
           v     == Readv(w)
<1>1. CASE IncomingIsEmpty(w) \/ head.state \in Recovering
  BY <1>1 DEF Readv
<1>2. CASE ~IncomingIsEmpty(w) /\ head.state \notin Recovering
  <2>1. /\ head \in Skb /\ head.first \in Sqn /\ head.state \in {"HAVE_DATA", "LOST_DATA"}
    BY <1>2, HeadFacts DEF Live
  <2>2. CASE head.state = "HAVE_DATA" /\ check = "complete"
    <3>1. v = ReadApdu(w)
      BY <1>2, <2>2 DEF Readv
    <3>2. ~ \E s \in {x \in Sqn : Minus(x, w.commit_lead) < head.len} :
              ~InWindow(w, s) \/ StateAt(w, s) # "HAVE_DATA"
      BY <1>2, <2>2, ScanComplete
    <3>3. w \in Window
      BY WInvFacts DEF Sound
    <3>4. ReadApdu(w).abort = w.abort
      BY <3>2, <3>3 DEF ReadApdu, Window
    <3> QED
      BY <3>1, <3>4
  <2>3. CASE head.state = "HAVE_DATA" /\ check = "lost"
    <3>1. v = Lost(w, head.first)
      BY <1>2, <2>3 DEF Readv
    <3> QED
      BY <2>1, <3>1, LostSafe
  <2>4. CASE head.state = "HAVE_DATA" /\ check \notin {"complete", "lost"}
    <3>1. v = w
      BY <1>2, <2>4 DEF Readv
    <3> QED
      BY <3>1
  <2>5. CASE head.state = "LOST_DATA"
    <3>1. v \in {w, RemoveTrail(w, 1)}
      BY <1>2, <2>5 DEF Readv, Recovering
    <3>2. w \in Window
      BY WInvFacts DEF Sound
    <3>3. RemoveTrail(w, 1).abort = w.abort
      BY <3>2 DEF RemoveTrail, Window
    <3> QED
      BY <3>1, <3>3
  <2> QED
    BY <2>1, <2>2, <2>3, <2>4, <2>5
<1> QED
  BY <1>1, <1>2

-----------------------------------------------------------------------------
(***************************************************************************)
(* Sessions.  When all the sequence numbers that packets name come from an *)
(* arc of m numbers, shorter than half the sequence space, the edges of    *)
(* the window stay within that arc: placeholders are only added up to a    *)
(* number a packet named, and trail never passes lead.  Nothing is then    *)
(* ever half the space from an edge.                                       *)
(***************************************************************************)

\* from base on, trail and the number after lead are within the arc
Within(w, base, m) == Minus(w.trail, base) + Length(w) <= m

\* Moving trail by d and lead by n keeps a window within the arc that has room for
\* n more.
LEMMA ShiftWithin ==
    ASSUME NEW base \in Sqn, NEW m \in Nat, m < SignBit,
           NEW w, w.trail \in Sqn, w.lead \in Sqn,
           NEW n \in Nat, NEW d \in Nat,
           Minus(w.trail, base) + Length(w) + n <= m, d <= Length(w) + n,
           NEW v, v.trail = Plus(w.trail, d), v.lead = Plus(w.lead, n)
    PROVE  Within(v, base, m) /\ Length(v) = Length(w) + n - d
<1> DEFINE t == w.trail
           l == w.lead
           x == Plus(l, 1)
           L == Length(w)
<1>1. t \in Sqn /\ l \in Sqn /\ x \in Sqn /\ L = Minus(x, t) /\ L \in Nat
      /\ Minus(t, base) \in Nat
  <2>1. x \in Sqn
    BY SignBitAssumption DEF Plus, Sqn, SqnMod
  <2>2. L = Minus(x, t)
    BY DEF Length, NextLead
  <2> HIDE DEF x, L
  <2> QED
    BY <2>1, <2>2, SqnArith
<1>2. Plus(v.lead, 1) = Plus(x, n) /\ v.trail = Plus(t, d)
  <2>1. n < SignBit
    BY <1>1, SignBitAssumption
  <2>2. Plus(Plus(l, n), 1) = Plus(Plus(l, 1), n)
    BY <1>1, <2>1, SignBitAssumption DEF Plus, Sqn, SqnMod
  <2> QED
    BY <2>2
<1>3. Minus(t, base) + L + n <= m /\ d <= L + n
  OBVIOUS
<1>4. Length(v) = Minus(Plus(v.lead, 1), v.trail)
  BY DEF Length, NextLead
<1> HIDE DEF t, l, x, L
<1>5. Plus(t, d) \in Sqn /\ Plus(x, n) \in Sqn
  BY <1>1, <1>3, SignBitAssumption DEF Plus, Sqn, SqnMod
<1>6. Minus(Plus(t, d), base) = Minus(t, base) + d
  BY <1>1, <1>3, SignBitAssumption DEF Plus, Minus, Sqn, SqnMod
<1>7. Minus(Plus(x, n), Plus(t, d)) = L + n - d
  <2>1. 0 <= L + n - d /\ L + n - d < SqnMod /\ n < SqnMod /\ d < SqnMod
    BY <1>1, <1>3, SignBitAssumption DEF SqnMod
  <2> QED
    BY <1>1, <2>1, SignBitAssumption DEF Plus, Minus, Sqn, SqnMod
<1> QED
  BY <1>1, <1>2, <1>3, <1>4, <1>6, <1>7 DEF Within, L

\* A window whose edges did not move stays within the arc.
LEMMA StayWithin ==
    ASSUME NEW base, NEW m, NEW w, Within(w, base, m),
           NEW v, v.trail = w.trail, v.lead = w.lead
    PROVE  Within(v, base, m)
BY DEF Within, Length, NextLead

\* Where a window within the arc ends.
LEMMA EndWithin ==
    ASSUME NEW base \in Sqn, NEW m \in Nat, m < SignBit,
           NEW w, WInv(w), Within(w, base, m)
    PROVE  /\ Minus(NextLead(w), base) = Minus(w.trail, base) + Length(w)
           /\ NextLead(w) \in Sqn /\ Length(w) \in Nat /\ Minus(w.trail, base) \in Nat
<1>1. w.trail \in Sqn /\ w.lead \in Sqn
  BY WInvFacts
<1> DEFINE x == NextLead(w)
<1>2. x \in Sqn
  BY <1>1, SignBitAssumption DEF NextLead, Plus, Sqn, SqnMod
<1>3. Length(w) = Minus(x, w.trail)
  BY DEF Length
<1> HIDE DEF x
<1>4. Minus(x, w.trail) \in Nat /\ Minus(w.trail, base) \in Nat
  BY <1>1, <1>2, SqnArith
<1>5. Minus(x, base) = Minus(w.trail, base) + Minus(x, w.trail)
  BY <1>1, <1>2, <1>3, SignBitAssumption DEF Within, Minus, Sqn, SqnMod
<1> QED
  BY <1>2, <1>3, <1>4, <1>5 DEF x

\* No number of the arc is half the space from an edge of a window within it.
LEMMA NeverAntipode ==
    ASSUME NEW base \in Sqn, NEW m \in Nat, m < SignBit,
           NEW w, WInv(w), Within(w, base, m), NEW s \in Sqn, Minus(s, base) < m
    PROVE  Minus(s, w.trail) # SignBit /\ Minus(s, w.lead) # SignBit
<1>1. w.trail \in Sqn /\ w.lead \in Sqn
  BY WInvFacts
<1> DEFINE x == NextLead(w)
<1>2. /\ x \in Sqn /\ Minus(x, base) = Minus(w.trail, base) + Length(w)
      /\ Length(w) \in Nat /\ Minus(w.trail, base) \in Nat
  BY EndWithin
<1>3. x = Plus(w.lead, 1)
  BY DEF NextLead
<1> HIDE DEF x
<1>4. Minus(x, base) <= m /\ Minus(w.trail, base) <= m
  BY <1>2 DEF Within
<1>5. Minus(s, w.trail) # SignBit
  BY <1>1, <1>4, SignBitAssumption DEF Minus, Sqn, SqnMod
<1>6. Minus(s, w.lead) # SignBit
  BY <1>1, <1>2, <1>3, <1>4, SignBitAssumption DEF Plus, Minus, Sqn, SqnMod
<1> QED
  BY <1>5, <1>6

\* A number of the arc that is after lead by the serial order is after it in the arc.
LEMMA AfterLead ==
    ASSUME NEW base \in Sqn, NEW m \in Nat, m < SignBit,
           NEW w, WInv(w), Within(w, base, m), NEW s \in Sqn, Minus(s, base) < m,
           ~Lte(s, w.lead)
    PROVE  /\ Minus(s, w.lead) = Minus(s, base) + 1 - (Minus(w.trail, base) + Length(w))
           /\ Minus(s, NextLead(w)) = Minus(s, w.lead) - 1
           /\ Minus(s, w.trail) = Minus(s, base) - Minus(w.trail, base)
           /\ Minus(s, w.lead) \in Nat \ {0}
<1>1. w.trail \in Sqn /\ w.lead \in Sqn
  BY WInvFacts
<1> DEFINE x == NextLead(w)
<1>2. /\ x \in Sqn /\ Minus(x, base) = Minus(w.trail, base) + Length(w)
      /\ Length(w) \in Nat /\ Minus(w.trail, base) \in Nat
  BY EndWithin
<1>3. x = Plus(w.lead, 1)
  BY DEF NextLead
<1> HIDE DEF x
<1>4. Minus(x, base) <= m /\ Minus(w.trail, base) <= m
  BY <1>2 DEF Within
<1>5. s # w.lead /\ Minus(s, w.lead) < SignBit
  <2>1. Minus(s, w.lead) \in Nat
    BY <1>1, SqnArith
  <2> QED
    BY <2>1, SignBitAssumption DEF Lte
<1>7. Minus(s, w.lead) \in Nat \ {0}
  BY <1>1, <1>5, SignBitAssumption DEF Minus, Sqn, SqnMod
<1>8. Minus(s, x) = Minus(s, w.lead) - 1
  BY <1>1, <1>3, <1>5, SignBitAssumption DEF Plus, Minus, Sqn, SqnMod
<1>6. Minus(s, w.lead) = Minus(s, base) + 1 - Minus(x, base)
  <2>1. Minus(s, x) < SignBit
    BY <1>5, <1>7, <1>8, SignBitAssumption
  <2>2. Minus(s, x) = Minus(s, base) - Minus(x, base)
    BY <1>2, <1>4, <2>1, SignBitAssumption DEF Minus, Sqn, SqnMod
  <2> QED
    BY <1>2, <1>7, <1>8, <2>2, SqnArith
<1>9. Minus(s, w.trail) = Minus(s, base) - Minus(w.trail, base)
  <2>1. Minus(s, base) >= Minus(w.trail, base) /\ Minus(s, base) \in Nat
    BY <1>2, <1>6, <1>7, SqnArith
  <2> QED
    BY <1>1, <2>1, SignBitAssumption DEF Minus, Sqn, SqnMod
<1> QED
  BY <1>2, <1>6, <1>7, <1>8, <1>9 DEF x

\* _pgm_rxw_remove_trail does not move the end of the window.
LEMMA RemoveTrailWithin ==
    ASSUME SqnMod % Alloc = 0, NEW base \in Sqn, NEW m \in Nat, m < SignBit,
           NEW w, WInv(w), Within(w, base, m), NEW n \in Nat, n <= Length(w),
           CommitIsEmpty(w) \/ n <= CommitLength(w)
    PROVE  Within(RemoveTrail(w, n), base, m)
<1>1. w.trail \in Sqn /\ w.lead \in Sqn /\ Length(w) \in Nat
  BY WInvFacts DEF Sqn
<1>2. /\ RemoveTrail(w, n).trail = Plus(w.trail, n)
      /\ RemoveTrail(w, n).lead = Plus(w.lead, 0)
  BY <1>1, RemoveTrailInv, SignBitAssumption DEF Plus, Sqn, SqnMod
<1>3. Minus(w.trail, base) + Length(w) + 0 <= m /\ n <= Length(w) + 0
  BY <1>1, SqnArith DEF Within
<1> QED
  BY <1>1, <1>2, <1>3, ShiftWithin

\* Placeholders keep the window within the arc that has room for them.
LEMMA AddPlaceholdersWithin ==
    ASSUME NEW base \in Sqn, NEW m \in Nat, m < SignBit,
           NEW w, WInv(w), NEW n \in Nat, NEW keep \in {Alloc, Alloc - 1},
           Minus(w.trail, base) + Length(w) + n <= m
    PROVE  Within(AddPlaceholders(w, n, keep), base, m)
<1> DEFINE len  == Length(w)
           drop == IF len + n > keep THEN len + n - keep ELSE 0
           v    == AddPlaceholders(w, n, keep)
<1>1. w \in Window /\ w.trail \in Sqn /\ w.lead \in Sqn /\ len \in Nat /\ keep \in Nat
  BY WInvFacts, AllocAssumption DEF Sqn
<1>2. drop \in Nat /\ drop <= len + n
  <2> HIDE DEF len
  <2> QED
    BY <1>1
<1>3. v.trail = Plus(w.trail, drop) /\ v.lead = Plus(w.lead, n)
  BY <1>1 DEF AddPlaceholders, RemoveTrail, Window
<1> HIDE DEF drop, v
<1> QED
  BY <1>1, <1>2, <1>3, ShiftWithin DEF v

\* _pgm_rxw_update_lead to a number of the arc.
LEMMA UpdateLeadWithin ==
    ASSUME NEW base \in Sqn, NEW m \in Nat, m < SignBit,
           NEW w, WInv(w), Within(w, base, m), NEW s \in Sqn, Minus(s, base) < m
    PROVE  Within(UpdateLead(w, s), base, m)
<1>1. CASE Lte(s, w.lead)
  BY <1>1 DEF UpdateLead
<1>2. CASE ~Lte(s, w.lead)
  <2> DEFINE limited == ~CommitIsEmpty(w) /\ Minus(s, w.trail) >= Alloc
             lead    == IF limited THEN Plus(w.trail, Alloc - 1) ELSE s
             n       == Minus(lead, w.lead)
             o       == Minus(w.trail, base)
  <2>1. /\ w.trail \in Sqn /\ w.lead \in Sqn /\ Length(w) \in Nat /\ Length(w) <= Alloc
        /\ Minus(s, base) \in Nat /\ o \in Nat
    BY WInvFacts, SqnArith DEF Sqn
  <2>2. /\ Minus(s, w.lead) = Minus(s, base) + 1 - (o + Length(w))
        /\ Minus(s, w.trail) = Minus(s, base) - o
        /\ Minus(s, w.lead) \in Nat
    BY <1>2, AfterLead
  <2> HIDE DEF o
  <2>3. CASE ~limited
    <3>1. n = Minus(s, w.lead)
      BY <2>3
    <3> QED
      <4> HIDE DEF n, limited
      <4>1. n \in Nat /\ o + Length(w) + n <= m
        BY <2>1, <2>2, <3>1
      <4> QED
        BY <1>2, <4>1, AddPlaceholdersWithin DEF UpdateLead, n, limited, o
  <2>4. CASE limited
    <3>1. n = Minus(Plus(w.trail, Alloc - 1), w.lead)
      BY <2>4
    <3>2. Length(w) = Minus(Plus(w.lead, 1), w.trail)
      BY DEF Length, NextLead
    <3>3. Minus(Plus(w.trail, Alloc - 1), w.lead) = Alloc - Length(w)
      BY <2>1, <3>2, AllocAssumption, SignBitAssumption DEF Plus, Minus, Sqn, SqnMod
    <3>4. Minus(s, base) - o >= Alloc
      BY <2>2, <2>4
    <3> HIDE DEF n, limited
    <3>5. n \in Nat /\ o + Length(w) + n <= m
      BY <2>1, <3>1, <3>3, <3>4, AllocAssumption
    <3> QED
      BY <1>2, <3>5, AddPlaceholdersWithin DEF UpdateLead, n, limited, o
  <2> QED
    BY <2>3, <2>4
<1> QED
  BY <1>1, <1>2

\* _pgm_rxw_add_placeholder_range before a number of the arc; when it fails it
\* leaves a full window with committed data.
LEMMA AddPlaceholderRangeWithin ==
    ASSUME SqnMod % Alloc = 0, NEW base \in Sqn, NEW m \in Nat, m < SignBit,
           NEW w, WInv(w), Within(w, base, m), NEW s \in Sqn, Minus(s, base) < m,
           ~Lte(s, w.lead)
    PROVE  LET r == AddPlaceholderRange(w, s) IN
           /\ Within(r.window, base, m)
           /\ r.status # "APPENDED" => IsFull(r.window) /\ ~CommitIsEmpty(r.window)
<1> DEFINE o == Minus(w.trail, base)
           r == AddPlaceholderRange(w, s)
<1>1. /\ w \in Window /\ w.trail \in Sqn /\ w.lead \in Sqn /\ w.commit_lead \in Sqn
      /\ Length(w) \in Nat /\ Length(w) <= Alloc
      /\ Minus(s, base) \in Nat /\ o \in Nat
  BY WInvFacts, SqnArith DEF Sqn
<1>2. /\ Minus(s, w.lead) = Minus(s, base) + 1 - (o + Length(w))
      /\ Minus(s, NextLead(w)) = Minus(s, w.lead) - 1
      /\ Minus(s, w.trail) = Minus(s, base) - o
      /\ Minus(s, w.lead) \in Nat \ {0}
  BY AfterLead
<1>3. CASE ~CommitIsEmpty(w) /\ Minus(Plus(1, s), w.trail) >= Alloc
  <2>1. r = Result(UpdateLead(w, s), "BOUNDS")
    BY <1>3 DEF AddPlaceholderRange
  <2> DEFINE limited == ~CommitIsEmpty(w) /\ Minus(s, w.trail) >= Alloc
             lead    == IF limited THEN Plus(w.trail, Alloc - 1) ELSE s
             n       == Minus(lead, w.lead)
             v       == AddPlaceholders(w, n, Alloc)
  <2>2. UpdateLead(w, s) = v
    BY DEF UpdateLead
  <2>3. lead = Plus(w.trail, Alloc - 1)
    <3>1. CASE limited
      BY <3>1
    <3>2. CASE ~limited
      <4>1. Minus(s, w.trail) < Alloc
        BY <1>1, <1>3, <3>2, AllocAssumption, SqnArith
      <4>2. Minus(s, w.trail) = Alloc - 1
        BY <1>1, <1>3, <4>1, AllocAssumption, SignBitAssumption DEF Plus, Minus, Sqn, SqnMod
      <4>3. s = Plus(w.trail, Alloc - 1)
        BY <1>1, <4>2, AllocAssumption, SignBitAssumption DEF Plus, Minus, Sqn, SqnMod
      <4> QED
        BY <3>2, <4>3
    <3> QED
      BY <3>1, <3>2
  <2>4. n = Alloc - Length(w)
    <3>1. Length(w) = Minus(Plus(w.lead, 1), w.trail)
      BY DEF Length, NextLead
    <3> QED
      BY <1>1, <2>3, <3>1, AllocAssumption, SignBitAssumption DEF Plus, Minus, Sqn, SqnMod
  <2> HIDE DEF n
  <2>5. /\ v.trail = Plus(w.trail, 0) /\ v.lead = Plus(w.lead, n)
        /\ v.commit_lead = w.commit_lead
    BY <1>1, <1>3, <2>4, AllocAssumption DEF AddPlaceholders, RemoveTrail, Window
  <2>6. v.trail = w.trail
    BY <1>1, <2>5, SignBitAssumption DEF Plus, Sqn, SqnMod
  <2>7. n \in Nat
    BY <1>1, <2>4, AllocAssumption
  <2>8. o + Length(w) + n <= m /\ 0 <= Length(w) + n
    <3>1. Minus(Plus(1, s), w.trail) <= Minus(s, w.trail) + 1
      BY <1>1, SignBitAssumption DEF Plus, Minus, Sqn, SqnMod
    <3>2. Minus(s, w.trail) + 1 >= Alloc
      <4>1. Plus(1, s) \in Sqn
        BY SignBitAssumption DEF Plus, Sqn, SqnMod
      <4>2. Minus(Plus(1, s), w.trail) \in Nat /\ Minus(s, w.trail) \in Nat
        BY <1>1, <4>1, SqnArith
      <4> QED
        BY <1>3, <3>1, <4>2, AllocAssumption
    <3> QED
      BY <1>1, <1>2, <2>4, <2>7, <3>2, AllocAssumption
  <2> HIDE DEF v
  <2>9. Within(v, base, m) /\ Length(v) = Length(w) + n - 0
    BY <1>1, <2>5, <2>7, <2>8, ShiftWithin
  <2>10. IsFull(v) /\ ~CommitIsEmpty(v)
    BY <1>1, <1>3, <2>4, <2>5, <2>6, <2>9, AllocAssumption
    DEF IsFull, CommitIsEmpty, CommitLength
  <2> QED
    BY <2>1, <2>2, <2>9, <2>10 DEF Result
<1>4. CASE ~(~CommitIsEmpty(w) /\ Minus(Plus(1, s), w.trail) >= Alloc)
  <2> DEFINE n == Minus(s, NextLead(w))
  <2>1. r = Result(AddPlaceholders(w, n, Alloc - 1), "APPENDED")
    BY <1>4 DEF AddPlaceholderRange
  <2> HIDE DEF n, o
  <2>2. n \in Nat /\ o + Length(w) + n <= m
    BY <1>1, <1>2 DEF n
  <2>3. Within(AddPlaceholders(w, n, Alloc - 1), base, m)
    BY <2>2, AddPlaceholdersWithin DEF o
  <2> QED
    BY <2>1, <2>3 DEF Result
<1> QED
  BY <1>3, <1>4

\* What only touches slots, counters and flags moves no edge.
LEMMA KeepsEdges ==
    ASSUME NEW w \in Window, NEW s \in Sqn
    PROVE  /\ \A where : Abort(w, where).trail = w.trail /\ Abort(w, where).lead = w.lead
           /\ \A S : MarkLost(w, S).trail = w.trail /\ MarkLost(w, S).lead = w.lead
           /\ Lost(w, s).trail = w.trail /\ Lost(w, s).lead = w.lead
           /\ \A st : SetState(w, s, st).trail = w.trail /\ SetState(w, s, st).lead = w.lead
           /\ \A p : Insert(w, p).window.trail = w.trail
           /\ \A p : Insert(w, p).window.lead = w.lead
           /\ ReadApdu(w).trail = w.trail /\ ReadApdu(w).lead = w.lead
<1>1. \A where : Abort(w, where).trail = w.trail /\ Abort(w, where).lead = w.lead
  BY DEF Abort, Window
<1>2. \A S : MarkLost(w, S).trail = w.trail /\ MarkLost(w, S).lead = w.lead
  BY DEF MarkLost, Window
<1>3. \A x : Lost(w, x).trail = w.trail /\ Lost(w, x).lead = w.lead
  BY <1>1, <1>2 DEF Lost
<1>4. \A st : SetState(w, s, st).trail = w.trail /\ SetState(w, s, st).lead = w.lead
  BY DEF SetState, Window
<1>5. \A p : Store(w, p).trail = w.trail /\ Store(w, p).lead = w.lead
  BY DEF Store, Window
<1>6. ASSUME NEW p
      PROVE  Insert(w, p).window.trail = w.trail /\ Insert(w, p).window.lead = w.lead
  <2>1. \A n : [Store(w, p) EXCEPT !.lost_count = n].trail = Store(w, p).trail
               /\ [Store(w, p) EXCEPT !.lost_count = n].lead = Store(w, p).lead
    BY DEF Store, Window
  <2> QED
    BY <1>1, <1>3, <1>5, <2>1 DEF Insert, Result
<1>7. ReadApdu(w).trail = w.trail /\ ReadApdu(w).lead = w.lead
  BY <1>1 DEF ReadApdu, Window
<1> QED
  BY <1>1, <1>2, <1>3, <1>4, <1>6, <1>7

\* Adding the packet after lead, when it is of the arc.
LEMMA NextWithin ==
    ASSUME SqnMod % Alloc = 0, NEW base \in Sqn, NEW m \in Nat, m < SignBit,
           NEW w, WInv(w), Within(w, base, m), Minus(NextLead(w), base) < m,
           ~IsFull(w) \/ CommitIsEmpty(w),
           NEW v, LET w1 == IF IsFull(w) THEN RemoveTrail(w, 1) ELSE w
                  IN  v.trail = w1.trail /\ v.lead = Plus(w1.lead, 1)
    PROVE  Within(v, base, m)
<1> DEFINE d == IF IsFull(w) THEN 1 ELSE 0
<1>1. /\ w.trail \in Sqn /\ w.lead \in Sqn /\ Length(w) \in Nat /\ d \in Nat
      /\ w \in Window
  BY WInvFacts DEF Sqn
<1>2. Minus(w.trail, base) + Length(w) + 1 <= m
  <2>1. Minus(NextLead(w), base) = Minus(w.trail, base) + Length(w)
        /\ Minus(w.trail, base) \in Nat
    BY EndWithin
  <2> QED
    BY <1>1, <2>1
<1>3. v.trail = Plus(w.trail, d) /\ v.lead = Plus(w.lead, 1)
  <2>1. RemoveTrail(w, 1).trail = Plus(w.trail, 1) /\ RemoveTrail(w, 1).lead = w.lead
    BY <1>1 DEF RemoveTrail, Window
  <2>2. w.trail = Plus(w.trail, 0)
    BY <1>1, SignBitAssumption DEF Plus, Sqn, SqnMod
  <2> QED
    BY <2>1, <2>2
<1>4. d <= Length(w) + 1
  BY <1>1
<1> HIDE DEF d
<1> QED
  BY <1>1, <1>2, <1>3, <1>4, ShiftWithin

\* _pgm_rxw_append and _pgm_rxw_recovery_append of a number of the arc.
LEMMA AppendWithin ==
    ASSUME SqnMod % Alloc = 0, NEW base \in Sqn, NEW m \in Nat, m < SignBit,
           NEW w, WInv(w), Within(w, base, m), Minus(NextLead(w), base) < m
    PROVE  /\ \A p : Within(AppendTpdu(w, p).window, base, m)
           /\ Within(RecoveryAppend(w).window, base, m)
<1>1. CASE IsFull(w) /\ ~CommitIsEmpty(w)
  BY <1>1 DEF AppendTpdu, RecoveryAppend, Result
<1>2. CASE ~(IsFull(w) /\ ~CommitIsEmpty(w))
  <2> DEFINE w1 == IF IsFull(w) THEN RemoveTrail(w, 1) ELSE w
  <2>1. w1 \in Window
    BY <1>2, MakeRoomInv DEF WInv
  <2>2. ASSUME NEW p
        PROVE  LET v == AppendTpdu(w, p).window IN
               v.trail = w1.trail /\ v.lead = Plus(w1.lead, 1)
    <3> DEFINE w2 == [w1 EXCEPT !.lead = Plus(@, 1)]
    <3>1. AppendTpdu(w, p).window =
            IF IsApduLost(w2, p)
            THEN [w2 EXCEPT
                   !.pdata = [@ EXCEPT ![Idx(p.sqn)] = Placeholder(p.sqn, "LOST_DATA")],
                   !.lost_count = @ + 1,
                   !.cumulative_losses = Losses(w2, 1),
                   !.has_event = TRUE]
            ELSE Store(w2, p)
      BY <1>2 DEF AppendTpdu, Result
    <3> HIDE DEF w1
    <3> QED
      BY <2>1, <3>1 DEF Store, Window
  <2>3. LET v == RecoveryAppend(w).window IN
        v.trail = w1.trail /\ v.lead = Plus(w1.lead, 1)
    <3>1. RecoveryAppend(w).window =
            [w1 EXCEPT !.lead = Plus(w1.lead, 1),
                       !.pdata = [@ EXCEPT ![Idx(Plus(w1.lead, 1))] =
                                     Placeholder(Plus(w1.lead, 1), "WAIT_DATA")]]
      BY <1>2 DEF RecoveryAppend, Result
    <3> HIDE DEF w1
    <3> QED
      BY <2>1, <3>1 DEF Window
  <2> QED
    BY <1>2, <2>2, <2>3, NextWithin
<1> QED
  BY <1>1, <1>2

\* _pgm_rxw_update_trail to a trail of the arc.
LEMMA UpdateTrailWithin ==
    ASSUME NEW base \in Sqn, NEW m \in Nat, m < SignBit,
           NEW w, WInv(w), Within(w, base, m), NEW t \in Sqn, Minus(t, base) <= m
    PROVE  Within(UpdateTrail(w, t), base, m)
<1> DEFINE moved == [w EXCEPT !.is_constrained = FALSE, !.rxw_trail = t]
           dist  == Minus(t, w.trail)
           empty == [moved EXCEPT !.trail = t, !.commit_lead = t,
                                  !.lead = Plus(@, dist),
                                  !.cumulative_losses = Losses(w, dist)]
           S     == {s \in Incoming(w) : Gt(t, s) /\ StateAt(w, s) \in Recovering}
<1>1. w \in Window /\ w.trail \in Sqn /\ w.lead \in Sqn /\ Length(w) \in Nat
  BY WInvFacts DEF Sqn
<1>2. moved \in Window /\ moved.trail = w.trail /\ moved.lead = w.lead
  BY <1>1 DEF Window
<1>3. \/ UpdateTrail(w, t) \in {w, moved, MarkLost(moved, S)}
      \/ IsEmpty(w) /\ UpdateTrail(w, t) = empty
  <2> DEFINE refused == \/ Lte(t, w.rxw_trail)
                        \/ Minus(t, w.rxw_trail) > FarJump
                        \/ w.is_constrained /\ ~Gt(t, w.rxw_trail_init)
  <2>1. UpdateTrail(w, t) = IF refused THEN w
                            ELSE IF Lte(t, w.trail) THEN moved
                            ELSE IF IsEmpty(w) THEN empty ELSE MarkLost(moved, S)
    BY DEF UpdateTrail
  <2> HIDE DEF moved, empty, S, refused
  <2> QED
    BY <2>1
<1>4. empty.trail = t /\ empty.lead = Plus(w.lead, dist)
  BY <1>1 DEF Window
<1> HIDE DEF moved, empty, S
<1>5. MarkLost(moved, S).trail = w.trail /\ MarkLost(moved, S).lead = w.lead
  BY <1>2, KeepsEdges
<1>6. CASE UpdateTrail(w, t) \in {w, moved, MarkLost(moved, S)}
  BY <1>2, <1>5, <1>6, StayWithin
<1>7. CASE IsEmpty(w) /\ UpdateTrail(w, t) = empty
  <2>1. Plus(w.lead, 1) = w.trail
    BY <1>1, <1>7, SignBitAssumption
    DEF IsEmpty, Length, NextLead, Plus, Minus, Sqn, SqnMod
  <2>2. Plus(Plus(w.lead, dist), 1) = t
    BY <1>1, <2>1, SignBitAssumption DEF Plus, Minus, Sqn, SqnMod
  <2>3. Length(empty) = 0
    BY <1>4, <2>2 DEF Length, NextLead, Minus, Sqn
  <2>4. Minus(t, base) \in Nat
    BY SqnArith
  <2> QED
    BY <1>4, <1>7, <2>3, <2>4 DEF Within
<1> QED
  BY <1>3, <1>6, <1>7

\* _pgm_rxw_define just before a number of the arc, or at its last one.
LEMMA DefineWithin ==
    ASSUME NEW base \in Sqn, NEW m \in Nat, m < SignBit,
           NEW w, WInv(w), NEW lead \in Sqn, Minus(Plus(lead, 1), base) <= m
    PROVE  Within(Define(w, lead), base, m)
<1> DEFINE v == Define(w, lead)
<1>1. v.lead = lead /\ v.trail = Plus(lead, 1)
  BY WInvFacts DEF Define, Window
<1> HIDE DEF v
<1>2. Plus(lead, 1) \in Sqn /\ Minus(Plus(lead, 1), base) \in Nat
  <2>1. Plus(lead, 1) \in Sqn
    BY SignBitAssumption DEF Plus, Sqn, SqnMod
  <2> QED
    BY <2>1, SqnArith
<1>3. Length(v) = 0
  BY <1>1, <1>2 DEF Length, NextLead, Minus, Sqn
<1> QED
  BY <1>1, <1>2, <1>3 DEF Within, v

\* pgm_rxw_add of a packet of the arc.
LEMMA AddWithin ==
    ASSUME SqnMod % Alloc = 0, NEW base \in Sqn, NEW m \in Nat, m < SignBit,
           NEW w, WInv(w), w.is_defined => Within(w, base, m),
           NEW p \in Tpdu, Minus(p.sqn, base) < m, NEW t \in Sqn, Minus(t, base) <= m
    PROVE  \/ Add(w, p, t).window = w
           \/ Within(Add(w, p, t).window, base, m)
<1> DEFINE u     == IF w.is_defined THEN UpdateTrail(w, t) ELSE Define(w, Minus(p.sqn, 1))
           event == [u EXCEPT !.has_event = TRUE]
           range == AddPlaceholderRange(u, p.sqn)
           added == AppendTpdu(range.window, p)
           v     == Add(w, p, t).window
<1>1. p.sqn \in Sqn /\ Minus(p.sqn, 1) \in Sqn /\ Plus(Minus(p.sqn, 1), 1) = p.sqn
  BY SignBitAssumption DEF Tpdu, Plus, Minus, Sqn, SqnMod
<1>2. CASE \/ Minus(p.sqn, t) >= FarJump
           \/ p.len > 1 /\ Gt(p.first, p.sqn)
  BY <1>2 DEF Add, Result
<1>3. CASE ~(Minus(p.sqn, t) >= FarJump) /\ ~(p.len > 1 /\ Gt(p.first, p.sqn))
  <2>1. WInv(u) /\ Within(u, base, m)
    <3>1. CASE w.is_defined
      BY <3>1, UpdateTrailInv, UpdateTrailWithin
    <3>2. CASE ~w.is_defined
      <4>1. Minus(Plus(Minus(p.sqn, 1), 1), base) <= m
        <5>1. Minus(p.sqn, base) \in Nat
          BY <1>1, SqnArith
        <5> QED
          BY <1>1, <5>1
      <4> QED
        BY <1>1, <3>2, <4>1, DefineInv, DefineWithin
    <3> QED
      BY <3>1, <3>2
  <2>2. Add(w, p, t) =
          IF Lt(p.sqn, u.commit_lead)
          THEN Result(u, IF Gte(p.sqn, u.trail) THEN "DUPLICATE" ELSE "BOUNDS")
          ELSE IF Lte(p.sqn, u.lead) THEN Insert(event, p)
          ELSE IF p.sqn = NextLead(u) THEN AppendTpdu(event, p)
          ELSE IF range.status # "APPENDED" THEN range
          ELSE IF added.status = "APPENDED" THEN Result(added.window, "MISSING")
          ELSE added
    BY <1>3 DEF Add
  <2> HIDE DEF u
  <2>3. event.trail = u.trail /\ event.lead = u.lead /\ event \in Window /\ WInv(event)
    BY <2>1, EventInv DEF WInv
  <2> HIDE DEF event
  <2>4. Within(event, base, m)
    BY <2>1, <2>3, StayWithin
  <2>5. CASE Lt(p.sqn, u.commit_lead)
    BY <2>1, <2>2, <2>5 DEF Result
  <2>6. CASE ~Lt(p.sqn, u.commit_lead) /\ Lte(p.sqn, u.lead)
    <3>1. v = Insert(event, p).window
      BY <2>2, <2>6
    <3> HIDE DEF v
    <3>2. v.trail = event.trail /\ v.lead = event.lead
      BY <1>1, <2>3, <3>1, KeepsEdges
    <3> QED
      BY <2>4, <3>2, StayWithin DEF v
  <2>7. CASE /\ ~Lt(p.sqn, u.commit_lead) /\ ~Lte(p.sqn, u.lead)
             /\ p.sqn = NextLead(u)
    <3>1. v = AppendTpdu(event, p).window
      BY <2>2, <2>7
    <3>2. NextLead(event) = p.sqn
      BY <2>3, <2>7 DEF NextLead
    <3> QED
      BY <2>3, <2>4, <3>1, <3>2, AppendWithin
  <2>8. CASE /\ ~Lt(p.sqn, u.commit_lead) /\ ~Lte(p.sqn, u.lead)
             /\ p.sqn # NextLead(u)
    <3>1. Within(range.window, base, m)
      BY <1>1, <2>1, <2>8, AddPlaceholderRangeWithin
    <3>2. WInv(range.window) /\ (range.status = "APPENDED" => NextLead(range.window) = p.sqn)
      BY <1>1, <2>1, <2>8, AddPlaceholderRangeInv
    <3>3. v = IF range.status # "APPENDED" THEN range.window ELSE added.window
      BY <2>2, <2>8 DEF Result
    <3> HIDE DEF range, v
    <3>4. range.status = "APPENDED" => Within(added.window, base, m)
      BY <3>1, <3>2, AppendWithin
    <3> QED
      BY <3>1, <3>3, <3>4 DEF v
  <2> QED
    BY <2>5, <2>6, <2>7, <2>8
<1> QED
  BY <1>2, <1>3

\* pgm_rxw_update to edges of the arc.
LEMMA UpdateWithin ==
    ASSUME NEW base \in Sqn, NEW m \in Nat, m < SignBit,
           NEW w, WInv(w), w.is_defined => Within(w, base, m),
           NEW lead \in Sqn, Minus(lead, base) < m,
           NEW trail \in Sqn, Minus(trail, base) <= m
    PROVE  Within(Update(w, lead, trail), base, m)
<1>1. CASE w.is_defined
  BY <1>1, UpdateTrailInv, UpdateTrailWithin, UpdateLeadWithin DEF Update
<1>2. CASE ~w.is_defined
  <2>1. Minus(Plus(lead, 1), base) <= m
    BY SignBitAssumption DEF Plus, Minus, Sqn, SqnMod
  <2> QED
    BY <1>2, <2>1, DefineWithin DEF Update
<1> QED
  BY <1>1, <1>2

\* pgm_rxw_confirm of a number of the arc.
LEMMA ConfirmWithin ==
    ASSUME SqnMod % Alloc = 0, NEW base \in Sqn, NEW m \in Nat, m < SignBit,
           NEW w, WInv(w), w.is_defined => Within(w, base, m),
           NEW s \in Sqn, Minus(s, base) < m
    PROVE  \/ Confirm(w, s).window = w
           \/ Within(Confirm(w, s).window, base, m)
<1>1. CASE ~w.is_defined \/ Lt(s, w.commit_lead)
  BY <1>1 DEF Confirm, Result
<1>2. CASE w.is_defined /\ ~Lt(s, w.commit_lead) /\ Lte(s, w.lead)
  <2> DEFINE v == Confirm(w, s).window
  <2>1. v \in {Abort(w, "confirm"), SetState(w, s, "WAIT_DATA"), w}
    BY <1>2 DEF Confirm, RecoveryUpdate, Result
  <2>2. w \in Window
    BY DEF WInv
  <2> HIDE DEF v
  <2>3. v.trail = w.trail /\ v.lead = w.lead
    BY <2>1, <2>2, KeepsEdges
  <2> QED
    BY <1>2, <2>3, StayWithin DEF v
<1>3. CASE w.is_defined /\ ~Lt(s, w.commit_lead) /\ ~Lte(s, w.lead)
  <2> DEFINE r == AddPlaceholderRange(w, s)
             u == r.window
  <2>1. Confirm(w, s) = RecoveryAppend(u)
    BY <1>3 DEF Confirm
  <2>2. /\ Within(u, base, m)
        /\ r.status # "APPENDED" => IsFull(u) /\ ~CommitIsEmpty(u)
    BY <1>3, AddPlaceholderRangeWithin
  <2>3. WInv(u) /\ (r.status = "APPENDED" => NextLead(u) = s)
    BY <1>3, AddPlaceholderRangeInv
  <2> HIDE DEF r, u
  <2>4. CASE r.status = "APPENDED"
    BY <2>1, <2>2, <2>3, <2>4, AppendWithin
  <2>5. CASE r.status # "APPENDED"
    BY <2>1, <2>2, <2>5 DEF RecoveryAppend, Result
  <2> QED
    BY <2>4, <2>5
<1> QED
  BY <1>1, <1>2, <1>3

\* pgm_rxw_remove_commit and pgm_rxw_readv.
LEMMA ReadWithin ==
    ASSUME SqnMod % Alloc = 0, NEW base \in Sqn, NEW m \in Nat, m < SignBit,
           NEW w, Sound(w), Within(w, base, m)
    PROVE  Within(RemoveCommit(w), base, m) /\ Within(Readv(w), base, m)
<1>1. /\ w \in Window /\ WInv(w) /\ Length(w) \in Nat /\ CommitLength(w) \in Nat
      /\ CommitLength(w) <= Length(w)
  BY WInvFacts DEF Sound, Sqn
<1>2. Within(RemoveCommit(w), base, m)
  BY <1>1, RemoveTrailWithin DEF RemoveCommit
<1>3. Within(Readv(w), base, m)
  <2> DEFINE head == Peek(w, w.commit_lead)
             v    == Readv(w)
  <2>1. CASE IncomingIsEmpty(w)
    BY <2>1 DEF Readv
  <2>2. CASE ~IncomingIsEmpty(w)
    <3>1. CommitLength(w) < Length(w) /\ head.first \in Sqn
      BY <2>2, HeadFacts
    <3>2. \/ v \in {w, ReadApdu(w), Lost(w, head.first), Abort(w, "readv")}
          \/ v = RemoveTrail(w, 1) /\ CommitIsEmpty(w)
      BY <2>2 DEF Readv
    <3>3. /\ ReadApdu(w).trail = w.trail /\ ReadApdu(w).lead = w.lead
          /\ Lost(w, head.first).trail = w.trail /\ Lost(w, head.first).lead = w.lead
          /\ Abort(w, "readv").trail = w.trail /\ Abort(w, "readv").lead = w.lead
      BY <1>1, <3>1, KeepsEdges
    <3>4. CommitIsEmpty(w) => Within(RemoveTrail(w, 1), base, m)
      BY <1>1, <3>1, RemoveTrailWithin
    <3> HIDE DEF v, head
    <3> QED
      BY <3>2, <3>3, <3>4, StayWithin DEF v
  <2> QED
    BY <2>1, <2>2
<1> QED
  BY <1>2, <1>3

=============================================================================
