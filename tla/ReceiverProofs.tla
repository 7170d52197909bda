--------------------------- MODULE ReceiverProofs ---------------------------
(***************************************************************************)
(* Theorems about pgm_recvmsgv and the pending peers, for any number of    *)
(* peers, any length of the application's vector and every window size     *)
(* that divides the sequence space.                                        *)
(*                                                                         *)
(* The inductive invariant (IInv) is about the socket as the functions of  *)
(* recv.c see it (Good): every peer's window is sound, what was handed     *)
(* over is still committed and its peer not yet due for release (Held),    *)
(* the peers a loss notice stands for are pending (Named), and whatever    *)
(* can be read is noticed (Noticed).  Within a call, moreover, a noticed   *)
(* loss has raised the notice (Raised): that is why a flush takes no such  *)
(* peer off the list.  Each function takes a good socket to a good socket. *)
(* The two loops of a flush are folds: ReadTurns and FlushTurns say what   *)
(* their turns are.                                                        *)
(***************************************************************************)
EXTENDS Receiver, RxwLemmas, SequenceTheorems

-----------------------------------------------------------------------------
(***************************************************************************)
(* What can be read.                                                       *)
(***************************************************************************)

\* A scan for a complete APDU that ends within its first K packets is decided by them.
LEMMA ScanAgrees ==
    ASSUME NEW w, NEW v, NEW c, NEW K \in Nat, K <= Alloc,
           \A k \in 0 .. K : ApduCheck(v, c, k) = ApduCheck(w, c, k),
           \E k \in 0 .. K : ApduCheck(w, c, k) # "more"
    PROVE  IsApduComplete(v, c) = IsApduComplete(w, c)
<1> DEFINE Ends(u)  == {k \in 0 .. Alloc : ApduCheck(u, c, k) # "more"}
           First(u) == CHOOSE k \in Ends(u) : \A j \in Ends(u) : k <= j
<1>1. PICK e \in 0 .. K : ApduCheck(w, c, e) # "more"
  OBVIOUS
<1>2. e \in Ends(w) /\ e \in Ends(v)
  BY <1>1, AllocAssumption
<1>3. \A u \in {w, v} : First(u) \in Ends(u) /\ \A j \in Ends(u) : First(u) <= j
  <2> SUFFICES ASSUME NEW u \in {w, v}
               PROVE  First(u) \in Ends(u) /\ \A j \in Ends(u) : First(u) <= j
    OBVIOUS
  <2>1. Ends(u) \in SUBSET Nat /\ Ends(u) # {}
    BY <1>2
  <2> HIDE DEF Ends
  <2>2. \E k \in Ends(u) : \A j \in Ends(u) : k <= j
    BY <2>1, Least
  <2> QED
    BY <2>2
<1>4. \A u \in {w, v} : IsApduComplete(u, c) = ApduCheck(u, c, First(u))
  BY DEF IsApduComplete
<1>5. \A k \in 0 .. K : k \in Ends(w) <=> k \in Ends(v)
  BY AllocAssumption
<1>6. Ends(w) \in SUBSET Nat /\ Ends(v) \in SUBSET Nat
  OBVIOUS
<1> HIDE DEF Ends, First
<1>7. First(w) <= e /\ First(v) <= e /\ First(w) \in Nat /\ First(v) \in Nat
  BY <1>2, <1>3, <1>6
<1>8. First(w) \in 0 .. K /\ First(v) \in 0 .. K
  BY <1>7
<1>9. First(w) = First(v)
  <2>1. First(w) \in Ends(v) /\ First(v) \in Ends(w)
    BY <1>3, <1>5, <1>8
  <2>2. First(v) <= First(w) /\ First(w) <= First(v)
    BY <1>3, <2>1
  <2> QED
    BY <1>7, <2>2
<1> QED
  BY <1>4, <1>8, <1>9

\* The k-th packet of an APDU is looked at alike in two windows that agree on its skb
\* and on whether it is in the window.
LEMMA CheckAgrees ==
    ASSUME NEW w, NEW v, NEW c, NEW k, Peek(v, c) = Peek(w, c),
           InWindow(v, Plus(c, k)) <=> InWindow(w, Plus(c, k)),
           Peek(v, Plus(c, k)) = Peek(w, Plus(c, k))
    PROVE  ApduCheck(v, c, k) = ApduCheck(w, c, k)
BY DEF ApduCheck

\* A window readable after a change of slots that did not hold data before and do not
\* hold any after was readable before.
LEMMA SameReadable ==
    ASSUME NEW w, Sound(w), NEW v, Sound(v), v.trail = w.trail, v.lead = w.lead,
           v.commit_lead = w.commit_lead,
           \A i \in Slot : \/ v.pdata[i] = w.pdata[i]
                           \/ /\ v.pdata[i].state # "HAVE_DATA"
                              /\ w.pdata[i].state # "HAVE_DATA",
           Readable(v)
    PROVE  Readable(w)
<1> DEFINE c == w.commit_lead
<1>1. /\ ~IncomingIsEmpty(v) /\ Peek(v, c).state = "HAVE_DATA"
      /\ IsApduComplete(v, Peek(v, c).first) = "complete"
  BY DEF Readable, StateAt
<1>2. Peek(v, c).first = c /\ CommitLength(v) < Length(v)
  BY <1>1, CompleteFromHead, HeadFacts
<1>3. /\ WInv(v) /\ WInv(w) /\ c \in Sqn /\ Length(v) \in Sqn /\ Length(v) <= Alloc
      /\ CommitLength(v) \in Sqn
  BY WInvFacts DEF Sound
<1>4. Idx(c) \in Slot
  BY <1>3, IdxType
<1>5. Peek(v, c) = Peek(w, c)
  BY <1>1, <1>4 DEF Peek
<1>6. \A s : InWindow(v, s) <=> InWindow(w, s)
  BY DEF InWindow, IsEmpty, Length, NextLead
<1>7. \A k \in 0 .. Alloc : ApduCheck(v, c, k) = ApduCheck(w, c, k)
  <2> SUFFICES ASSUME NEW k \in 0 .. Alloc
               PROVE  ApduCheck(v, c, k) = ApduCheck(w, c, k)
    OBVIOUS
  <2>1. Plus(c, k) \in Sqn
    BY <1>3, AllocAssumption, SignBitAssumption DEF Plus, Sqn, SqnMod
  <2>2. Idx(Plus(c, k)) \in Slot
    BY <2>1, IdxType
  <2>3. CASE Peek(v, Plus(c, k)) = Peek(w, Plus(c, k))
    BY <1>5, <1>6, <2>3, CheckAgrees
  <2>4. CASE Peek(v, Plus(c, k)) # Peek(w, Plus(c, k))
    <3>1. /\ Peek(v, Plus(c, k)).state # "HAVE_DATA"
          /\ Peek(w, Plus(c, k)).state # "HAVE_DATA"
      BY <2>2, <2>4 DEF Peek
    <3> QED
      BY <3>1 DEF ApduCheck
  <2> QED
    BY <2>3, <2>4
<1>8. \E k \in 0 .. Alloc : ApduCheck(w, c, k) # "more"
  <2>1. ASSUME ApduCheck(v, c, Alloc) = "more" PROVE FALSE
    <3>1. InWindow(v, Plus(c, Alloc))
      BY <2>1 DEF ApduCheck
    <3>2. CommitLength(v) + Alloc < Length(v)
      BY <1>2, <3>1, AllocAssumption, AheadInWindow
    <3> QED
      BY <1>3, <3>2, AllocAssumption DEF Sqn
  <2> QED
    BY <1>7, <2>1, AllocAssumption
<1>9. IsApduComplete(v, c) = IsApduComplete(w, c)
  BY <1>7, <1>8, ScanAgrees, AllocAssumption
<1>10. ~IncomingIsEmpty(w)
  BY <1>1 DEF IncomingIsEmpty, IncomingLength, NextLead
<1> QED
  BY <1>1, <1>2, <1>5, <1>9, <1>10 DEF Readable, StateAt

\* A number less than the window's length from its trail is in the window.
LEMMA LengthInWindow ==
    ASSUME NEW w, WInv(w), NEW s \in Sqn, Minus(s, w.trail) < Length(w)
    PROVE  InWindow(w, s)
<1>1. w.lead \in Sqn /\ w.trail \in Sqn /\ Length(w) \in Sqn /\ Length(w) <= Alloc
  BY WInvFacts
<1> QED
  BY <1>1, AllocAssumption, SignBitAssumption
  DEF InWindow, IsEmpty, Length, NextLead, Gte, Lte, Plus, Minus, Sqn, SqnMod

\* A window readable after it grew by a packet without data, and whatever follows it,
\* was readable before.
LEMMA GrownReadable ==
    ASSUME NEW w, Sound(w), NEW v, Sound(v), v.trail = w.trail,
           v.commit_lead = w.commit_lead, Length(w) < Length(v),
           \A s \in Sqn : Minus(s, w.trail) < Length(w) => Peek(v, s) = Peek(w, s),
           StateAt(v, NextLead(w)) # "HAVE_DATA",
           Readable(v)
    PROVE  Readable(w)
<1> DEFINE c == w.commit_lead
           C == CommitLength(w)
           K == Length(w) - C
<1>1. /\ ~IncomingIsEmpty(v) /\ Peek(v, c).state = "HAVE_DATA"
      /\ IsApduComplete(v, Peek(v, c).first) = "complete"
  BY DEF Readable, StateAt
<1>2. Peek(v, c).first = c
  BY <1>1, CompleteFromHead
<1>3. /\ WInv(v) /\ WInv(w) /\ c \in Sqn /\ Length(v) \in Sqn /\ Length(v) <= Alloc
      /\ Length(w) \in Sqn /\ Length(w) <= Alloc /\ C \in Sqn
      /\ w.trail \in Sqn /\ w.lead \in Sqn
  BY WInvFacts DEF Sound
<1>4. ~IncomingIsEmpty(w)
  <2> SUFFICES ASSUME IncomingIsEmpty(w) PROVE FALSE
    OBVIOUS
  <2>1. NextLead(w) = c
    BY <1>3, SignBitAssumption DEF IncomingIsEmpty, IncomingLength, NextLead, Plus, Minus, Sqn, SqnMod
  <2> QED
    BY <1>1, <2>1 DEF StateAt
<1>5. C < Length(w)
  BY <1>4, HeadFacts
<1>6. K \in Nat /\ K > 0 /\ K <= Alloc /\ C + K = Length(w) /\ C \in Nat
  <2> HIDE DEF C
  <2> QED
    BY <1>3, <1>5, AllocAssumption DEF Sqn
<1>7. C = Minus(c, w.trail) /\ Length(w) = Minus(Plus(w.lead, 1), w.trail)
  BY DEF CommitLength, Length, NextLead
<1>8. Peek(v, c) = Peek(w, c)
  BY <1>3, <1>5, <1>7
<1> HIDE DEF C, K, c
<1>9. Plus(c, K) = NextLead(w)
  BY <1>3, <1>6, <1>7, AllocAssumption, SignBitAssumption
  DEF NextLead, Plus, Minus, Sqn, SqnMod
<1>10. \A k \in Nat : k < K => /\ Plus(c, k) \in Sqn
                               /\ Minus(Plus(c, k), w.trail) = C + k
                               /\ C + k < Length(w)
  BY <1>3, <1>6, <1>7, AllocAssumption, SignBitAssumption DEF Plus, Minus, Sqn, SqnMod
<1>11. ASSUME NEW k \in Nat, k < K
       PROVE  ApduCheck(v, c, k) = ApduCheck(w, c, k)
  <2> DEFINE x == Plus(c, k)
  <2>1. x \in Sqn /\ Minus(x, w.trail) < Length(w) /\ Minus(x, v.trail) < Length(v)
    BY <1>3, <1>10, <1>11 DEF Sqn
  <2>2. InWindow(w, x) /\ InWindow(v, x) /\ Peek(v, x) = Peek(w, x)
    BY <1>3, <2>1, LengthInWindow
  <2> QED
    BY <1>8, <2>2, CheckAgrees
<1>12. ApduCheck(w, c, K) = "incomplete"
  <2> SUFFICES ASSUME InWindow(w, Plus(c, K)) PROVE FALSE
    BY DEF ApduCheck
  <2>1. C + K < Length(w)
    BY <1>5, <1>6, AheadInWindow DEF c, C
  <2> QED
    BY <1>6, <2>1
<1>13. ApduCheck(v, c, K) = "incomplete"
  BY <1>9 DEF ApduCheck, StateAt
<1>14. \A k \in 0 .. K : ApduCheck(v, c, k) = ApduCheck(w, c, k)
  <2> SUFFICES ASSUME NEW k \in 0 .. K PROVE ApduCheck(v, c, k) = ApduCheck(w, c, k)
    OBVIOUS
  <2>1. k \in Nat /\ (k < K \/ k = K)
    BY <1>6
  <2> QED
    BY <1>11, <1>12, <1>13, <2>1
<1>15. IsApduComplete(v, c) = IsApduComplete(w, c)
  <2>1. K \in 0 .. K
    BY <1>6
  <2> QED
    BY <1>6, <1>12, <1>14, <2>1, ScanAgrees
<1> QED
  BY <1>1, <1>2, <1>4, <1>8, <1>15 DEF Readable, StateAt, c

-----------------------------------------------------------------------------
(***************************************************************************)
(* What arrives and expires is noticed: a window that becomes readable has *)
(* its event or its loss set, and neither is taken back.                   *)
(***************************************************************************)

Noticing(w, v) ==
    /\ w.has_event => v.has_event
    /\ w.cumulative_losses # 0 => v.cumulative_losses # 0
    /\ Readable(v) => Readable(w) \/ v.has_event \/ v.cumulative_losses # 0

LEMMA NoticingTrans ==
    ASSUME NEW w, NEW u, NEW v, Noticing(w, u), Noticing(u, v)
    PROVE  Noticing(w, v)
BY DEF Noticing

\* Flags of the window that the read path does not look at.
LEMMA NoticingSame ==
    ASSUME NEW w, Sound(w), NEW v, Sound(v), v.trail = w.trail, v.lead = w.lead,
           v.commit_lead = w.commit_lead, v.pdata = w.pdata,
           w.has_event => v.has_event,
           w.cumulative_losses # 0 => v.cumulative_losses # 0
    PROVE  Noticing(w, v)
BY SameReadable DEF Noticing

\* A window v that is w with n packets more, the first of them not received.
Grown(w, v, n) ==
    /\ v.trail = w.trail /\ v.commit_lead = w.commit_lead
    /\ Length(v) = Length(w) + n
    /\ \A s \in Sqn : Minus(s, w.trail) < Length(w) => Peek(v, s) = Peek(w, s)
    /\ n # 0 => StateAt(v, NextLead(w)) \in Recovering

\* A window that only grew is not readable because of it.
LEMMA NoticingGrown ==
    ASSUME NEW w, Sound(w), NEW v, Sound(v), NEW n \in Nat, Grown(w, v, n), n # 0,
           w.has_event => v.has_event,
           w.cumulative_losses # 0 => v.cumulative_losses # 0
    PROVE  Noticing(w, v)
<1>1. Length(w) < Length(v)
  <2>1. Length(w) \in Nat
    BY WInvFacts DEF Sound, Sqn
  <2> QED
    BY <2>1 DEF Grown
<1>2. StateAt(v, NextLead(w)) # "HAVE_DATA"
  BY DEF Grown, Recovering
<1> QED
  BY <1>1, <1>2, GrownReadable DEF Noticing, Grown

\* _pgm_rxw_remove_trail no times.
LEMMA RemoveTrailNone ==
    ASSUME NEW w, Sound(w)
    PROVE  LET u == RemoveTrail(w, 0) IN
           /\ u.trail = w.trail /\ u.commit_lead = w.commit_lead
           /\ u.pdata = w.pdata
<1>1. w \in Window /\ w.trail \in Sqn /\ w.commit_lead \in Sqn /\ w.pdata \in [Slot -> Skb]
  BY WInvFacts DEF Sound
<1>2. Plus(w.trail, 0) = w.trail /\ Plus(w.commit_lead, 0) = w.commit_lead
  BY <1>1, SignBitAssumption DEF Plus, Sqn, SqnMod
<1> DEFINE gone == {s \in Sqn : Minus(s, w.trail) < 0}
           pd   == [i \in Slot |-> IF \E s \in gone : Idx(s) = i THEN Free ELSE w.pdata[i]]
<1>3. gone = {}
  BY <1>1, SqnArith
<1>4. pd = w.pdata
  <2>1. \A i \in Slot : pd[i] = w.pdata[i]
    BY <1>3
  <2>2. DOMAIN pd = Slot /\ DOMAIN w.pdata = Slot
    BY <1>1
  <2> QED
    BY <1>1, <2>1, <2>2
<1>5. RemoveTrail(w, 0).pdata = pd
  BY <1>1 DEF RemoveTrail, Window
<1>6. /\ RemoveTrail(w, 0).trail = Plus(w.trail, 0)
      /\ RemoveTrail(w, 0).commit_lead = IF CommitIsEmpty(w) THEN Plus(w.commit_lead, 0)
                                                             ELSE w.commit_lead
  BY <1>1 DEF RemoveTrail, Window
<1> QED
  BY <1>2, <1>4, <1>5, <1>6

\* A number d before the lead is length - 1 - d after the trail.
LEMMA BelowLead ==
    ASSUME NEW lead \in Sqn, NEW trail \in Sqn, NEW s \in Sqn,
           Minus(lead, s) < Minus(Plus(lead, 1), trail)
    PROVE  Minus(s, trail) = Minus(Plus(lead, 1), trail) - 1 - Minus(lead, s)
BY SignBitAssumption DEF Plus, Minus, Sqn, SqnMod

\* Placeholders make the window grow, or the trail moves and that is a loss.
LEMMA AddPlaceholdersGrows ==
    ASSUME SqnMod % Alloc = 0, NEW w, Sound(w), NEW n \in Nat, n < SignBit,
           NEW keep \in {Alloc, Alloc - 1}, w.is_defined,
           CommitIsEmpty(w) \/ Length(w) + n <= keep
    PROVE  LET v == AddPlaceholders(w, n, keep) IN
           /\ v.has_event = w.has_event
           /\ v.cumulative_losses # 0 \/ Grown(w, v, n)
<1> DEFINE v     == AddPlaceholders(w, n, keep)
           len   == Length(w)
           drop  == IF len + n > keep THEN len + n - keep ELSE 0
           old   == IF drop < len THEN drop ELSE len
           w1    == RemoveTrail(w, old)
           lead1 == Plus(w.lead, n)
           new   == {s \in Sqn : Minus(lead1, s) < n /\ Minus(lead1, s) < keep}
           pd    == [i \in Slot |-> IF \E s \in new : Idx(s) = i
                        THEN Placeholder(CHOOSE s \in new : Idx(s) = i, "BACK_OFF")
                        ELSE w1.pdata[i]]
<1>1. /\ w \in Window /\ w.lead \in Sqn /\ w.trail \in Sqn /\ w.commit_lead \in Sqn
      /\ len \in Sqn /\ len \in Nat /\ CommitLength(w) \in Sqn /\ CommitLength(w) <= len
      /\ len <= Alloc
  BY WInvFacts DEF Sound, Sqn
<1>2. /\ drop \in Nat /\ n \in Sqn /\ old \in Nat /\ old <= len
      /\ (CommitIsEmpty(w) \/ drop = 0) /\ keep \in Nat /\ keep <= Alloc
      /\ drop = 0 => old = 0 /\ len + n <= keep
  BY <1>1, SignBitAssumption, AllocAssumption DEF Sqn, SqnMod
<1>3. w1 \in Window /\ w1.has_event = w.has_event
  <2>1. CommitIsEmpty(w) \/ old <= CommitLength(w)
    BY <1>1, <1>2 DEF Sqn
  <2>2. WInv(w1)
    BY <1>2, <2>1, RemoveTrailInv DEF Sound
  <2>3. w1.has_event = w.has_event
    BY <1>1 DEF RemoveTrail, Window
  <2> QED
    BY <2>2, <2>3 DEF WInv
<1>4. /\ v.pdata = pd /\ v.trail = Plus(w.trail, drop) /\ v.lead = lead1
      /\ v.commit_lead = IF CommitIsEmpty(w) THEN Plus(w.trail, drop) ELSE w1.commit_lead
      /\ CommitIsEmpty(w) => v.cumulative_losses = Losses(w, drop)
      /\ v.has_event = w1.has_event
  BY <1>3 DEF AddPlaceholders, Window
<1>5. CASE drop # 0
  BY <1>1, <1>2, <1>3, <1>4, <1>5, LossesGrow
<1>6. CASE drop = 0
  <2>1. Plus(w.trail, 0) = w.trail
    BY <1>1, SignBitAssumption DEF Plus, Sqn, SqnMod
  <2>2. w1.pdata = w.pdata /\ w1.commit_lead = w.commit_lead
    BY <1>2, <1>6, RemoveTrailNone
  <2>3. CommitIsEmpty(w) => w.commit_lead = w.trail
    BY <1>1, SignBitAssumption DEF CommitIsEmpty, CommitLength, Minus, Sqn, SqnMod
  <2>4. v.trail = w.trail /\ v.commit_lead = w.commit_lead
    BY <1>4, <1>6, <2>1, <2>2, <2>3
  <2>5. /\ \A s : s \in new <=> (s \in Sqn /\ Minus(lead1, s) < n /\ Minus(lead1, s) < keep)
        /\ \A i \in Slot : v.pdata[i] = IF \E s \in new : Idx(s) = i
                        THEN Placeholder(CHOOSE s \in new : Idx(s) = i, "BACK_OFF")
                        ELSE w.pdata[i]
    BY <1>4, <2>2
  <2>6. /\ len = Minus(Plus(w.lead, 1), w.trail) /\ lead1 = Plus(w.lead, n)
        /\ Length(v) = Minus(Plus(lead1, 1), w.trail)
    BY <1>4, <2>4 DEF Length, NextLead
  <2>7. len + n <= keep /\ keep <= Alloc
    BY <1>2, <1>6
  <2> HIDE DEF v, len, drop, old, w1, lead1, new, pd
  <2>8. Length(v) = len + n
    <3> DEFINE L == Length(v)
               a == Plus(w.lead, 1)
    <3>1. a \in Sqn /\ Plus(lead1, 1) = Plus(a, n)
      BY <1>1, <1>2, <2>6, PlusOne
    <3>2. L = Minus(Plus(a, n), w.trail) /\ len = Minus(a, w.trail)
      BY <2>6, <3>1
    <3> HIDE DEF L, a
    <3> SUFFICES L = len + n
      BY DEF L
    <3> QED
      BY <1>1, <1>2, <2>7, <3>1, <3>2, AllocAssumption, SignBitAssumption
      DEF Plus, Minus, Sqn, SqnMod
  \* a new placeholder lies beyond the old window
  <2>9. \A s \in new : /\ s \in Sqn /\ len <= Minus(s, w.trail) /\ Minus(s, w.trail) < Alloc
    <3> SUFFICES ASSUME NEW s \in new
                 PROVE  s \in Sqn /\ len <= Minus(s, w.trail) /\ Minus(s, w.trail) < Alloc
      OBVIOUS
    <3> DEFINE L == Length(v)
               d == Minus(lead1, s)
    <3>1. n \in Sqn /\ n \in Nat
      BY SignBitAssumption DEF Sqn, SqnMod
    <3>2. lead1 \in Sqn
      BY <1>1, <2>6, <3>1, SqnArith
    <3>3. s \in Sqn /\ d < n
      BY <2>5
    <3>4. d \in Nat
      BY <3>2, <3>3, SqnArith
    <3>5. L = Minus(Plus(lead1, 1), w.trail) /\ L = len + n
      BY <2>6, <2>8
    <3>6. len \in Nat /\ Alloc \in Nat /\ len + n <= Alloc
      <4>1. keep \in Nat
        BY AllocAssumption
      <4> QED
        BY <1>1, <2>7, <4>1, AllocAssumption
    <3> HIDE DEF L
    <3>7. L \in Nat /\ d < L /\ L <= Alloc
      <4> HIDE DEF d
      <4> QED
        BY <3>1, <3>3, <3>4, <3>5, <3>6
    <3>8. Minus(s, w.trail) = L - 1 - d
      <4>1. Minus(lead1, s) < Minus(Plus(lead1, 1), w.trail)
        BY <3>5, <3>7
      <4>2. w.trail \in Sqn
        BY <1>1
      <4>3. Minus(s, w.trail) = Minus(Plus(lead1, 1), w.trail) - 1 - Minus(lead1, s)
        BY <3>2, <3>3, <4>1, <4>2, BelowLead
      <4> QED
        BY <3>5, <4>3
    <3> HIDE DEF d
    <3>9. len <= L - 1 - d /\ L - 1 - d < Alloc
      BY <3>1, <3>3, <3>4, <3>5, <3>6, <3>7
    <3> QED
      BY <3>3, <3>8, <3>9
  <2>10. ASSUME NEW s \in Sqn, Minus(s, w.trail) < len
         PROVE  Peek(v, s) = Peek(w, s)
    <3>1. Idx(s) \in Slot
      BY IdxType
    <3>2. ~ \E x \in new : Idx(x) = Idx(s)
      <4> SUFFICES ASSUME NEW x \in new, Idx(x) = Idx(s) PROVE FALSE
        OBVIOUS
      <4>1. /\ x \in Sqn /\ len <= Minus(x, w.trail) /\ Minus(x, w.trail) < Alloc
            /\ Minus(s, w.trail) \in Nat /\ Minus(x, w.trail) \in Nat
        BY <1>1, <2>9, SqnArith
      <4>3. Minus(s, w.trail) < Alloc
        BY <1>1, <2>10, <4>1, AllocAssumption
      <4>2. x = s
        BY <1>1, <4>1, <4>3, IdxInjective
      <4> QED
        BY <1>1, <2>10, <4>1, <4>2
    <3> QED
      BY <2>5, <3>1, <3>2 DEF Peek
  <2>11. ASSUME n # 0 PROVE StateAt(v, NextLead(w)) \in Recovering
    <3>1. NextLead(w) \in Sqn /\ Minus(lead1, NextLead(w)) = n - 1
      BY <1>1, <1>2, <2>6, <2>11, SignBitAssumption DEF NextLead, Plus, Minus, Sqn, SqnMod
    <3>2. n - 1 < n /\ n - 1 < keep
      BY <1>1, <1>2, <2>7, <2>11
    <3>3. NextLead(w) \in new
      BY <2>5, <3>1, <3>2
    <3>4. Idx(NextLead(w)) \in Slot
      BY <3>1, IdxType
    <3>5. \A x : Placeholder(x, "BACK_OFF").state \in Recovering
      BY DEF Placeholder, Recovering
    <3>6. v.pdata[Idx(NextLead(w))]
             = Placeholder(CHOOSE s \in new : Idx(s) = Idx(NextLead(w)), "BACK_OFF")
      BY <2>5, <3>3, <3>4
    <3> QED
      BY <3>5, <3>6 DEF StateAt, Peek
  <2>12. Grown(w, v, n)
    BY <2>4, <2>8, <2>10, <2>11 DEF Grown, len
  <2> QED
    BY <1>3, <1>4, <2>12 DEF v
<1> QED
  BY <1>5, <1>6

\* A step that keeps what was announced and leaves the event set.
LEMMA NoticingEvent ==
    ASSUME NEW w, NEW v, Announced(w, v), v.has_event
    PROVE  Noticing(w, v)
BY DEF Noticing, Announced

\* Nothing can be read from an empty window.
LEMMA EmptyUnreadable ==
    ASSUME NEW w, Sound(w), IsEmpty(w)
    PROVE  ~Readable(w)
<1> SUFFICES ASSUME ~IncomingIsEmpty(w) PROVE FALSE
  BY DEF Readable
<1>1. CommitLength(w) < Length(w)
  BY HeadFacts
<1>2. CommitLength(w) \in Nat /\ Length(w) = 0
  BY WInvFacts DEF Sound, IsEmpty, Sqn
<1> QED
  BY <1>1, <1>2

\* _pgm_rxw_update_trail.
LEMMA UpdateTrailNoticing ==
    ASSUME SqnMod % Alloc = 0, NEW w, Sound(w), NEW t \in Sqn
    PROVE  Noticing(w, UpdateTrail(w, t))
<1> DEFINE v == UpdateTrail(w, t)
           S == {s \in Incoming(w) : Gt(t, s) /\ StateAt(w, s) \in Recovering}
           moved == [w EXCEPT !.is_constrained = FALSE, !.rxw_trail = t]
<1>1. Sound(v) /\ Announced(w, v)
  BY UpdateTrailSafe DEF Safe
<1>2. w \in Window /\ w.pdata \in [Slot -> Skb]
  BY WInvFacts DEF Sound
<1>3. CASE v = w
  BY <1>3 DEF Noticing
<1>4. CASE v = moved
  <2>1. /\ v.trail = w.trail /\ v.lead = w.lead /\ v.commit_lead = w.commit_lead
        /\ v.pdata = w.pdata /\ v.has_event = w.has_event
    BY <1>2, <1>4 DEF Window
  <2> QED
    BY <1>1, <2>1, NoticingSame DEF Announced
<1>5. CASE IsEmpty(w) /\ v # w /\ v # moved
  <2>1. v = [moved EXCEPT !.trail = t, !.commit_lead = t,
                           !.lead = Plus(@, Minus(t, w.trail)),
                           !.cumulative_losses = Losses(w, Minus(t, w.trail))]
    BY <1>5, Zenon DEF UpdateTrail
  <2>2. v.has_event = w.has_event /\ v.trail = t /\ v.lead = Plus(w.lead, Minus(t, w.trail))
    BY <1>2, <2>1 DEF Window
  <2>3. IsEmpty(v)
    <3> DEFINE L == v.lead
               T == v.trail
    <3>1. /\ w.lead \in Sqn /\ w.trail \in Sqn /\ Minus(Plus(w.lead, 1), w.trail) = 0
          /\ L = Plus(w.lead, Minus(t, w.trail)) /\ T = t
      BY <1>2, <1>5, <2>2 DEF Window, IsEmpty, Length, NextLead
    <3> HIDE DEF L, T
    <3>2. Minus(Plus(L, 1), T) = 0
      BY <3>1, SignBitAssumption DEF Plus, Minus, Sqn, SqnMod
    <3> QED
      BY <3>2 DEF IsEmpty, Length, NextLead, L, T
  <2> QED
    BY <1>1, <2>2, <2>3, EmptyUnreadable DEF Noticing, Announced
<1>6. CASE ~IsEmpty(w) /\ v # w /\ v # moved
  <2>1. v = MarkLost(moved, S)
    BY <1>6, Zenon DEF UpdateTrail
  <2>2. moved \in Window /\ moved.has_event = w.has_event
    BY <1>2 DEF Window
  <2>3. v.has_event = (w.has_event \/ S # {})
    BY <2>1, <2>2 DEF MarkLost, Window
  <2>4. CASE S # {}
    BY <1>1, <2>3, <2>4, NoticingEvent
  <2>5. CASE S = {}
    <3>1. /\ v.trail = w.trail /\ v.lead = w.lead /\ v.commit_lead = w.commit_lead
      BY <1>2, <2>1 DEF MarkLost, Window
    <3>2. v.pdata = [i \in Slot |-> w.pdata[i]]
      <4>1. moved.pdata = w.pdata
        BY <1>2 DEF Window
      <4> HIDE DEF moved
      <4> QED
        BY <2>1, <2>2, <2>5, <4>1 DEF MarkLost, Window
    <3>3. v.pdata = w.pdata
      BY <1>2, <3>2
    <3> QED
      BY <1>1, <2>3, <3>1, <3>3, NoticingSame DEF Announced
  <2> QED
    BY <2>4, <2>5
<1> QED
  BY <1>3, <1>4, <1>5, <1>6

\* The placeholders of _pgm_rxw_update_lead.
LEMMA AddPlaceholdersNoticing ==
    ASSUME SqnMod % Alloc = 0, NEW w, Sound(w), NEW n \in Nat, n < SignBit,
           NEW keep \in {Alloc, Alloc - 1}, w.is_defined,
           CommitIsEmpty(w) \/ Length(w) + n <= keep
    PROVE  Noticing(w, AddPlaceholders(w, n, keep))
<1> DEFINE v == AddPlaceholders(w, n, keep)
<1>1. Sound(v) /\ Announced(w, v)
  BY AddPlaceholdersSafe DEF Safe
<1>2. v.has_event = w.has_event /\ (v.cumulative_losses # 0 \/ Grown(w, v, n))
  BY AddPlaceholdersGrows
<1> SUFFICES Noticing(w, v)
  OBVIOUS
<1> HIDE DEF v
<1>3. CASE v.cumulative_losses # 0
  BY <1>2, <1>3 DEF Noticing
<1>4. CASE Grown(w, v, n) /\ n # 0
  BY <1>1, <1>2, <1>4, NoticingGrown DEF Announced
<1>5. CASE Grown(w, v, 0)
  <2>1. WInv(w) /\ WInv(v)
    BY <1>1 DEF Sound
  <2>2. v.trail = w.trail /\ v.commit_lead = w.commit_lead /\ Length(v) = Length(w)
    BY <1>5, <2>1, WInvFacts DEF Grown, Sqn
  <2>3. v.lead = w.lead
    <3> DEFINE a == v.lead
               b == w.lead
    <3>1. a \in Sqn /\ b \in Sqn /\ w.trail \in Sqn
          /\ Minus(Plus(a, 1), w.trail) = Minus(Plus(b, 1), w.trail)
      BY <2>1, <2>2, WInvFacts DEF Length, NextLead
    <3> HIDE DEF a, b
    <3>2. a = b
      BY <3>1, SignBitAssumption DEF Plus, Minus, Sqn, SqnMod
    <3> QED
      BY <3>2 DEF a, b
  <2>4. \A i \in Slot : \/ v.pdata[i] = w.pdata[i]
                        \/ v.pdata[i].state # "HAVE_DATA" /\ w.pdata[i].state # "HAVE_DATA"
    <3> SUFFICES ASSUME NEW i \in Slot,
                        v.pdata[i].state # "FREE" \/ w.pdata[i].state # "FREE"
                 PROVE  v.pdata[i] = w.pdata[i]
      OBVIOUS
    <3>1. PICK s \in Sqn : Minus(s, w.trail) < Length(w) /\ Idx(s) = i
      BY <1>1, <2>2 DEF Sound, Tidy
    <3> QED
      BY <1>5, <3>1 DEF Grown, Peek
  <2> QED
    BY <1>1, <1>2, <2>2, <2>3, <2>4, SameReadable DEF Noticing, Announced
<1> QED
  BY <1>2, <1>3, <1>4, <1>5

\* _pgm_rxw_update_lead.
LEMMA UpdateLeadNoticing ==
    ASSUME SqnMod % Alloc = 0, NEW w, Sound(w), w.is_defined, NEW t \in Sqn
    PROVE  Noticing(w, UpdateLead(w, t))
<1>1. CASE Lte(t, w.lead)
  BY <1>1 DEF UpdateLead, Noticing
<1>2. CASE ~Lte(t, w.lead)
  BY <1>2, UpdateLeadStep, AddPlaceholdersNoticing DEF Sound
<1> QED
  BY <1>1, <1>2

\* _pgm_rxw_add_placeholder_range.
LEMMA AddPlaceholderRangeNoticing ==
    ASSUME SqnMod % Alloc = 0, NEW w, Sound(w), w.is_defined, NEW s \in Sqn,
           ~Lte(s, w.lead)
    PROVE  Noticing(w, AddPlaceholderRange(w, s).window)
<1>1. CASE AddPlaceholderRange(w, s) = Result(UpdateLead(w, s), "BOUNDS")
  BY <1>1, UpdateLeadNoticing DEF Result
<1>2. ASSUME NEW n \in Nat, n < SignBit,
             CommitIsEmpty(w) \/ Length(w) + n <= Alloc - 1,
             AddPlaceholderRange(w, s)
               = Result(AddPlaceholders(w, n, Alloc - 1), "APPENDED")
      PROVE  Noticing(w, AddPlaceholderRange(w, s).window)
  BY <1>2, AddPlaceholdersNoticing DEF Result
<1> QED
  BY <1>1, <1>2, AddPlaceholderRangeStep DEF Sound

\* v is w with one more packet k at its leading edge.
Appended(w, v, k) ==
    /\ v.trail = w.trail /\ v.commit_lead = w.commit_lead /\ v.lead = Plus(w.lead, 1)
    /\ v.pdata = [w.pdata EXCEPT ![Idx(Plus(w.lead, 1))] = k]

\* An appended packet leaves the others alone.
LEMMA AppendedPeek ==
    ASSUME SqnMod % Alloc = 0, NEW w, WInv(w), Length(w) < Alloc,
           NEW v, NEW k, Appended(w, v, k)
    PROVE  /\ Length(v) = Length(w) + 1
           /\ \A s \in Sqn : Minus(s, w.trail) < Length(w) => Peek(v, s) = Peek(w, s)
           /\ Peek(v, NextLead(w)) = k
<1> DEFINE a == Plus(w.lead, 1)
           L == Length(v)
           K == Length(w)
<1>1. /\ w.lead \in Sqn /\ w.trail \in Sqn /\ w.pdata \in [Slot -> Skb]
      /\ K \in Sqn /\ K \in Nat /\ K = Minus(a, w.trail)
  BY WInvFacts DEF Length, NextLead, Sqn
<1>2. a \in Sqn /\ L = Minus(Plus(a, 1), w.trail) /\ K < Alloc
  BY <1>1, PlusOne DEF Appended, Length, NextLead
<1>3. Idx(a) \in Slot /\ v.pdata = [w.pdata EXCEPT ![Idx(a)] = k]
  BY <1>2, IdxType DEF Appended
<1> HIDE DEF a, L, K
<1>4. L = K + 1
  BY <1>1, <1>2, AllocAssumption, SignBitAssumption DEF Plus, Minus, Sqn, SqnMod
<1>5. ASSUME NEW s \in Sqn, Minus(s, w.trail) < K
      PROVE  Peek(v, s) = Peek(w, s)
  <2>1. Minus(s, w.trail) < Alloc /\ Minus(a, w.trail) < Alloc
    <3> DEFINE x == Minus(s, w.trail)
    <3>1. x \in Nat /\ x < K
      BY <1>1, <1>5, SqnArith
    <3>2. Minus(a, w.trail) < Alloc
      BY <1>1, <1>2
    <3> HIDE DEF x
    <3>3. x < Alloc
      BY <1>1, <1>2, <3>1, AllocAssumption
    <3> QED
      BY <3>2, <3>3 DEF x
  <2>2. Idx(s) # Idx(a)
    <3> SUFFICES ASSUME Idx(s) = Idx(a) PROVE FALSE
      OBVIOUS
    <3>1. s = a
      BY <1>1, <1>2, <2>1, IdxInjective
    <3> QED
      BY <1>1, <1>5, <3>1
  <2>3. Idx(s) \in Slot
    BY IdxType
  <2> QED
    BY <1>1, <1>3, <2>2, <2>3 DEF Peek
<1>6. Peek(v, a) = k
  BY <1>1, <1>3 DEF Peek
<1> QED
  BY <1>4, <1>5, <1>6 DEF L, K, a, NextLead

\* _pgm_rxw_append does nothing, loses the trail, or appends; a packet it marks lost is
\* an event.
LEMMA AppendTpduShape ==
    ASSUME SqnMod % Alloc = 0, NEW w, Sound(w), NEW p \in Tpdu, NextLead(w) = p.sqn
    PROVE  LET v == AppendTpdu(w, p).window IN
           /\ w.has_event => v.has_event
           /\ \/ IsFull(w) /\ (v = w \/ v.cumulative_losses # 0)
              \/ v.has_event
              \/ ~IsFull(w) /\ Appended(w, v, Data(p))
<1> DEFINE v  == AppendTpdu(w, p).window
           w1 == IF IsFull(w) THEN RemoveTrail(w, 1) ELSE w
           w2 == [w1 EXCEPT !.lead = Plus(@, 1)]
<1>1. w \in Window /\ WInv(w)
  BY WInvFacts DEF Sound
<1>2. CASE IsFull(w) /\ ~CommitIsEmpty(w)
  BY <1>2 DEF AppendTpdu, Result
<1>3. CASE ~(IsFull(w) /\ ~CommitIsEmpty(w))
  <2>1. w1 \in Window
    BY <1>1, <1>3, MakeRoomInv
  <2>2. w1.has_event = w.has_event
    BY <1>1 DEF RemoveTrail, Window
  <2>3. IsFull(w) => w1.cumulative_losses # 0
    <3> SUFFICES ASSUME IsFull(w) PROVE RemoveTrail(w, 1).cumulative_losses # 0
      OBVIOUS
    <3>1. 1 <= Length(w)
      BY AllocAssumption DEF IsFull
    <3> QED
      BY <1>3, <3>1, RemoveTrailSound
  <2> HIDE DEF w1
  <2>4. w2 \in Window /\ w2.has_event = w.has_event
        /\ w2.cumulative_losses = w1.cumulative_losses
        /\ w2.trail = w1.trail /\ w2.commit_lead = w1.commit_lead
        /\ w2.lead = Plus(w1.lead, 1) /\ w2.pdata = w1.pdata
    <3>1. Plus(w1.lead, 1) \in Sqn
      BY <2>1, SignBitAssumption DEF Window, Plus, Sqn, SqnMod
    <3> QED
      BY <2>1, <2>2, <3>1 DEF Window
  <2>5. v = (IF IsApduLost(w2, p)
             THEN Result([w2 EXCEPT
                           !.pdata = [@ EXCEPT ![Idx(p.sqn)] =
                                         Placeholder(p.sqn, "LOST_DATA")],
                           !.lost_count = @ + 1,
                           !.cumulative_losses = Losses(w2, 1),
                           !.has_event = TRUE],
                         "BOUNDS")
             ELSE Result(Store(w2, p), "APPENDED")).window
    BY <1>3, Zenon DEF AppendTpdu, w1
  <2> HIDE DEF w2, v
  <2>6. CASE IsApduLost(w2, p)
    <3>1. v.has_event = TRUE
      BY <2>4, <2>5, <2>6 DEF Window, Result
    <3> QED
      BY <3>1 DEF v
  <2>7. CASE ~IsApduLost(w2, p)
    <3>1. v = Store(w2, p)
      BY <2>5, <2>7 DEF Result
    <3>2. /\ v.has_event = w.has_event /\ v.cumulative_losses = w1.cumulative_losses
          /\ v.trail = w1.trail /\ v.commit_lead = w1.commit_lead
          /\ v.lead = Plus(w1.lead, 1) /\ v.pdata = [w1.pdata EXCEPT ![Idx(p.sqn)] = Data(p)]
      BY <2>4, <3>1 DEF Store, Window
    <3>3. CASE IsFull(w)
      BY <2>3, <3>2, <3>3 DEF v
    <3>4. CASE ~IsFull(w)
      <4>1. w1 = w /\ p.sqn = Plus(w.lead, 1)
        BY <3>4 DEF w1, NextLead
      <4>2. Appended(w, v, Data(p))
        BY <3>2, <4>1 DEF Appended
      <4> QED
        BY <3>2, <3>4, <4>2 DEF v
    <3> QED
      BY <3>3, <3>4
  <2> QED
    BY <2>6, <2>7
<1> QED
  BY <1>2, <1>3

\* _pgm_rxw_recovery_append.
LEMMA RecoveryAppendNoticing ==
    ASSUME SqnMod % Alloc = 0, NEW w, Sound(w), w.is_defined
    PROVE  Noticing(w, RecoveryAppend(w).window)
<1> DEFINE v    == RecoveryAppend(w).window
           w1   == IF IsFull(w) THEN RemoveTrail(w, 1) ELSE w
           lead == Plus(w1.lead, 1)
<1>1. w \in Window /\ WInv(w)
  BY WInvFacts DEF Sound
<1>0. Sound(v) /\ Announced(w, v)
  BY RecoveryAppendSafe DEF Safe
<1>2. CASE IsFull(w) /\ ~CommitIsEmpty(w)
  BY <1>2 DEF RecoveryAppend, Result, Noticing
<1>3. CASE ~(IsFull(w) /\ ~CommitIsEmpty(w))
  <2>1. w1 \in Window
    BY <1>1, <1>3, MakeRoomInv
  <2>2. w1.has_event = w.has_event
    BY <1>1 DEF RemoveTrail, Window
  <2>3. IsFull(w) => w1.cumulative_losses # 0
    <3> SUFFICES ASSUME IsFull(w) PROVE RemoveTrail(w, 1).cumulative_losses # 0
      OBVIOUS
    <3>1. 1 <= Length(w)
      BY AllocAssumption DEF IsFull
    <3> QED
      BY <1>3, <3>1, RemoveTrailSound
  <2>4. v = [w1 EXCEPT !.lead = lead,
                       !.pdata = [@ EXCEPT ![Idx(lead)] = Placeholder(lead, "WAIT_DATA")]]
    BY <1>3 DEF RecoveryAppend, Result
  <2> SUFFICES Noticing(w, v)
    OBVIOUS
  <2> HIDE DEF w1, v
  <2>5. /\ v.has_event = w.has_event /\ v.cumulative_losses = w1.cumulative_losses
        /\ v.trail = w1.trail /\ v.commit_lead = w1.commit_lead
        /\ v.lead = Plus(w1.lead, 1)
        /\ v.pdata = [w1.pdata EXCEPT ![Idx(Plus(w1.lead, 1))]
                                          = Placeholder(Plus(w1.lead, 1), "WAIT_DATA")]
    BY <2>1, <2>2, <2>4 DEF Window
  <2>6. CASE IsFull(w)
    BY <2>3, <2>5, <2>6 DEF Noticing
  <2>7. CASE ~IsFull(w)
    <3> DEFINE k == Placeholder(Plus(w.lead, 1), "WAIT_DATA")
    <3>1. w1 = w
      BY <2>7 DEF w1
    <3>2. Appended(w, v, k)
      BY <2>5, <3>1 DEF Appended
    <3>3. Length(w) < Alloc
      BY <1>1, <2>7, WInvFacts, AllocAssumption DEF IsFull, Sqn
    <3>4. k.state \in Recovering
      BY DEF Placeholder, Recovering
    <3> HIDE DEF k
    <3>5. Grown(w, v, 1)
      BY <1>1, <3>2, <3>3, <3>4, AppendedPeek DEF Grown, StateAt, Appended
    <3> QED
      BY <1>0, <2>5, <3>5, NoticingGrown DEF Announced
  <2> QED
    BY <2>6, <2>7
<1> QED
  BY <1>2, <1>3

\* A packet beyond the leading edge, and placeholders for those it jumped over.
LEMMA RangeAppendNoticing ==
    ASSUME SqnMod % Alloc = 0, NEW u, Sound(u), u.is_defined,
           NEW p, Wellformed(p), ~Lte(p.sqn, u.lead), p.sqn # NextLead(u),
           NEW x, AddPlaceholderRange(u, p.sqn) = Result(x, "APPENDED")
    PROVE  Noticing(u, AppendTpdu(x, p).window)
<1> DEFINE v == AppendTpdu(x, p).window
           s == p.sqn
<1>1. p \in Tpdu /\ s \in Sqn
  BY InputAssumption DEF Wellformed, Tpdu
<1>2. AddPlaceholderRange(u, s).window = x /\ AddPlaceholderRange(u, s).status = "APPENDED"
  BY DEF Result
<1>3. PICK n \in Nat : /\ n < SignBit
                       /\ CommitIsEmpty(u) \/ Length(u) + n <= Alloc - 1
                       /\ x = AddPlaceholders(u, n, Alloc - 1)
                       /\ Plus(Plus(u.lead, n), 1) = s
  <2>1. AddPlaceholderRange(u, s) # Result(UpdateLead(u, s), "BOUNDS")
    BY <1>2 DEF Result
  <2> HIDE DEF s
  <2> QED
    BY <1>1, <2>1, AddPlaceholderRangeStep DEF Sound, Result, s
<1>4. /\ u \in Window /\ WInv(u) /\ u.lead \in Sqn /\ u.trail \in Sqn /\ Length(u) \in Nat
      /\ Length(u) <= Alloc /\ NextLead(u) \in Sqn
  BY WInvFacts, LengthType DEF Sound, Sqn
<1>5. n # 0
  <2> SUFFICES ASSUME n = 0 PROVE FALSE
    OBVIOUS
  <2>1. Plus(u.lead, 0) = u.lead
    BY <1>4, SignBitAssumption DEF Plus, Sqn, SqnMod
  <2> QED
    BY <1>3, <2>1 DEF NextLead
<1>6. /\ Sound(x) /\ Announced(u, x) /\ x.has_event = u.has_event
      /\ x.cumulative_losses # 0 \/ Grown(u, x, n)
      /\ WInv(x) /\ Length(x) <= Alloc - 1
  BY <1>3, <1>4, AddPlaceholdersSafe, AddPlaceholdersGrows, AddPlaceholdersInv DEF Safe
<1>7. NextLead(x) = s /\ x.is_defined
  BY <1>1, <1>2, <1>4, <1>6, AddPlaceholderRangeInv DEF Announced
<1>8. Safe(x, v)
  BY <1>6, <1>7, AppendSafe
<1>9. Length(x) < Alloc /\ ~IsFull(x)
  <2>1. Length(x) \in Nat
    BY <1>6, WInvFacts DEF Sqn
  <2> QED
    BY <1>6, <2>1, AllocAssumption DEF IsFull
<1>10. (x.has_event => v.has_event) /\ (v.has_event \/ Appended(x, v, Data(p)))
  BY <1>1, <1>6, <1>7, <1>9, AppendTpduShape
<1>11. Announced(u, v) /\ Sound(v)
  BY <1>6, <1>8 DEF Safe, Announced
<1> SUFFICES Noticing(u, v)
  OBVIOUS
<1> HIDE DEF v, s
<1>12. CASE v.has_event
  BY <1>11, <1>12, NoticingEvent
<1>13. CASE x.cumulative_losses # 0
  BY <1>6, <1>8, <1>10, <1>13 DEF Noticing, Safe, Announced
<1>14. CASE Appended(x, v, Data(p)) /\ Grown(u, x, n)
  <2>1. /\ Length(v) = Length(x) + 1
        /\ \A y \in Sqn : Minus(y, x.trail) < Length(x) => Peek(v, y) = Peek(x, y)
    BY <1>6, <1>9, <1>14, AppendedPeek
  <2>2. /\ v.trail = u.trail /\ v.commit_lead = u.commit_lead /\ x.trail = u.trail
        /\ Length(x) = Length(u) + n
    BY <1>14 DEF Appended, Grown
  <2>3. Length(v) = Length(u) + (n + 1) /\ Length(u) < Length(x)
    BY <1>4, <1>5, <2>1, <2>2
  <2>4. ASSUME NEW y \in Sqn, Minus(y, u.trail) < Length(u)
        PROVE  Peek(v, y) = Peek(u, y)
    <3>1. Minus(y, u.trail) \in Nat
      BY <1>4, SqnArith
    <3>2. Minus(y, x.trail) < Length(x)
      BY <1>4, <2>2, <2>3, <2>4, <3>1
    <3> QED
      BY <1>14, <2>1, <2>4, <3>2 DEF Grown
  <2>5. StateAt(v, NextLead(u)) \in Recovering
    <3>1. Minus(NextLead(u), x.trail) < Length(x)
      BY <2>2, <2>3 DEF Length
    <3> QED
      BY <1>4, <1>5, <1>14, <2>1, <3>1 DEF Grown, StateAt
  <2>6. Grown(u, v, n + 1)
    BY <2>2, <2>3, <2>4, <2>5 DEF Grown
  <2>7. n + 1 \in Nat /\ n + 1 # 0
    OBVIOUS
  <2> QED
    BY <1>6, <1>10, <1>11, <2>6, <2>7, NoticingGrown DEF Announced
<1> QED
  BY <1>6, <1>10, <1>12, <1>13, <1>14

\* _pgm_rxw_insert leaves an event set.
LEMMA InsertKeepsEvent ==
    ASSUME NEW w \in Window, w.has_event, NEW p
    PROVE  Insert(w, p).window.has_event
<1>1. Abort(w, "insert").has_event /\ Abort(w, "lost").has_event
  BY DEF Abort, Window
<1>2. \A S : MarkLost(w, S).has_event
  BY DEF MarkLost, Window
<1>3. Lost(w, p.sqn).has_event
  BY <1>1, <1>2 DEF Lost
<1>4. \A b : [Store(w, p) EXCEPT !.lost_count = b].has_event
  BY DEF Store, Window
<1> QED
  BY <1>1, <1>3, <1>4 DEF Insert, Result

\* A first packet or SPM defines an empty window.
LEMMA DefineNoticing ==
    ASSUME NEW w, Sound(w), ~w.is_defined, NEW lead \in Sqn
    PROVE  Noticing(w, Define(w, lead))
<1> DEFINE v == Define(w, lead)
<1>1. w \in Window /\ WInv(w)
  BY WInvFacts DEF Sound
<1>2. Sound(v) /\ IsEmpty(v)
  BY <1>1, DefineSound, DefineInv
<1>3. v.has_event = w.has_event /\ v.cumulative_losses = w.cumulative_losses
  BY <1>1 DEF Define, Window
<1> QED
  BY <1>2, <1>3, EmptyUnreadable DEF Noticing

\* pgm_rxw_add.
LEMMA AddNoticing ==
    ASSUME SqnMod % Alloc = 0, NEW w, Sound(w), NEW p \in Tpdus, NEW t \in Sqn,
           w.is_defined => Minus(p.sqn, w.trail) # SignBit
    PROVE  Noticing(w, Add(w, p, t).window)
<1> DEFINE u     == IF w.is_defined THEN UpdateTrail(w, t) ELSE Define(w, Minus(p.sqn, 1))
           event == [u EXCEPT !.has_event = TRUE]
           range == AddPlaceholderRange(u, p.sqn)
           added == AppendTpdu(range.window, p)
           v     == Add(w, p, t).window
<1>1. p.sqn \in Sqn /\ Minus(p.sqn, 1) \in Sqn /\ w \in Window /\ WInv(w)
  BY InputAssumption, WInvFacts, SignBitAssumption DEF Minus, Sqn, SqnMod, Sound, WInv
<1>2. CASE \/ Minus(p.sqn, t) >= FarJump
           \/ p.len > 1 /\ Gt(p.first, p.sqn)
  BY <1>2 DEF Add, Result, Noticing
<1>3. CASE ~(Minus(p.sqn, t) >= FarJump) /\ ~(p.len > 1 /\ Gt(p.first, p.sqn))
  <2>1. /\ Sound(u) /\ u.is_defined /\ Noticing(w, u)
        /\ IsEmpty(u) \/ Minus(p.sqn, u.trail) # SignBit
    <3>1. CASE w.is_defined
      <4>1. Safe(w, u) /\ Noticing(w, u)
        BY <3>1, UpdateTrailSafe, UpdateTrailNoticing
      <4>2. IsEmpty(u) \/ Minus(p.sqn, u.trail) # SignBit
        BY <1>1, <3>1, UpdateTrailKeeps
      <4> QED
        BY <3>1, <4>1, <4>2 DEF Safe, Announced
    <3>2. CASE ~w.is_defined
      BY <1>1, <3>2, DefineSound, DefineInv, DefineNoticing
    <3> QED
      BY <3>1, <3>2
  <2>2. Wellformed(p)
    BY <1>3 DEF Wellformed
  <2>3. Add(w, p, t) =
          IF Lt(p.sqn, u.commit_lead)
          THEN Result(u, IF Gte(p.sqn, u.trail) THEN "DUPLICATE" ELSE "BOUNDS")
          ELSE IF Lte(p.sqn, u.lead) THEN Insert(event, p)
          ELSE IF p.sqn = NextLead(u) THEN AppendTpdu(event, p)
          ELSE IF range.status # "APPENDED" THEN range
          ELSE IF added.status = "APPENDED" THEN Result(added.window, "MISSING")
          ELSE added
    BY <1>3 DEF Add
  <2> HIDE DEF u
  <2>4. /\ Safe(u, event) /\ Sound(event) /\ event.is_defined /\ event.has_event
        /\ event \in Window
        /\ event.lead = u.lead /\ event.trail = u.trail
    <3>1. u \in Window
      BY <2>1 DEF Sound, WInv
    <3>2. event.lead = u.lead /\ event.trail = u.trail /\ event.has_event /\ event \in Window
      BY <3>1 DEF Window
    <3>3. Safe(u, event)
      BY <2>1, EventSafe
    <3> HIDE DEF event
    <3> QED
      BY <2>1, <3>2, <3>3 DEF Safe, Announced
  <2>5. Noticing(u, v)
    <3>1. CASE Lt(p.sqn, u.commit_lead)
      <4>1. v = u
        BY <2>3, <3>1 DEF Result
      <4> QED
        BY <4>1 DEF Noticing
    <3>2. CASE ~Lt(p.sqn, u.commit_lead) /\ Lte(p.sqn, u.lead)
      <4>1. IsEmpty(event) \/ Minus(p.sqn, event.trail) # SignBit
        BY <2>1, <2>4 DEF IsEmpty, Length, NextLead
      <4>2. v = Insert(event, p).window
        BY <2>3, <3>2
      <4> HIDE DEF event, v
      <4>3. Safe(event, v) /\ v.has_event
        BY <2>2, <2>4, <4>1, <4>2, InsertSafe, InsertKeepsEvent
      <4>4. Announced(u, v)
        BY <2>4, <4>3 DEF Safe, Announced
      <4> QED
        BY <4>3, <4>4, NoticingEvent
    <3>3. CASE /\ ~Lt(p.sqn, u.commit_lead) /\ ~Lte(p.sqn, u.lead)
               /\ p.sqn = NextLead(u)
      <4>1. v = AppendTpdu(event, p).window
        BY <2>3, <3>3
      <4>2. NextLead(event) = p.sqn
        BY <2>4, <3>3 DEF NextLead
      <4> HIDE DEF event, v
      <4>3. Safe(event, v) /\ v.has_event
        <5>1. p \in Tpdu
          BY <2>2, DataGenuine
        <5> QED
          BY <2>2, <2>4, <4>1, <4>2, <5>1, AppendSafe, AppendTpduShape
      <4>4. Announced(u, v)
        BY <2>4, <4>3 DEF Safe, Announced
      <4> QED
        BY <4>3, <4>4, NoticingEvent
    <3>4. CASE /\ ~Lt(p.sqn, u.commit_lead) /\ ~Lte(p.sqn, u.lead)
               /\ p.sqn # NextLead(u)
      <4>1. v = IF range.status # "APPENDED" THEN range.window ELSE added.window
        BY <2>3, <3>4 DEF Result
      <4>2. CASE range.status # "APPENDED"
        BY <1>1, <2>1, <3>4, <4>1, <4>2, AddPlaceholderRangeNoticing
      <4>3. CASE range.status = "APPENDED"
        <5> DEFINE x == range.window
        <5>1. range = Result(x, "APPENDED")
          BY <4>3 DEF AddPlaceholderRange, Result
        <5>2. v = AppendTpdu(x, p).window
          BY <4>1, <4>3
        <5> HIDE DEF x, v
        <5> QED
          BY <2>1, <2>2, <3>4, <5>1, <5>2, RangeAppendNoticing
      <4> QED
        BY <4>2, <4>3
    <3> QED
      BY <3>1, <3>2, <3>3, <3>4
  <2> QED
    BY <2>1, <2>5, NoticingTrans
<1> QED
  BY <1>2, <1>3

\* pgm_rxw_update.
LEMMA UpdateNoticing ==
    ASSUME SqnMod % Alloc = 0, NEW w, Sound(w), NEW lead \in Sqn, NEW trail \in Sqn
    PROVE  Noticing(w, Update(w, lead, trail))
<1>1. CASE w.is_defined
  <2> DEFINE u == UpdateTrail(w, trail)
  <2>1. Safe(w, u) /\ Noticing(w, u)
    BY UpdateTrailSafe, UpdateTrailNoticing
  <2>4. Update(w, lead, trail) = UpdateLead(u, lead)
    BY <1>1 DEF Update
  <2> HIDE DEF u
  <2>2. Sound(u) /\ u.is_defined
    BY <1>1, <2>1 DEF Safe, Announced
  <2>3. Noticing(u, UpdateLead(u, lead))
    BY <2>2, UpdateLeadNoticing
  <2> QED
    BY <2>1, <2>3, <2>4, NoticingTrans
<1>2. CASE ~w.is_defined
  BY <1>2, DefineNoticing DEF Update
<1> QED
  BY <1>1, <1>2

\* _pgm_rxw_recovery_update.
LEMMA RecoveryUpdateNoticing ==
    ASSUME SqnMod % Alloc = 0, NEW w, Sound(w), NEW s \in Sqn
    PROVE  Noticing(w, RecoveryUpdate(w, s).window)
<1>1. w \in Window /\ w.pdata \in [Slot -> Skb] /\ Idx(s) \in Slot
  BY WInvFacts, IdxType DEF Sound
<1>2. CASE ~InWindow(w, s)
  <2> DEFINE v == Abort(w, "confirm")
  <2>1. Sound(v)
    BY AbortSafe DEF Safe
  <2>2. /\ v.trail = w.trail /\ v.lead = w.lead /\ v.commit_lead = w.commit_lead
        /\ v.pdata = w.pdata /\ v.has_event = w.has_event
        /\ v.cumulative_losses = w.cumulative_losses
    BY <1>1 DEF Abort, Window
  <2>3. RecoveryUpdate(w, s).window = v
    BY <1>2 DEF RecoveryUpdate, Result
  <2> HIDE DEF v
  <2> QED
    BY <2>1, <2>2, <2>3, NoticingSame
<1>3. CASE InWindow(w, s) /\ StateAt(w, s) \in Recovering
  <2> DEFINE v == SetState(w, s, "WAIT_DATA")
  <2>1. RecoveryUpdate(w, s).window = v
    BY <1>3 DEF RecoveryUpdate, Result
  <2>2. Sound(v)
    BY <1>3, SetStateSafe DEF Safe, Recovering
  <2>3. /\ v.trail = w.trail /\ v.lead = w.lead /\ v.commit_lead = w.commit_lead
        /\ v.has_event = w.has_event /\ v.cumulative_losses = w.cumulative_losses
        /\ v.pdata = [w.pdata EXCEPT ![Idx(s)].state = "WAIT_DATA"]
    BY <1>1 DEF SetState, Window
  <2> HIDE DEF v
  <2>4. \A i \in Slot : \/ v.pdata[i] = w.pdata[i]
                        \/ v.pdata[i].state # "HAVE_DATA" /\ w.pdata[i].state # "HAVE_DATA"
    <3> SUFFICES ASSUME NEW i \in Slot, i = Idx(s)
                 PROVE  v.pdata[i].state # "HAVE_DATA" /\ w.pdata[i].state # "HAVE_DATA"
      BY <1>1, <2>3
    <3>1. v.pdata[i] = [w.pdata[i] EXCEPT !.state = "WAIT_DATA"] /\ w.pdata[i] \in Skb
      BY <1>1, <2>3
    <3>2. v.pdata[i].state = "WAIT_DATA"
      BY <3>1 DEF Skb
    <3> QED
      BY <1>3, <3>2 DEF StateAt, Peek, Recovering
  <2> QED
    BY <2>1, <2>2, <2>3, <2>4, SameReadable DEF Noticing
<1>4. CASE InWindow(w, s) /\ StateAt(w, s) \notin Recovering
  BY <1>4 DEF RecoveryUpdate, Result, Noticing
<1> QED
  BY <1>2, <1>3, <1>4

\* pgm_rxw_confirm.
LEMMA ConfirmNoticing ==
    ASSUME SqnMod % Alloc = 0, NEW w, Sound(w), NEW s \in Sqn
    PROVE  Noticing(w, Confirm(w, s).window)
<1>1. CASE ~w.is_defined \/ Lt(s, w.commit_lead)
  BY <1>1 DEF Confirm, Result, Noticing
<1>2. CASE w.is_defined /\ ~Lt(s, w.commit_lead) /\ Lte(s, w.lead)
  BY <1>2, RecoveryUpdateNoticing DEF Confirm
<1>3. CASE w.is_defined /\ ~Lt(s, w.commit_lead) /\ ~Lte(s, w.lead)
  <2> DEFINE u == AddPlaceholderRange(w, s).window
  <2>1. Confirm(w, s) = RecoveryAppend(u)
    BY <1>3 DEF Confirm
  <2>2. Safe(w, u) /\ Noticing(w, u)
    BY <1>3, AddPlaceholderRangeSafe, AddPlaceholderRangeNoticing
  <2> HIDE DEF u
  <2>3. Sound(u) /\ u.is_defined
    BY <1>3, <2>2 DEF Safe, Announced
  <2>4. Noticing(u, RecoveryAppend(u).window)
    BY <2>3, RecoveryAppendNoticing
  <2> QED
    BY <2>1, <2>2, <2>4, NoticingTrans
<1> QED
  BY <1>1, <1>2, <1>3

-----------------------------------------------------------------------------
(***************************************************************************)
(* The loops.                                                              *)
(***************************************************************************)

\* The largest element of a set of numbers up to m + 1.
LEMMA MaxOf ==
    ASSUME NEW m \in Nat, NEW s \in SUBSET (1 .. (m + 1)), m + 1 \in s
    PROVE  Max(s) = m + 1
<1>1. \A y \in s : m + 1 >= y
  OBVIOUS
<1>2. \A x \in s : (\A y \in s : x >= y) => x = m + 1
  OBVIOUS
<1> QED
  BY <1>1, <1>2 DEF Max

\* A set of numbers up to m has a largest element.
LEMMA MaxIn ==
    ASSUME NEW m \in Nat, NEW s \in SUBSET (1 .. m), s # {}
    PROVE  Max(s) \in s
<1> DEFINE D == {d \in Nat : m - d \in s}
<1>1. D \in SUBSET Nat /\ D # {}
  <2>1. PICK x \in s : x \in 1 .. m
    OBVIOUS
  <2>2. m - x \in Nat /\ m - (m - x) = x
    BY <2>1
  <2> QED
    BY <2>2
<1>2. PICK d \in D : \A e \in D : d <= e
  <2> HIDE DEF D
  <2> QED
    BY <1>1, Least
<1>3. m - d \in s
  OBVIOUS
<1>4. ASSUME NEW y \in s PROVE m - d >= y
  <2>1. y \in 1 .. m /\ m - y \in Nat /\ m - (m - y) = y
    OBVIOUS
  <2>2. m - y \in D
    BY <2>1
  <2>3. d <= m - y
    BY <1>2, <2>2
  <2> QED
    BY <2>1, <2>3
<1> QED
  BY <1>3, <1>4 DEF Max

\* A turn of one of the two loops.
Turn(loop, r, x) == IF loop = "read" THEN ReadMore(r, x) ELSE FlushPeer(r, x)

\* f is the fold of a loop over every set of indices of seq up to n.
IsFold(loop, f, base, seq, n) ==
    f = [s \in SUBSET (1 .. n) |->
            IF s = {} THEN base ELSE Turn(loop, f[s \ {Max(s)}], seq[Max(s)])]

\* The recursive function that FoldLeft chooses exists.
LEMMA FoldExists ==
    ASSUME NEW loop, NEW base, NEW seq, NEW n \in Nat
    PROVE  \E f : IsFold(loop, f, base, seq, n)
<1> USE DEF IsFold
<1> DEFINE Has(m) == \E f : IsFold(loop, f, base, seq, m)
           Step(f, s) == IF s = {} THEN base ELSE Turn(loop, f[s \ {Max(s)}], seq[Max(s)])
           Bad    == {m \in Nat : ~Has(m)}
<1> SUFFICES ASSUME Bad # {} PROVE FALSE
  OBVIOUS
<1>1. PICK k \in Bad : \A j \in Bad : k <= j
  <2> HIDE DEF Has
  <2>1. Bad \in SUBSET Nat
    OBVIOUS
  <2> QED
    BY <2>1, Least
<1>2. Has(0)
  <2> DEFINE f == [s \in SUBSET (1 .. 0) |-> base]
  <2>1. \A s \in SUBSET (1 .. 0) : s = {}
    OBVIOUS
  <2>2. \A s \in SUBSET (1 .. 0) : Step(f, s) = base
    BY <2>1
  <2>3. f = [s \in SUBSET (1 .. 0) |-> Step(f, s)]
    BY <2>2
  <2> QED
    BY <2>3
<1>3. k \in Nat /\ k # 0 /\ ~Has(k)
  BY <1>1, <1>2
<1>4. k - 1 \in Nat /\ Has(k - 1)
  <2> HIDE DEF Has
  <2> QED
    BY <1>1, <1>3
<1>5. PICK f : f = [s \in SUBSET (1 .. (k - 1)) |-> Step(f, s)]
  BY <1>4
<1> DEFINE g == [s \in SUBSET (1 .. k) |-> IF k \in s THEN Turn(loop, f[s \ {k}], seq[k])
                                                       ELSE f[s]]
<1>6. \A s \in SUBSET (1 .. (k - 1)) : s \in SUBSET (1 .. k) /\ g[s] = f[s]
  BY <1>3
<1>7. ASSUME NEW s \in SUBSET (1 .. k) PROVE g[s] = Step(g, s)
  <2>1. CASE k \in s
    <3>1. Max(s) = k
      <4>1. (k - 1) + 1 = k
        BY <1>3
      <4> QED
        BY <1>4, <2>1, <4>1, MaxOf
    <3>2. s \ {k} \in SUBSET (1 .. (k - 1))
      BY <1>3
    <3>3. g[s \ {k}] = f[s \ {k}]
      BY <1>6, <3>2
    <3>4. g[s] = Turn(loop, f[s \ {k}], seq[k])
      BY <2>1
    <3> HIDE DEF g
    <3> QED
      BY <2>1, <3>1, <3>3, <3>4
  <2>2. CASE k \notin s
    <3>1. s \in SUBSET (1 .. (k - 1))
      BY <1>3, <2>2
    <3>2. g[s] = f[s] /\ f[s] = Step(f, s)
      BY <1>5, <1>6, <3>1
    <3>3. CASE s = {}
      BY <3>2, <3>3
    <3>4. CASE s # {}
      <4>1. Max(s) \in s
        BY <1>4, <3>1, <3>4, MaxIn
      <4>2. s \ {Max(s)} \in SUBSET (1 .. (k - 1))
        BY <3>1
      <4>3. g[s \ {Max(s)}] = f[s \ {Max(s)}]
        BY <1>6, <4>2
      <4> HIDE DEF g
      <4> QED
        BY <3>2, <3>4, <4>3
    <3> QED
      BY <3>3, <3>4
  <2> QED
    BY <2>1, <2>2
<1>8. g = [s \in SUBSET (1 .. k) |-> Step(g, s)]
  <2>1. g = [s \in SUBSET (1 .. k) |-> g[s]]
    OBVIOUS
  <2> HIDE DEF g
  <2> QED
    BY <1>7, <2>1
<1> QED
  BY <1>3, <1>8

\* turn leads from base to result, one element of seq after the other.
Turns(loop, turn, base, seq, n, result) ==
    /\ turn[0] = base
    /\ \A k \in 1 .. n : turn[k] = Turn(loop, turn[k - 1], seq[k])
    /\ turn[n] = result

\* A fold takes the turns in order.
LEMMA FoldTurns ==
    ASSUME NEW loop, NEW base, NEW seq, NEW n \in Nat, NEW iter,
           IsFold(loop, iter, base, seq, n)
    PROVE  \E turn : Turns(loop, turn, base, seq, n, iter[1 .. n])
<1> DEFINE turn == [k \in 0 .. n |-> iter[1 .. k]]
<1>5. iter[{}] = base
  BY DEF IsFold
<1>6. \A s \in SUBSET (1 .. n) :
         s # {} => iter[s] = Turn(loop, iter[s \ {Max(s)}], seq[Max(s)])
  BY DEF IsFold
<1>7. turn[0] = base /\ turn[n] = iter[1 .. n]
  <2>1. 1 .. 0 = {}
    OBVIOUS
  <2> QED
    BY <1>5, <2>1
<1>8. ASSUME NEW k \in 1 .. n PROVE turn[k] = Turn(loop, turn[k - 1], seq[k])
  <2>1. /\ 1 .. k \in SUBSET (1 .. n) /\ (1 .. k) \ {k} = 1 .. (k - 1)
        /\ k \in 1 .. k /\ k - 1 \in Nat /\ (k - 1) + 1 = k /\ k - 1 \in 0 .. n
    OBVIOUS
  <2>2. Max(1 .. k) = k
    BY <2>1, MaxOf
  <2>3. iter[1 .. k] = Turn(loop, iter[(1 .. k) \ {k}], seq[k])
    BY <1>6, <2>1, <2>2
  <2>4. turn[k] = iter[1 .. k] /\ turn[k - 1] = iter[1 .. (k - 1)]
    BY <2>1
  <2> HIDE DEF turn
  <2> QED
    BY <2>1, <2>3, <2>4
<1> QED
  <2> HIDE DEF turn
  <2> QED
    BY <1>7, <1>8 DEF Turns

\* A read is a sequence of turns.
LEMMA ReadTurns ==
    ASSUME NEW w, NEW n \in Nat
    PROVE  \E turn : /\ turn[0] = [window |-> w, read |-> 0, more |-> TRUE]
                     /\ \A k \in 1 .. n : turn[k] = ReadMore(turn[k - 1], k)
                     /\ ReadMessages(w, n) = turn[n]
<1> DEFINE base == [window |-> w, read |-> 0, more |-> TRUE]
           seq  == [k \in 1 .. n |-> k]
           Iter(f) == f = [s \in SUBSET (1 .. n) |->
                       IF s = {} THEN base ELSE ReadMore(f[s \ {Max(s)}], seq[Max(s)])]
           iter == CHOOSE f : Iter(f)
<1>1. DOMAIN seq = 1 .. n /\ \A k \in 1 .. n : seq[k] = k
  OBVIOUS
<1>2. ReadMessages(w, n) = iter[1 .. n]
  BY <1>1 DEF ReadMessages, FoldLeft, MapThenFoldSet
<1> HIDE DEF seq, base
<1>3. PICK f : IsFold("read", f, base, seq, n)
  <2> HIDE DEF Iter
  <2> QED
    BY FoldExists
<1>4. Iter(f)
  BY <1>3, Zenon DEF IsFold, Turn
<1>5. Iter(iter)
  <2> HIDE DEF Iter
  <2> QED
    BY <1>4
<1>6. IsFold("read", iter, base, seq, n)
  <2> HIDE DEF iter
  <2> QED
    BY <1>5, Zenon DEF IsFold, Turn
<1> HIDE DEF Iter, iter
<1>7. PICK turn : Turns("read", turn, base, seq, n, iter[1 .. n])
  BY <1>6, FoldTurns
<1>8. \A k \in 1 .. n : turn[k] = ReadMore(turn[k - 1], k)
  BY <1>1, <1>7 DEF Turns, Turn
<1> QED
  BY <1>2, <1>7, <1>8 DEF Turns, base

\* A flush is a sequence of turns, one for each peer of the list.
LEMMA FlushTurns ==
    ASSUME NEW S, NEW n \in Nat, DOMAIN S.pending = 1 .. n
    PROVE  \E turn : /\ turn[0] = S
                     /\ \A k \in 1 .. n : turn[k] = FlushPeer(turn[k - 1], S.pending[k])
                     /\ FlushPending(S) = turn[n]
<1> DEFINE seq  == S.pending
           Iter(f) == f = [s \in SUBSET (1 .. n) |->
                       IF s = {} THEN S ELSE FlushPeer(f[s \ {Max(s)}], seq[Max(s)])]
           iter == CHOOSE f : Iter(f)
<1>2. FlushPending(S) = iter[1 .. n]
  BY DEF FlushPending, FoldLeft, MapThenFoldSet
<1> HIDE DEF seq
<1>3. PICK f : IsFold("flush", f, S, seq, n)
  <2> HIDE DEF Iter
  <2> QED
    BY FoldExists
<1>4. Iter(f)
  BY <1>3, Zenon DEF IsFold, Turn
<1>5. Iter(iter)
  <2> HIDE DEF Iter
  <2> QED
    BY <1>4
<1>6. IsFold("flush", iter, S, seq, n)
  <2> HIDE DEF iter
  <2> QED
    BY <1>5, Zenon DEF IsFold, Turn
<1> HIDE DEF Iter, iter
<1>7. PICK turn : Turns("flush", turn, S, seq, n, iter[1 .. n])
  BY <1>6, FoldTurns
<1>8. \A k \in 1 .. n : turn[k] = FlushPeer(turn[k - 1], seq[k])
  BY <1>7 DEF Turns, Turn
<1> QED
  BY <1>2, <1>7, <1>8 DEF Turns, seq

-----------------------------------------------------------------------------
(***************************************************************************)
(* pgm_rxw_readv and its loop: what a call handed over stays, and a read   *)
(* ends with a full vector or leaves nothing unannounced.                  *)
(***************************************************************************)

\* pgm_rxw_readv keeps what is committed already.
LEMMA ReadvKept ==
    ASSUME SqnMod % Alloc = 0, NEW w, Sound(w)
    PROVE  Kept(w, Readv(w))
<1> DEFINE head  == Peek(w, w.commit_lead)
           check == IsApduComplete(w, head.first)
           v     == Readv(w)
<1>1. w \in Window /\ WInv(w) /\ w.pdata \in [Slot -> Skb]
  BY WInvFacts DEF Sound
<1>0. Kept(w, w) /\ \A where : Kept(w, Abort(w, where))
  BY <1>1 DEF Kept, Abort, Window
<1>2. CASE IncomingIsEmpty(w) \/ head.state \in Recovering
  BY <1>0, <1>2 DEF Readv
<1>3. CASE ~IncomingIsEmpty(w) /\ head.state = "HAVE_DATA"
  <2>0. v = CASE check = "complete" -> ReadApdu(w)
              [] check = "lost"     -> Lost(w, head.first)
              [] OTHER              -> w
    BY <1>3 DEF Readv, Recovering
  <2>1. CASE check = "complete"
    <3> DEFINE n    == head.len
               apdu == {s \in Sqn : Minus(s, w.commit_lead) < n}
               pd   == [i \in Slot |-> IF \E s \in apdu : Idx(s) = i
                                       THEN [w.pdata[i] EXCEPT !.state = "COMMIT_DATA"]
                                       ELSE w.pdata[i]]
    <3>1. v = ReadApdu(w)
      BY <2>0, <2>1
    <3>2. CASE \E s \in apdu : ~InWindow(w, s) \/ StateAt(w, s) # "HAVE_DATA"
      <4>1. v = Abort(w, "read_apdu")
        BY <3>1, <3>2 DEF ReadApdu
      <4> QED
        BY <1>0, <4>1
    <3>3. CASE ~ \E s \in apdu : ~InWindow(w, s) \/ StateAt(w, s) # "HAVE_DATA"
      <4>1. v.pdata = pd
        BY <1>1, <3>1, <3>3 DEF ReadApdu, Window
      <4>2. ASSUME NEW i \in Slot, w.pdata[i].state = "COMMIT_DATA"
            PROVE  pd[i] = w.pdata[i]
        <5>1. ~ \E s \in apdu : Idx(s) = i
          BY <3>3, <4>2 DEF StateAt, Peek
        <5> QED
          BY <5>1
      <4> HIDE DEF pd, v
      <4>3. Kept(w, v)
        BY <4>1, <4>2 DEF Kept
      <4> QED
        BY <4>3 DEF v
    <3> QED
      BY <3>2, <3>3
  <2>2. CASE check = "lost"
    <3>1. head.first \in Sqn
      BY <1>3, HeadFacts
    <3>2. v = Lost(w, head.first)
      BY <2>0, <2>2
    <3> QED
      BY <3>1, <3>2, LostSafe DEF Safe
  <2>3. CASE check # "complete" /\ check # "lost"
    BY <1>0, <2>0, <2>3
  <2> QED
    BY <2>1, <2>2, <2>3
<1>4. CASE ~IncomingIsEmpty(w) /\ head.state = "LOST_DATA"
  <2>1. v = IF CommitIsEmpty(w) THEN RemoveTrail(w, 1) ELSE w
    BY <1>4 DEF Readv, Recovering
  <2>2. CASE CommitIsEmpty(w)
    <3>1. 1 <= Length(w)
      <4>1. CommitLength(w) < Length(w) /\ CommitLength(w) \in Nat /\ Length(w) \in Nat
        BY <1>1, <1>4, HeadFacts, WInvFacts DEF Sqn
      <4> QED
        BY <4>1
    <3> QED
      BY <2>1, <2>2, <3>1, RemoveTrailSound
  <2> QED
    BY <1>0, <2>1, <2>2
<1>5. CASE ~IncomingIsEmpty(w) /\ head.state \notin Recovering \cup {"HAVE_DATA", "LOST_DATA"}
  <2>1. v = Abort(w, "readv")
    BY <1>5 DEF Readv
  <2> QED
    BY <1>0, <2>1
<1> QED
  BY <1>2, <1>3, <1>4, <1>5

\* pgm_rxw_readv leaves nothing it could have read: it reads an APDU, or what is left
\* cannot be read or is announced as a loss.
LEMMA ReadvSettles ==
    ASSUME SqnMod % Alloc = 0, Consistent, NEW w, Sound(w)
    PROVE  \/ Readv(w).committed_count > w.committed_count
           \/ ~Readable(Readv(w))
           \/ Readv(w).cumulative_losses # 0
<1> DEFINE head  == Peek(w, w.commit_lead)
           check == IsApduComplete(w, head.first)
           v     == Readv(w)
<1>1. w \in Window /\ WInv(w) /\ w.pdata \in [Slot -> Skb]
  BY WInvFacts DEF Sound
<1>0. Readable(w) <=> ~IncomingIsEmpty(w) /\ head.state = "HAVE_DATA" /\ check = "complete"
  BY DEF Readable, StateAt
<1>00. ASSUME NEW where \in {"lost", "readv"}, Readable(Abort(w, where)) PROVE Readable(w)
  <2> DEFINE x == Abort(w, where)
  <2>1. Sound(x)
    BY AbortSafe DEF Safe
  <2>2. /\ x.trail = w.trail /\ x.lead = w.lead /\ x.commit_lead = w.commit_lead
        /\ x.pdata = w.pdata
    BY <1>1 DEF Abort, Window
  <2>3. Readable(x)
    BY <1>00
  <2> HIDE DEF x
  <2> QED
    BY <2>1, <2>2, <2>3, SameReadable
<1>2. CASE IncomingIsEmpty(w) \/ head.state \in Recovering
  BY <1>0, <1>2 DEF Readv, Recovering
<1>3. CASE ~IncomingIsEmpty(w) /\ head.state = "HAVE_DATA"
  <2>0. v = CASE check = "complete" -> ReadApdu(w)
              [] check = "lost"     -> Lost(w, head.first)
              [] OTHER              -> w
    BY <1>3 DEF Readv, Recovering
  <2>1. CASE check = "complete"
    <3> DEFINE n    == head.len
               apdu == {s \in Sqn : Minus(s, w.commit_lead) < n}
    <3>1. v = ReadApdu(w)
      BY <2>0, <2>1
    <3>2. ~ \E s \in apdu : ~InWindow(w, s) \/ StateAt(w, s) # "HAVE_DATA"
      BY <1>3, <2>1, ScanComplete
    <3>3. v.committed_count = w.committed_count + n
      BY <1>1, <3>1, <3>2 DEF ReadApdu, Window
    <3>4. n \in Nat /\ n > 0
      <4>1. PICK p \in Tpdus : p.len = head.len
        BY <1>3, <2>1, CompleteFromHead
      <4> QED
        BY <4>1, InputAssumption
    <3>5. w.committed_count \in Int
      BY <1>1 DEF Window
    <3> QED
      BY <3>3, <3>4, <3>5
  <2>2. CASE check = "lost"
    <3>1. head.first \in Sqn
      BY <1>3, HeadFacts
    <3>2. v = Lost(w, head.first)
      BY <2>0, <2>2
    <3>3. CASE StateAt(w, head.first) \in Recovering \cup {"HAVE_DATA"}
      <4>1. v = MarkLost(w, {head.first})
        BY <3>2, <3>3 DEF Lost
      <4>2. v.cumulative_losses = Losses(w, 1)
        <5>1. Cardinality({head.first}) = 1
          BY FS_Singleton
        <5> HIDE DEF head
        <5> QED
          BY <1>1, <4>1, <5>1 DEF MarkLost, Window
      <4> QED
        BY <1>1, <4>2, LossesGrow
    <3>4. CASE StateAt(w, head.first) \notin Recovering \cup {"HAVE_DATA"}
      <4>1. v = Abort(w, "lost")
        BY <3>2, <3>4 DEF Lost
      <4> QED
        BY <1>0, <1>00, <2>2, <4>1
    <3> QED
      BY <3>3, <3>4
  <2>3. CASE check # "complete" /\ check # "lost"
    BY <1>0, <2>0, <2>3
  <2> QED
    BY <2>1, <2>2, <2>3
<1>4. CASE ~IncomingIsEmpty(w) /\ head.state = "LOST_DATA"
  <2>1. v = IF CommitIsEmpty(w) THEN RemoveTrail(w, 1) ELSE w
    BY <1>4 DEF Readv, Recovering
  <2>2. CASE CommitIsEmpty(w)
    <3>1. 1 <= Length(w)
      <4>1. CommitLength(w) < Length(w) /\ CommitLength(w) \in Nat /\ Length(w) \in Nat
        BY <1>1, <1>4, HeadFacts, WInvFacts DEF Sqn
      <4> QED
        BY <4>1
    <3> QED
      BY <2>1, <2>2, <3>1, RemoveTrailSound
  <2> QED
    BY <1>0, <1>4, <2>1, <2>2
<1>5. CASE ~IncomingIsEmpty(w) /\ head.state \notin Recovering \cup {"HAVE_DATA", "LOST_DATA"}
  <2>1. v = Abort(w, "readv")
    BY <1>5 DEF Readv
  <2> QED
    BY <1>0, <1>00, <1>5, <2>1
<1> QED
  BY <1>2, <1>3, <1>4, <1>5

\* A window whose data can be used in a session within the arc of m numbers from base.
Fine(w, base, m) == Sound(w) /\ (w.is_defined => Within(w, base, m))

\* Whatever can be read of the window is announced.
Settled(w) == ~Readable(w) \/ w.cumulative_losses # 0

\* pgm_rxw_readv keeps a window fine.
LEMMA ReadvFine ==
    ASSUME SqnMod % Alloc = 0, NEW base \in Sqn, NEW m \in Nat, m < SignBit,
           NEW w, Fine(w, base, m)
    PROVE  Fine(Readv(w), base, m) /\ Kept(w, Readv(w))
<1> DEFINE v == Readv(w)
<1>1. Sound(v) /\ (Announced(w, v) \/ Delivered(w, v))
  BY ReadvSound DEF Fine
<1>2. v.is_defined => w.is_defined
  BY <1>1 DEF Announced, Delivered
<1>3. w.is_defined => Within(v, base, m)
  BY ReadWithin DEF Fine
<1> QED
  BY <1>1, <1>2, <1>3, ReadvKept DEF Fine

\* What is true of a read of window w after k turns.
ReadSoFar(w, base, m, r, k) ==
    /\ r \in [window : Window, read : Nat, more : BOOLEAN]
    /\ Fine(r.window, base, m) /\ Kept(w, r.window)
    /\ r.read <= k
    /\ Consistent => \/ r.read = k /\ r.more
                     \/ Settled(r.window) /\ (~r.more \/ ~ReadsOn(r.window, 2))

\* One turn.
LEMMA ReadTurn ==
    ASSUME SqnMod % Alloc = 0, NEW base \in Sqn, NEW m \in Nat, m < SignBit,
           NEW w, NEW r, NEW k \in Nat \ {0}, ReadSoFar(w, base, m, r, k - 1)
    PROVE  ReadSoFar(w, base, m, ReadMore(r, k), k)
<1> USE DEF ReadSoFar
<1>1. k - 1 \in Nat /\ r.read \in Nat /\ (k # 1 => (ReadsOn(r.window, k) <=> ReadsOn(r.window, 2)))
      /\ ReadsOn(r.window, 1)
  BY DEF ReadsOn
<1>2. CASE ~(r.more /\ ReadsOn(r.window, k))
  <2>1. ReadMore(r, k) = r
    BY <1>2 DEF ReadMore
  <2>2. r.read <= k
    BY <1>1
  <2>3. ASSUME Consistent PROVE Settled(r.window) /\ (~r.more \/ ~ReadsOn(r.window, 2))
    <3>1. CASE ~r.more
      BY <2>3, <3>1
    <3>2. CASE ~ReadsOn(r.window, k)
      <4>1. ~ReadsOn(r.window, 2)
        BY <1>1, <3>2
      <4>2. ~Readable(r.window)
        BY <4>1 DEF ReadsOn, Readable
      <4> QED
        BY <4>1, <4>2 DEF Settled
    <3> QED
      BY <1>2, <3>1, <3>2
  <2> QED
    BY <2>1, <2>2, <2>3
<1>3. CASE r.more /\ ReadsOn(r.window, k)
  <2> DEFINE v == Readv(r.window)
             x == ReadMore(r, k)
  <2>1. x = Taken(r, v)
    BY <1>3 DEF ReadMore
  <2>2. Fine(v, base, m) /\ Kept(r.window, v)
    BY ReadvFine
  <2>3. Kept(w, v)
    BY <2>2 DEF Kept
  <2>4. v \in Window
    BY <2>2, WInvFacts DEF Fine, Sound
  <2>5. Consistent => v.committed_count > r.window.committed_count \/ Settled(v)
    BY ReadvSettles DEF Settled, Fine
  <2> HIDE DEF v
  <2>6. CASE v.committed_count > r.window.committed_count
    <3>1. x = [r EXCEPT !.window = v, !.read = @ + 1]
      BY <2>1, <2>6 DEF Taken
    <3>2. /\ x \in [window : Window, read : Nat, more : BOOLEAN]
          /\ x.window = v /\ x.read = r.read + 1 /\ x.more = r.more
      <4> DEFINE d == r.read + 1
      <4>1. d \in Nat /\ x = [r EXCEPT !.window = v, !.read = d]
        BY <1>1, <3>1
      <4>2. r \in [window : Window, read : Nat, more : BOOLEAN]
        OBVIOUS
      <4> HIDE DEF d, x
      <4>3. /\ x \in [window : Window, read : Nat, more : BOOLEAN]
            /\ x.window = v /\ x.read = d /\ x.more = r.more
        BY <2>4, <4>1, <4>2
      <4> QED
        BY <4>3 DEF d
    <3>3. Consistent => r.read = k - 1
      BY <1>1, <1>3
    <3> HIDE DEF x
    <3>4. x.read <= k /\ (Consistent => x.read = k)
      BY <1>1, <3>2, <3>3
    <3> QED
      BY <1>3, <2>2, <2>3, <3>2, <3>4 DEF x
  <2>7. CASE ~(v.committed_count > r.window.committed_count)
    <3>1. x = [r EXCEPT !.window = v, !.more = FALSE]
      BY <2>1, <2>7 DEF Taken
    <3>2. /\ x \in [window : Window, read : Nat, more : BOOLEAN]
          /\ x.window = v /\ x.read = r.read /\ x.more = FALSE
      BY <2>4, <3>1
    <3> HIDE DEF x
    <3>4. x.read <= k
      BY <1>1, <3>2
    <3> QED
      BY <2>2, <2>3, <2>5, <2>7, <3>2, <3>4 DEF x
  <2> QED
    BY <2>6, <2>7
<1> QED
  BY <1>2, <1>3

\* pgm_rxw_readv with room for n messages fills the vector or leaves nothing to read
\* that is not announced as a loss.
LEMMA ReadMessagesFine ==
    ASSUME SqnMod % Alloc = 0, NEW base \in Sqn, NEW m \in Nat, m < SignBit,
           NEW w, Fine(w, base, m), NEW n \in Nat
    PROVE  LET r == ReadMessages(w, n) IN
           /\ r.window \in Window /\ Fine(r.window, base, m) /\ Kept(w, r.window)
           /\ r.read \in Nat /\ r.read <= n
           /\ Consistent => r.read = n \/ Settled(r.window)
<1>1. PICK turn : /\ turn[0] = [window |-> w, read |-> 0, more |-> TRUE]
                  /\ \A k \in 1 .. n : turn[k] = ReadMore(turn[k - 1], k)
                  /\ ReadMessages(w, n) = turn[n]
  BY ReadTurns
<1> DEFINE Bad == {k \in 0 .. n : ~ReadSoFar(w, base, m, turn[k], k)}
<1>2. Bad = {}
  <2> SUFFICES ASSUME Bad # {} PROVE FALSE
    OBVIOUS
  <2>1. Bad \in SUBSET Nat
    OBVIOUS
  <2>2. PICK k \in Bad : \A j \in Bad : k <= j
    <3> HIDE DEF Bad
    <3> QED
      BY <2>1, Least
  <2>3. k \in 0 .. n /\ ~ReadSoFar(w, base, m, turn[k], k)
    OBVIOUS
  <2>4. k # 0
    <3>1. w \in Window
      BY WInvFacts DEF Fine, Sound
    <3>2. ReadSoFar(w, base, m, turn[0], 0)
      BY <1>1, <3>1 DEF ReadSoFar, Kept
    <3> QED
      BY <2>3, <3>2
  <2>5. k - 1 \in 0 .. n /\ k \in 1 .. n /\ k \in Nat \ {0} /\ ~(k <= k - 1)
    BY <2>3, <2>4
  <2>6. ReadSoFar(w, base, m, turn[k - 1], k - 1)
    BY <2>2, <2>5
  <2>7. ReadSoFar(w, base, m, ReadMore(turn[k - 1], k), k)
    BY <2>5, <2>6, ReadTurn
  <2> QED
    BY <1>1, <2>3, <2>5, <2>7
<1>3. n \in 0 .. n
  OBVIOUS
<1>4. ReadSoFar(w, base, m, ReadMessages(w, n), n)
  BY <1>1, <1>2, <1>3
<1> QED
  BY <1>4 DEF ReadSoFar

-----------------------------------------------------------------------------
(***************************************************************************)
(* What arrives and expires leaves a window fine, keeps what is committed, *)
(* and is noticed.                                                         *)
(***************************************************************************)

\* What a step of the window keeps when data arrives or expires.
Arrives(w, v, base, m) == Fine(v, base, m) /\ Kept(w, v) /\ Noticing(w, v)

\* pgm_rxw_add.
LEMMA AddArrives ==
    ASSUME SqnMod % Alloc = 0, NEW base \in Sqn, NEW m \in Nat, m < SignBit,
           NEW w, Fine(w, base, m), NEW p \in Tpdus, Minus(p.sqn, base) < m,
           NEW t \in Sqn, Minus(t, base) <= m
    PROVE  Arrives(w, Add(w, p, t).window, base, m)
<1> DEFINE v == Add(w, p, t).window
<1>1. p \in Tpdu /\ p.sqn \in Sqn
  BY InputAssumption DEF Tpdu
<1>2. Sound(w) /\ WInv(w) /\ (w.is_defined => Within(w, base, m))
  BY DEF Fine, Sound
<1>3. w.is_defined => Minus(p.sqn, w.trail) # SignBit
  BY <1>1, <1>2, NeverAntipode
<1>4. Arrival(w, v) /\ Noticing(w, v)
  BY <1>2, <1>3, AddSafe, AddNoticing
<1>5. v = w \/ Within(v, base, m)
  BY <1>1, <1>2, AddWithin
<1> HIDE DEF v
<1>6. Sound(v) /\ Kept(w, v)
  BY <1>4 DEF Arrival, Safe
<1>7. Fine(v, base, m)
  BY <1>2, <1>5, <1>6 DEF Fine
<1> QED
  BY <1>4, <1>6, <1>7 DEF Arrives, v

\* pgm_rxw_update.
LEMMA UpdateArrives ==
    ASSUME SqnMod % Alloc = 0, NEW base \in Sqn, NEW m \in Nat, m < SignBit,
           NEW w, Fine(w, base, m), NEW lead \in Sqn, Minus(lead, base) < m,
           NEW t \in Sqn, Minus(t, base) <= m
    PROVE  Arrives(w, Update(w, lead, t), base, m)
<1> DEFINE v == Update(w, lead, t)
<1>2. Sound(w) /\ WInv(w) /\ (w.is_defined => Within(w, base, m))
  BY DEF Fine, Sound
<1>4. Arrival(w, v) /\ Noticing(w, v)
  BY <1>2, UpdateSafe, UpdateNoticing
<1>5. Within(v, base, m)
  BY <1>2, UpdateWithin
<1> HIDE DEF v
<1>6. Sound(v) /\ Kept(w, v)
  BY <1>4 DEF Arrival, Safe
<1> QED
  BY <1>4, <1>5, <1>6 DEF Fine, Arrives, v

\* pgm_rxw_confirm.
LEMMA ConfirmArrives ==
    ASSUME SqnMod % Alloc = 0, NEW base \in Sqn, NEW m \in Nat, m < SignBit,
           NEW w, Fine(w, base, m), NEW s \in Sqn, Minus(s, base) < m
    PROVE  Arrives(w, Confirm(w, s).window, base, m)
<1> DEFINE v == Confirm(w, s).window
<1>2. Sound(w) /\ WInv(w) /\ (w.is_defined => Within(w, base, m))
  BY DEF Fine, Sound
<1>4. Safe(w, v) /\ Noticing(w, v)
  BY <1>2, ConfirmSafe, ConfirmNoticing
<1>5. v = w \/ Within(v, base, m)
  BY <1>2, ConfirmWithin
<1> HIDE DEF v
<1>6. Sound(v) /\ Kept(w, v)
  BY <1>4 DEF Safe
<1>7. Fine(v, base, m)
  BY <1>2, <1>5, <1>6 DEF Fine
<1> QED
  BY <1>4, <1>6, <1>7 DEF Arrives, v

\* pgm_rxw_lost.
LEMMA LostArrives ==
    ASSUME SqnMod % Alloc = 0, NEW base, NEW m,
           NEW w, Fine(w, base, m), NEW s \in Sqn
    PROVE  Arrives(w, Lost(w, s), base, m)
<1> DEFINE v == Lost(w, s)
<1>2. Sound(w) /\ w \in Window
  BY WInvFacts DEF Fine, Sound
<1>3. Safe(w, v)
  BY <1>2, LostSafe
<1>4. v.trail = w.trail /\ v.lead = w.lead
  BY <1>2, KeepsEdges
<1>5. Noticing(w, v)
  <2>1. CASE StateAt(w, s) \in Recovering \cup {"HAVE_DATA"}
    <3>1. v = MarkLost(w, {s})
      BY <2>1 DEF Lost
    <3>2. v.has_event
      BY <1>2, <3>1 DEF MarkLost, Window
    <3> HIDE DEF v
    <3> QED
      BY <1>3, <3>2, NoticingEvent DEF Safe
  <2>2. CASE StateAt(w, s) \notin Recovering \cup {"HAVE_DATA"}
    <3>1. v = Abort(w, "lost")
      BY <2>2 DEF Lost
    <3>2. /\ v.commit_lead = w.commit_lead /\ v.pdata = w.pdata
          /\ v.has_event = w.has_event /\ v.cumulative_losses = w.cumulative_losses
      BY <1>2, <3>1 DEF Abort, Window
    <3> HIDE DEF v
    <3> QED
      BY <1>2, <1>3, <1>4, <3>2, NoticingSame DEF Safe
  <2> QED
    BY <2>1, <2>2
<1> HIDE DEF v
<1>6. Fine(v, base, m) /\ Kept(w, v)
  BY <1>2, <1>3, <1>4, StayWithin DEF Safe, Announced, Fine
<1> QED
  BY <1>5, <1>6 DEF Arrives, v

\* What the reader of a window resets in it: the event, the losses.
LEMMA FlagsFine ==
    ASSUME NEW base, NEW m, NEW w, Fine(w, base, m),
           NEW v \in {[w EXCEPT !.has_event = FALSE], [w EXCEPT !.cumulative_losses = 0]}
    PROVE  /\ v \in Window /\ Fine(v, base, m) /\ Kept(w, v)
           /\ Readable(v) => Readable(w)
<1>1. w \in Window /\ Sound(w) /\ 0 \in 0 .. LossCap
  BY WInvFacts, InputAssumption DEF Fine, Sound
<1>2. /\ v \in Window /\ v.lead = w.lead /\ v.trail = w.trail
      /\ v.commit_lead = w.commit_lead /\ v.pdata = w.pdata
      /\ v.is_defined = w.is_defined /\ v.fragment_count = w.fragment_count
      /\ v.lost_count = w.lost_count /\ v.committed_count = w.committed_count
  BY <1>1 DEF Window
<1> HIDE DEF Window
<1>3. Sound(v)
  BY <1>1, <1>2, SameSound
<1>4. Fine(v, base, m)
  BY <1>2, <1>3, StayWithin DEF Fine
<1>5. Readable(v) => Readable(w)
  BY <1>1, <1>2, <1>3, SameReadable
<1> QED
  BY <1>2, <1>4, <1>5 DEF Kept

\* A window as pgm_rxw_create makes it.
LEMMA CreateFine ==
    ASSUME NEW base, NEW m
    PROVE  RxwCreate \in Window /\ Fine(RxwCreate, base, m) /\ ~Readable(RxwCreate)
<1> DEFINE w == RxwCreate
<1>1. w \in Window
  <2>1. [i \in Slot |-> Free] \in [Slot -> Skb]
    BY SignBitAssumption DEF Free, Skb, PktState, Sqn, SqnMod
  <2>2. 0 \in Sqn /\ SqnMod - 1 \in Sqn /\ 0 \in 0 .. LossCap
    BY SignBitAssumption, InputAssumption DEF Sqn, SqnMod
  <2> QED
    BY <2>1, <2>2 DEF RxwCreate, Window
<1>2. Length(w) = 0 /\ CommitLength(w) = 0
  BY SignBitAssumption
  DEF RxwCreate, Length, CommitLength, NextLead, Plus, Minus, SqnMod
<1>3. \A s \in Sqn : ~(Minus(s, w.trail) < 0)
  BY <1>1, SqnArith DEF Window
<1>4. WInv(w)
  BY <1>1, <1>2, <1>3, AllocAssumption DEF WInv, SectionsOK
<1>5. \A i \in Slot : w.pdata[i].state = "FREE"
  BY DEF RxwCreate, Free
<1>6. Tidy(w) /\ Contents(w) /\ IsEmpty(w)
  BY <1>2, <1>5 DEF Tidy, Contents, Holding, IsEmpty
<1>7. Counts(w)
  <2>1. \A st \in {"HAVE_DATA", "LOST_DATA", "COMMIT_DATA"} :
          {i \in Slot : w.pdata[i].state = st} = {}
    BY <1>5
  <2>2. w.fragment_count = 0 /\ w.lost_count = 0 /\ w.committed_count = 0
    BY DEF RxwCreate
  <2> QED
    BY <2>1, <2>2, FS_EmptySet DEF Counts, Total
<1>8. Sound(w)
  BY <1>4, <1>6, <1>7 DEF Sound
<1>9. ~w.is_defined
  BY DEF RxwCreate
<1> QED
  BY <1>1, <1>6, <1>8, <1>9, EmptyUnreadable DEF Fine

\* A peer put at the head of the list.
LEMMA Pushed ==
    ASSUME NEW p \in Peers, NEW q \in Seq(Peers)
    PROVE  /\ <<p>> \o q \in Seq(Peers) /\ <<p>> \o q # <<>> /\ Head(<<p>> \o q) = p
           /\ ToSet(<<p>> \o q) = {p} \cup ToSet(q)
<1> DEFINE c == <<p>> \o q
<1>1. <<p>> \in Seq(Peers) /\ Len(<<p>>) = 1 /\ <<p>>[1] = p
  OBVIOUS
<1>2. /\ c \in Seq(Peers) /\ Len(c) = 1 + Len(q)
      /\ \A i \in 1 .. 1 + Len(q) : c[i] = IF i <= 1 THEN <<p>>[i] ELSE q[i - 1]
  <2> DEFINE s == <<p>>
  <2>1. s \in Seq(Peers) /\ Len(s) = 1
    OBVIOUS
  <2> HIDE DEF s
  <2>2. /\ s \o q \in Seq(Peers) /\ Len(s \o q) = Len(s) + Len(q)
        /\ \A i \in 1 .. Len(s) + Len(q) : (s \o q)[i] = IF i <= Len(s) THEN s[i]
                                                          ELSE q[i - Len(s)]
    BY <2>1, ConcatProperties
  <2> QED
    BY <2>1, <2>2 DEF s
<1> HIDE DEF c
<1>3. Len(q) \in Nat /\ DOMAIN q = 1 .. Len(q) /\ DOMAIN c = 1 .. (1 + Len(q))
  BY <1>2, LenProperties
<1>4. c[1] = p /\ \A i \in DOMAIN q : i + 1 \in DOMAIN c /\ c[i + 1] = q[i]
  BY <1>1, <1>2, <1>3
<1>5. \A i \in DOMAIN c : i = 1 \/ (i - 1 \in DOMAIN q /\ c[i] = q[i - 1])
  BY <1>2, <1>3
<1>6. c # <<>> /\ Head(c) = p
  BY <1>2, <1>3, <1>4
<1>7. ToSet(c) = {p} \cup ToSet(q)
  <2>1. 1 \in DOMAIN c
    BY <1>3
  <2> QED
    BY <1>4, <1>5, <2>1 DEF ToSet
<1> QED
  BY <1>2, <1>6, <1>7 DEF c

\* The peer at the head is taken off the list.
LEMMA Popped ==
    ASSUME NEW q \in Seq(Peers), q # <<>>
    PROVE  /\ Head(q) \in Peers /\ Tail(q) \in Seq(Peers)
           /\ ToSet(q) = {Head(q)} \cup ToSet(Tail(q)) /\ Head(q) = q[1]
           /\ Len(q) \in Nat \ {0} /\ Len(Tail(q)) = Len(q) - 1
           /\ \A i \in 1 .. Len(Tail(q)) : Tail(q)[i] = q[i + 1]
<1> DEFINE t == Tail(q)
<1>1. /\ Head(q) \in Peers /\ t \in Seq(Peers) /\ Len(t) = Len(q) - 1
      /\ \A i \in 1 .. Len(t) : t[i] = q[i + 1]
  BY HeadTailProperties
<1>2. Len(q) \in Nat \ {0} /\ DOMAIN q = 1 .. Len(q) /\ Head(q) = q[1]
  BY LenProperties, EmptySeq
<1> HIDE DEF t
<1>3. DOMAIN t = 1 .. Len(t)
  BY <1>1, LenProperties
<1>4. \A i \in DOMAIN t : i + 1 \in DOMAIN q /\ t[i] = q[i + 1]
  BY <1>1, <1>2, <1>3
<1>5. \A i \in DOMAIN q : i = 1 \/ (i - 1 \in DOMAIN t /\ q[i] = t[i - 1])
  BY <1>1, <1>2, <1>3
<1>6. 1 \in DOMAIN q
  BY <1>2
<1>7. ToSet(q) = {Head(q)} \cup ToSet(t)
  BY <1>2, <1>4, <1>5, <1>6 DEF ToSet
<1> QED
  BY <1>1, <1>2, <1>7 DEF t

-----------------------------------------------------------------------------
(***************************************************************************)
(* The socket.                                                             *)
(***************************************************************************)

\* The types of a socket.
State == [window : [Peers -> Window], last : [Peers -> {"zero", "now", "before"}],
          pending : Seq(Peers), is_reset : BOOLEAN, room : Nat, data_read : BOOLEAN,
          handed : [Peers -> SUBSET Sqn], losers : SUBSET Peers, stop : BOOLEAN]

\* What was handed over of a window is committed in it, and a peer that handed data over
\* in this call is not due for release.
HeldOf(w, h, l) ==
    /\ h # {} => l # "before"
    /\ \A s \in h : Peek(w, s).sqn = s /\ StateAt(w, s) = "COMMIT_DATA"

Held(S) == \A p \in Peers : HeldOf(S.window[p], S.handed[p], S.last[p])

\* The peers a loss notice stands for are on the list, and there is one.
Named(S) == (S.is_reset => S.losers # {}) /\ S.losers \subseteq ToSet(S.pending)

\* A loss noticed in the current call has raised the notice.
Raised(S) == S.losers # {} => S.is_reset

\* What can be read is pending, or has what makes it pending.
Noticed(S) == \A p \in Peers : Readable(S.window[p]) =>
    p \in ToSet(S.pending) \/ S.window[p].has_event \/ S.window[p].cumulative_losses # 0

\* A socket the functions of receiver.c and recv.c take to another such socket.
Good(S, base, m) ==
    /\ S \in State
    /\ \A p \in Peers : Fine(S.window[p], base, m)
    /\ Held(S) /\ Named(S)
    /\ Consistent => Noticed(S)

\* What was handed over is still held after a step that keeps what is committed.
LEMMA KeptHeld ==
    ASSUME NEW w, NEW v, Kept(w, v), NEW h \in SUBSET Sqn, NEW l, HeldOf(w, h, l)
    PROVE  HeldOf(v, h, l)
<1> SUFFICES ASSUME NEW s \in h
             PROVE  Peek(v, s).sqn = s /\ StateAt(v, s) = "COMMIT_DATA"
  BY DEF HeldOf
<1>1. Idx(s) \in Slot
  BY IdxType
<1> QED
  BY <1>1 DEF HeldOf, Kept, Peek, StateAt

\* One peer's window is replaced.
With(S, p, v) == [S EXCEPT !.window[p] = v]

\* Only that window changes.
LEMMA WithFacts ==
    ASSUME NEW S \in State, NEW p \in Peers, NEW v \in Window
    PROVE  /\ With(S, p, v) \in State
           /\ \A q \in Peers : With(S, p, v).window[q] = IF q = p THEN v ELSE S.window[q]
           /\ With(S, p, v).last = S.last /\ With(S, p, v).pending = S.pending
           /\ With(S, p, v).is_reset = S.is_reset /\ With(S, p, v).room = S.room
           /\ With(S, p, v).data_read = S.data_read /\ With(S, p, v).handed = S.handed
           /\ With(S, p, v).losers = S.losers /\ With(S, p, v).stop = S.stop
<1> DEFINE f == [S.window EXCEPT ![p] = v]
<1>1. f \in [Peers -> Window] /\ \A q \in Peers : f[q] = IF q = p THEN v ELSE S.window[q]
  BY DEF State
<1>2. With(S, p, v) = [S EXCEPT !.window = f]
  BY DEF With
<1> HIDE DEF f
<1>3. /\ With(S, p, v) \in State /\ With(S, p, v).window = f
      /\ With(S, p, v).last = S.last /\ With(S, p, v).pending = S.pending
      /\ With(S, p, v).is_reset = S.is_reset /\ With(S, p, v).room = S.room
      /\ With(S, p, v).data_read = S.data_read /\ With(S, p, v).handed = S.handed
      /\ With(S, p, v).losers = S.losers /\ With(S, p, v).stop = S.stop
  BY <1>1, <1>2 DEF State
<1> QED
  BY <1>1, <1>3 DEF f

\* An arrival for one peer.
LEMMA WithGood ==
    ASSUME NEW base, NEW m, NEW S, Good(S, base, m), NEW p \in Peers,
           NEW v, Arrives(S.window[p], v, base, m)
    PROVE  Good(With(S, p, v), base, m)
<1> DEFINE T == With(S, p, v)
<1>1. v \in Window /\ S \in State
  BY WInvFacts DEF Arrives, Fine, Sound, Good
<1>2. /\ T \in State
      /\ \A q \in Peers : T.window[q] = IF q = p THEN v ELSE S.window[q]
      /\ T.last = S.last /\ T.pending = S.pending
      /\ T.is_reset = S.is_reset /\ T.handed = S.handed /\ T.losers = S.losers
  BY <1>1, WithFacts
<1>3. \A q \in Peers : S.handed[q] \in SUBSET Sqn
  BY <1>1 DEF State
<1> SUFFICES Good(T, base, m)
  OBVIOUS
<1> HIDE DEF T
<1>4. \A q \in Peers : Fine(T.window[q], base, m)
  BY <1>2 DEF Good, Arrives
<1>5. Held(T)
  <2> SUFFICES ASSUME NEW q \in Peers PROVE HeldOf(T.window[q], T.handed[q], T.last[q])
    BY DEF Held
  <2>1. HeldOf(S.window[q], S.handed[q], S.last[q])
    BY DEF Good, Held
  <2>2. HeldOf(v, S.handed[p], S.last[p])
    <3>1. HeldOf(S.window[p], S.handed[p], S.last[p])
      BY DEF Good, Held
    <3> QED
      BY <1>3, <3>1, KeptHeld DEF Arrives
  <2> QED
    BY <1>2, <2>1, <2>2
<1>6. Named(T)
  BY <1>2 DEF Good, Named
<1>7. Consistent => Noticed(T)
  <2> SUFFICES ASSUME Consistent, NEW q \in Peers, Readable(T.window[q])
               PROVE  \/ q \in ToSet(S.pending) \/ T.window[q].has_event
                      \/ T.window[q].cumulative_losses # 0
    BY <1>2 DEF Noticed
  <2>1. Readable(S.window[q]) => \/ q \in ToSet(S.pending) \/ S.window[q].has_event
                                 \/ S.window[q].cumulative_losses # 0
    BY DEF Good, Noticed
  <2> QED
    BY <1>2, <2>1 DEF Arrives, Noticing
<1> QED
  BY <1>2, <1>4, <1>5, <1>6, <1>7 DEF Good

\* pgm_peer_set_pending: the peer is in the list, at the head if it was not in it.
LEMMA SetPendingFacts ==
    ASSUME NEW S \in State, NEW p \in Peers
    PROVE  LET T == SetPending(S, p) IN
           /\ T \in State /\ T.window = S.window /\ T.last = S.last
           /\ T.is_reset = S.is_reset /\ T.handed = S.handed /\ T.losers = S.losers
           /\ T.stop = S.stop
           /\ ToSet(T.pending) = {p} \cup ToSet(S.pending)
           /\ p \in ToSet(S.pending) => T = S
           /\ p \notin ToSet(S.pending) => T.pending # <<>> /\ Head(T.pending) = p
<1> DEFINE T == SetPending(S, p)
<1>1. CASE p \in ToSet(S.pending)
  BY <1>1 DEF SetPending
<1>2. CASE p \notin ToSet(S.pending)
  <2> DEFINE q == <<p>> \o S.pending
  <2>1. T = [S EXCEPT !.pending = q]
    BY <1>2 DEF SetPending
  <2>2. /\ q \in Seq(Peers) /\ q # <<>> /\ Head(q) = p
        /\ ToSet(q) = {p} \cup ToSet(S.pending)
    BY Pushed DEF State
  <2> HIDE DEF q
  <2>3. /\ T \in State /\ T.window = S.window /\ T.last = S.last
        /\ T.is_reset = S.is_reset /\ T.handed = S.handed /\ T.losers = S.losers
        /\ T.stop = S.stop /\ T.pending = q
    BY <2>1, <2>2 DEF State
  <2> QED
    BY <1>2, <2>2, <2>3
<1> QED
  BY <1>1, <1>2

\* A peer put on the list takes no other off it.
LEMMA SetPendingGood ==
    ASSUME NEW base, NEW m, NEW S, Good(S, base, m), NEW p \in Peers
    PROVE  Good(SetPending(S, p), base, m)
<1> DEFINE T == SetPending(S, p)
<1>1. S \in State
  BY DEF Good
<1>2. /\ T \in State /\ T.window = S.window /\ T.last = S.last
      /\ T.is_reset = S.is_reset /\ T.handed = S.handed /\ T.losers = S.losers
      /\ ToSet(T.pending) = {p} \cup ToSet(S.pending)
      /\ p \in ToSet(S.pending) => T = S
      /\ p \notin ToSet(S.pending) => T.pending # <<>> /\ Head(T.pending) = p
  BY <1>1, SetPendingFacts
<1> SUFFICES Good(T, base, m)
  OBVIOUS
<1> HIDE DEF T
<1>3. Held(T)
  BY <1>2 DEF Good, Held
<1>4. Named(T)
  BY <1>2 DEF Good, Named
<1>5. Consistent => Noticed(T)
  BY <1>2 DEF Good, Noticed
<1> QED
  BY <1>2, <1>3, <1>4, <1>5 DEF Good

\* A loss puts its peer on the list and raises the notice.
LEMMA NoticeLossGood ==
    ASSUME NEW base, NEW m, NEW S, Good(S, base, m), NEW p \in Peers
    PROVE  LET T == NoticeLoss(S, p) IN
           /\ Good(T, base, m) /\ T.stop = S.stop /\ T.handed = S.handed
           /\ Raised(S) => Raised(T)
<1>1. CASE ~(S.window[p].cumulative_losses # 0 /\ p \notin ToSet(S.pending))
  BY <1>1 DEF NoticeLoss
<1>2. CASE S.window[p].cumulative_losses # 0 /\ p \notin ToSet(S.pending)
  <2> DEFINE v == [S.window[p] EXCEPT !.cumulative_losses = 0]
             X == SetReset(S, p)
             T == SetPending(X, p)
  <2>1. NoticeLoss(S, p) = T
    BY <1>2 DEF NoticeLoss
  <2>2. /\ v \in Window /\ Fine(v, base, m) /\ Kept(S.window[p], v)
        /\ Readable(v) => Readable(S.window[p])
    BY FlagsFine DEF Good
  <2>3. S \in State /\ S.window \in [Peers -> Window]
    BY DEF Good, State
  <2> DEFINE l == S.losers \cup {p}
  <2>a. l \in SUBSET Peers
    BY <2>3 DEF State
  <2>4. X = [With(S, p, v) EXCEPT !.is_reset = TRUE, !.losers = l]
    BY <2>3 DEF SetReset, With, State
  <2>5. /\ X \in State
        /\ \A q \in Peers : X.window[q] = IF q = p THEN v ELSE S.window[q]
        /\ X.last = S.last /\ X.pending = S.pending
        /\ X.is_reset = TRUE /\ X.handed = S.handed /\ X.losers = l /\ X.stop = S.stop
    <3> DEFINE W == With(S, p, v)
    <3>1. /\ W \in State
          /\ \A q \in Peers : W.window[q] = IF q = p THEN v ELSE S.window[q]
          /\ W.last = S.last /\ W.pending = S.pending /\ W.stop = S.stop
          /\ W.handed = S.handed
      <4> HIDE DEF v
      <4> QED
        BY <2>2, <2>3, WithFacts
    <3> HIDE DEF W, v, l
    <3>2. X = [W EXCEPT !.is_reset = TRUE, !.losers = l]
      BY <2>4 DEF W, v
    <3> HIDE DEF X
    <3>3. /\ X \in State /\ X.window = W.window /\ X.last = W.last
          /\ X.pending = W.pending /\ X.is_reset = TRUE /\ X.handed = W.handed
          /\ X.losers = l /\ X.stop = W.stop
      BY <2>a, <3>1, <3>2 DEF State
    <3> QED
      BY <3>1, <3>3
  <2> HIDE DEF X, v, l
  <2>6. /\ T \in State /\ T.window = X.window /\ T.last = S.last
        /\ T.is_reset = TRUE /\ T.handed = S.handed /\ T.losers = l /\ T.stop = S.stop
        /\ ToSet(T.pending) = {p} \cup ToSet(S.pending)
    BY <1>2, <2>5, SetPendingFacts
  <2> HIDE DEF T
  <2>7. \A q \in Peers : Fine(T.window[q], base, m)
    BY <2>2, <2>5, <2>6 DEF Good
  <2>8. Held(T)
    <3> SUFFICES ASSUME NEW q \in Peers PROVE HeldOf(T.window[q], T.handed[q], T.last[q])
      BY DEF Held
    <3>1. HeldOf(S.window[q], S.handed[q], S.last[q]) /\ S.handed[q] \in SUBSET Sqn
      BY <2>3 DEF Good, Held, State
    <3>2. q = p => HeldOf(v, S.handed[q], S.last[q])
      BY <2>2, <3>1, KeptHeld
    <3> QED
      BY <2>5, <2>6, <3>1, <3>2
  <2>9. Named(T) /\ Raised(T)
    BY <2>6 DEF Good, Named, Raised, l
  <2>10. Consistent => Noticed(T)
    BY <2>5, <2>6 DEF Good, Noticed
  <2>11. Good(T, base, m)
    BY <2>6, <2>7, <2>8, <2>9, <2>10 DEF Good
  <2> QED
    BY <2>1, <2>6, <2>9, <2>11
<1> QED
  BY <1>1, <1>2

\* An event makes its peer pending.
LEMMA NoticeEventGood ==
    ASSUME NEW base, NEW m, NEW S, Good(S, base, m), NEW p \in Peers
    PROVE  LET T == NoticeEvent(S, p) IN
           Good(T, base, m) /\ T.stop = S.stop /\ (Raised(S) => Raised(T))
<1>1. CASE ~(S.window[p].has_event /\ p \notin ToSet(S.pending))
  BY <1>1 DEF NoticeEvent
<1>2. CASE S.window[p].has_event /\ p \notin ToSet(S.pending)
  <2> DEFINE v == [S.window[p] EXCEPT !.has_event = FALSE]
             X == With(S, p, v)
             T == SetPending(X, p)
  <2>1. NoticeEvent(S, p) = T
    <3>1. S \in State
      BY DEF Good
    <3>2. [S EXCEPT !.window[p].has_event = FALSE] = X
      BY <3>1 DEF With, State
    <3> QED
      BY <1>2, <3>2 DEF NoticeEvent
  <2>2. /\ v \in Window /\ Fine(v, base, m) /\ Kept(S.window[p], v)
        /\ Readable(v) => Readable(S.window[p])
    BY FlagsFine DEF Good
  <2>3. S \in State /\ S.window \in [Peers -> Window]
    BY DEF Good, State
  <2>5. /\ X \in State
        /\ \A q \in Peers : X.window[q] = IF q = p THEN v ELSE S.window[q]
        /\ X.last = S.last /\ X.pending = S.pending
        /\ X.is_reset = S.is_reset /\ X.handed = S.handed /\ X.losers = S.losers
        /\ X.stop = S.stop
    <3> HIDE DEF v
    <3> QED
      BY <2>2, <2>3, WithFacts
  <2> HIDE DEF X, v
  <2>6. /\ T \in State /\ T.window = X.window /\ T.last = S.last
        /\ T.is_reset = S.is_reset /\ T.handed = S.handed /\ T.losers = S.losers
        /\ T.stop = S.stop
        /\ ToSet(T.pending) = {p} \cup ToSet(S.pending)
    BY <1>2, <2>5, SetPendingFacts
  <2> HIDE DEF T
  <2>7. \A q \in Peers : Fine(T.window[q], base, m)
    BY <2>2, <2>5, <2>6 DEF Good
  <2>8. Held(T)
    <3> SUFFICES ASSUME NEW q \in Peers PROVE HeldOf(T.window[q], T.handed[q], T.last[q])
      BY DEF Held
    <3>1. HeldOf(S.window[q], S.handed[q], S.last[q]) /\ S.handed[q] \in SUBSET Sqn
      BY <2>3 DEF Good, Held, State
    <3>2. q = p => HeldOf(v, S.handed[q], S.last[q])
      BY <2>2, <3>1, KeptHeld
    <3> QED
      BY <2>5, <2>6, <3>1, <3>2
  <2>9. Named(T) /\ (Raised(S) => Raised(T))
    BY <2>6 DEF Good, Named, Raised
  <2>10. Consistent => Noticed(T)
    BY <2>5, <2>6 DEF Good, Noticed
  <2>11. Good(T, base, m)
    BY <2>6, <2>7, <2>8, <2>9, <2>10 DEF Good
  <2> QED
    BY <2>1, <2>6, <2>9, <2>11
<1> QED
  BY <1>1, <1>2

-----------------------------------------------------------------------------
(***************************************************************************)
(* pgm_flush_peers_pending.                                                *)
(***************************************************************************)

\* The buffers of an earlier call are released.
LEMMA ReleasedFine ==
    ASSUME SqnMod % Alloc = 0, NEW base \in Sqn, NEW m \in Nat, m < SignBit,
           NEW S, Good(S, base, m), NEW p \in Peers
    PROVE  /\ Fine(Released(S, p), base, m)
           /\ HeldOf(Released(S, p), S.handed[p], "now")
<1>1. Fine(S.window[p], base, m) /\ HeldOf(S.window[p], S.handed[p], S.last[p])
  BY DEF Good, Held
<1>2. CASE Releasable(S, p)
  <2>1. Fine(RemoveCommit(S.window[p]), base, m)
    BY <1>1, RemoveCommitSound, ReadWithin DEF Fine
  <2>2. S.handed[p] = {}
    BY <1>1, <1>2 DEF Releasable, HeldOf
  <2>3. HeldOf(RemoveCommit(S.window[p]), {}, "now")
    BY DEF HeldOf
  <2> QED
    BY <1>2, <2>1, <2>2, <2>3 DEF Released
<1>3. CASE ~Releasable(S, p)
  BY <1>1, <1>3 DEF Released, HeldOf
<1> QED
  BY <1>2, <1>3

\* A read hands over what it commits.
LEMMA CommittedHeld ==
    ASSUME NEW w, WInv(w), NEW s \in Committed(w)
    PROVE  s \in Sqn /\ Peek(w, s).sqn = s /\ StateAt(w, s) = "COMMIT_DATA"
<1>1. s \in Sqn /\ Minus(s, w.trail) < CommitLength(w)
  BY DEF Committed
<1>2. /\ CommitLength(w) \in Nat /\ Length(w) \in Nat /\ CommitLength(w) <= Length(w)
      /\ w.trail \in Sqn
  BY WInvFacts DEF Sqn
<1>3. Minus(s, w.trail) < Length(w)
  <2>1. Minus(s, w.trail) \in Nat
    BY <1>1, <1>2, SqnArith
  <2> QED
    BY <1>1, <1>2, <2>1
<1>4. SlotOK(w, s)
  BY <1>1, <1>3 DEF WInv
<1> QED
  BY <1>1, <1>4 DEF SlotOK

\* A read and the loss notice that may follow it, before the peer is taken off the list.
LEMMA AfterReadGood ==
    ASSUME SqnMod % Alloc = 0, NEW base \in Sqn, NEW m \in Nat, m < SignBit,
           NEW S, Good(S, base, m), NEW p \in Peers, S.pending # <<>>, Head(S.pending) = p
    PROVE  LET r == ReadMessages(Released(S, p), S.room)
               T == AfterLoss(AfterRead(S, p, r), p) IN
           /\ Good(T, base, m) /\ T.pending = S.pending /\ T.stop = S.stop
           /\ Raised(S) => Raised(T)
           /\ Consistent /\ T.room # 0 /\ ~T.is_reset => ~Readable(T.window[p])
<1> DEFINE r == ReadMessages(Released(S, p), S.room)
           A == AfterRead(S, p, r)
           T == AfterLoss(A, p)
           h == S.handed[p] \cup (Committed(r.window) \ Committed(S.window[p]))
           l == IF r.read > 0 THEN "now" ELSE "zero"
<1>1. S \in State /\ S.room \in Nat
  BY DEF Good, State
<1>2. /\ r.window \in Window /\ Fine(r.window, base, m)
      /\ Kept(Released(S, p), r.window)
      /\ r.read \in Nat /\ r.read <= S.room
      /\ Consistent => r.read = S.room \/ Settled(r.window)
  BY <1>1, ReleasedFine, ReadMessagesFine
<1> HIDE DEF r
<1>3. HeldOf(r.window, h, l)
  <2>1. S.handed[p] \in SUBSET Sqn /\ WInv(r.window)
    BY <1>1, <1>2 DEF State, Fine, Sound
  <2>2. HeldOf(r.window, S.handed[p], "now")
    BY <1>2, <2>1, ReleasedFine, KeptHeld
  <2> QED
    BY <2>1, <2>2, CommittedHeld DEF HeldOf
<1>4. h \in SUBSET Sqn
  BY <1>1 DEF State, Committed
<1>5. l \in {"zero", "now", "before"}
  OBVIOUS
<1> DEFINE d == S.room - r.read
           e == S.data_read \/ r.read > 0
           W == [S.window EXCEPT ![p] = r.window]
           H == [S.handed EXCEPT ![p] = h]
           Ls == [S.last EXCEPT ![p] = l]
<1>6. d \in Nat /\ e \in BOOLEAN
  <2>1. d \in Nat
    BY <1>1, <1>2
  <2>2. S.data_read \in BOOLEAN /\ (r.read > 0) \in BOOLEAN
    BY <1>1 DEF State
  <2> QED
    BY <2>1, <2>2
<1>7. A = [S EXCEPT !.window = W, !.room = d, !.data_read = e, !.last = Ls, !.handed = H]
  BY <1>1 DEF AfterRead, State
<1>8. /\ W \in [Peers -> Window] /\ H \in [Peers -> SUBSET Sqn]
      /\ Ls \in [Peers -> {"zero", "now", "before"}]
      /\ \A q \in Peers : /\ W[q] = IF q = p THEN r.window ELSE S.window[q]
                          /\ H[q] = IF q = p THEN h ELSE S.handed[q]
                          /\ Ls[q] = IF q = p THEN l ELSE S.last[q]
  <2> HIDE DEF h, l
  <2> QED
    BY <1>1, <1>2, <1>4, <1>5 DEF State
<1> HIDE DEF W, H, Ls, d, e, h, l, A
<1>9. /\ A \in State /\ A.window = W /\ A.room = d /\ A.last = Ls /\ A.handed = H
      /\ A.pending = S.pending /\ A.is_reset = S.is_reset /\ A.losers = S.losers
      /\ A.stop = S.stop
  BY <1>1, <1>6, <1>7, <1>8 DEF State
<1>10. \A q \in Peers : Fine(W[q], base, m) /\ HeldOf(W[q], H[q], Ls[q])
  BY <1>2, <1>3, <1>8 DEF Good, Held
<1>11. \A q \in Peers : /\ Readable(W[q]) => q = p \/ Readable(S.window[q])
                        /\ q # p => W[q] = S.window[q]
  BY <1>8
<1>12. S.pending \in Seq(Peers) /\ p \in ToSet(S.pending)
  <2>1. S.pending \in Seq(Peers)
    BY <1>1 DEF State
  <2> QED
    BY <2>1, Popped
<1>13. CASE A.window[p].cumulative_losses = 0
  <2>1. T = A
    BY <1>13 DEF AfterLoss
  <2>2. Held(A) /\ Named(A)
    BY <1>9, <1>10 DEF Held, Named, Good
  <2>3. Consistent => Noticed(A)
    BY <1>9, <1>11, <1>12 DEF Noticed, Good
  <2>4. Good(A, base, m)
    BY <1>9, <1>10, <2>2, <2>3 DEF Good
  <2>5. ASSUME Consistent, A.room # 0 PROVE ~Readable(A.window[p])
    <3>1. A.window[p] = r.window
      BY <1>8, <1>9
    <3>2. r.read # S.room
      BY <1>1, <1>2, <1>9, <2>5 DEF d
    <3> QED
      BY <1>2, <1>13, <2>5, <3>1, <3>2 DEF Settled
  <2>6. Raised(S) => Raised(A)
    BY <1>9 DEF Raised
  <2> QED
    BY <1>9, <2>1, <2>4, <2>5, <2>6 DEF A, r
<1>14. CASE A.window[p].cumulative_losses # 0
  <2> DEFINE v == [A.window[p] EXCEPT !.cumulative_losses = 0]
             B == With(A, p, v)
  <2>0. T = SetReset(A, p)
    BY <1>14 DEF AfterLoss
  <2>1. Fine(A.window[p], base, m)
    BY <1>9, <1>10
  <2>2. v \in Window /\ Fine(v, base, m) /\ Kept(A.window[p], v)
    BY <2>1, FlagsFine
  <2> DEFINE ls == S.losers \cup {p}
  <2>a. ls \in SUBSET Peers
    BY <1>1 DEF State
  <2>3. T = [B EXCEPT !.is_reset = TRUE, !.losers = ls]
    BY <1>9, <2>0 DEF SetReset, With, State
  <2> HIDE DEF v, ls
  <2>4. /\ B \in State
        /\ \A q \in Peers : B.window[q] = IF q = p THEN v ELSE A.window[q]
        /\ B.last = A.last /\ B.pending = A.pending /\ B.handed = A.handed
        /\ B.stop = A.stop /\ B.room = A.room
    BY <1>9, <2>2, WithFacts
  <2> HIDE DEF B, T
  <2>5. /\ T \in State /\ T.window = B.window /\ T.last = A.last /\ T.pending = A.pending
        /\ T.handed = A.handed /\ T.stop = A.stop /\ T.is_reset = TRUE /\ T.losers = ls
    BY <2>a, <2>3, <2>4 DEF State
  <2>6. Held(T)
    <3> SUFFICES ASSUME NEW q \in Peers PROVE HeldOf(T.window[q], T.handed[q], T.last[q])
      BY DEF Held
    <3>1. HeldOf(A.window[q], A.handed[q], A.last[q]) /\ A.handed[q] \in SUBSET Sqn
      BY <1>8, <1>9, <1>10
    <3>2. q = p => HeldOf(v, A.handed[q], A.last[q])
      BY <2>2, <3>1, KeptHeld
    <3> QED
      BY <2>4, <2>5, <3>1, <3>2
  <2>7. Named(T) /\ Raised(T)
    BY <1>9, <1>12, <2>5 DEF Good, Named, Raised, ls
  <2>8. Consistent => Noticed(T)
    BY <1>9, <1>11, <1>12, <2>4, <2>5 DEF Noticed, Good
  <2>9. \A q \in Peers : Fine(T.window[q], base, m)
    BY <1>9, <1>10, <2>2, <2>4, <2>5
  <2>10. Good(T, base, m)
    BY <2>5, <2>6, <2>7, <2>8, <2>9 DEF Good
  <2> QED
    BY <1>9, <2>5, <2>7, <2>10 DEF T, A, r
<1> QED
  BY <1>13, <1>14

\* One turn of the flush: the loop stops at the peer at the head, or takes it off.
LEMMA FlushPeerGood ==
    ASSUME SqnMod % Alloc = 0, NEW base \in Sqn, NEW m \in Nat, m < SignBit,
           NEW S, Good(S, base, m), Raised(S), ~S.stop, S.pending # <<>>,
           NEW p, Head(S.pending) = p
    PROVE  LET T == FlushPeer(S, p) IN
           /\ Good(T, base, m) /\ Raised(T)
           /\ ~T.stop => T.pending = Tail(S.pending)
<1> DEFINE A == AfterLoss(AfterRead(S, p, ReadMessages(Released(S, p), S.room)), p)
           T == FlushPeer(S, p)
<1>1. S \in State /\ S.pending \in Seq(Peers)
  BY DEF Good, State
<1>2. p \in Peers
  BY <1>1, Popped
<1>3. /\ Good(A, base, m) /\ A.pending = S.pending /\ A.stop = S.stop /\ Raised(A)
      /\ Consistent /\ A.room # 0 /\ ~A.is_reset => ~Readable(A.window[p])
  BY <1>2, AfterReadGood
<1>4. T = PopUnlessStopped(A)
  BY DEF FlushPeer
<1> SUFFICES /\ Good(T, base, m) /\ Raised(T)
             /\ ~T.stop => T.pending = Tail(S.pending)
  OBVIOUS
<1> HIDE DEF A, T
<1>5. A \in State
  BY <1>3 DEF Good
<1>6. CASE A.room = 0 \/ A.is_reset
  <2>1. T = [A EXCEPT !.stop = TRUE]
    BY <1>4, <1>6 DEF PopUnlessStopped
  <2>2. /\ T \in State /\ T.window = A.window /\ T.last = A.last /\ T.pending = A.pending
        /\ T.handed = A.handed /\ T.stop = TRUE /\ T.is_reset = A.is_reset
        /\ T.losers = A.losers
    BY <1>5, <2>1 DEF State
  <2> QED
    BY <1>3, <2>2 DEF Good, Held, Named, Noticed, Raised
<1>7. CASE ~(A.room = 0 \/ A.is_reset)
  <2> DEFINE t == Tail(S.pending)
  <2>1. t \in Seq(Peers) /\ ToSet(S.pending) = {p} \cup ToSet(t)
    BY <1>1, Popped
  <2>2. T = [A EXCEPT !.pending = t]
    BY <1>3, <1>4, <1>5, <1>7 DEF PopUnlessStopped, State
  <2> SUFFICES Good(T, base, m) /\ Raised(T) /\ T.pending = t
    OBVIOUS
  <2> HIDE DEF t
  <2>3. /\ T \in State /\ T.window = A.window /\ T.last = A.last /\ T.pending = t
        /\ T.handed = A.handed /\ T.is_reset = A.is_reset /\ T.losers = A.losers
    BY <1>5, <2>1, <2>2 DEF State
  <2>4. Held(T) /\ Named(T) /\ Raised(T)
    BY <1>3, <1>7, <2>3 DEF Good, Held, Named, Raised
  <2>5. Consistent => Noticed(T)
    BY <1>3, <1>7, <2>1, <2>3 DEF Good, Noticed
  <2> QED
    BY <1>3, <1>7, <2>3, <2>4, <2>5 DEF Good
<1> QED
  BY <1>6, <1>7

\* What is true of a flush of list q after k turns.
FlushSoFar(q, base, m, T, k) ==
    /\ Good(T, base, m) /\ Raised(T)
    /\ ~T.stop => /\ Len(T.pending) = Len(q) - k
                  /\ \A i \in 1 .. Len(T.pending) : T.pending[i] = q[i + k]

\* One turn more.
LEMMA FlushTurn ==
    ASSUME SqnMod % Alloc = 0, NEW base \in Sqn, NEW m \in Nat, m < SignBit,
           NEW q \in Seq(Peers), NEW k \in 1 .. Len(q),
           NEW S, FlushSoFar(q, base, m, S, k - 1)
    PROVE  FlushSoFar(q, base, m, FlushPeer(S, q[k]), k)
<1>0. Len(q) \in Nat /\ k \in Nat \ {0} /\ k <= Len(q)
  BY LenProperties
<1>1. CASE S.stop
  <2>1. FlushPeer(S, q[k]) = S
    BY <1>1 DEF FlushPeer
  <2> QED
    BY <1>1, <2>1 DEF FlushSoFar
<1>2. CASE ~S.stop
  <2> DEFINE T == FlushPeer(S, q[k])
  <2>1. /\ Good(S, base, m) /\ Raised(S) /\ Len(S.pending) = Len(q) - (k - 1)
        /\ \A i \in 1 .. Len(S.pending) : S.pending[i] = q[i + (k - 1)]
    BY <1>2 DEF FlushSoFar
  <2>2. S.pending \in Seq(Peers)
    BY <2>1 DEF Good, State
  <2>3. S.pending # <<>>
    BY <1>0, <2>1, <2>2, EmptySeq
  <2>4. /\ Head(S.pending) = S.pending[1] /\ Len(Tail(S.pending)) = Len(S.pending) - 1
        /\ \A i \in 1 .. Len(Tail(S.pending)) : Tail(S.pending)[i] = S.pending[i + 1]
        /\ Len(S.pending) \in Nat \ {0}
    BY <2>2, <2>3, Popped
  <2>5. Head(S.pending) = q[k]
    <3>1. 1 \in 1 .. Len(S.pending) /\ 1 + (k - 1) = k
      BY <1>0, <2>4
    <3> QED
      BY <2>1, <2>4, <3>1
  <2>6. /\ Good(T, base, m) /\ Raised(T)
        /\ ~T.stop => T.pending = Tail(S.pending)
    BY <1>2, <2>1, <2>3, <2>5, FlushPeerGood
  <2> SUFFICES FlushSoFar(q, base, m, T, k)
    OBVIOUS
  <2> HIDE DEF T
  <2> DEFINE a == S.pending
             b == T.pending
  <2>7. ASSUME ~T.stop
        PROVE  Len(b) = Len(q) - k /\ \A i \in 1 .. Len(b) : b[i] = q[i + k]
    <3>1. b = Tail(a)
      BY <2>6, <2>7
    <3>2. Len(b) = Len(a) - 1 /\ Len(a) = Len(q) - (k - 1) /\ Len(a) \in Nat \ {0}
      BY <2>1, <2>4, <3>1
    <3>3. ASSUME NEW i \in 1 .. Len(b) PROVE b[i] = q[i + k]
      <4>1. i + 1 \in 1 .. Len(a) /\ (i + 1) + (k - 1) = i + k
        BY <1>0, <3>2
      <4>2. b[i] = a[i + 1]
        BY <2>4, <3>1
      <4> HIDE DEF a, b
      <4> QED
        BY <2>1, <4>1, <4>2 DEF a
    <3> HIDE DEF a, b
    <3> QED
      BY <1>0, <3>2, <3>3
  <2> QED
    BY <2>6, <2>7 DEF FlushSoFar
<1> QED
  BY <1>1, <1>2

\* pgm_flush_peers_pending: a flush takes no peer with a noticed loss off the list.
LEMMA FlushGood ==
    ASSUME SqnMod % Alloc = 0, NEW base \in Sqn, NEW m \in Nat, m < SignBit,
           NEW S, Good(S, base, m), Raised(S), ~S.stop
    PROVE  LET T == FlushPending(S) IN
           Good(T, base, m) /\ Raised(T)
<1> DEFINE q == S.pending
           n == Len(S.pending)
<1>1. q \in Seq(Peers) /\ n \in Nat /\ DOMAIN q = 1 .. n
  BY LenProperties DEF Good, State
<1>2. PICK turn : /\ turn[0] = S
                  /\ \A k \in 1 .. n : turn[k] = FlushPeer(turn[k - 1], S.pending[k])
                  /\ FlushPending(S) = turn[n]
  <2> HIDE DEF n
  <2> QED
    BY <1>1, FlushTurns
<1> DEFINE Bad == {k \in 0 .. n : ~FlushSoFar(q, base, m, turn[k], k)}
<1>3. Bad = {}
  <2> SUFFICES ASSUME Bad # {} PROVE FALSE
    OBVIOUS
  <2>1. Bad \in SUBSET Nat
    OBVIOUS
  <2>2. PICK k \in Bad : \A j \in Bad : k <= j
    <3> HIDE DEF Bad
    <3> QED
      BY <2>1, Least
  <2>3. k \in 0 .. n /\ ~FlushSoFar(q, base, m, turn[k], k)
    OBVIOUS
  <2>4. k # 0
    <3>1. \A i \in 1 .. n : q[i] = q[i + 0]
      OBVIOUS
    <3>2. FlushSoFar(q, base, m, turn[0], 0)
      BY <1>1, <1>2, <3>1 DEF FlushSoFar
    <3> QED
      BY <2>3, <3>2
  <2> HIDE DEF q, n
  <2>5. k - 1 \in 0 .. n /\ k \in 1 .. n /\ ~(k <= k - 1)
    BY <1>1, <2>3, <2>4
  <2>6. FlushSoFar(q, base, m, turn[k - 1], k - 1)
    BY <2>2, <2>5
  <2>7. FlushSoFar(q, base, m, FlushPeer(turn[k - 1], q[k]), k)
    BY <1>1, <2>5, <2>6, FlushTurn DEF n, q
  <2> QED
    BY <1>2, <2>3, <2>5, <2>7 DEF q
<1>4. n \in 0 .. n
  BY <1>1
<1>5. FlushSoFar(q, base, m, FlushPending(S), n)
  BY <1>2, <1>3, <1>4
<1> QED
  BY <1>5 DEF FlushSoFar

-----------------------------------------------------------------------------
(***************************************************************************)
(* The inductive invariant and the steps of pgm_recvmsgv.                  *)
(***************************************************************************)

\* Every packet of the session lies within the arc of m numbers from base.
Session(base, m) ==
    /\ \A p \in Tpdus : Minus(p.sqn, base) < m
    /\ \A s \in Sent : Minus(s, base) < m
    /\ \A t \in Trails : Minus(t, base) <= m

\* The inductive invariant.
IInv(base, m) ==
    /\ Good(Sock, base, m)
    /\ phase \in {"out", "timers", "packets"}
    /\ phase # "out" => Raised(Sock)
    /\ phase = "timers" => \A p \in Peers : handed[p] = {}

\* The fields of Sock.
LEMMA SockFields ==
    /\ Sock.window = window /\ Sock.last = last /\ Sock.pending = pending
    /\ Sock.is_reset = is_reset /\ Sock.room = room /\ Sock.data_read = data_read
    /\ Sock.handed = handed /\ Sock.losers = losers /\ Sock.stop = FALSE
BY DEF Sock

\* The socket becomes what a function made of it.
LEMMA BecomeGood ==
    ASSUME NEW base, NEW m, NEW S, Good(S, base, m), Become(S)
    PROVE  Good(Sock', base, m) /\ handed' = S.handed /\ (Raised(S) => Raised(Sock)')
<1>1. /\ Sock'.window = S.window /\ Sock'.last = S.last /\ Sock'.pending = S.pending
      /\ Sock'.is_reset = S.is_reset /\ Sock'.handed = S.handed /\ Sock'.losers = S.losers
  BY DEF Become, Sock
<1>2. Sock' \in State
  BY DEF Become, Sock, Good, State
<1>3. handed' = S.handed /\ (Raised(S) => Raised(Sock)')
  BY <1>1 DEF Become, Raised
<1> DEFINE T == Sock'
<1>4. T \in State /\ T.window = S.window /\ T.last = S.last /\ T.pending = S.pending
      /\ T.is_reset = S.is_reset /\ T.handed = S.handed /\ T.losers = S.losers
  BY <1>1, <1>2
<1> HIDE DEF T
<1>5. Good(T, base, m)
  BY <1>4 DEF Good, Held, Named, Noticed
<1> QED
  BY <1>3, <1>5 DEF T

\* A good socket stays good when the loss notice is given.
LEMMA ReportedGood ==
    ASSUME NEW base, NEW m, NEW S, Good(S, base, m)
    PROVE  Good([S EXCEPT !.is_reset = FALSE], base, m)
<1> DEFINE T == [S EXCEPT !.is_reset = FALSE]
<1>1. S \in State
  BY DEF Good
<1>2. /\ T \in State /\ T.window = S.window /\ T.last = S.last /\ T.pending = S.pending
      /\ T.is_reset = FALSE /\ T.handed = S.handed /\ T.losers = S.losers
  BY <1>1 DEF State
<1> SUFFICES Good(T, base, m)
  OBVIOUS
<1> HIDE DEF T
<1> QED
  BY <1>2 DEF Good, Held, Named, Noticed

\* The end of a call.
LEMMA ReturnGood ==
    ASSUME NEW base, NEW m, NEW S, Good(S, base, m), Return(S)
    PROVE  Good(Sock', base, m) /\ phase' = "out"
<1> DEFINE T == IF S.data_read THEN S ELSE [S EXCEPT !.is_reset = FALSE]
<1>1. Good(T, base, m)
  BY ReportedGood
<1>2. Become(T) /\ phase' = "out"
  BY DEF Return
<1> HIDE DEF T
<1> QED
  BY <1>1, <1>2, BecomeGood

\* What follows a packet that was not discarded.
LEMMA HandledGood ==
    ASSUME SqnMod % Alloc = 0, NEW base \in Sqn, NEW m \in Nat, m < SignBit,
           NEW S, Good(S, base, m), Raised(S), ~S.stop, NEW p \in Peers,
           Handled(S, p), phase = "packets"
    PROVE  Good(Sock', base, m) /\ (phase' = "out" \/ (phase' = "packets" /\ Raised(Sock)'))
<1> DEFINE E == NoticeEvent(S, p)
           T == FlushPending(E)
<1>1. Good(E, base, m) /\ Raised(E) /\ ~E.stop
  BY NoticeEventGood
<1>2. IF T.stop THEN Return(T) ELSE Become(T) /\ UNCHANGED <<is_pending_read, phase>>
  BY DEF Handled
<1> HIDE DEF E
<1>3. Good(T, base, m) /\ Raised(T)
  BY <1>1, FlushGood
<1> HIDE DEF T
<1>4. CASE T.stop
  BY <1>2, <1>3, <1>4, ReturnGood
<1>5. CASE ~T.stop
  BY <1>2, <1>3, <1>5, BecomeGood
<1> QED
  BY <1>4, <1>5

\* An arrival at one peer of the socket.
LEMMA ArrivedGood ==
    ASSUME NEW base, NEW m, Good(Sock, base, m), NEW p \in Peers,
           NEW v, Arrives(window[p], v, base, m)
    PROVE  LET S == [Sock EXCEPT !.window[p] = v] IN
           /\ Good(S, base, m) /\ ~S.stop /\ S.handed = handed /\ S.pending = pending
           /\ S.is_reset = is_reset /\ S.losers = losers
<1>1. v \in Window
  BY WInvFacts DEF Arrives, Fine, Sound
<1>2. Sock \in State
  BY DEF Good
<1> DEFINE S == With(Sock, p, v)
<1>3. Good(S, base, m)
  BY SockFields, WithGood
<1>4. /\ S.stop = FALSE /\ S.is_reset = is_reset /\ S.handed = handed
      /\ S.pending = pending /\ S.losers = losers
  BY <1>1, <1>2, SockFields, WithFacts
<1>5. S = [Sock EXCEPT !.window[p] = v]
  BY DEF With
<1> HIDE DEF S
<1> QED
  BY <1>3, <1>4, <1>5

\* Data, SPMs and NCFs.
LEMMA PacketInv ==
    ASSUME SqnMod % Alloc = 0, NEW base \in Sqn, NEW m \in Nat, m < SignBit,
           Session(base, m), IInv(base, m), OnData \/ OnSpm \/ OnNcf
    PROVE  IInv(base, m)'
<1>0. /\ Good(Sock, base, m) /\ Raised(Sock) /\ phase = "packets"
      /\ \A p \in Peers : Fine(window[p], base, m)
  BY SockFields DEF IInv, Good, OnData, OnSpm, OnNcf
<1> SUFFICES Good(Sock', base, m) /\ (phase' = "out" \/ (phase' = "packets" /\ Raised(Sock)'))
  BY DEF IInv
<1>1. CASE OnData
  <2>1. PICK p \in Peers, tpdu \in Tpdus, t \in Trails :
          LET r == Add(window[p], tpdu, t)
              S == [Sock EXCEPT !.window[p] = r.window]
          IN  IF r.status \in {"MISSING", "INSERTED", "APPENDED"}
              THEN Handled(S, p)
              ELSE Become(S) /\ UNCHANGED <<is_pending_read, phase>>
    BY <1>1 DEF OnData, Discarded
  <2> DEFINE v == Add(window[p], tpdu, t).window
             S == [Sock EXCEPT !.window[p] = v]
  <2>2. Handled(S, p) \/ (Become(S) /\ phase' = phase)
    BY <2>1
  <2>3. Arrives(window[p], v, base, m)
    <3>1. t \in Sqn /\ Minus(t, base) <= m /\ Minus(tpdu.sqn, base) < m
      BY ArrivalAssumption DEF Session
    <3> QED
      BY <1>0, <3>1, AddArrives
  <2> HIDE DEF v
  <2>4. Good(S, base, m) /\ ~S.stop /\ Raised(S)
    BY <1>0, <2>3, SockFields, ArrivedGood DEF Raised
  <2> HIDE DEF S
  <2>5. CASE Handled(S, p)
    BY <1>0, <2>4, <2>5, HandledGood
  <2>6. CASE Become(S) /\ phase' = phase
    BY <1>0, <2>4, <2>6, BecomeGood
  <2> QED
    BY <2>2, <2>5, <2>6
<1>2. CASE OnSpm
  <2>1. PICK p \in Peers, lead \in Sent, t \in Trails :
          LET N == NoticeLoss([Sock EXCEPT !.window[p] = Update(@, lead, t)], p)
          IN  Handled(N, p) \/ Discarded(N)
    BY <1>2 DEF OnSpm
  <2> DEFINE v == Update(window[p], lead, t)
             S == [Sock EXCEPT !.window[p] = v]
             L == NoticeLoss(S, p)
  <2>2. Handled(L, p) \/ (Become(L) /\ phase' = phase)
    <3>1. [Sock EXCEPT !.window[p] = Update(@, lead, t)] = S
      BY SockFields DEF Sock
    <3> QED
      BY <2>1, <3>1 DEF Discarded
  <2>3. Arrives(window[p], v, base, m)
    <3>1. /\ t \in Sqn /\ Minus(t, base) <= m /\ lead \in Sqn /\ Minus(lead, base) < m
      BY ArrivalAssumption DEF Session
    <3> QED
      BY <1>0, <3>1, UpdateArrives
  <2> HIDE DEF v
  <2>4. Good(S, base, m) /\ ~S.stop /\ Raised(S)
    BY <1>0, <2>3, SockFields, ArrivedGood DEF Raised
  <2> HIDE DEF S
  <2>5. Good(L, base, m) /\ L.stop = S.stop /\ Raised(L)
    BY <2>4, NoticeLossGood
  <2> HIDE DEF L
  <2>6. CASE Handled(L, p)
    BY <1>0, <2>4, <2>5, <2>6, HandledGood
  <2>7. CASE Become(L) /\ phase' = phase
    BY <1>0, <2>5, <2>7, BecomeGood
  <2> QED
    BY <2>2, <2>6, <2>7
<1>3. CASE OnNcf
  <2>1. PICK p \in Peers, s \in Sent :
          LET S == [Sock EXCEPT !.window[p] = Confirm(@, s).window]
          IN  Handled(NoticeLoss(S, p), p) \/ Discarded(S)
    BY <1>3 DEF OnNcf
  <2> DEFINE v == Confirm(window[p], s).window
             S == [Sock EXCEPT !.window[p] = v]
             L == NoticeLoss(S, p)
  <2>2. Handled(L, p) \/ (Become(S) /\ phase' = phase)
    <3>1. [Sock EXCEPT !.window[p] = Confirm(@, s).window] = S
      BY SockFields DEF Sock
    <3> QED
      BY <2>1, <3>1 DEF Discarded
  <2>3. Arrives(window[p], v, base, m)
    <3>1. s \in Sqn /\ Minus(s, base) < m
      BY ArrivalAssumption DEF Session
    <3> QED
      BY <1>0, <3>1, ConfirmArrives
  <2> HIDE DEF v
  <2>4. Good(S, base, m) /\ ~S.stop /\ Raised(S)
    BY <1>0, <2>3, SockFields, ArrivedGood DEF Raised
  <2> HIDE DEF S
  <2>5. Good(L, base, m) /\ L.stop = S.stop /\ Raised(L)
    BY <2>4, NoticeLossGood
  <2> HIDE DEF L
  <2>6. CASE Handled(L, p)
    BY <1>0, <2>4, <2>5, <2>6, HandledGood
  <2>7. CASE Become(S) /\ phase' = phase
    BY <1>0, <2>4, <2>7, BecomeGood
  <2> QED
    BY <2>2, <2>6, <2>7
<1> QED
  BY <1>1, <1>2, <1>3

\* A NAK is given up, or tried again: the loss makes its peer pending.
LEMMA NakInv ==
    ASSUME SqnMod % Alloc = 0, NEW base \in Sqn, NEW m \in Nat, m < SignBit,
           IInv(base, m), NakCancel \/ NakRetry
    PROVE  IInv(base, m)'
<1>0. /\ Good(Sock, base, m) /\ Raised(Sock) /\ phase = "timers" /\ phase' = phase
      /\ \A p \in Peers : Fine(window[p], base, m) /\ handed[p] = {}
  BY SockFields DEF IInv, Good, NakCancel, NakRetry
<1>1. ASSUME NEW T, Good(T, base, m), Raised(T), T.handed = handed,
             NEW p \in Peers, Become(NoticeLoss(T, p))
      PROVE  IInv(base, m)'
  <2> DEFINE L == NoticeLoss(T, p)
  <2>1. Good(L, base, m) /\ Raised(L) /\ L.handed = handed
    BY <1>1, NoticeLossGood
  <2>2. Become(L)
    BY <1>1
  <2> HIDE DEF L
  <2>3. Good(Sock', base, m) /\ Raised(Sock)' /\ handed' = handed
    BY <2>1, <2>2, BecomeGood
  <2> QED
    BY <1>0, <2>3 DEF IInv
<1>2. CASE NakRetry
  <2>1. PICK p \in Peers : Become(NoticeLoss(Sock, p))
    BY <1>2 DEF NakRetry
  <2> QED
    BY <1>0, <1>1, <2>1, SockFields
<1>3. CASE NakCancel
  <2>a. PICK p \in Peers : \E s \in Repairing(p) :
          Become(NoticeLoss(SetPending([Sock EXCEPT !.window[p] = Lost(@, s)], p), p))
    BY <1>3 DEF NakCancel
  <2>1. PICK s \in Repairing(p) :
          Become(NoticeLoss(SetPending([Sock EXCEPT !.window[p] = Lost(@, s)], p), p))
    BY <2>a
  <2>2. s \in Incoming(window[p]) /\ s \in Sqn
    BY DEF Repairing, Incoming
  <2> DEFINE v == Lost(window[p], s)
             S == [Sock EXCEPT !.window[p] = v]
             T == SetPending(S, p)
  <2>3. Become(NoticeLoss(T, p))
    <3>1. [Sock EXCEPT !.window[p] = Lost(@, s)] = S
      BY SockFields DEF Sock
    <3> QED
      BY <2>1, <3>1
  <2>4. Arrives(window[p], v, base, m)
    BY <1>0, <2>2, LostArrives
  <2> HIDE DEF v
  <2>5. /\ Good(S, base, m) /\ S.handed = handed
        /\ S.is_reset = is_reset /\ S.losers = losers
    BY <1>0, <2>4, ArrivedGood
  <2> HIDE DEF S
  <2>6. S \in State
    BY <2>5 DEF Good
  <2>7. T.handed = S.handed /\ T.is_reset = S.is_reset /\ T.losers = S.losers
    BY <2>6, SetPendingFacts
  <2>8. Good(T, base, m)
    BY <2>5, SetPendingGood
  <2> HIDE DEF T
  <2>9. Raised(T) /\ T.handed = handed
    BY <1>0, <2>5, <2>7, SockFields DEF Raised
  <2> QED
    BY <1>1, <2>3, <2>8, <2>9
<1> QED
  BY <1>2, <1>3

\* A peer expires.
LEMMA PeerExpiryInv ==
    ASSUME NEW base, NEW m, IInv(base, m), PeerExpiry
    PROVE  IInv(base, m)'
<1>0. /\ Good(Sock, base, m) /\ phase = "timers" /\ Raised(Sock)
      /\ \A p \in Peers : handed[p] = {}
  BY DEF IInv, PeerExpiry
<1>1. PICK p \in Peers : /\ window' = [window EXCEPT ![p] = RxwCreate]
                         /\ last' = [last EXCEPT ![p] = "zero"]
  BY DEF PeerExpiry
<1>2. /\ pending' = pending /\ is_reset' = is_reset /\ room' = room
      /\ data_read' = data_read /\ handed' = handed /\ losers' = losers /\ phase' = phase
  BY DEF PeerExpiry
<1>3. /\ window \in [Peers -> Window] /\ last \in [Peers -> {"zero", "now", "before"}]
      /\ pending \in Seq(Peers) /\ is_reset \in BOOLEAN /\ room \in Nat
      /\ data_read \in BOOLEAN /\ handed \in [Peers -> SUBSET Sqn] /\ losers \in SUBSET Peers
  BY <1>0, SockFields DEF Good, State
<1>4. RxwCreate \in Window /\ Fine(RxwCreate, base, m) /\ ~Readable(RxwCreate)
  BY CreateFine
<1>5. /\ window' \in [Peers -> Window] /\ last' \in [Peers -> {"zero", "now", "before"}]
      /\ \A q \in Peers : window'[q] = IF q = p THEN RxwCreate ELSE window[q]
  BY <1>1, <1>3, <1>4
<1>6. Sock' \in State
  BY <1>2, <1>3, <1>5 DEF Sock, State
<1>7. /\ Sock'.window = window' /\ Sock'.pending = pending /\ Sock'.is_reset = is_reset
      /\ Sock'.handed = handed /\ Sock'.last = last' /\ Sock'.losers = losers
  BY <1>2 DEF Sock
<1> DEFINE T == Sock'
<1> HIDE DEF T
<1>8. Good(T, base, m)
  <2>1. \A q \in Peers : Fine(T.window[q], base, m)
    BY <1>0, <1>4, <1>5, <1>7, SockFields DEF Good, T
  <2>2. Held(T)
    BY <1>0, <1>7 DEF Held, HeldOf, T
  <2>3. Named(T)
    BY <1>0, <1>7, SockFields DEF Good, Named, T
  <2>4. Consistent => Noticed(T)
    BY <1>0, <1>4, <1>5, <1>7, SockFields DEF Good, Noticed, T
  <2> QED
    BY <1>6, <2>1, <2>2, <2>3, <2>4 DEF Good, T
<1>9. Raised(T)
  BY <1>0, <1>7, SockFields DEF Raised, T
<1> QED
  BY <1>0, <1>2, <1>8, <1>9 DEF IInv, T

\* What earlier calls left is flushed, after their buffers became due for release.
LEMMA RecvFlushInv ==
    ASSUME SqnMod % Alloc = 0, NEW base \in Sqn, NEW m \in Nat, m < SignBit,
           IInv(base, m), RecvFlush
    PROVE  IInv(base, m)'
<1>0. /\ Good(Sock, base, m) /\ Raised(Sock)
      /\ \A p \in Peers : handed[p] = {}
  BY DEF IInv, RecvFlush
<1> DEFINE Ls == [p \in Peers |-> IF last[p] = "now" THEN "before" ELSE last[p]]
           S  == [Sock EXCEPT !.last = Ls]
           T  == FlushPending(S)
<1>1. \/ T.stop /\ Return(T)
      \/ ~T.stop /\ Become(T) /\ phase' = "packets"
  <2>1. [Sock EXCEPT !.last = [p \in Peers |-> IF @[p] = "now" THEN "before" ELSE @[p]]]
          = S
    BY SockFields DEF Sock
  <2> QED
    BY <2>1 DEF RecvFlush
<1>2. Sock \in State /\ last \in [Peers -> {"zero", "now", "before"}]
  BY <1>0, SockFields DEF Good, State
<1>3. Ls \in [Peers -> {"zero", "now", "before"}]
  BY <1>2
<1> HIDE DEF Ls
<1>4. /\ S \in State /\ S.window = window /\ S.pending = pending /\ S.stop = FALSE
      /\ S.is_reset = is_reset /\ S.handed = handed /\ S.losers = losers
  BY <1>2, <1>3, SockFields DEF State
<1> HIDE DEF S
<1>5. Good(S, base, m)
  <2>1. Held(S)
    BY <1>0, <1>4 DEF Held, HeldOf
  <2>2. Named(S)
    BY <1>0, <1>4, SockFields DEF Good, Named
  <2>3. \A p \in Peers : Fine(S.window[p], base, m)
    BY <1>0, <1>4, SockFields DEF Good
  <2>4. Consistent => Noticed(S)
    BY <1>0, <1>4, SockFields DEF Good, Noticed
  <2> QED
    BY <1>4, <2>1, <2>2, <2>3, <2>4 DEF Good
<1>b. Raised(S)
  BY <1>0, <1>4, SockFields DEF Raised
<1>6. Good(T, base, m) /\ Raised(T)
  BY <1>4, <1>5, <1>b, FlushGood
<1> HIDE DEF T
<1>7. Good(Sock', base, m) /\ (phase' = "out" \/ (phase' = "packets" /\ Raised(Sock)'))
  <2>1. CASE T.stop /\ Return(T)
    BY <1>6, <2>1, ReturnGood
  <2>2. CASE ~T.stop /\ Become(T) /\ phase' = "packets"
    BY <1>6, <2>2, BecomeGood
  <2> QED
    BY <1>1, <2>1, <2>2
<1> QED
  BY <1>7 DEF IInv

\* The start and the end of a call, and the notification.
LEMMA CallInv ==
    ASSUME NEW base, NEW m, IInv(base, m),
           RecvReset \/ RecvBegin \/ ProdReader \/ RecvEmpty \/ UNCHANGED vars
    PROVE  IInv(base, m)'
<1>0. Good(Sock, base, m)
  BY DEF IInv
<1>1. /\ window \in [Peers -> Window] /\ last \in [Peers -> {"zero", "now", "before"}]
      /\ pending \in Seq(Peers) /\ is_reset \in BOOLEAN /\ room \in Nat
      /\ data_read \in BOOLEAN /\ handed \in [Peers -> SUBSET Sqn] /\ losers \in SUBSET Peers
      /\ Sock \in State
  BY <1>0, SockFields DEF Good, State
<1>2. CASE RecvReset
  <2> DEFINE S == [Sock EXCEPT !.is_reset = FALSE]
  <2>1. Good(S, base, m)
    BY <1>0, ReportedGood
  <2>2. Become(S) /\ phase' = "out"
    BY <1>2, <1>1, SockFields DEF RecvReset, Become, State
  <2> HIDE DEF S
  <2>3. Good(Sock', base, m)
    BY <2>1, <2>2, BecomeGood
  <2> QED
    BY <2>2, <2>3 DEF IInv
<1>3. CASE RecvBegin
  <2> DEFINE T == Sock'
             H == [p \in Peers |-> {}]
  <2>1. /\ handed' = H /\ room' = MsgLen /\ data_read' = FALSE
        /\ window' = window /\ last' = last /\ pending' = pending
        /\ is_reset' = is_reset /\ losers' = {} /\ phase' = "timers" /\ ~is_reset
    BY <1>3 DEF RecvBegin
  <2>2. H \in [Peers -> SUBSET Sqn] /\ \A p \in Peers : H[p] = {}
    OBVIOUS
  <2> HIDE DEF H
  <2>3. T \in State
    BY <1>1, <2>1, <2>2, VectorAssumption DEF Sock, State
  <2>4. /\ T.window = window /\ T.last = last /\ T.pending = pending
        /\ T.is_reset = is_reset /\ T.handed = H /\ T.losers = {}
    BY <2>1 DEF Sock
  <2> HIDE DEF T
  <2>5. Held(T)
    BY <2>2, <2>4 DEF Held, HeldOf
  <2>6. Good(T, base, m) /\ Raised(T)
    BY <1>0, <2>1, <2>3, <2>4, <2>5, SockFields DEF Good, Named, Noticed, Raised
  <2> QED
    BY <2>1, <2>2, <2>6 DEF IInv, T
<1>4. CASE ProdReader \/ UNCHANGED vars
  <2>1. /\ window' = window /\ last' = last /\ pending' = pending
        /\ is_reset' = is_reset /\ losers' = losers /\ phase' = phase
        /\ room' = room /\ data_read' = data_read /\ handed' = handed
    BY <1>4 DEF ProdReader, vars, sock
  <2>2. Sock' = Sock
    BY <2>1 DEF Sock
  <2> QED
    BY <2>1, <2>2 DEF IInv
<1>5. CASE RecvEmpty
  <2>1. Return(Sock)
    BY <1>5 DEF RecvEmpty
  <2>2. Good(Sock', base, m) /\ phase' = "out"
    BY <1>0, <2>1, ReturnGood
  <2> QED
    BY <2>2 DEF IInv
<1> QED
  BY <1>2, <1>3, <1>4, <1>5

\* A socket without data is good.
LEMMA InitInv ==
    ASSUME NEW base, NEW m, Init
    PROVE  IInv(base, m)
<1>1. RxwCreate \in Window /\ Fine(RxwCreate, base, m) /\ ~Readable(RxwCreate)
  BY CreateFine
<1>2. /\ window \in [Peers -> Window] /\ last \in [Peers -> {"zero", "now", "before"}]
      /\ pending = <<>> /\ is_reset = FALSE /\ room \in Nat
      /\ data_read = FALSE /\ handed \in [Peers -> SUBSET Sqn] /\ losers = {}
      /\ \A p \in Peers : window[p] = RxwCreate /\ handed[p] = {}
      /\ phase = "out"
  BY <1>1, VectorAssumption DEF Init
<1>3. Sock \in State
  <2>1. pending \in Seq(Peers)
    BY <1>2, EmptySeq
  <2> QED
    BY <1>2, <2>1 DEF Sock, State
<1>4. Held(Sock) /\ Named(Sock)
  BY <1>2, SockFields DEF Held, HeldOf, Named
<1>5. Noticed(Sock) /\ \A p \in Peers : Fine(Sock.window[p], base, m)
  BY <1>1, <1>2, SockFields DEF Noticed
<1> QED
  BY <1>2, <1>3, <1>4, <1>5 DEF IInv, Good

\* Every step keeps the invariant.
LEMMA NextInv ==
    ASSUME SqnMod % Alloc = 0, NEW base \in Sqn, NEW m \in Nat, m < SignBit,
           Session(base, m), IInv(base, m), [Next]_vars
    PROVE  IInv(base, m)'
<1>1. CASE OnData \/ OnSpm \/ OnNcf
  BY <1>1, PacketInv
<1>2. CASE NakCancel \/ NakRetry
  BY <1>2, NakInv
<1>3. CASE PeerExpiry
  BY <1>3, PeerExpiryInv
<1>4. CASE RecvFlush
  BY <1>4, RecvFlushInv
<1>5. CASE RecvReset \/ RecvBegin \/ ProdReader \/ RecvEmpty \/ UNCHANGED vars
  BY <1>5, CallInv
<1> QED
  BY <1>1, <1>2, <1>3, <1>4, <1>5 DEF Next

-----------------------------------------------------------------------------
(***************************************************************************)
(* The theorems.  All are under two conditions on the constants: the window *)
(* size divides the sequence space, and what the packets of the sessions   *)
(* name lies within an arc shorter than half of it, wherever the arc       *)
(* begins (numbers further apart compare both ways).                       *)
(***************************************************************************)

\* The invariant holds of every behaviour.
LEMMA InvHolds ==
    ASSUME SqnMod % Alloc = 0, NEW base \in Sqn, NEW m \in Nat, m < SignBit,
           Session(base, m)
    PROVE  Spec => []IInv(base, m)
<1>1. Init => IInv(base, m)
  BY InitInv
<1>2. IInv(base, m) /\ [Next]_vars => IInv(base, m)'
  BY NextInv
<1> QED
  BY <1>1, <1>2, PTL DEF Spec

(***************************************************************************)
(* What pgm_recvmsgv hands to the application stays committed, each packet *)
(* in its own slot, for the rest of that call and until the next one frees *)
(* it, although every packet read meanwhile flushes the same windows again, *)
(* purges their trailing edges and wraps their rings.                      *)
(***************************************************************************)
THEOREM HandedTheorem ==
    ASSUME SqnMod % Alloc = 0, NEW base \in Sqn, NEW m \in Nat, m < SignBit,
           Session(base, m)
    PROVE  Spec => []HandedIsKept
<1>1. Spec => []IInv(base, m)
  BY InvHolds
<1>2. IInv(base, m) => HandedIsKept
  BY SockFields DEF IInv, Good, Held, HeldOf, HandedIsKept
<1> QED
  BY <1>1, <1>2, PTL

(***************************************************************************)
(* Whatever peers a loss notice stands for are on peers_pending until it   *)
(* is given, so that there is a head for pgm_recvmsgv to take its peer     *)
(* from (recv.c:689, 890).  Peers come to that list by data, SPMs, NCFs    *)
(* and timers, losses are noticed by handlers that flush and by those that *)
(* do not, and every flush takes peers off it.                             *)
(***************************************************************************)
THEOREM LosersTheorem ==
    ASSUME SqnMod % Alloc = 0, NEW base \in Sqn, NEW m \in Nat, m < SignBit,
           Session(base, m)
    PROVE  Spec => []LosersPending
<1>1. Spec => []IInv(base, m)
  BY InvHolds
<1>2. IInv(base, m) => LosersPending
  BY SockFields DEF IInv, Good, Named, LosersPending
<1> QED
  BY <1>1, <1>2, PTL

(***************************************************************************)
(* Data that can be read is not forgotten between calls: its peer is in    *)
(* peers_pending, or has the event or the loss by which its next packet    *)
(* puts it there, whichever of the handlers completed the APDU and however *)
(* the flush that followed ended.                                          *)
(***************************************************************************)
THEOREM NoticedTheorem ==
    ASSUME SqnMod % Alloc = 0, NEW base \in Sqn, NEW m \in Nat, m < SignBit,
           Session(base, m), Consistent
    PROVE  Spec => []ReadableNoticed
<1>1. Spec => []IInv(base, m)
  BY InvHolds
<1>2. IInv(base, m) => ReadableNoticed
  BY SockFields DEF IInv, Good, Noticed, ReadableNoticed
<1> QED
  BY <1>1, <1>2, PTL

=============================================================================
