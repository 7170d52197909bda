------------------------ MODULE ReceiveWindowProofs ------------------------
(***************************************************************************)
(* Theorems about the receive window, for every window size that divides   *)
(* the sequence space; what each function of rxw.c does is in RxwLemmas.   *)
(*                                                                         *)
(* The inductive invariant is Sound: the window variable is well formed,   *)
(* holds nothing outside its edges, only data that arrived, and counts     *)
(* right.  Every action but Flush is an arrival (Arrivals), which keeps    *)
(* committed data and announces the losses that move commit_lead; Flush    *)
(* releases, reads and resets the losses it reports (Flushes).             *)
(***************************************************************************)
EXTENDS ReceiveWindow, RxwLemmas

\* No packet is exactly half the sequence space away from the trailing edge of a
\* window that is in use.
NoAntipode == window.is_defined => \A p \in Tpdus : Minus(p.sqn, window.trail) # SignBit

\* The inductive invariant.
IInv == Sound(window) /\ is_reset \in BOOLEAN

\* Nor is a packet, or a number an SPM or NCF names, that far from the leading edge.
NoAntipodeOfLead ==
    window.is_defined => /\ \A p \in Tpdus : Minus(p.sqn, window.lead) # SignBit
                         /\ \A s \in Sent : Minus(s, window.lead) # SignBit

-----------------------------------------------------------------------------
\* A window as pgm_rxw_create makes it is sound.
LEMMA InitSound == Sound(RxwCreate)
<1> DEFINE w == RxwCreate
<1>1. w \in Window
  <2>1. [i \in Slot |-> Free] \in [Slot -> Skb]
    BY SignBitAssumption DEF Free, Skb, PktState, Sqn, SqnMod
  <2>2. 0 \in Sqn /\ SqnMod - 1 \in Sqn /\ 0 \in 0 .. LossCap
    BY SignBitAssumption, InputAssumption DEF Sqn, SqnMod
  <2> QED
    BY <2>1, <2>2 DEF RxwCreate, Window
<1>2. Length(w) = 0 /\ CommitLength(w) = 0
  BY SignBitAssumption
  DEF RxwCreate, Length, CommitLength, NextLead, Plus, Minus, SqnMod
<1>3. \A s \in Sqn : ~(Minus(s, w.trail) < 0)
  BY <1>1, SqnArith DEF Window
<1>4. WInv(w)
  BY <1>1, <1>2, <1>3, AllocAssumption DEF WInv, SectionsOK
<1>5. \A i \in Slot : w.pdata[i].state = "FREE"
  BY DEF RxwCreate, Free
<1>6. Tidy(w) /\ Contents(w)
  BY <1>2, <1>5 DEF Tidy, Contents, Holding, IsEmpty
<1>7. Counts(w)
  <2>1. \A st \in {"HAVE_DATA", "LOST_DATA", "COMMIT_DATA"} :
          {i \in Slot : w.pdata[i].state = st} = {}
    BY <1>5
  <2>2. w.fragment_count = 0 /\ w.lost_count = 0 /\ w.committed_count = 0
    BY DEF RxwCreate
  <2> QED
    BY <2>1, <2>2, FS_EmptySet DEF Counts, Total
<1> QED
  BY <1>4, <1>6, <1>7 DEF Sound

LEMMA InitInv == Init => IInv
BY InitSound DEF Init, IInv

\* A step that is neither a flush nor a report is an arrival, and can fail no
\* assertion but the one in pgm_rxw_lost.
LEMMA Arrivals ==
    ASSUME SqnMod % Alloc = 0, IInv, NoAntipode,
           OnData \/ OnSpm \/ OnNcf \/ NakRbExpiry \/ NakRetry \/ NakCancel
    PROVE  /\ Arrival(window, window') /\ is_reset' = is_reset
           /\ NoAntipodeOfLead => window'.abort \in {window.abort, "lost"}
<1>1. Sound(window)
  BY DEF IInv
<1>2. CASE OnData
  <2>1. PICK p \in Tpdus, t \in Trails : window' = Add(window, p, t).window
    BY <1>2 DEF OnData
  <2>2. t \in Sqn
    BY ArrivalAssumption
  <2>3. window.is_defined => Minus(p.sqn, window.trail) # SignBit
    BY DEF NoAntipode
  <2>4. NoAntipodeOfLead => (window.is_defined => Minus(p.sqn, window.lead) # SignBit)
    BY DEF NoAntipodeOfLead
  <2> QED
    BY <1>1, <1>2, <2>1, <2>2, <2>3, <2>4, AddSafe DEF OnData
<1>3. CASE OnSpm
  <2>1. PICK lead \in Sent, trail \in Trails : window' = Update(window, lead, trail)
    BY <1>3 DEF OnSpm
  <2>2. lead \in Sqn /\ trail \in Sqn
    BY ArrivalAssumption
  <2> QED
    BY <1>1, <1>3, <2>1, <2>2, UpdateSafe DEF OnSpm
<1>4. CASE OnNcf
  <2>1. PICK s \in Sent : window' = Confirm(window, s).window
    BY <1>4 DEF OnNcf
  <2>2. s \in Sqn
    BY ArrivalAssumption
  <2>3. /\ Safe(window, window')
        /\ NoAntipodeOfLead => window'.abort = window.abort
    BY <1>1, <2>1, <2>2, ConfirmSafe DEF NoAntipodeOfLead
  <2>4. window.is_defined \/ window' = window
    BY <2>1 DEF Confirm, Result
  <2> QED
    BY <1>4, <2>3, <2>4 DEF OnNcf, Arrival
\* a packet under recovery is in a window that is defined
<1>5. ASSUME NEW s \in Incoming(window), StateAt(window, s) \in Recovering
      PROVE  s \in Sqn /\ window.is_defined
  <2>1. s \in Sqn /\ WInv(window) /\ Length(window) \in Nat
    BY <1>1, WInvFacts DEF Incoming, Sound, Sqn
  <2>2. Idx(s) \in Slot /\ window.pdata[Idx(s)].state # "FREE"
    BY <1>5, <2>1, IdxType DEF StateAt, Peek, Recovering
  <2>3. PICK x \in Sqn : Minus(x, window.trail) < Length(window)
    BY <1>1, <2>2 DEF Sound, Tidy
  <2>4. Length(window) # 0
    BY <1>1, <2>3, SqnArith, WInvFacts DEF Sound
  <2> QED
    BY <1>1, <2>1, <2>4 DEF Sound, Tidy, IsEmpty
<1>6. CASE NakRbExpiry
  <2>1. PICK s \in Incoming(window) : /\ StateAt(window, s) \in Recovering
                                      /\ window' = SetState(window, s, "WAIT_NCF")
    BY <1>6 DEF NakRbExpiry, Recovering
  <2>2. "WAIT_NCF" \in Recovering
    BY DEF Recovering
  <2>3. Safe(window, window') /\ window'.abort = window.abort
    BY <1>1, <1>5, <2>1, <2>2, SetStateSafe
  <2> QED
    BY <1>5, <1>6, <2>1, <2>3 DEF NakRbExpiry, Arrival
<1>7. CASE NakRetry
  <2>1. PICK s \in Incoming(window) : /\ StateAt(window, s) \in Recovering
                                      /\ window' = SetState(window, s, "BACK_OFF")
    BY <1>7 DEF NakRetry, Recovering
  <2>2. "BACK_OFF" \in Recovering
    BY DEF Recovering
  <2>3. Safe(window, window') /\ window'.abort = window.abort
    BY <1>1, <1>5, <2>1, <2>2, SetStateSafe
  <2> QED
    BY <1>5, <1>7, <2>1, <2>3 DEF NakRetry, Arrival
<1>8. CASE NakCancel
  <2>1. PICK s \in Incoming(window) : /\ StateAt(window, s) \in Recovering
                                      /\ window' = Lost(window, s)
    BY <1>8 DEF NakCancel
  <2>2. Safe(window, window') /\ window'.abort \in {window.abort, "lost"}
    BY <1>1, <1>5, <2>1, LostSafe
  <2> QED
    BY <1>5, <1>8, <2>1, <2>2 DEF NakCancel, Arrival
<1> QED
  BY <1>2, <1>3, <1>4, <1>6, <1>7, <1>8

\* A flush reads at most one APDU, or announces what it gives up, and reports the
\* losses so far.
LEMMA Flushes ==
    ASSUME SqnMod % Alloc = 0, IInv, Flush
    PROVE  \E u : /\ Sound(u) /\ (Announced(window, u) \/ Delivered(window, u))
                  /\ ~window.is_defined =>
                        /\ u.commit_lead = window.commit_lead
                        /\ u.cumulative_losses = window.cumulative_losses
                  /\ Consistent => u.abort \in {window.abort, "lost"}
                  /\ window' = [u EXCEPT !.cumulative_losses = 0]
                  /\ is_reset' = (u.cumulative_losses # 0)
<1>1. Sound(window)
  BY DEF IInv
<1>2. PICK release \in BOOLEAN :
        LET w == Readv(IF release THEN RemoveCommit(window) ELSE window)
        IN  /\ window'   = [w EXCEPT !.cumulative_losses = 0]
            /\ is_reset' = (w.cumulative_losses # 0)
  BY DEF Flush
<1> DEFINE k == IF release THEN RemoveCommit(window) ELSE window
           u == Readv(k)
<1>3. /\ Sound(k) /\ k.is_defined = window.is_defined /\ k.abort = window.abort
      /\ k.commit_lead = window.commit_lead
      /\ k.cumulative_losses = window.cumulative_losses
  BY <1>1, RemoveCommitSound
<1> HIDE DEF k
<1>4. Sound(u) /\ (Announced(k, u) \/ Delivered(k, u))
  BY <1>3, ReadvSound
<1>5. Consistent => u.abort \in {k.abort, "lost"}
  BY <1>3, ReadvAborts
<1>8. ~k.is_defined => u = k
  <2> SUFFICES ASSUME ~k.is_defined PROVE IncomingIsEmpty(k)
    BY DEF Readv
  <2>1. IsEmpty(k)
    BY <1>3 DEF Sound, Tidy
  <2> QED
    BY <1>3, <2>1, HeadFacts, WInvFacts DEF Sound, IsEmpty, Sqn
<1> HIDE DEF u
<1>6. Announced(window, u) \/ Delivered(window, u)
  BY <1>3, <1>4 DEF Announced, Delivered
<1>7. /\ window' = [u EXCEPT !.cumulative_losses = 0]
      /\ is_reset' = (u.cumulative_losses # 0)
  BY <1>2 DEF u, k
<1> QED
  BY <1>3, <1>4, <1>5, <1>6, <1>7, <1>8

\* What the reset of cumulative_losses leaves alone.
LEMMA Reported ==
    ASSUME NEW u, Sound(u)
    PROVE  LET v == [u EXCEPT !.cumulative_losses = 0] IN
           /\ Sound(v) /\ v.is_defined = u.is_defined /\ v.commit_lead = u.commit_lead
           /\ v.cumulative_losses = 0 /\ v.abort = u.abort
<1> DEFINE v == [u EXCEPT !.cumulative_losses = 0]
<1>1. u \in Window
  BY WInvFacts DEF Sound
<1>2. /\ v \in Window /\ v.lead = u.lead /\ v.trail = u.trail
      /\ v.commit_lead = u.commit_lead /\ v.pdata = u.pdata
      /\ v.is_defined = u.is_defined /\ v.fragment_count = u.fragment_count
      /\ v.lost_count = u.lost_count /\ v.committed_count = u.committed_count
      /\ v.cumulative_losses = 0 /\ v.abort = u.abort
  BY <1>1, InputAssumption DEF Window
<1> HIDE DEF v
<1>3. Sound(v)
  BY <1>2, SameSound
<1> QED
  BY <1>2, <1>3 DEF v

\* Every step keeps the invariant.
LEMMA NextInv ==
    ASSUME SqnMod % Alloc = 0, IInv, NoAntipode, [Next]_vars
    PROVE  IInv'
<1> SUFFICES Sound(window') /\ is_reset' \in BOOLEAN
  BY DEF IInv
<1>1. Sound(window) /\ is_reset \in BOOLEAN
  BY DEF IInv
<1>2. CASE OnData \/ OnSpm \/ OnNcf \/ NakRbExpiry \/ NakRetry \/ NakCancel
  BY <1>1, <1>2, Arrivals DEF Arrival, Safe
<1>3. CASE Flush
  <2>1. PICK u : /\ Sound(u)
                 /\ window' = [u EXCEPT !.cumulative_losses = 0]
                 /\ is_reset' = (u.cumulative_losses # 0)
    BY <1>3, Flushes
  <2> QED
    BY <2>1, Reported
<1>4. CASE ReportReset
  BY <1>1, <1>4 DEF ReportReset
<1>5. CASE UNCHANGED vars
  BY <1>1, <1>5 DEF vars
<1> QED
  BY <1>2, <1>3, <1>4, <1>5 DEF Next

-----------------------------------------------------------------------------
(***************************************************************************)
(* The theorems.  All are under two conditions: the window size divides    *)
(* the sequence space, and no data arrives for the number half the         *)
(* sequence space from the trail (pgm_rxw_add measures a packet from the   *)
(* trail it carries, not from the window's).  SessionTheorem discharges    *)
(* the second for every session shorter than half the sequence space.      *)
(***************************************************************************)

(***************************************************************************)
(* The receive window's fields keep their types and its ring stays         *)
(* consistent (every sequence number of the window finds its own skb, in   *)
(* a state of its section), under every order of data, SPMs, NCFs, timers  *)
(* and reads.                                                              *)
(***************************************************************************)
THEOREM RingTheorem ==
    ASSUME SqnMod % Alloc = 0
    PROVE  Spec /\ []NoAntipode => [](TypeOK /\ RingConsistent)
<1>1. IInv /\ NoAntipode /\ [Next]_vars => IInv'
  BY NextInv
<1>2. IInv => TypeOK /\ RingConsistent
  BY DEF IInv, TypeOK, RingConsistent, Sound, WInv
<1> QED
  BY InitInv, <1>1, <1>2, PTL DEF Spec

(***************************************************************************)
(* No path of rxw.c takes a field of the window outside its type: edges    *)
(* wrap where 32 bits do, every slot holds an skb in one of the states or  *)
(* none, and the losses to report stay within their bound.                 *)
(***************************************************************************)
THEOREM TypeTheorem ==
    ASSUME SqnMod % Alloc = 0
    PROVE  Spec /\ []NoAntipode => []TypeOK
<1>1. TypeOK /\ RingConsistent => TypeOK
  OBVIOUS
<1> QED
  BY RingTheorem, <1>1, PTL

(***************************************************************************)
(* The counters of pgm_rxw_t, which the callers read instead of the slots, *)
(* are always the numbers of slots in their state, whatever path put a     *)
(* packet there: even a purge of the trail takes its losses off.           *)
(***************************************************************************)
THEOREM CountersTheorem ==
    ASSUME SqnMod % Alloc = 0
    PROVE  Spec /\ []NoAntipode => []CountersMatch
<1>1. IInv /\ NoAntipode /\ [Next]_vars => IInv'
  BY NextInv
<1>2. IInv => CountersMatch
  BY DEF IInv, Sound, Counts, Total, CountersMatch
<1> QED
  BY InitInv, <1>1, <1>2, PTL DEF Spec

(***************************************************************************)
(* Buffers the application still holds stay where they are until its next  *)
(* read: no data, SPM, NCF or timer purges or overwrites them.             *)
(***************************************************************************)
THEOREM CommittedKeptTheorem ==
    ASSUME SqnMod % Alloc = 0
    PROVE  Spec /\ []NoAntipode => CommittedKept
<1> DEFINE A == ~Flush => \A i \in Slot : window.pdata[i].state = "COMMIT_DATA"
                                            => window'.pdata[i] = window.pdata[i]
<1>1. IInv /\ NoAntipode /\ [Next]_vars => IInv'
  BY NextInv
<1>2. IInv /\ NoAntipode /\ [Next]_vars => [A]_vars
  <2> SUFFICES ASSUME IInv, NoAntipode, Next, ~Flush,
                      NEW i \in Slot, window.pdata[i].state = "COMMIT_DATA"
               PROVE  window'.pdata[i] = window.pdata[i]
    OBVIOUS
  <2>1. CASE ReportReset
    BY <2>1 DEF ReportReset
  <2>2. CASE ~ReportReset
    <3>1. Arrival(window, window')
      BY <2>2, Arrivals DEF Next
    <3>2. Kept(window, window')
      BY <3>1 DEF Arrival, Safe
    <3> QED
      BY <3>2 DEF Kept
  <2> QED
    BY <2>1, <2>2
<1> QED
  BY InitInv, <1>1, <1>2, PTL DEF Spec, CommittedKept

(***************************************************************************)
(* The receive window implements ordered delivery of whole APDUs: what is  *)
(* read starts where the last read ended, unless a loss was announced.     *)
(***************************************************************************)
THEOREM DeliveryTheorem ==
    ASSUME SqnMod % Alloc = 0
    PROVE  Spec /\ []NoAntipode => DeliversInOrder
<1>1. IInv /\ NoAntipode /\ [Next]_vars => IInv'
  BY NextInv
<1>0. Delivery!Sqn = Sqn /\ \A s, n : Delivery!Plus(s, n) = Plus(s, n)
  BY DEF Sqn, SqnMod, Plus, Delivery!Sqn, Delivery!SqnMod, Delivery!Plus
<1>2. Init => Delivery!Init
  <2>1. RxwCreate.commit_lead \in Sqn
    BY InitSound, WInvFacts DEF Sound
  <2> QED
    BY <1>0, <2>1 DEF Init, Delivery!Init, RxwCreate
<1>3. IInv /\ NoAntipode /\ [Next]_vars => [Delivery!Next]_(Delivery!vars)
  <2> SUFFICES ASSUME IInv, NoAntipode, [Next]_vars
               PROVE  Delivery!Next \/ UNCHANGED Delivery!vars
    OBVIOUS
  <2> DEFINE due  == is_reset \/ window.cumulative_losses # 0
             due2 == is_reset' \/ window'.cumulative_losses # 0
  <2>1. Sound(window) /\ Sound(window') /\ is_reset \in BOOLEAN /\ is_reset' \in BOOLEAN
    <3>1. IInv'
      BY <1>1
    <3> QED
      BY <3>1 DEF IInv
  <2>2. window'.commit_lead \in Sqn
    BY <2>1, WInvFacts DEF Sound
  <2>3. CASE OnData \/ OnSpm \/ OnNcf \/ NakRbExpiry \/ NakRetry \/ NakCancel
    <3>1. Arrival(window, window') /\ is_reset' = is_reset
      BY <2>3, Arrivals
    <3>2. CASE window' = window
      BY <3>1, <3>2 DEF Delivery!vars
    <3>3. CASE Announced(window, window') /\ window.is_defined
      <4>1. window'.is_defined
        BY <3>3 DEF Announced
      <4>2. CASE due2
        BY <1>0, <2>1, <2>2, <3>3, <4>1, <4>2 DEF Delivery!Next, Delivery!Lose, Announced
      <4>3. CASE ~due2
        <5>1. ~due /\ window'.commit_lead = window.commit_lead
          BY <3>1, <3>3, <4>3 DEF Announced
        <5> QED
          BY <3>3, <4>1, <4>3, <5>1 DEF Delivery!vars, Announced
      <4> QED
        BY <4>2, <4>3
    <3>4. CASE ~window.is_defined /\ window'.is_defined
      <4>1. window.is_defined = FALSE /\ window'.is_defined = TRUE
        BY <2>1, <3>4, WInvFacts DEF Sound, Window
      <4> QED
        BY <1>0, <2>1, <2>2, <4>1 DEF Delivery!Next, Delivery!Join
    <3> QED
      BY <3>1, <3>2, <3>3, <3>4 DEF Arrival, Safe
  <2>4. CASE Flush
    <3>1. PICK u : /\ Sound(u) /\ (Announced(window, u) \/ Delivered(window, u))
                   /\ ~window.is_defined =>
                         /\ u.commit_lead = window.commit_lead
                         /\ u.cumulative_losses = window.cumulative_losses
                   /\ window' = [u EXCEPT !.cumulative_losses = 0]
                   /\ is_reset' = (u.cumulative_losses # 0)
      BY <2>4, Flushes
    <3>2. /\ window'.is_defined = u.is_defined /\ window'.commit_lead = u.commit_lead
          /\ window'.cumulative_losses = 0
      BY <3>1, Reported
    <3>3. ~is_reset
      BY <2>4 DEF Flush
    <3>4. due2 = (u.cumulative_losses # 0)
      BY <3>1, <3>2
    <3>5. CASE Delivered(window, u)
      <4>1. PICK p \in Tpdus : /\ window.commit_lead = p.first
                               /\ u.commit_lead = Plus(p.first, p.len)
        BY <3>5 DEF Delivered
      <4>2. due2 = due /\ window.is_defined /\ window'.is_defined
        BY <3>2, <3>3, <3>4, <3>5 DEF Delivered
      <4>3. window'.is_defined = window.is_defined
        BY <2>1, <4>2, WInvFacts DEF Sound, Window
      <4> DEFINE a == [first |-> p.first, len |-> p.len]
      <4>4. /\ a \in {[first |-> q.first, len |-> q.len] : q \in Tpdus}
            /\ window.commit_lead = a.first
            /\ window'.commit_lead = Delivery!Plus(window.commit_lead, a.len)
        BY <1>0, <3>2, <4>1
      <4> QED
        BY <4>2, <4>3, <4>4 DEF Delivery!Next, Delivery!Deliver
    <3>6. CASE Announced(window, u) /\ window.is_defined
      <4>1. CASE due2
        BY <1>0, <2>2, <3>2, <3>6, <4>1
        DEF Delivery!Next, Delivery!Lose, Announced
      <4>2. CASE ~due2
        <5>1. ~due /\ window'.commit_lead = window.commit_lead
          BY <3>2, <3>3, <3>4, <3>6, <4>2 DEF Announced
        <5> QED
          BY <3>2, <3>6, <4>2, <5>1 DEF Delivery!vars, Announced
      <4> QED
        BY <4>1, <4>2
    <3>7. CASE Announced(window, u) /\ ~window.is_defined
      <4>1. due2 = due /\ window'.commit_lead = window.commit_lead
        BY <3>1, <3>2, <3>3, <3>4, <3>7
      <4> QED
        BY <3>2, <3>7, <4>1 DEF Delivery!vars, Announced
    <3> QED
      BY <3>1, <3>5, <3>6, <3>7
  <2>5. CASE ReportReset
    BY <2>1, <2>5 DEF ReportReset, Delivery!Next, Delivery!Notify, Delivery!vars
  <2>6. CASE UNCHANGED vars
    BY <2>6 DEF vars, Delivery!vars
  <2> QED
    BY <2>3, <2>4, <2>5, <2>6 DEF Next
<1> QED
  BY InitInv, <1>1, <1>2, <1>3, PTL DEF Spec, DeliversInOrder, Delivery!Spec


(***************************************************************************)
(* The only assertion of rxw.c that can fail is the one in pgm_rxw_lost:   *)
(* _pgm_rxw_insert and _pgm_rxw_recovery_update always find the            *)
(* placeholder they expect and the read path finds every fragment of a     *)
(* complete APDU, provided the TPDUs of an APDU agree on it and no number  *)
(* named by a packet is half the sequence space from the lead either.      *)
(***************************************************************************)
THEOREM AssertionsTheorem ==
    ASSUME SqnMod % Alloc = 0, Consistent
    PROVE  Spec /\ []NoAntipode /\ []NoAntipodeOfLead => []OnlyLostAborts
<1>1. Init => IInv /\ OnlyLostAborts
  BY InitInv DEF Init, RxwCreate, OnlyLostAborts
<1>2. IInv /\ OnlyLostAborts /\ NoAntipode /\ NoAntipodeOfLead /\ [Next]_vars
        => IInv' /\ OnlyLostAborts'
  <2> SUFFICES ASSUME IInv, OnlyLostAborts, NoAntipode, NoAntipodeOfLead, [Next]_vars
               PROVE  window'.abort \in {"none", "lost"}
    BY NextInv DEF OnlyLostAborts
  <2>1. CASE OnData \/ OnSpm \/ OnNcf \/ NakRbExpiry \/ NakRetry \/ NakCancel
    BY <2>1, Arrivals DEF OnlyLostAborts
  <2>2. CASE Flush
    <3>1. PICK u : /\ Sound(u)
                   /\ Consistent => u.abort \in {window.abort, "lost"}
                   /\ window' = [u EXCEPT !.cumulative_losses = 0]
      BY <2>2, Flushes
    <3> QED
      BY <3>1, Reported DEF OnlyLostAborts
  <2>3. CASE ReportReset \/ UNCHANGED vars
    BY <2>3 DEF ReportReset, vars, OnlyLostAborts
  <2> QED
    BY <2>1, <2>2, <2>3 DEF Next
<1> QED
  BY <1>1, <1>2, PTL DEF Spec

-----------------------------------------------------------------------------
(* Sessions: everything packets name lies within an arc of the sequence space. *)

\* Everything the packets of the session name is within the arc of m from base.
Session(base, m) ==
    /\ \A p \in Tpdus : Minus(p.sqn, base) < m
    /\ \A s \in Sent : Minus(s, base) < m
    /\ \A t \in Trails : Minus(t, base) <= m

\* The window is within the arc.
Arc(base, m) == window.is_defined => Within(window, base, m)

\* Every step keeps the window within the arc.
LEMMA NextArc ==
    ASSUME SqnMod % Alloc = 0, NEW base \in Sqn, NEW m \in Nat, m < SignBit,
           Session(base, m), IInv, Arc(base, m), [Next]_vars
    PROVE  Arc(base, m)'
<1> SUFFICES ASSUME window'.is_defined PROVE Within(window', base, m)
  BY DEF Arc
<1>1. Sound(window) /\ WInv(window) /\ window \in Window
  BY WInvFacts DEF IInv, Sound
<1>2. CASE OnData
  <2>1. PICK p \in Tpdus, t \in Trails : window' = Add(window, p, t).window
    BY <1>2 DEF OnData
  <2>2. p \in Tpdu /\ t \in Sqn /\ Minus(p.sqn, base) < m /\ Minus(t, base) <= m
    BY InputAssumption, ArrivalAssumption DEF Tpdu, Session
  <2>3. window' = window \/ Within(window', base, m)
    BY <1>1, <2>1, <2>2, AddWithin DEF Arc
  <2> QED
    BY <2>3 DEF Arc
<1>3. CASE OnSpm
  <2>1. PICK lead \in Sent, trail \in Trails : window' = Update(window, lead, trail)
    BY <1>3 DEF OnSpm
  <2>2. lead \in Sqn /\ trail \in Sqn /\ Minus(lead, base) < m /\ Minus(trail, base) <= m
    BY ArrivalAssumption DEF Session
  <2> QED
    BY <1>1, <2>1, <2>2, UpdateWithin DEF Arc
<1>4. CASE OnNcf
  <2>1. PICK s \in Sent : window' = Confirm(window, s).window
    BY <1>4 DEF OnNcf
  <2>2. s \in Sqn /\ Minus(s, base) < m
    BY ArrivalAssumption DEF Session
  <2>3. window' = window \/ Within(window', base, m)
    BY <1>1, <2>1, <2>2, ConfirmWithin DEF Arc
  <2> QED
    BY <2>3 DEF Arc
<1>5. CASE NakRbExpiry \/ NakRetry \/ NakCancel
  <2>1. PICK s \in Sqn : \/ \E st \in PktState : window' = SetState(window, s, st)
                         \/ window' = Lost(window, s)
    BY <1>5 DEF NakRbExpiry, NakRetry, NakCancel, Incoming, PktState, Recovering
  <2>2. /\ window'.trail = window.trail /\ window'.lead = window.lead
        /\ window'.is_defined = window.is_defined
    <3>1. /\ Lost(window, s).is_defined = window.is_defined
          /\ \A st : SetState(window, s, st).is_defined = window.is_defined
      <4>1. \A st : SetState(window, s, st).is_defined = window.is_defined
        BY <1>1 DEF SetState, Window
      <4>2. MarkLost(window, {s}).is_defined = window.is_defined
        BY <1>1 DEF MarkLost, Window
      <4>3. Abort(window, "lost").is_defined = window.is_defined
        BY <1>1 DEF Abort, Window
      <4> QED
        BY <4>1, <4>2, <4>3 DEF Lost
    <3>2. /\ Lost(window, s).trail = window.trail /\ Lost(window, s).lead = window.lead
          /\ \A st : /\ SetState(window, s, st).trail = window.trail
                     /\ SetState(window, s, st).lead = window.lead
      BY <1>1, KeepsEdges
    <3> QED
      BY <2>1, <3>1, <3>2
  <2> QED
    BY <2>2, StayWithin DEF Arc
<1>6. CASE Flush
  <2>1. PICK release \in BOOLEAN :
          window' = [Readv(IF release THEN RemoveCommit(window) ELSE window)
                       EXCEPT !.cumulative_losses = 0]
    BY <1>6 DEF Flush
  <2> DEFINE k == IF release THEN RemoveCommit(window) ELSE window
             u == Readv(k)
  <2>2. Sound(k) /\ k.is_defined = window.is_defined
    BY <1>1, RemoveCommitSound
  <2>3. window.is_defined => Within(k, base, m)
    BY <1>1, ReadWithin DEF Arc
  <2> HIDE DEF k
  <2>4. Sound(u) /\ u.is_defined = k.is_defined
    <3>1. Sound(u) /\ (Announced(k, u) \/ Delivered(k, u))
      BY <2>2, ReadvSound
    <3>2. k.is_defined \in BOOLEAN /\ u.is_defined \in BOOLEAN
      BY <2>2, <3>1, WInvFacts DEF Sound, Window
    <3> QED
      BY <3>1, <3>2 DEF Announced, Delivered
  <2>5. k.is_defined => Within(u, base, m)
    BY <2>2, <2>3, ReadWithin
  <2>6. window' = [u EXCEPT !.cumulative_losses = 0]
    BY <2>1 DEF k
  <2> HIDE DEF u
  <2>7. /\ window'.trail = u.trail /\ window'.lead = u.lead
        /\ window'.is_defined = u.is_defined
    <3>1. u \in Window
      BY <2>4, WInvFacts DEF Sound
    <3> QED
      BY <2>6, <3>1 DEF Window
  <2> QED
    BY <2>4, <2>5, <2>7, StayWithin
<1>7. CASE ReportReset \/ UNCHANGED vars
  BY <1>7 DEF ReportReset, vars, Arc
<1> QED
  BY <1>2, <1>3, <1>4, <1>5, <1>6, <1>7 DEF Next

(***************************************************************************)
(* Within a session shorter than half the sequence space, everything the   *)
(* runs check of the receive window holds: types, ring and counters, the   *)
(* assertions, committed buffers, and ordered delivery.                    *)
(***************************************************************************)
THEOREM SessionTheorem ==
    ASSUME SqnMod % Alloc = 0, Consistent,
           NEW base \in Sqn, NEW m \in Nat, m < SignBit, Session(base, m)
    PROVE  Spec => /\ [](TypeOK /\ RingConsistent) /\ []CountersMatch
                   /\ []OnlyLostAborts /\ CommittedKept /\ DeliversInOrder
<1>1. Init => IInv /\ Arc(base, m)
  BY InitInv DEF Init, RxwCreate, Arc
<1>2. IInv /\ Arc(base, m) => NoAntipode /\ NoAntipodeOfLead
  <2> SUFFICES ASSUME IInv, Arc(base, m), window.is_defined
               PROVE  /\ \A p \in Tpdus : /\ Minus(p.sqn, window.trail) # SignBit
                                          /\ Minus(p.sqn, window.lead) # SignBit
                      /\ \A s \in Sent : Minus(s, window.lead) # SignBit
    BY DEF NoAntipode, NoAntipodeOfLead
  <2>1. WInv(window) /\ Within(window, base, m)
    BY DEF IInv, Sound, Arc
  <2>2. \A p \in Tpdus : p.sqn \in Sqn /\ Minus(p.sqn, base) < m
    BY InputAssumption DEF Session
  <2>3. \A s \in Sent : s \in Sqn /\ Minus(s, base) < m
    BY ArrivalAssumption DEF Session
  <2> QED
    BY <2>1, <2>2, <2>3, NeverAntipode
<1>3. IInv /\ Arc(base, m) /\ [Next]_vars => (IInv /\ Arc(base, m))'
  BY <1>2, NextInv, NextArc
<1>4. Spec => []NoAntipode /\ []NoAntipodeOfLead
  BY <1>1, <1>2, <1>3, PTL DEF Spec
<1>5. Spec /\ []NoAntipode => [](TypeOK /\ RingConsistent)
  BY RingTheorem
<1>6. Spec /\ []NoAntipode => []CountersMatch
  BY CountersTheorem
<1>7. Spec /\ []NoAntipode => CommittedKept
  BY CommittedKeptTheorem
<1>8. Spec /\ []NoAntipode => DeliversInOrder
  BY DeliveryTheorem
<1>9. Spec /\ []NoAntipode /\ []NoAntipodeOfLead => []OnlyLostAborts
  BY AssertionsTheorem
<1> QED
  BY <1>4, <1>5, <1>6, <1>7, <1>8, <1>9, PTL

=============================================================================
