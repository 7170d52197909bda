--------------------------------- MODULE Rxw ---------------------------------
(***************************************************************************)
(* The receive window of one source, pgm/rxw.c and include/impl/rxw.h,     *)
(* without forward error correction (tg_sqn_shift = 0, every transmission  *)
(* group is one packet).                                                   *)
(*                                                                         *)
(*        |     Commit       |   Incoming   |                              *)
(*        |<---------------->|<------------>|                              *)
(*      trail           commit_lead       lead                             *)
(*                                                                         *)
(* A window is a record with the fields of pgm_rxw_t, and                  *)
(* each function of rxw.c is an operator from a window to a window (with   *)
(* the returned PGM_RXW_ status where callers look at it).  The loops of   *)
(* the code are written as one update of all the slots they visit: the     *)
(* window is only touched under the receiver mutex, so nobody sees the     *)
(* iterations.                                                             *)
(*                                                                         *)
(* Abstractions.  Every TPDU carries one unit of its APDU's length, so     *)
(* of_apdu_len counts fragments, and len = 1 stands for a packet without   *)
(* an OPT_FRAGMENT (a one-fragment header is dropped on arrival,           *)
(* rxw.c:341).  The three NAK queues are the sets of slots in their state. *)
(* cumulative_losses is kept relative to the peer's last_cumulative_losses *)
(* (the only value it is ever compared with), saturating at LossCap.  The  *)
(* bitmap, data_loss and fill-time statistics are left out.                *)
(***************************************************************************)
EXTENDS SerialNumbers, FiniteSets

CONSTANTS
    Alloc,          \* window size in sequence numbers, window->alloc
    MaxFragments,   \* PGM_MAX_FRAGMENTS
    Tpdus,          \* TPDUs that can arrive: [sqn, first, len]
    LossCap         \* bound of cumulative_losses

ASSUME AllocAssumption == Alloc \in Nat /\ Alloc > 0 /\ Alloc < SignBit

ASSUME InputAssumption ==
    /\ MaxFragments \in Nat
    /\ Tpdus \subseteq [sqn : Sqn, first : Sqn, len : Nat \ {0}]
    /\ \A p \in Tpdus : p.len = 1 => p.first = p.sqn
    /\ LossCap \in Nat \ {0}

-----------------------------------------------------------------------------
(***************************************************************************)
(* Slots.  A slot of pdata holds an skb with its packet state; "FREE" is a *)
(* slot whose skb has been released (a NULL pointer).                      *)
(***************************************************************************)

\* the states in which a sequence number is being recovered
Recovering == {"BACK_OFF", "WAIT_NCF", "WAIT_DATA"}

PktState == Recovering \cup {"HAVE_DATA", "COMMIT_DATA", "LOST_DATA", "FREE"}

Slot == 0 .. (Alloc - 1)

Skb == [sqn : Sqn, state : PktState, first : Sqn, len : Nat]

Free == [sqn |-> 0, state |-> "FREE", first |-> 0, len |-> 0]

Placeholder(s, st) == [sqn |-> s, state |-> st, first |-> s, len |-> 0]

Data(p) == [sqn |-> p.sqn, state |-> "HAVE_DATA", first |-> p.first, len |-> p.len]

Window == [lead : Sqn, trail : Sqn, commit_lead : Sqn,
           rxw_trail : Sqn, rxw_trail_init : Sqn,
           is_defined : BOOLEAN, is_constrained : BOOLEAN, has_event : BOOLEAN,
           lost_count : Int, fragment_count : Int, committed_count : Int,
           cumulative_losses : 0 .. LossCap,
           pdata : [Slot -> Skb],
           abort : {"none", "lost", "insert", "confirm", "readv", "read_apdu"}]

\* index of a sequence number in pdata
Idx(s) == s % Alloc

-----------------------------------------------------------------------------
(***************************************************************************)
(* Lengths and lookup.                                                     *)
(***************************************************************************)

NextLead(w) == Plus(w.lead, 1)

Length(w) == Minus(NextLead(w), w.trail)

IsEmpty(w) == Length(w) = 0

IsFull(w) == Length(w) = Alloc

CommitLength(w) == Minus(w.commit_lead, w.trail)

CommitIsEmpty(w) == CommitLength(w) = 0

IncomingLength(w) == Minus(NextLead(w), w.commit_lead)

IncomingIsEmpty(w) == IncomingLength(w) = 0

\* _pgm_rxw_peek returns an skb
InWindow(w, s) == ~IsEmpty(w) /\ Gte(s, w.trail) /\ Lte(s, w.lead)

Peek(w, s) == w.pdata[Idx(s)]

StateAt(w, s) == Peek(w, s).state

\* sequence numbers of the incoming window
Incoming(w) == {s \in Sqn : Minus(s, w.commit_lead) < IncomingLength(w)}

\* a counter that may not exceed LossCap
Losses(w, n) == IF w.cumulative_losses + n > LossCap THEN LossCap
                                                     ELSE w.cumulative_losses + n

\* how many sequence numbers of S are in state st
CountIn(w, S, st) == Cardinality({s \in S : StateAt(w, s) = st})

Abort(w, where) == [w EXCEPT !.abort = where]

Result(w, st) == [window |-> w, status |-> st]

-----------------------------------------------------------------------------
\* Mutant: purging the trail forgets to take its losses off the counter.
RemoveTrailKeepsCount(w, n) ==
    LET gone == {s \in Sqn : Minus(s, w.trail) < n}
    IN  [w EXCEPT
          !.pdata = [i \in Slot |-> IF \E s \in gone : Idx(s) = i THEN Free
                                                                  ELSE @[i]],
          !.fragment_count  = @ - CountIn(w, gone, "HAVE_DATA"),
          !.committed_count = @ - CountIn(w, gone, "COMMIT_DATA"),
          !.trail = Plus(@, n),
          !.commit_lead       = IF CommitIsEmpty(w) THEN Plus(@, n) ELSE @,
          !.cumulative_losses = IF CommitIsEmpty(w) THEN Losses(w, n) ELSE @]

(***************************************************************************)
(* _pgm_rxw_remove_trail, n times.  It is called with an empty commit      *)
(* window (each sequence number dropped is then a loss and takes           *)
(* commit_lead along) or, from pgm_rxw_remove_commit, within it.           *)
(***************************************************************************)
RemoveTrail(w, n) ==
    LET gone == {s \in Sqn : Minus(s, w.trail) < n}
    IN  [w EXCEPT
          !.pdata = [i \in Slot |-> IF \E s \in gone : Idx(s) = i THEN Free
                                                                  ELSE @[i]],
          !.fragment_count  = @ - CountIn(w, gone, "HAVE_DATA"),
          !.lost_count      = @ - CountIn(w, gone, "LOST_DATA"),
          !.committed_count = @ - CountIn(w, gone, "COMMIT_DATA"),
          !.trail = Plus(@, n),
          !.commit_lead       = IF CommitIsEmpty(w) THEN Plus(@, n) ELSE @,
          !.cumulative_losses = IF CommitIsEmpty(w) THEN Losses(w, n) ELSE @]

(***************************************************************************)
(* Add n placeholders at the leading edge (_pgm_rxw_add_placeholder in the *)
(* loops of _pgm_rxw_add_placeholder_range and _pgm_rxw_update_lead),      *)
(* purging the trailing edge so that at most keep sequence numbers stay.   *)
(* Placeholders that the loop adds and purges again are never stored.      *)
(***************************************************************************)
AddPlaceholders(w, n, keep) ==
    LET len   == Length(w)
        drop  == IF len + n > keep THEN len + n - keep ELSE 0
        old   == IF drop < len THEN drop ELSE len      \* dropped, stored before
        w1    == RemoveTrail(w, old)
        lead1 == Plus(w.lead, n)
        \* surviving new placeholders
        new   == {s \in Sqn : /\ Minus(lead1, s) < n
                              /\ Minus(lead1, s) < keep}
    IN  [w1 EXCEPT
          !.pdata = [i \in Slot |-> IF \E s \in new : Idx(s) = i
                        THEN Placeholder(CHOOSE s \in new : Idx(s) = i, "BACK_OFF")
                        ELSE @[i]],
          !.lead = lead1,
          !.trail = Plus(w.trail, drop),
          !.commit_lead       = IF CommitIsEmpty(w) THEN Plus(w.trail, drop) ELSE @,
          !.cumulative_losses = IF CommitIsEmpty(w) THEN Losses(w, drop) ELSE @]

\* _pgm_rxw_update_lead
UpdateLead(w, txw_lead) ==
    IF Lte(txw_lead, w.lead) THEN w
    ELSE LET limited == /\ ~CommitIsEmpty(w)
                        /\ Minus(txw_lead, w.trail) >= Alloc
             lead    == IF limited THEN Plus(w.trail, Alloc - 1) ELSE txw_lead
         IN  AddPlaceholders(w, Minus(lead, w.lead), Alloc)

\* _pgm_rxw_add_placeholder_range: leaves room for the packet at sequence s
AddPlaceholderRange(w, s) ==
    IF ~CommitIsEmpty(w) /\ Minus(Plus(1, s), w.trail) >= Alloc
    THEN Result(UpdateLead(w, s), "BOUNDS")
    ELSE Result(AddPlaceholders(w, Minus(s, NextLead(w)), Alloc - 1), "APPENDED")

-----------------------------------------------------------------------------
(***************************************************************************)
(* Loss.                                                                   *)
(***************************************************************************)

\* _pgm_rxw_state (PGM_PKT_STATE_LOST_DATA) for every sequence number of S
MarkLost(w, S) ==
    [w EXCEPT
      !.pdata = [i \in Slot |-> IF \E s \in S : Idx(s) = i
                                THEN [@[i] EXCEPT !.state = "LOST_DATA"]
                                ELSE @[i]],
      !.fragment_count    = @ - CountIn(w, S, "HAVE_DATA"),
      !.lost_count        = @ + Cardinality(S),
      !.cumulative_losses = Losses(w, Cardinality(S)),
      !.has_event         = @ \/ S # {}]

\* pgm_rxw_lost, with its pgm_fatal and assertion on an unexpected state
Lost(w, s) ==
    IF StateAt(w, s) \in Recovering \cup {"HAVE_DATA"}
    THEN MarkLost(w, {s})
    ELSE Abort(w, "lost")

\* _pgm_rxw_is_apdu_lost
IsApduLost(w, p) ==
    /\ p.len > 1
    /\ p.first # p.sqn
    /\ \/ ~InWindow(w, p.first)
       \/ StateAt(w, p.first) = "LOST_DATA"

\* Mutant: a jump of the trail over an empty window is not counted as a loss.
UpdateTrailSilent(w, txw_trail) ==
    LET moved == [w EXCEPT !.is_constrained = FALSE, !.rxw_trail = txw_trail]
        dist  == Minus(txw_trail, w.trail)
    IN  IF \/ Lte(txw_trail, w.rxw_trail)
           \/ w.is_constrained /\ ~Gt(txw_trail, w.rxw_trail_init)
        THEN w
        ELSE IF Lte(txw_trail, w.trail) THEN moved
        ELSE IF IsEmpty(w)
        THEN [moved EXCEPT !.trail = txw_trail, !.commit_lead = txw_trail,
                           !.lead = Plus(@, dist)]
        ELSE MarkLost(moved, {s \in Incoming(w) : /\ Gt(txw_trail, s)
                                                  /\ StateAt(w, s) \in Recovering})

\* _pgm_rxw_update_trail
UpdateTrail(w, txw_trail) ==
    LET moved == [w EXCEPT !.is_constrained = FALSE, !.rxw_trail = txw_trail]
        dist  == Minus(txw_trail, w.trail)
    IN  IF \/ Lte(txw_trail, w.rxw_trail)
           \/ Minus(txw_trail, w.rxw_trail) > FarJump
           \/ w.is_constrained /\ ~Gt(txw_trail, w.rxw_trail_init)
        THEN w
        ELSE IF Lte(txw_trail, w.trail) THEN moved
        ELSE IF IsEmpty(w)
        THEN [moved EXCEPT !.trail = txw_trail, !.commit_lead = txw_trail,
                           !.lead = Plus(@, dist),
                           !.cumulative_losses = Losses(w, dist)]
        ELSE MarkLost(moved, {s \in Incoming(w) : /\ Gt(txw_trail, s)
                                                  /\ StateAt(w, s) \in Recovering})

-----------------------------------------------------------------------------
(***************************************************************************)
(* Arrival of data: pgm_rxw_add.                                           *)
(***************************************************************************)

\* _pgm_rxw_define
Define(w, lead) ==
    LET next == Plus(lead, 1)
    IN  [w EXCEPT !.lead = lead, !.trail = next, !.commit_lead = next,
                  !.rxw_trail = next, !.rxw_trail_init = next,
                  !.is_constrained = TRUE, !.is_defined = TRUE]

\* store a received packet in its slot, HAVE_DATA
Store(w, p) ==
    [w EXCEPT !.pdata = [@ EXCEPT ![Idx(p.sqn)] = Data(p)],
              !.fragment_count = @ + 1]

\* _pgm_rxw_insert, with its assertions on the placeholder it replaces
Insert(w, p) ==
    LET st == StateAt(w, p.sqn)
    IN  IF ~InWindow(w, p.sqn) THEN Result(Abort(w, "insert"), "BOUNDS")
        ELSE IF st = "HAVE_DATA" THEN Result(w, "DUPLICATE")
        ELSE IF IsApduLost(w, p) THEN Result(Lost(w, p.sqn), "BOUNDS")
        ELSE IF st \in Recovering \cup {"LOST_DATA"}
        THEN Result([Store(w, p) EXCEPT
                      !.lost_count = IF st = "LOST_DATA" THEN @ - 1 ELSE @],
                    "INSERTED")
        ELSE Result(Abort(w, "insert"), "BOUNDS")

\* Mutant: a full window is purged even if its trail is still committed.
AppendOverCommit(w, p) ==
    LET w1 == IF IsFull(w) THEN RemoveTrail(w, 1) ELSE w
    IN  Result(Store([w1 EXCEPT !.lead = Plus(@, 1)], p), "APPENDED")

\* _pgm_rxw_append
AppendTpdu(w, p) ==
    IF IsFull(w) /\ ~CommitIsEmpty(w) THEN Result(w, "BOUNDS")
    ELSE LET w1 == IF IsFull(w) THEN RemoveTrail(w, 1) ELSE w
             w2 == [w1 EXCEPT !.lead = Plus(@, 1)]
         IN  IF IsApduLost(w2, p)
             THEN Result([w2 EXCEPT
                           !.pdata = [@ EXCEPT ![Idx(p.sqn)] =
                                         Placeholder(p.sqn, "LOST_DATA")],
                           !.lost_count = @ + 1,
                           !.cumulative_losses = Losses(w2, 1),
                           !.has_event = TRUE],
                         "BOUNDS")
             ELSE Result(Store(w2, p), "APPENDED")

\* pgm_rxw_add
Add(w, p, data_trail) ==
    IF Minus(p.sqn, data_trail) >= FarJump THEN Result(w, "BOUNDS")
    ELSE IF p.len > 1 /\ Gt(p.first, p.sqn) THEN Result(w, "MALFORMED")
    ELSE
    LET u     == IF w.is_defined THEN UpdateTrail(w, data_trail)
                                 ELSE Define(w, Minus(p.sqn, 1))
        event == [u EXCEPT !.has_event = TRUE]
    IN  IF Lt(p.sqn, u.commit_lead)
        THEN Result(u, IF Gte(p.sqn, u.trail) THEN "DUPLICATE" ELSE "BOUNDS")
        ELSE IF Lte(p.sqn, u.lead) THEN Insert(event, p)
        ELSE IF p.sqn = NextLead(u) THEN AppendTpdu(event, p)
        ELSE LET range == AddPlaceholderRange(u, p.sqn)
                 added == AppendTpdu(range.window, p)
             IN  IF range.status # "APPENDED" THEN range
                 ELSE IF added.status = "APPENDED"
                      THEN Result(added.window, "MISSING")
                      ELSE added

-----------------------------------------------------------------------------
(***************************************************************************)
(* Advertised window (SPM) and NAK confirmations.                          *)
(***************************************************************************)

\* pgm_rxw_update
Update(w, txw_lead, txw_trail) ==
    IF w.is_defined THEN UpdateLead(UpdateTrail(w, txw_trail), txw_lead)
                    ELSE Define(w, txw_lead)

\* pgm_rxw_state for the recovery states: the slot moves to another queue
SetState(w, s, st) == [w EXCEPT !.pdata = [@ EXCEPT ![Idx(s)].state = st]]

\* _pgm_rxw_recovery_update
RecoveryUpdate(w, s) ==
    IF ~InWindow(w, s) THEN Result(Abort(w, "confirm"), "BOUNDS")
    ELSE IF StateAt(w, s) \in Recovering
    THEN Result(SetState(w, s, "WAIT_DATA"), "UPDATED")
    ELSE Result(w, "DUPLICATE")

\* Mutant: a confirmed sequence number is appended to a full window.
RecoveryAppendOverfull(w) ==
    LET lead == Plus(w.lead, 1)
    IN  Result([w EXCEPT !.lead = lead,
                         !.pdata = [@ EXCEPT ![Idx(lead)] =
                                       Placeholder(lead, "WAIT_DATA")]],
               "APPENDED")

\* _pgm_rxw_recovery_append
RecoveryAppend(w) ==
    IF IsFull(w) /\ ~CommitIsEmpty(w) THEN Result(w, "BOUNDS")
    ELSE LET w1   == IF IsFull(w) THEN RemoveTrail(w, 1) ELSE w
             lead == Plus(w1.lead, 1)
         IN  Result([w1 EXCEPT !.lead = lead,
                               !.pdata = [@ EXCEPT ![Idx(lead)] =
                                             Placeholder(lead, "WAIT_DATA")]],
                    "APPENDED")

\* pgm_rxw_confirm
Confirm(w, s) ==
    IF ~w.is_defined THEN Result(w, "BOUNDS")
    ELSE IF Lt(s, w.commit_lead)
         THEN Result(w, IF Gte(s, w.trail) THEN "DUPLICATE" ELSE "BOUNDS")
    ELSE IF Lte(s, w.lead) THEN RecoveryUpdate(w, s)
    ELSE RecoveryAppend(AddPlaceholderRange(w, s).window)

-----------------------------------------------------------------------------
(***************************************************************************)
(* Reading: pgm_rxw_readv with a vector of one message, and                *)
(* pgm_rxw_remove_commit.                                                  *)
(***************************************************************************)

\* Mutant: the scan does not look at the state of the fragments it counts.
ApduCheckAnyState(w, first, k) ==
    IF ~InWindow(w, Plus(first, k)) THEN "incomplete"
    ELSE IF k + 1 >= Peek(w, first).len THEN "complete"
    ELSE "more"

(***************************************************************************)
(* _pgm_rxw_is_apdu_complete scans from the APDU's first sequence number.  *)
(* ApduCheck is what the scan decides at its k-th packet, "more" when it   *)
(* goes on to the next.                                                    *)
(***************************************************************************)
ApduCheck(w, first, k) ==
    LET s     == Plus(first, k)
        skb   == Peek(w, s)
        size  == Peek(w, first).len
    IN  IF ~InWindow(w, s) \/ skb.state # "HAVE_DATA" THEN "incomplete"
        ELSE IF skb.len = 1 THEN "complete"
        ELSE IF skb.first # first \/ skb.len # size \/ k + 1 > MaxFragments
             THEN "lost"
        ELSE IF k + 1 = size THEN "complete"
        ELSE "more"

\* the verdict of the first packet that ends the scan
IsApduComplete(w, first) ==
    LET ends == {k \in 0 .. Alloc : ApduCheck(w, first, k) # "more"}
    IN  ApduCheck(w, first, CHOOSE k \in ends : \A j \in ends : k <= j)

\* _pgm_rxw_incoming_read_apdu: hand the APDU at commit_lead to the application
ReadApdu(w) ==
    LET n    == Peek(w, w.commit_lead).len
        apdu == {s \in Sqn : Minus(s, w.commit_lead) < n}
    IN  IF \E s \in apdu : ~InWindow(w, s) \/ StateAt(w, s) # "HAVE_DATA"
        THEN Abort(w, "read_apdu")
        ELSE [w EXCEPT
               !.pdata = [i \in Slot |-> IF \E s \in apdu : Idx(s) = i
                                         THEN [@[i] EXCEPT !.state = "COMMIT_DATA"]
                                         ELSE @[i]],
               !.fragment_count  = @ - n,
               !.committed_count = @ + n,
               !.commit_lead     = Plus(@, n)]

\* pgm_rxw_readv and _pgm_rxw_incoming_read
Readv(w) ==
    LET head  == Peek(w, w.commit_lead)
        check == IsApduComplete(w, head.first)
    IN  IF IncomingIsEmpty(w) \/ head.state \in Recovering THEN w
        ELSE IF head.state = "HAVE_DATA"
        THEN CASE check = "complete" -> ReadApdu(w)
               [] check = "lost"     -> Lost(w, head.first)
               [] OTHER              -> w
        ELSE IF head.state = "LOST_DATA"
        THEN IF CommitIsEmpty(w) THEN RemoveTrail(w, 1) ELSE w
        ELSE Abort(w, "readv")

\* pgm_rxw_remove_commit
RemoveCommit(w) == RemoveTrail(w, CommitLength(w))

-----------------------------------------------------------------------------
(***************************************************************************)
(* What a consistent window is: the sections in order, every sequence      *)
(* number in its own slot.                                                 *)
(***************************************************************************)

\* trail <= commit_lead <= lead + 1 in serial order, at most alloc apart.
SectionsOK(w) == Length(w) <= Alloc /\ CommitLength(w) <= Length(w)

\* Sequence number s has its own skb in the slot it selects, in a state of
\* its section.
SlotOK(w, s) ==
    /\ Peek(w, s).sqn = s
    /\ IF Minus(s, w.trail) < CommitLength(w)
       THEN StateAt(w, s) = "COMMIT_DATA"
       ELSE StateAt(w, s) \in Recovering \cup {"HAVE_DATA", "LOST_DATA"}

=============================================================================
