-------------------------------- MODULE Timer --------------------------------
(* The timers of a socket that sends (timer.c): next_poll, the ambient and    *)
(* heartbeat SPMs and the earliest deadline of the receive side.  The thread  *)
(* in pgm_recv dispatches them; a sending thread restarts the heartbeat at    *)
(* any step in between (reset_heartbeat_spm).  Times are relative: 0 is now,  *)
(* a negative time has passed.                                                *)
EXTENDS Integers, Sequences, FiniteSetsExt

CONSTANTS Intervals,    \* spm_heartbeat_interval without its entry 0
          Ambient,      \* spm_ambient_interval
          PeerExpiry,   \* peer_expiry
          Deadlines,    \* deadlines a packet or a timer may give the receive side
          MaxLate,      \* bound: nothing is handled later than this
          Careful       \* two updates next_poll does not follow are left out

ASSUME TimerAssumption ==
    /\ Intervals \in Seq(Nat \ {0}) /\ Intervals # <<>>
    /\ {Ambient, PeerExpiry, MaxLate} \cup Deadlines \subseteq Nat \ {0}
    /\ Careful \in BOOLEAN

Len0 == Len(Intervals)                    \* spm_heartbeat_len
Never == Ambient + PeerExpiry + Max(Deadlines) + Max({Intervals[i] : i \in 1..Len0})

VARIABLES poll,      \* next_poll
          ambient,   \* next_ambient_spm
          state,     \* spm_heartbeat_state, an index of the intervals or 0
          next,      \* next_heartbeat_spm
          due,       \* the earliest deadline of the peers, or Never
          pc, now, read, expiry,   \* pgm_timer_dispatch and its locals
          sending,   \* a sending thread has sent a packet at time sent
          sent,
          overrun    \* an interval beyond the array was read

vars == <<poll, ambient, state, next, due, pc, now, read, expiry, sending, sent,
          overrun>>
dispatch == <<pc, now, read, expiry>>

\* pgm_connect
Init ==
    /\ poll = Ambient /\ ambient = Ambient
    /\ state = 0 /\ next = -MaxLate
    /\ due = Never
    /\ pc = "idle" /\ now = 0 /\ read = [state |-> 0, next |-> 0] /\ expiry = 0
    /\ sending = FALSE /\ sent = 0
    /\ overrun = FALSE

-----------------------------------------------------------------------------
(* pgm_timer_dispatch *)

Sooner(a, b) == IF a < b THEN a ELSE b

(* pgm_timer_check, then the peers' timers: each may set a new deadline, and  *)
(* pgm_min_receiver_expiry finds the earliest.  A NAK that would block ends   *)
(* the dispatch here, with nothing changed.                                   *)
Start(d) ==
    /\ pc = "idle"
    /\ poll <= 0
    /\ d \in Deadlines \cup {Never}
    /\ due' = IF due <= 0 THEN d ELSE due
    /\ expiry' = Sooner(due', PeerExpiry)
    /\ pc' = "read" /\ now' = 0
    /\ UNCHANGED <<poll, ambient, state, next, read, sending, sent, overrun>>

ReadHeartbeat ==
    /\ pc = "read"
    /\ read' = [state |-> state, next |-> next]
    /\ pc' = "spm"
    /\ UNCHANGED <<poll, ambient, state, next, due, now, expiry, sending, sent,
                   overrun>>

NextSpm(a) == IF read.state # 0 THEN Sooner(read.next, a) ELSE a

\* the rate limit or the network refuses the SPM
SpmRefused ==
    /\ pc = "spm"
    /\ NextSpm(ambient) <= now
    /\ pc' = "idle"
    /\ UNCHANGED <<poll, ambient, state, next, due, now, read, expiry, sending,
                   sent, overrun>>

Spm ==
    /\ pc = "spm"
    /\ ambient' = IF ambient <= now THEN now + Ambient ELSE ambient
    /\ pc' = "commit"
    /\ UNCHANGED <<poll, state, next, due, now, read, expiry, sending, sent, overrun>>

HeartbeatDue == read.state # 0 /\ read.next <= now

(* From the state read, the intervals are added up to the first time that is  *)
(* still to come, or to the entry before the last one.                        *)
Elapsed[i \in 0..Len0] == IF i = 0 THEN 0 ELSE Elapsed[i - 1] + Intervals[i]
TimeAfter(i) == read.next + Elapsed[i] - Elapsed[read.state - 1]
\* only the time ends the loop
StopsUnbounded == {i \in read.state..Len0 : TimeAfter(i) > now}

Stops == {i \in read.state..Len0 : i + 1 = Len0 \/ TimeAfter(i) > now}
LastRead == Min(Stops)

NewHeartbeat ==
    IF LastRead + 1 = Len0 THEN [state |-> 0, next |-> now + Ambient]
                           ELSE [state |-> LastRead + 1, next |-> TimeAfter(LastRead)]

\* only while next_heartbeat_spm is the one read; else it was reset meanwhile
Unchanged == read.next = next


CommitHeartbeat ==
    /\ pc = "commit"
    /\ HeartbeatDue
    /\ IF Stops = {}
       THEN overrun' = TRUE /\ UNCHANGED <<state, next, poll>>
       ELSE /\ state' = IF Unchanged THEN NewHeartbeat.state ELSE state
            /\ next' = IF Unchanged THEN NewHeartbeat.next ELSE next
            /\ poll' = Sooner(expiry, Sooner(ambient, next'))
            /\ UNCHANGED overrun
    /\ pc' = "idle"
    /\ UNCHANGED <<ambient, due, now, read, expiry, sending, sent>>

CommitOther ==
    /\ pc = "commit"
    /\ ~HeartbeatDue
    /\ LET soonest == Sooner(expiry, NextSpm(ambient))
       IN  poll' = IF poll > now THEN Sooner(poll, soonest) ELSE soonest
    /\ pc' = "idle"
    /\ UNCHANGED <<ambient, state, next, due, now, read, expiry, sending, sent,
                   overrun>>

-----------------------------------------------------------------------------
(* What sets a timer between dispatches *)

SendData ==
    /\ ~sending
    /\ sending' = TRUE /\ sent' = 0
    /\ UNCHANGED <<poll, ambient, state, next, due, pc, now, read, expiry, overrun>>

\* a dispatch that found no heartbeat due and has not yet set next_poll
Settling == pc \in {"spm", "commit"} /\ ~HeartbeatDue

\* reset_heartbeat_spm, with the time at which the packet was made
ResetHeartbeat ==
    /\ sending
    /\ Careful => ~Settling
    /\ state' = 1
    /\ next' = sent + Intervals[1]
    /\ poll' = Sooner(poll, next')
    /\ sending' = FALSE
    /\ UNCHANGED <<ambient, due, pc, now, read, expiry, sent, overrun>>

\* send_rdata, in the thread that dispatches: next_poll is left as it is
SendRepair ==
    /\ pc = "idle"
    /\ Careful => poll <= Intervals[1]
    /\ state' = 2
    /\ next' = Intervals[1]
    /\ UNCHANGED <<poll, ambient, due, pc, now, read, expiry, sending, sent, overrun>>

\* a packet handled in pgm_recv gives a peer a deadline
NewDeadline(d) ==
    /\ pc = "idle"
    /\ d \in Deadlines
    /\ due' = Sooner(due, d)
    /\ poll' = Sooner(poll, d)
    /\ UNCHANGED <<ambient, state, next, pc, now, read, expiry, sending, sent, overrun>>

Later(t) == IF t = Never THEN Never ELSE IF t > -MaxLate THEN t - 1 ELSE t

\* the thread that dispatches, and one that has sent, are at most MaxLate late
Tick ==
    /\ poll > -MaxLate
    /\ pc # "idle" => now > -MaxLate
    /\ sending => sent > -MaxLate
    /\ poll' = poll - 1
    /\ ambient' = Later(ambient)
    /\ next' = Later(next)
    /\ due' = Later(due)
    /\ now' = IF pc = "idle" THEN 0 ELSE now - 1
    /\ sent' = IF sending THEN sent - 1 ELSE 0
    /\ expiry' = IF pc = "idle" THEN 0 ELSE expiry - 1
    /\ read' = IF pc = "idle" THEN [state |-> 0, next |-> 0]
               ELSE [read EXCEPT !.next = Later(@)]
    /\ UNCHANGED <<state, pc, sending, overrun>>

Next ==
    /\ ~overrun
    /\ \/ \E d \in Deadlines \cup {Never} : Start(d)
       \/ ReadHeartbeat
       \/ SpmRefused
       \/ Spm
       \/ CommitHeartbeat
       \/ CommitOther
       \/ SendData
       \/ ResetHeartbeat
       \/ SendRepair
       \/ \E d \in Deadlines : NewDeadline(d)
       \/ Tick

Spec == Init /\ [][Next]_vars

-----------------------------------------------------------------------------
(* Properties *)

(* The index of the next interval stays inside the array the option made,     *)
(* however data and repairs restart it.  This is for three or more intervals: *)
(* with one or two the walk of timer.c:195 begins at or behind its stop and   *)
(* passes the end (overrun).                                                  *)
TypeOK ==
    /\ {poll, ambient, next, due, now, read.next, expiry, sent} \subseteq -MaxLate..Never
    /\ {state, read.state} \subseteq 0..Len0
    /\ pc \in {"idle", "read", "spm", "commit"}
    /\ sending \in BOOLEAN
    /\ ~overrun


=============================================================================
