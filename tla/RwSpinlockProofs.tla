-------------------------- MODULE RwSpinlockProofs --------------------------
(* Mutual exclusion of the read-write spinlock for any number of threads     *)
(* below the number of tickets, and that it implements RwLock.               *)
EXTENDS RwSpinlock, FiniteSetTheorems, TLAPS

(* The threads that hold a ticket that was not yet served up: their tickets  *)
(* are exactly the numbers from `ticket' up to `user', one each, modulo the  *)
(* width.                                                                    *)
Ahead(t) == IF drawn[t] >= ticket THEN drawn[t] - ticket
                                  ELSE drawn[t] - ticket + TicketMod
Outstanding == IF user >= ticket THEN user - ticket
                                 ELSE user - ticket + TicketMod
Queue == {t \in Threads : pc[t] \in Queued}
CountedThreads == {t \in Threads : pc[t] \in Counted}

TicketsWithin == \A t \in Queue : Ahead(t) < Outstanding
TicketsApart == \A s, t \in Queue : Ahead(s) = Ahead(t) => s = t
TicketsFull == \A i \in 0 .. Outstanding - 1 : \E t \in Queue : Ahead(t) = i
ServedHolds ==
    \A t \in Threads : pc[t] \in Queued \ {"spin"} => drawn[t] = ticket
ReadersCounted == readers = Cardinality(CountedThreads)
WriterAlone == \A s, t \in Threads : pc[s] = "writing" => pc[t] # "reading"

IInv ==
    /\ TypeOK
    /\ TicketsWithin /\ TicketsApart /\ TicketsFull /\ ServedHolds
    /\ ReadersCounted
    /\ WriterAlone

LEMMA QueueFits ==
    ASSUME IInv, NEW t \in Threads, t \notin Queue
    PROVE  Outstanding + 1 < TicketMod
<1>1. TicketMod \in Nat /\ IsFiniteSet(Threads) /\ Cardinality(Threads) \in Nat
      /\ Cardinality(Threads) < TicketMod
  BY ThreadsAssumption, FS_CardinalityType
<1>2. Outstanding \in Nat /\ Outstanding < TicketMod
  BY <1>1 DEF IInv, TypeOK, Tickets, Outstanding
<1>3. IsFiniteSet(Queue) /\ Cardinality(Queue) \in Nat
  BY <1>1, FS_Subset, FS_CardinalityType DEF Queue
<1>4. Cardinality(Queue) + 1 <= Cardinality(Threads)
  <2>1. Queue \cup {t} \in SUBSET Threads
    BY DEF Queue
  <2>2. Cardinality(Queue \cup {t}) = Cardinality(Queue) + 1
    BY <1>3, FS_AddElement
  <2> QED
    BY <1>1, <2>1, <2>2, FS_Subset
<1>5. Outstanding <= Cardinality(Queue)
  <2> DEFINE f == [s \in Queue |-> Ahead(s) + 1]
  <2>1. \A s \in Queue : Ahead(s) \in Nat
    BY <1>1 DEF IInv, TypeOK, Tickets, Ahead, Queue
  <2>2. \A s \in Queue : Ahead(s) + 1 \in 1 .. Outstanding
    BY <1>2, <2>1 DEF IInv, TicketsWithin
  <2>3. \A i \in 1 .. Outstanding : \E s \in Queue : Ahead(s) + 1 = i
    <3> SUFFICES ASSUME NEW i \in 1 .. Outstanding
                 PROVE  \E s \in Queue : Ahead(s) + 1 = i
      OBVIOUS
    <3>1. i - 1 \in 0 .. Outstanding - 1
      BY <1>2
    <3>2. PICK s \in Queue : Ahead(s) = i - 1
      BY <3>1 DEF IInv, TicketsFull
    <3> QED
      BY <3>2, <2>1
  <2>4. f \in Surjection(Queue, 1 .. Outstanding)
    BY <2>2, <2>3 DEF Surjection
  <2>5. Cardinality(1 .. Outstanding) <= Cardinality(Queue)
    BY <1>3, <2>4, FS_Surjection
  <2>6. Cardinality(1 .. Outstanding) = Outstanding
    BY <1>2, FS_Interval
  <2> QED
    BY <2>5, <2>6
<1> QED
  BY <1>1, <1>2, <1>3, <1>4, <1>5

(* What holding the lock means under the invariant. *)
LEMMA IInvExcludes == IInv => Exclusion
<1> SUFFICES ASSUME IInv, NEW s \in Threads, NEW t \in Threads,
                    pc[s] = "writing", pc[t] \in {"reading", "writing"}
             PROVE  s = t
  BY DEF Exclusion
<1>1. CASE pc[t] = "reading"
  BY <1>1 DEF IInv, WriterAlone
<1>2. CASE pc[t] = "writing"
  <2>1. s \in Queue /\ t \in Queue
    BY <1>2 DEF Queue, Queued
  <2>2. drawn[s] = ticket /\ drawn[t] = ticket
    BY <1>2 DEF IInv, ServedHolds, Queued
  <2> QED
    BY <2>1, <2>2 DEF IInv, TicketsApart, Ahead
<1> QED
  BY <1>1, <1>2

LEMMA InitIInv == Init => IInv
<1> SUFFICES ASSUME Init PROVE IInv
  OBVIOUS
<1>1. TicketMod \in Nat /\ 0 < TicketMod
  <2>1. Cardinality(Threads) \in Nat
    BY ThreadsAssumption, FS_CardinalityType
  <2> QED
    BY <2>1, ThreadsAssumption
<1>2. Queue = {} /\ CountedThreads = {}
  BY DEF Init, Queue, CountedThreads, Queued, Counted
<1>3. TypeOK
  BY <1>1 DEF Init, TypeOK, Tickets, Points
<1>4. TicketsWithin /\ TicketsApart /\ TicketsFull
  BY <1>2 DEF Init, TicketsWithin, TicketsApart, TicketsFull, Outstanding
<1>5. ServedHolds /\ WriterAlone
  BY DEF Init, ServedHolds, WriterAlone, Queued
<1>6. ReadersCounted
  BY <1>2, FS_EmptySet DEF Init, ReadersCounted
<1> QED
  BY <1>3, <1>4, <1>5, <1>6 DEF IInv

TicketsInv == TicketsWithin /\ TicketsApart /\ TicketsFull

(* A step that neither draws nor serves a ticket leaves the queue alone. *)
LEMMA QueueKept ==
    ASSUME IInv, UNCHANGED <<ticket, user>>,
           \A t \in Threads : pc'[t] \in Queued <=> pc[t] \in Queued,
           \A t \in Threads : pc[t] \in Queued => drawn'[t] = drawn[t]
    PROVE  TicketsInv'
<1>1. Queue' = Queue /\ Outstanding' = Outstanding
  BY DEF Queue, Outstanding
<1>2. \A t \in Queue : Ahead(t)' = Ahead(t)
  BY DEF Queue, Ahead
<1> QED
  BY <1>1, <1>2 DEF IInv, TicketsInv, TicketsWithin, TicketsApart, TicketsFull

(* Drawing a ticket adds one thread at the end of the queue. *)
LEMMA TicketDrawn ==
    ASSUME IInv, NEW t \in Threads, pc[t] \notin Queued, NEW p \in Queued,
           pc' = [pc EXCEPT ![t] = p],
           drawn'[t] = user, \A s \in Threads \ {t} : drawn'[s] = drawn[s],
           user' = NextTicket(user), ticket' = ticket
    PROVE  TicketsInv'
<1>1. Outstanding \in Nat /\ Outstanding + 1 < TicketMod /\ TicketMod \in Nat
  BY QueueFits, ThreadsAssumption DEF Queue, IInv, TypeOK, Tickets, Outstanding
<1>2. Outstanding' = Outstanding + 1
  BY <1>1 DEF Outstanding, NextTicket, IInv, TypeOK, Tickets
<1>3. Queue' = Queue \cup {t} /\ t \notin Queue
  BY DEF Queue, IInv, TypeOK
<1>4. \A s \in Queue : Ahead(s)' = Ahead(s)
  BY <1>3 DEF Ahead, Queue
<1>5. Ahead(t)' = Outstanding
  BY DEF Ahead, Outstanding
<1>6. \A s \in Queue : Ahead(s) \in Nat
  BY <1>1 DEF Ahead, Queue, IInv, TypeOK, Tickets
<1>7. TicketsWithin'
  BY <1>1, <1>2, <1>3, <1>4, <1>5, <1>6 DEF TicketsWithin, IInv
<1>8. TicketsApart'
  <2> SUFFICES ASSUME NEW r \in Queue', NEW s \in Queue', Ahead(r)' = Ahead(s)'
               PROVE  r = s
    BY DEF TicketsApart
  <2>1. \A q \in Queue : Ahead(q)' # Outstanding
    BY <1>1, <1>4, <1>6 DEF TicketsWithin, IInv
  <2>2. CASE r \in Queue /\ s \in Queue
    BY <2>2, <1>4 DEF TicketsApart, IInv
  <2>3. CASE r = t \/ s = t
    BY <2>3, <2>1, <1>3, <1>5
  <2> QED
    BY <2>2, <2>3, <1>3
<1>9. TicketsFull'
  <2> SUFFICES ASSUME NEW i \in 0 .. Outstanding' - 1
               PROVE  \E s \in Queue' : Ahead(s)' = i
    BY DEF TicketsFull
  <2>1. CASE i = Outstanding
    BY <2>1, <1>3, <1>5
  <2>2. CASE i # Outstanding
    <3>1. i \in 0 .. Outstanding - 1
      BY <2>2, <1>1, <1>2
    <3>2. PICK s \in Queue : Ahead(s) = i
      BY <3>1 DEF TicketsFull, IInv
    <3> QED
      BY <3>2, <1>3, <1>4
  <2> QED
    BY <2>1, <2>2
<1> QED
  BY <1>7, <1>8, <1>9 DEF TicketsInv

(* Serving the next ticket removes the thread that was served. *)
LEMMA TicketServedUp ==
    ASSUME IInv, NEW t \in Threads, pc[t] \in Queued, drawn[t] = ticket,
           pc' = [pc EXCEPT ![t] = "idle"], TicketUnlock(t)
    PROVE  /\ TicketsInv'
           /\ \A s \in Threads \ {t} : pc[s] \in Queued => drawn[s] # ticket
<1>1. Outstanding \in Nat /\ TicketMod \in Nat /\ t \in Queue /\ Ahead(t) = 0
      /\ \A s \in Queue : Ahead(s) \in Nat
  BY ThreadsAssumption
  DEF Queue, IInv, TypeOK, Tickets, Outstanding, Ahead
<1>2. 0 < Outstanding
  BY <1>1 DEF IInv, TicketsWithin
<1>3. Outstanding' = Outstanding - 1
  BY <1>2, <1>1 DEF Outstanding, NextTicket, TicketUnlock, IInv, TypeOK, Tickets
<1>4. Queue' = Queue \ {t}
  BY DEF Queue, Queued, IInv, TypeOK
<1>5. \A s \in Queue \ {t} : Ahead(s) # 0
  BY <1>1 DEF IInv, TicketsApart
<1>6. \A s \in Queue \ {t} : drawn[s] # ticket
  BY <1>5 DEF Ahead, IInv, TypeOK, Tickets, Queue
<1>7. \A s \in Queue \ {t} : Ahead(s)' = Ahead(s) - 1
  BY <1>1, <1>6 DEF Ahead, NextTicket, TicketUnlock, IInv, TypeOK, Tickets, Queue
<1>8. TicketsWithin'
  BY <1>1, <1>3, <1>4, <1>7 DEF TicketsWithin, IInv
<1>9. TicketsApart'
  BY <1>1, <1>4, <1>7 DEF TicketsApart, IInv
<1>10. TicketsFull'
  <2> SUFFICES ASSUME NEW i \in 0 .. Outstanding' - 1
               PROVE  \E s \in Queue' : Ahead(s)' = i
    BY DEF TicketsFull
  <2>1. i + 1 \in 0 .. Outstanding - 1
    BY <1>1, <1>3
  <2>2. PICK s \in Queue : Ahead(s) = i + 1
    BY <2>1 DEF TicketsFull, IInv
  <2>3. s # t
    BY <2>2, <1>1
  <2> QED
    BY <2>2, <2>3, <1>1, <1>4, <1>7
<1> QED
  BY <1>6, <1>8, <1>9, <1>10 DEF TicketsInv, Queue

(* The count of readers under the three kinds of step. *)
LEMMA CountKept ==
    ASSUME ReadersCounted, readers' = readers,
           \A t \in Threads : pc'[t] \in Counted <=> pc[t] \in Counted
    PROVE  ReadersCounted'
<1>1. CountedThreads' = CountedThreads
  BY DEF CountedThreads
<1> QED
  BY <1>1 DEF ReadersCounted

LEMMA CountFinite ==
    IsFiniteSet(CountedThreads) /\ Cardinality(CountedThreads) \in Nat
BY ThreadsAssumption, FS_Subset, FS_CardinalityType DEF CountedThreads

LEMMA CountUp ==
    ASSUME ReadersCounted, TypeOK, NEW t \in Threads, pc[t] \notin Counted,
           NEW p \in Counted, pc' = [pc EXCEPT ![t] = p], readers' = readers + 1
    PROVE  ReadersCounted' /\ readers' \in Nat
<1>1. CountedThreads' = CountedThreads \cup {t} /\ t \notin CountedThreads
  BY DEF CountedThreads, TypeOK
<1> QED
  BY <1>1, CountFinite, FS_AddElement DEF ReadersCounted

LEMMA CountDown ==
    ASSUME ReadersCounted, TypeOK, NEW t \in Threads, pc[t] \in Counted,
           NEW p, p \notin Counted, pc' = [pc EXCEPT ![t] = p],
           readers' = readers - 1
    PROVE  ReadersCounted' /\ readers' \in Nat
<1>1. CountedThreads' = CountedThreads \ {t} /\ t \in CountedThreads
  BY DEF CountedThreads, TypeOK
<1>2. IsFiniteSet(CountedThreads \ {t})
      /\ Cardinality(CountedThreads \ {t}) = Cardinality(CountedThreads) - 1
  BY <1>1, CountFinite, FS_RemoveElement
<1>3. Cardinality(CountedThreads \ {t}) \in Nat
  BY <1>2, FS_CardinalityType
<1> QED
  BY <1>1, <1>2, <1>3 DEF ReadersCounted

(* One step per action, one step under it per conjunct of the invariant. *)
LEMMA NextIInv == IInv /\ [Next]_vars => IInv'
<1> SUFFICES ASSUME IInv, [Next]_vars PROVE IInv'
  OBVIOUS
<1> USE DEF IInv
<1>0. TicketMod \in Nat /\ \A n \in Tickets : NextTicket(n) \in Tickets
  BY ThreadsAssumption DEF Tickets, NextTicket
<1>1. ASSUME NEW t \in Threads, ReaderLock(t) PROVE IInv'
  <2> USE <1>1 DEF ReaderLock, Goto
  <2>1. TypeOK'
    BY DEF TypeOK, Points
  <2>2. TicketsInv'
    BY QueueKept DEF TypeOK, Queued
  <2>3. ReadersCounted'
    BY CountKept DEF TypeOK, Counted
  <2>4. ServedHolds'
    BY DEF ServedHolds, Queued, TypeOK
  <2>5. WriterAlone'
    BY DEF WriterAlone, TypeOK
  <2> QED
    BY <2>1, <2>2, <2>3, <2>4, <2>5 DEF TicketsInv
<1>2. ASSUME NEW t \in Threads, SeeUnlocked(t) PROVE IInv'
  <2> USE <1>2 DEF SeeUnlocked, Goto
  <2>1. TypeOK'
    BY DEF TypeOK, Points
  <2>2. TicketsInv'
    BY QueueKept DEF TypeOK, Queued
  <2>3. ReadersCounted'
    BY CountKept DEF TypeOK, Counted
  <2>4. ServedHolds'
    BY DEF ServedHolds, Queued, TypeOK
  <2>5. WriterAlone'
    BY DEF WriterAlone, TypeOK
  <2> QED
    BY <2>1, <2>2, <2>3, <2>4, <2>5 DEF TicketsInv
<1>3. ASSUME NEW t \in Threads, CountReader(t) PROVE IInv'
  <2> USE <1>3 DEF CountReader, Goto
  <2>3. ReadersCounted' /\ readers' \in Nat
    BY CountUp DEF Counted
  <2>1. TypeOK'
    BY <2>3 DEF TypeOK, Points
  <2>2. TicketsInv'
    BY QueueKept DEF TypeOK, Queued
  <2>4. ServedHolds'
    BY DEF ServedHolds, Queued, TypeOK
  <2>5. WriterAlone'
    BY DEF WriterAlone, TypeOK
  <2> QED
    BY <2>1, <2>2, <2>3, <2>4, <2>5 DEF TicketsInv
<1>4. ASSUME NEW t \in Threads, ReaderTrylock(t) PROVE IInv'
  <2> USE <1>4 DEF ReaderTrylock, Goto
  <2>3. ReadersCounted' /\ readers' \in Nat
    BY CountUp DEF Counted
  <2>1. TypeOK'
    BY <2>3 DEF TypeOK, Points
  <2>2. TicketsInv'
    BY QueueKept DEF TypeOK, Queued
  <2>4. ServedHolds'
    BY DEF ServedHolds, Queued, TypeOK
  <2>5. WriterAlone'
    BY DEF WriterAlone, TypeOK
  <2> QED
    BY <2>1, <2>2, <2>3, <2>4, <2>5 DEF TicketsInv
<1>5. ASSUME NEW t \in Threads, CheckReader(t) PROVE IInv'
  <2> USE <1>5 DEF CheckReader, Goto
  <2>0. IsUnlocked => \A s \in Threads : pc[s] # "writing"
    <3>1. IsUnlocked => Outstanding = 0
      BY DEF IsUnlocked, Outstanding, TypeOK, Tickets
    <3>2. \A s \in Queue : Ahead(s) >= 0
      BY <1>0 DEF Queue, Ahead, TypeOK, Tickets
    <3>3. IsUnlocked => Queue = {}
      <4> SUFFICES ASSUME IsUnlocked, NEW s \in Queue PROVE FALSE
        OBVIOUS
      <4>1. Ahead(s) \in Int
        BY <1>0 DEF Queue, Ahead, TypeOK, Tickets
      <4> QED
        BY <3>1, <3>2, <4>1 DEF TicketsWithin
    <3> QED
      BY <3>3 DEF Queue, Queued
  <2>1. TypeOK'
    BY DEF TypeOK, Points
  <2>2. TicketsInv'
    BY QueueKept DEF TypeOK, Queued
  <2>3. ReadersCounted'
    BY CountKept DEF TypeOK, Counted
  <2>4. ServedHolds'
    BY DEF ServedHolds, Queued, TypeOK
  <2>5. WriterAlone'
    BY <2>0 DEF WriterAlone, TypeOK
  <2> QED
    BY <2>1, <2>2, <2>3, <2>4, <2>5 DEF TicketsInv
<1>6. ASSUME NEW t \in Threads, UncountReader(t) PROVE IInv'
  <2> USE <1>6 DEF UncountReader, Goto
  <2>3. ReadersCounted' /\ readers' \in Nat
    BY CountDown DEF Counted
  <2>1. TypeOK'
    BY <2>3 DEF TypeOK, Points
  <2>2. TicketsInv'
    BY QueueKept DEF TypeOK, Queued
  <2>4. ServedHolds'
    BY DEF ServedHolds, Queued, TypeOK
  <2>5. WriterAlone'
    BY DEF WriterAlone, TypeOK
  <2> QED
    BY <2>1, <2>2, <2>3, <2>4, <2>5 DEF TicketsInv
<1>7. ASSUME NEW t \in Threads, ReaderUnlock(t) PROVE IInv'
  <2> USE <1>7 DEF ReaderUnlock, Goto
  <2>3. ReadersCounted' /\ readers' \in Nat
    BY CountDown DEF Counted
  <2>1. TypeOK'
    BY <2>3 DEF TypeOK, Points
  <2>2. TicketsInv'
    BY QueueKept DEF TypeOK, Queued
  <2>4. ServedHolds'
    BY DEF ServedHolds, Queued, TypeOK
  <2>5. WriterAlone'
    BY DEF WriterAlone, TypeOK
  <2> QED
    BY <2>1, <2>2, <2>3, <2>4, <2>5 DEF TicketsInv
<1>8. ASSUME NEW t \in Threads, DrawTicket(t) PROVE IInv'
  <2> USE <1>8 DEF DrawTicket, Goto
  <2>1. TypeOK'
    BY <1>0 DEF TypeOK, Points
  <2>2. TicketsInv'
    BY TicketDrawn DEF TypeOK, Queued
  <2>3. ReadersCounted'
    BY CountKept DEF TypeOK, Counted
  <2>4. ServedHolds'
    BY DEF ServedHolds, Queued, TypeOK
  <2>5. WriterAlone'
    BY DEF WriterAlone, TypeOK
  <2> QED
    BY <2>1, <2>2, <2>3, <2>4, <2>5 DEF TicketsInv
<1>9. ASSUME NEW t \in Threads, Served(t) PROVE IInv'
  <2> USE <1>9 DEF Served, Goto
  <2>1. TypeOK'
    BY DEF TypeOK, Points
  <2>2. TicketsInv'
    BY QueueKept DEF TypeOK, Queued
  <2>3. ReadersCounted'
    BY CountKept DEF TypeOK, Counted
  <2>4. ServedHolds'
    BY DEF ServedHolds, Queued, TypeOK
  <2>5. WriterAlone'
    BY DEF WriterAlone, TypeOK
  <2> QED
    BY <2>1, <2>2, <2>3, <2>4, <2>5 DEF TicketsInv
<1>10. ASSUME NEW t \in Threads, Drained(t) PROVE IInv'
  <2> USE <1>10 DEF Drained, Goto
  <2>0. readers = 0 => \A s \in Threads : pc[s] # "reading"
    <3>1. readers = 0 => CountedThreads = {}
      BY CountFinite, FS_EmptySet DEF ReadersCounted
    <3> QED
      BY <3>1 DEF CountedThreads, Counted
  <2>1. TypeOK'
    BY DEF TypeOK, Points
  <2>2. TicketsInv'
    BY QueueKept DEF TypeOK, Queued
  <2>3. ReadersCounted'
    BY CountKept DEF TypeOK, Counted
  <2>4. ServedHolds'
    BY DEF ServedHolds, Queued, TypeOK
  <2>5. WriterAlone'
    BY <2>0 DEF WriterAlone, TypeOK
  <2> QED
    BY <2>1, <2>2, <2>3, <2>4, <2>5 DEF TicketsInv
<1>11. ASSUME NEW t \in Threads, WriterUnlock(t) PROVE IInv'
  <2> USE <1>11 DEF WriterUnlock, Goto
  <2>0. drawn[t] = ticket /\ pc[t] \in Queued /\ pc[t] # "spin"
    BY DEF ServedHolds, Queued
  <2>1. TypeOK'
    BY <1>0 DEF TypeOK, Points, TicketUnlock, Tickets
  <2>2. TicketsInv' /\ \A s \in Threads \ {t} : pc[s] \in Queued => drawn[s] # ticket
    BY <2>0, TicketServedUp
  <2>3. ReadersCounted'
    BY CountKept DEF TypeOK, Counted, TicketUnlock
  <2>4. ServedHolds'
    BY <2>2 DEF ServedHolds, Queued, TypeOK, TicketUnlock
  <2>5. WriterAlone'
    BY DEF WriterAlone, TypeOK
  <2> QED
    BY <2>1, <2>2, <2>3, <2>4, <2>5 DEF TicketsInv
<1>12. ASSUME NEW t \in Threads, PeekReaders(t) PROVE IInv'
  <2> USE <1>12 DEF PeekReaders, Goto
  <2>1. TypeOK'
    BY DEF TypeOK, Points
  <2>2. TicketsInv'
    BY QueueKept DEF TypeOK, Queued
  <2>3. ReadersCounted'
    BY CountKept DEF TypeOK, Counted
  <2>4. ServedHolds'
    BY DEF ServedHolds, Queued, TypeOK
  <2>5. WriterAlone'
    BY DEF WriterAlone, TypeOK
  <2> QED
    BY <2>1, <2>2, <2>3, <2>4, <2>5 DEF TicketsInv
<1>13. ASSUME NEW t \in Threads, LoadUser(t) PROVE IInv'
  <2> USE <1>13 DEF LoadUser, Goto
  <2>1. TypeOK'
    BY DEF TypeOK, Points
  <2>2. TicketsInv'
    BY QueueKept DEF TypeOK, Queued
  <2>3. ReadersCounted'
    BY CountKept DEF TypeOK, Counted
  <2>4. ServedHolds'
    BY DEF ServedHolds, Queued, TypeOK
  <2>5. WriterAlone'
    BY DEF WriterAlone, TypeOK
  <2> QED
    BY <2>1, <2>2, <2>3, <2>4, <2>5 DEF TicketsInv
<1>14. ASSUME NEW t \in Threads, CompareAndSwap(t) PROVE IInv'
  <2> USE <1>14 DEF CompareAndSwap, Goto
  <2>1. TypeOK'
    BY <1>0 DEF TypeOK, Points, Tickets
  <2>2. TicketsInv'
    <3>1. CASE ticket = drawn[t] /\ user = drawn[t]
      BY <3>1, TicketDrawn DEF TypeOK, Queued
    <3>2. CASE ~(ticket = drawn[t] /\ user = drawn[t])
      BY <3>2, QueueKept DEF TypeOK, Queued
    <3> QED
      BY <3>1, <3>2
  <2>3. ReadersCounted'
    BY CountKept DEF TypeOK, Counted
  <2>4. ServedHolds'
    BY DEF ServedHolds, Queued, TypeOK
  <2>5. WriterAlone'
    BY DEF WriterAlone, TypeOK
  <2> QED
    BY <2>1, <2>2, <2>3, <2>4, <2>5 DEF TicketsInv
<1>15. ASSUME NEW t \in Threads, RecheckReaders(t) PROVE IInv'
  <2> USE <1>15 DEF RecheckReaders, Goto
  <2>0. readers = 0 => \A s \in Threads : pc[s] # "reading"
    <3>1. readers = 0 => CountedThreads = {}
      BY CountFinite, FS_EmptySet DEF ReadersCounted
    <3> QED
      BY <3>1 DEF CountedThreads, Counted
  <2>1. TypeOK'
    BY DEF TypeOK, Points
  <2>2. TicketsInv'
    BY QueueKept DEF TypeOK, Queued
  <2>3. ReadersCounted'
    BY CountKept DEF TypeOK, Counted
  <2>4. ServedHolds'
    BY DEF ServedHolds, Queued, TypeOK
  <2>5. WriterAlone'
    BY <2>0 DEF WriterAlone, TypeOK
  <2> QED
    BY <2>1, <2>2, <2>3, <2>4, <2>5 DEF TicketsInv
<1>16. ASSUME NEW t \in Threads, UndoTrylock(t) PROVE IInv'
  <2> USE <1>16 DEF UndoTrylock, Goto
  <2>0. drawn[t] = ticket /\ pc[t] \in Queued /\ pc[t] # "spin"
    BY DEF ServedHolds, Queued
  <2>1. TypeOK'
    BY <1>0 DEF TypeOK, Points, TicketUnlock, Tickets
  <2>2. TicketsInv' /\ \A s \in Threads \ {t} : pc[s] \in Queued => drawn[s] # ticket
    BY <2>0, TicketServedUp
  <2>3. ReadersCounted'
    BY CountKept DEF TypeOK, Counted, TicketUnlock
  <2>4. ServedHolds'
    BY <2>2 DEF ServedHolds, Queued, TypeOK, TicketUnlock
  <2>5. WriterAlone'
    BY DEF WriterAlone, TypeOK
  <2> QED
    BY <2>1, <2>2, <2>3, <2>4, <2>5 DEF TicketsInv
<1>17. CASE UNCHANGED vars
  <2>1. TicketsInv'
    BY <1>17, QueueKept DEF vars
  <2>2. ReadersCounted'
    BY <1>17, CountKept DEF vars
  <2>3. TypeOK' /\ ServedHolds' /\ WriterAlone'
    BY <1>17 DEF vars, TypeOK, ServedHolds, WriterAlone
  <2> QED
    BY <2>1, <2>2, <2>3 DEF TicketsInv
<1>18. CASE Next
  BY <1>18, <1>1, <1>2, <1>3, <1>4, <1>5, <1>6, <1>7, <1>8, <1>9, <1>10, <1>11, <1>12, <1>13, <1>14, <1>15, <1>16 DEF Next, Reader, Writer, Call
<1> QED
  BY <1>17, <1>18

(* The variables keep their types.  TypeOK is model-checked by the same run. *)
THEOREM TypeCorrect == Spec => []TypeOK
<1>1. IInv => TypeOK
  BY DEF IInv
<1> QED
  BY InitIInv, NextIInv, <1>1, PTL DEF Spec

(* No writer of a pgm_rwspinlock_t ever shares it, with any number of        *)
(* threads and any width of the tickets that exceeds it.                     *)
THEOREM MutualExclusion == Spec => []Exclusion
BY InitIInv, NextIInv, IInvExcludes, PTL DEF Spec

In(p) == {t \in Threads : pc[t] = p}

(* Nobody holds the lock for reading when the count is zero, nor for writing *)
(* when the tickets agree.                                                   *)
LEMMA NoReaderAtZero == IInv /\ readers = 0 => In("reading") = {}
<1>1. IInv /\ readers = 0 => CountedThreads = {}
  BY CountFinite, FS_EmptySet DEF IInv, ReadersCounted
<1> QED
  BY <1>1 DEF CountedThreads, Counted, In

LEMMA NoWriterUnlocked == IInv /\ IsUnlocked => In("writing") = {}
<1> SUFFICES ASSUME IInv, IsUnlocked, NEW s \in Queue PROVE FALSE
  BY DEF Queue, Queued, In
<1>1. Outstanding = 0
  BY DEF IsUnlocked, Outstanding, TypeOK, Tickets, IInv
<1>2. Ahead(s) \in Int /\ Ahead(s) >= 0
  BY ThreadsAssumption DEF Queue, Ahead, TypeOK, Tickets, IInv
<1> QED
  BY <1>1, <1>2 DEF TicketsWithin, IInv

LEMMA NoWriterWhileHeld ==
    ASSUME IInv, NEW t \in Threads, pc[t] \in Queued \ {"spin"}, pc[t] # "writing"
    PROVE  In("writing") = {}
<1> SUFFICES ASSUME NEW s \in Threads, pc[s] = "writing" PROVE FALSE
  BY DEF In
<1>1. drawn[s] = ticket /\ drawn[t] = ticket
  BY DEF IInv, ServedHolds, Queued
<1>2. s \in Queue /\ t \in Queue
  BY DEF Queue, Queued
<1> QED
  BY <1>1, <1>2 DEF IInv, TicketsApart, Ahead

(* Every step of the spinlock is a step of RwLock or changes nothing there. *)
LEMMA StepRefines == IInv /\ [Next]_vars => [Lock!Next]_(Lock!lockVars)
<1> SUFFICES ASSUME IInv, [Next]_vars PROVE Lock!Next \/ UNCHANGED Lock!lockVars
  OBVIOUS
<1>0. TypeOK /\ Exclusion
  BY IInvExcludes DEF IInv
<1> DEFINE Quiet == In("reading")' = In("reading") /\ In("writing")' = In("writing")
<1>q. Quiet => UNCHANGED Lock!lockVars
  BY DEF Lock!lockVars, In
<1>1. ASSUME NEW t \in Threads, ReaderLock(t) PROVE Quiet
  BY <1>1, <1>0 DEF ReaderLock, Goto, In, TypeOK
<1>2. ASSUME NEW t \in Threads, SeeUnlocked(t) PROVE Quiet
  BY <1>2, <1>0 DEF SeeUnlocked, Goto, In, TypeOK
<1>3. ASSUME NEW t \in Threads, CountReader(t) PROVE Quiet
  BY <1>3, <1>0 DEF CountReader, Goto, In, TypeOK
<1>4. ASSUME NEW t \in Threads, ReaderTrylock(t) PROVE Quiet
  BY <1>4, <1>0 DEF ReaderTrylock, Goto, In, TypeOK
<1>5. ASSUME NEW t \in Threads, UncountReader(t) PROVE Quiet
  BY <1>5, <1>0 DEF UncountReader, Goto, In, TypeOK
<1>6. ASSUME NEW t \in Threads, DrawTicket(t) PROVE Quiet
  BY <1>6, <1>0 DEF DrawTicket, Goto, In, TypeOK
<1>7. ASSUME NEW t \in Threads, Served(t) PROVE Quiet
  BY <1>7, <1>0 DEF Served, Goto, In, TypeOK
<1>8. ASSUME NEW t \in Threads, PeekReaders(t) PROVE Quiet
  BY <1>8, <1>0 DEF PeekReaders, Goto, In, TypeOK
<1>9. ASSUME NEW t \in Threads, LoadUser(t) PROVE Quiet
  BY <1>9, <1>0 DEF LoadUser, Goto, In, TypeOK
<1>10. ASSUME NEW t \in Threads, CompareAndSwap(t) PROVE Quiet
  BY <1>10, <1>0 DEF CompareAndSwap, Goto, In, TypeOK
<1>11. ASSUME NEW t \in Threads, UndoTrylock(t) PROVE Quiet
  BY <1>11, <1>0 DEF UndoTrylock, Goto, In, TypeOK
<1>20. ASSUME NEW t \in Threads, CheckReader(t)
       PROVE  Quiet \/ Lock!ReaderEnters(t)
  <2> USE <1>20, <1>0 DEF CheckReader, Goto, In, TypeOK
  <2>1. CASE IsUnlocked
    <3>1. In("writing") = {} /\ In("writing")' = {}
      BY <2>1, NoWriterUnlocked
    <3>2. t \notin In("reading") /\ In("reading")' = In("reading") \cup {t}
      BY <2>1
    <3> QED
      BY <3>1, <3>2 DEF Lock!ReaderEnters
  <2>2. CASE ~IsUnlocked
    BY <2>2
  <2> QED
    BY <2>1, <2>2
<1>21. ASSUME NEW t \in Threads, ReaderUnlock(t) PROVE Lock!ReaderLeaves(t)
  BY <1>21, <1>0 DEF ReaderUnlock, Goto, TypeOK, Lock!ReaderLeaves
<1>22. ASSUME NEW t \in Threads, Drained(t) PROVE Lock!WriterEnters(t)
  <2> USE <1>22, <1>0 DEF Drained, Goto, In, TypeOK
  <2>1. In("reading") = {} /\ In("writing") = {}
    BY NoReaderAtZero, NoWriterWhileHeld DEF Queued
  <2>2. In("reading")' = {} /\ In("writing")' = {t}
    BY <2>1
  <2> QED
    BY <2>1, <2>2 DEF Lock!WriterEnters
<1>23. ASSUME NEW t \in Threads, RecheckReaders(t)
       PROVE  Quiet \/ Lock!WriterEnters(t)
  <2> USE <1>23, <1>0 DEF RecheckReaders, Goto, In, TypeOK
  <2>1. CASE readers = 0
    <3>1. In("reading") = {} /\ In("writing") = {}
      BY <2>1, NoReaderAtZero, NoWriterWhileHeld DEF Queued
    <3>2. In("reading")' = {} /\ In("writing")' = {t}
      BY <2>1, <3>1
    <3> QED
      BY <3>1, <3>2 DEF Lock!WriterEnters
  <2>2. CASE readers # 0
    BY <2>2
  <2> QED
    BY <2>1, <2>2
<1>24. ASSUME NEW t \in Threads, WriterUnlock(t) PROVE Lock!WriterLeaves(t)
  <2> USE <1>24, <1>0 DEF WriterUnlock, Goto, In, TypeOK
  <2>1. In("writing") = {t}
    BY DEF Exclusion
  <2>2. In("writing")' = {} /\ In("reading")' = In("reading")
    BY <2>1
  <2> QED
    BY <2>1, <2>2 DEF Lock!WriterLeaves
<1>25. CASE UNCHANGED vars
  BY <1>25 DEF vars, Lock!lockVars
<1>26. CASE Next
  BY <1>26, <1>q, <1>1, <1>2, <1>3, <1>4, <1>5, <1>6, <1>7, <1>8, <1>9, <1>10, <1>11, <1>20, <1>21, <1>22, <1>23, <1>24
  DEF Next, Reader, Writer, Call, Lock!Next
<1> QED
  BY <1>25, <1>26

(* The spinlock implements the read-write lock its callers are written for. *)
THEOREM Implements == Spec => IsRwLock
<1>1. Init => Lock!Init
  BY DEF Init, Lock!Init
<1> QED
  BY <1>1, InitIInv, NextIInv, StepRefines, PTL DEF Spec, IsRwLock, Lock!Spec
=============================================================================
