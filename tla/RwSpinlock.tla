----------------------------- MODULE RwSpinlock -----------------------------
(* The read-write spinlock of rwspinlock.h over the ticket spinlock of       *)
(* ticket.h: a 16-bit word `ticket' now served, a 16-bit word `user' next to *)
(* be drawn, and a count of readers.  Every access to a shared word is a     *)
(* step of its own.                                                          *)
EXTENDS Integers, FiniteSets

CONSTANTS Threads,     \* threads that use the lock
          TicketMod    \* 2^16 in the code (2^32 on 64-bit Windows)

ASSUME ThreadsAssumption ==
    /\ IsFiniteSet(Threads)
    /\ TicketMod \in Nat
    /\ Cardinality(Threads) < TicketMod

VARIABLES ticket,   \* pgm_tkt_ticket
          user,     \* pgm_tkt_user
          readers,  \* rwspinlock->readers
          pc,       \* where each thread is
          drawn     \* the local `user' of each thread's call, 0 after it

vars == <<ticket, user, readers, pc, drawn>>

Tickets == 0 .. TicketMod - 1
NextTicket(n) == IF n = TicketMod - 1 THEN 0 ELSE n + 1

(* reader_lock: wait, then count (inc), check and, on failure, give back     *)
(* (dec); tryX are the same points of reader_trylock.  writer_lock: spin for *)
(* the ticket, drain the readers.  writer_trylock: peek at readers, load     *)
(* user, CAS, check the readers again and, on failure, release (undo).       *)
Points == {"idle", "wait", "inc", "check", "dec", "tryCheck", "tryDec",
           "reading", "spin", "drain", "load", "cas", "recheck", "undo",
           "writing"}

Counted == {"check", "dec", "tryCheck", "tryDec", "reading"}
Queued  == {"spin", "drain", "recheck", "undo", "writing"}

IsUnlocked == ticket = user

Init ==
    /\ ticket = 0 /\ user = 0 /\ readers = 0
    /\ pc = [t \in Threads |-> "idle"]
    /\ drawn = [t \in Threads |-> 0]

Goto(t, from, to) == pc[t] = from /\ pc' = [pc EXCEPT ![t] = to]

-----------------------------------------------------------------------------
(* pgm_rwspinlock_reader_lock, reader_trylock, reader_unlock *)

ReaderLock(t) ==
    /\ Goto(t, "idle", "wait")
    /\ UNCHANGED <<ticket, user, readers, drawn>>

SeeUnlocked(t) ==
    /\ IsUnlocked
    /\ Goto(t, "wait", "inc")
    /\ UNCHANGED <<ticket, user, readers, drawn>>

CountReader(t) ==
    /\ Goto(t, "inc", "check")
    /\ readers' = readers + 1
    /\ UNCHANGED <<ticket, user, drawn>>

\* Mutant: a reader that tries is not counted while it looks.
ReaderTrylockUncounted(t) ==
    /\ Goto(t, "idle", "tryCheck")
    /\ UNCHANGED <<ticket, user, readers, drawn>>

ReaderTrylock(t) ==
    /\ Goto(t, "idle", "tryCheck")
    /\ readers' = readers + 1
    /\ UNCHANGED <<ticket, user, drawn>>

CheckReader(t) ==
    /\ IF IsUnlocked
       THEN Goto(t, "check", "reading") \/ Goto(t, "tryCheck", "reading")
       ELSE Goto(t, "check", "dec") \/ Goto(t, "tryCheck", "tryDec")
    /\ UNCHANGED <<ticket, user, readers, drawn>>

\* Mutant: the speculative count is not given back.
UncountReaderForgets(t) ==
    /\ Goto(t, "dec", "wait") \/ Goto(t, "tryDec", "idle")
    /\ UNCHANGED <<ticket, user, readers, drawn>>

UncountReader(t) ==
    /\ Goto(t, "dec", "wait") \/ Goto(t, "tryDec", "idle")
    /\ readers' = readers - 1
    /\ UNCHANGED <<ticket, user, drawn>>

ReaderUnlock(t) ==
    /\ Goto(t, "reading", "idle")
    /\ readers' = readers - 1
    /\ UNCHANGED <<ticket, user, drawn>>

-----------------------------------------------------------------------------
(* pgm_rwspinlock_writer_lock, writer_unlock; pgm_ticket_lock and unlock *)

DrawTicket(t) ==
    /\ Goto(t, "idle", "spin")
    /\ drawn' = [drawn EXCEPT ![t] = user]
    /\ user' = NextTicket(user)
    /\ UNCHANGED <<ticket, readers>>

Served(t) ==
    /\ ticket = drawn[t]
    /\ Goto(t, "spin", "drain")
    /\ UNCHANGED <<ticket, user, readers, drawn>>

Drained(t) ==
    /\ readers = 0
    /\ Goto(t, "drain", "writing")
    /\ UNCHANGED <<ticket, user, readers, drawn>>

TicketUnlock(t) ==
    /\ ticket' = NextTicket(ticket)
    /\ drawn' = [drawn EXCEPT ![t] = 0]
    /\ UNCHANGED <<user, readers>>

WriterUnlock(t) == Goto(t, "writing", "idle") /\ TicketUnlock(t)

-----------------------------------------------------------------------------
(* pgm_rwspinlock_writer_trylock and pgm_ticket_trylock *)

PeekReaders(t) ==
    /\ readers = 0
    /\ Goto(t, "idle", "load")
    /\ UNCHANGED <<ticket, user, readers, drawn>>

LoadUser(t) ==
    /\ Goto(t, "load", "cas")
    /\ drawn' = [drawn EXCEPT ![t] = user]
    /\ UNCHANGED <<ticket, user, readers>>

\* Mutant: only the user half of the word is compared.
CompareUserOnly(t) ==
    /\ IF user = drawn[t]
       THEN /\ Goto(t, "cas", "recheck")
            /\ user' = NextTicket(user)
            /\ UNCHANGED drawn
       ELSE /\ Goto(t, "cas", "idle")
            /\ drawn' = [drawn EXCEPT ![t] = 0]
            /\ UNCHANGED user
    /\ UNCHANGED <<ticket, readers>>

CompareAndSwap(t) ==
    /\ IF ticket = drawn[t] /\ user = drawn[t]
       THEN /\ Goto(t, "cas", "recheck")
            /\ user' = NextTicket(user)
            /\ UNCHANGED drawn
       ELSE /\ Goto(t, "cas", "idle")
            /\ drawn' = [drawn EXCEPT ![t] = 0]
            /\ UNCHANGED user
    /\ UNCHANGED <<ticket, readers>>

\* Mutant: a writer that tries does not look at the readers again.
RecheckReadersNever(t) ==
    /\ Goto(t, "recheck", "writing")
    /\ UNCHANGED <<ticket, user, readers, drawn>>

RecheckReaders(t) ==
    /\ Goto(t, "recheck", IF readers = 0 THEN "writing" ELSE "undo")
    /\ UNCHANGED <<ticket, user, readers, drawn>>

\* Mutant: the ticket of a trylock that gave up is never served up.
UndoTrylockKeeps(t) ==
    /\ Goto(t, "undo", "idle")
    /\ UNCHANGED <<ticket, user, readers, drawn>>

UndoTrylock(t) == Goto(t, "undo", "idle") /\ TicketUnlock(t)

-----------------------------------------------------------------------------
Reader(t) ==
    \/ SeeUnlocked(t) \/ CountReader(t) \/ CheckReader(t) \/ UncountReader(t)
    \/ ReaderUnlock(t)
Writer(t) ==
    \/ Served(t) \/ Drained(t) \/ WriterUnlock(t)
    \/ LoadUser(t) \/ CompareAndSwap(t) \/ RecheckReaders(t) \/ UndoTrylock(t)
Call(t) == ReaderLock(t) \/ ReaderTrylock(t) \/ DrawTicket(t) \/ PeekReaders(t)

Next == \E t \in Threads : Reader(t) \/ Writer(t) \/ Call(t)

Spec == Init /\ [][Next]_vars

(* A thread inside a call is scheduled again (sched_yield, YieldProcessor)   *)
(* and one that holds the lock gives it back; nobody has to call.            *)
Fairness == \A t \in Threads : WF_vars(Reader(t) \/ Writer(t))

FairSpec == Spec /\ Fairness

-----------------------------------------------------------------------------
TypeOK ==
    /\ ticket \in Tickets /\ user \in Tickets
    /\ readers \in Nat
    /\ pc \in [Threads -> Points]
    /\ drawn \in [Threads -> Tickets]

(* A thread that holds the lock for writing holds it alone, whatever the     *)
(* speculative counts of rwspinlock.h and the wrap of the 16-bit tickets do. *)
Exclusion ==
    \A s, t \in Threads :
        pc[s] = "writing" /\ pc[t] \in {"reading", "writing"} => s = t

(* Seen through who holds it, the spinlock is the read-write lock that the   *)
(* callers of pgm_rwlock_t (thread.h) expect.                                *)
Lock == INSTANCE RwLock
    WITH readersIn <- {t \in Threads : pc[t] = "reading"},
         writersIn <- {t \in Threads : pc[t] = "writing"}
IsRwLock == Lock!Spec

(* Whoever waits gets the lock.  A writer that drew a ticket enters whatever *)
(* readers that wait and other writers do: new readers are held off by its   *)
(* ticket.  A reader enters unless writers come for ever: no ticket is left  *)
(* behind by a trylock that gave up.  Only calls of reader_trylock, which    *)
(* count themselves before they look, can keep the count from ever being     *)
(* seen at zero.                                                             *)
WriterEnters == \A t \in Threads : pc[t] = "spin" ~> pc[t] = "writing"
ReaderEnters ==
    \/ \A t \in Threads : pc[t] = "wait" ~> pc[t] = "reading"
    \/ []<><<\E s \in Threads : DrawTicket(s) \/ CompareAndSwap(s)>>_vars
EveryoneEnters ==
    \/ WriterEnters /\ ReaderEnters
    \/ []<>(\E s \in Threads : pc[s] = "tryDec")
=============================================================================
