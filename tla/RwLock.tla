------------------------------- MODULE RwLock -------------------------------
(* What the library expects of a read-write lock (pgm_rwlock_t of thread.h): *)
(* the readers that hold it share it, a writer that holds it is alone.       *)
EXTENDS FiniteSets

CONSTANT Threads

VARIABLES readersIn,  \* threads that hold the lock for reading
          writersIn   \* threads that hold the lock for writing

lockVars == <<readersIn, writersIn>>

Init == readersIn = {} /\ writersIn = {}

ReaderEnters(t) ==
    /\ t \notin readersIn
    /\ writersIn = {}
    /\ readersIn' = readersIn \cup {t}
    /\ UNCHANGED writersIn

WriterEnters(t) ==
    /\ readersIn = {} /\ writersIn = {}
    /\ writersIn' = {t}
    /\ UNCHANGED readersIn

ReaderLeaves(t) ==
    /\ t \in readersIn
    /\ readersIn' = readersIn \ {t}
    /\ UNCHANGED writersIn

WriterLeaves(t) ==
    /\ writersIn = {t}
    /\ writersIn' = {}
    /\ UNCHANGED readersIn

Next == \E t \in Threads :
    \/ ReaderEnters(t) \/ ReaderLeaves(t)
    \/ WriterEnters(t) \/ WriterLeaves(t)

Spec == Init /\ [][Next]_lockVars
=============================================================================
