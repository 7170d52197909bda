------------------------------ MODULE Lifecycle ------------------------------
(* The life of sockets and peers: pgm_socket, pgm_bind, pgm_connect, the     *)
(* calls that hold pgm_sock_t::lock for reading, pgm_close and pgm_shutdown, *)
(* against the administration threads (http.c, pgmMIB.c) that walk the list  *)
(* of sockets and the peers of each.  The locks are the read-write locks of  *)
(* RwSpinlock, seen from outside: a trylock fails while a ticket is drawn,   *)
(* and a writer waits for the readers before it.                             *)
EXTENDS Integers, Sequences, FiniteSets, SequencesExt

CONSTANTS Socks,         \* sockets the application may create, each once
          Threads,       \* application threads
          Admins,        \* administration threads
          Sources,       \* remote sources, peers once heard of
          RecvModes,     \* "wait": blocking; "dontwait": MSG_DONTWAIT
          MaxCloses,     \* calls of pgm_close on a socket
          Careful,       \* two steps that race are kept apart, see Apart
          NoSock         \* at no socket

ASSUME LifecycleAssumption ==
    /\ "up" \notin Threads /\ "down" \notin Threads
    /\ RecvModes \subseteq {"wait", "dontwait"}
    /\ MaxCloses \in Nat \ {0}
    /\ Careful \in BOOLEAN
    /\ Threads \cap Admins = {}
    /\ NoSock \notin Socks

VARIABLES sock,       \* the pgm_sock_t of each socket
          inventory,  \* pgm_sock_list
          peers,      \* peers_list and peers_hashtable of each socket
          leaked,     \* reader counts of sock->lock that nobody gives back
          closes,     \* calls of pgm_close so far
          engine,     \* "up", the thread in pgm_shutdown, or "down"
          aborted,    \* a pgm_assert has failed
          pc,         \* where each thread is
          at,         \* the socket it is at
          mode,       \* how its receive call waits, "wait" outside one
          todo        \* the peers an administration thread has yet to read

vars == <<sock, inventory, peers, leaked, closes, engine, aborted, pc, at, mode,
          todo>>

Everyone == Threads \cup Admins

(* Holding sock->lock for reading: option and send calls; receive calls that *)
(* wait for receiver_mutex (mutex), read (recv), add a peer (newpeer), look  *)
(* whether to wait (event), gather descriptors (info) or poll; pgm_close     *)
(* before it gives its read lock up (closing).                               *)
Receiving == {"recv", "newpeer", "event", "info", "poll"}
Reading == {"option", "send", "mutex", "closing"} \cup Receiving

(* With a ticket of sock->lock: pgm_close waits for the readers (drain),     *)
(* takes the socket off the list (unlist) and destroys it (destroy); bind    *)
(* and connect.                                                              *)
Ticketed == {"drain", "unlist", "destroy", "bind", "connect"}

(* Without the lock: "idle", outside calls; "append", pgm_socket before the   *)
(* list; "after", a receive call that gave its lock back; "free", pgm_close   *)
(* likewise; "walk" and "peers", an administration thread.                    *)

Fresh == [made |-> "none", bound |-> FALSE, connected |-> FALSE,
          destroyed |-> FALSE]

Init ==
    /\ sock = [s \in Socks |-> Fresh]
    /\ inventory = <<>>
    /\ peers = [s \in Socks |-> {}]
    /\ leaked = [s \in Socks |-> 0]
    /\ closes = [s \in Socks |-> 0]
    /\ engine = "up"
    /\ aborted = FALSE
    /\ pc = [t \in Everyone |-> "idle"]
    /\ at = [t \in Everyone |-> NoSock]
    /\ mode = [t \in Threads |-> "wait"]
    /\ todo = [a \in Admins |-> {}]

-----------------------------------------------------------------------------
(* The locks. *)

In(s, where) == \E t \in Everyone : pc[t] \in where /\ at[t] = s

NoReader(s) == ~In(s, Reading) /\ leaked[s] = 0
NoTicket(s) == ~In(s, Ticketed)

\* pgm_sock_list_lock: "append" and "unlist" have drawn a ticket; what they
\* do under it is one step
ListUnlocked == \A t \in Everyone : pc[t] \notin {"append", "unlist"}
ListDrained  == \A a \in Admins : pc[a] \notin {"walk", "peers"}

\* sock->peers_lock: "newpeer" has drawn a ticket
PeersDrained(s) == ~In(s, {"peers"})

(* The code does not order the expiry of a peer and a walk of its list, nor  *)
(* the last look of a receive call at its socket and pgm_close.              *)
Apart(condition) == Careful => condition

Move(t, from, to) == pc[t] = from /\ pc' = [pc EXCEPT ![t] = to]

Arrive(t, s, to) ==
    /\ pc[t] = "idle"
    /\ pc' = [pc EXCEPT ![t] = to]
    /\ at' = [at EXCEPT ![t] = s]

Leave(t, from) ==
    /\ Move(t, from, "idle")
    /\ at' = [at EXCEPT ![t] = NoSock]

(* The application knows the socket.  A call may come while another thread   *)
(* closes it, but not once pgm_close has left the lock that it frees.        *)
Usable(s) == engine # "down" /\ sock[s].made = "live" /\ ~In(s, {"free"})

-----------------------------------------------------------------------------
(* pgm_socket, pgm_bind and pgm_connect *)

Socket(t, s) ==
    /\ engine = "up"
    /\ sock[s].made = "none"
    /\ sock' = [sock EXCEPT ![s].made = "new"]
    /\ Arrive(t, s, "append")
    /\ UNCHANGED <<inventory, peers, leaked, closes, engine, aborted, mode, todo>>

Listed(t) ==
    /\ Leave(t, "append")
    /\ ListDrained
    /\ inventory' = Append(inventory, at[t])
    /\ sock' = [sock EXCEPT ![at[t]].made = "live"]
    /\ UNCHANGED <<peers, leaked, closes, engine, aborted, mode, todo>>

\* writer_trylock, then the checks of the state
Bind(t, s) ==
    /\ Usable(s) /\ NoReader(s) /\ NoTicket(s)
    /\ ~sock[s].bound /\ ~sock[s].destroyed
    /\ Arrive(t, s, "bind")
    /\ UNCHANGED <<sock, inventory, peers, leaked, closes, engine, aborted, mode,
                   todo>>

Connect(t, s) ==
    /\ Usable(s) /\ NoReader(s) /\ NoTicket(s)
    /\ sock[s].bound /\ ~sock[s].connected /\ ~sock[s].destroyed
    /\ Arrive(t, s, "connect")
    /\ UNCHANGED <<sock, inventory, peers, leaked, closes, engine, aborted, mode,
                   todo>>

\* either may fail and leave the socket as it was
BindReturns(t, ok) ==
    /\ Leave(t, "bind")
    /\ sock' = [sock EXCEPT ![at[t]].bound = ok]
    /\ UNCHANGED <<inventory, peers, leaked, closes, engine, aborted, mode, todo>>

ConnectReturns(t, ok) ==
    /\ Leave(t, "connect")
    /\ sock' = [sock EXCEPT ![at[t]].connected = ok]
    /\ UNCHANGED <<inventory, peers, leaked, closes, engine, aborted, mode, todo>>

-----------------------------------------------------------------------------
(* Calls under the read lock.  A call that finds the lock or the state       *)
(* against it returns at once and changes nothing.                           *)

Option(t, s) ==
    /\ Usable(s) /\ NoTicket(s) /\ ~sock[s].destroyed
    /\ Arrive(t, s, "option")
    /\ UNCHANGED <<sock, inventory, peers, leaked, closes, engine, aborted, mode,
                   todo>>

Send(t, s) ==
    /\ Usable(s) /\ NoTicket(s)
    /\ sock[s].bound /\ ~sock[s].destroyed
    /\ Arrive(t, s, "send")
    /\ UNCHANGED <<sock, inventory, peers, leaked, closes, engine, aborted, mode,
                   todo>>

CallReturns(t) ==
    /\ Leave(t, "option") \/ Leave(t, "send")
    /\ UNCHANGED <<sock, inventory, peers, leaked, closes, engine, aborted, mode,
                   todo>>

Recv(t, s, m) ==
    /\ Usable(s) /\ NoTicket(s)
    /\ sock[s].bound /\ ~sock[s].destroyed
    /\ mode' = [mode EXCEPT ![t] = m]
    /\ Arrive(t, s, "mutex")
    /\ UNCHANGED <<sock, inventory, peers, leaked, closes, engine, aborted, todo>>

ReceiverMutex(t) ==
    /\ Move(t, "mutex", "recv")
    /\ ~In(at[t], Receiving)
    /\ UNCHANGED <<sock, inventory, peers, leaked, closes, engine, aborted, at,
                   mode, todo>>

\* Mutant: the call forgets to give its lock back.
RecvReturnsLocked(t) ==
    /\ Leave(t, "recv")
    /\ mode' = [mode EXCEPT ![t] = "wait"]
    /\ leaked' = [leaked EXCEPT ![at[t]] = 1]
    /\ UNCHANGED <<sock, inventory, peers, closes, engine, aborted, todo>>

\* end of file or an error once the socket is closed, data before or despite
RecvReturns(t) ==
    /\ Leave(t, "recv")
    /\ mode' = [mode EXCEPT ![t] = "wait"]
    /\ UNCHANGED <<sock, inventory, peers, leaked, closes, engine, aborted, todo>>

\* a packet of a source that the socket has no peer for
HearsNew(t) ==
    /\ Move(t, "recv", "newpeer")
    /\ ~sock[at[t]].destroyed /\ peers[at[t]] # Sources
    /\ UNCHANGED <<sock, inventory, peers, leaked, closes, engine, aborted, at,
                   mode, todo>>

NewPeer(t) ==
    /\ Move(t, "newpeer", "recv")
    /\ PeersDrained(at[t])
    /\ \E p \in Sources \ peers[at[t]] : peers' = [peers EXCEPT ![at[t]] = @ \cup {p}]
    /\ UNCHANGED <<sock, inventory, leaked, closes, engine, aborted, at, mode,
                   todo>>

(* pgm_check_peer_state, from pgm_timer_dispatch: it unlinks and frees the   *)
(* peer and takes no lock but receiver_mutex.                                *)
PeerExpires(t) ==
    /\ pc[t] \in {"recv", "event"}
    /\ Apart(PeersDrained(at[t]))
    /\ \E p \in peers[at[t]] : peers' = [peers EXCEPT ![at[t]] = @ \ {p}]
    /\ UNCHANGED <<sock, inventory, leaked, closes, engine, aborted, pc, at, mode,
                   todo>>

(* Nothing to read: a blocking call waits for an event, another gives its    *)
(* lock back and then looks at can_send_data and peers_list.                 *)
RecvEmpty(t) ==
    /\ Move(t, "recv", IF mode[t] = "wait" THEN "event" ELSE "after")
    /\ ~sock[at[t]].destroyed
    /\ UNCHANGED <<sock, inventory, peers, leaked, closes, engine, aborted, at,
                   mode, todo>>

RecvWouldBlock(t) ==
    /\ Leave(t, "after")
    /\ mode' = [mode EXCEPT ![t] = "wait"]
    /\ UNCHANGED <<sock, inventory, peers, leaked, closes, engine, aborted, todo>>

WaitForEvent(t) ==
    /\ pc[t] = "event"
    /\ IF sock[at[t]].destroyed
       THEN Leave(t, "event")
       ELSE Move(t, "event", "info") /\ UNCHANGED at
    /\ UNCHANGED <<sock, inventory, peers, leaked, closes, engine, aborted, mode,
                   todo>>

\* pgm_poll_info; pgm_assert (-1 != status)
PollInfo(t) ==
    /\ Move(t, "info", "poll")
    /\ aborted' = sock[at[t]].destroyed
    /\ UNCHANGED <<sock, inventory, peers, leaked, closes, engine, at, mode, todo>>

\* a descriptor is ready, or the timer ran out: pgm_close wakes nobody
Polled(t) ==
    /\ Move(t, "poll", "recv") \/ Move(t, "poll", "event")
    /\ UNCHANGED <<sock, inventory, peers, leaked, closes, engine, aborted, at,
                   mode, todo>>

-----------------------------------------------------------------------------
(* pgm_close and pgm_shutdown *)

\* in pgm_close
Closing(t) == pc[t] \in {"closing", "drain", "unlist", "destroy", "free"}

(* A pgm_close that finds the socket destroyed returns with the read lock    *)
(* still held.                                                               *)
CloseEnter(t, s) ==
    /\ NoTicket(s) /\ closes[s] < MaxCloses
    /\ closes' = [closes EXCEPT ![s] = @ + 1]
    /\ IF sock[s].destroyed
       THEN /\ pc[t] = "idle"
            /\ leaked' = [leaked EXCEPT ![s] = @ + 1]
            /\ UNCHANGED <<pc, at>>
       ELSE Arrive(t, s, "closing") /\ UNCHANGED leaked
    /\ UNCHANGED <<sock, inventory, peers, engine, aborted, mode, todo>>

Close(t, s) == engine = "up" /\ Usable(s) /\ CloseEnter(t, s)

(* is_destroyed, the descriptors are closed; the read lock is given back and *)
(* a ticket drawn.                                                           *)
FlagDestroyed(t) ==
    /\ Move(t, "closing", "drain")
    /\ sock' = [sock EXCEPT ![at[t]].destroyed = TRUE]
    /\ UNCHANGED <<inventory, peers, leaked, closes, engine, aborted, at, mode,
                   todo>>

\* Mutant: pgm_close does not wait for the calls under way.
DrainedEarly(t) ==
    /\ Move(t, "drain", "unlist")
    /\ UNCHANGED <<sock, inventory, peers, leaked, closes, engine, aborted, at,
                   mode, todo>>

Drained(t) ==
    /\ Move(t, "drain", "unlist")
    /\ NoReader(at[t])
    /\ ~In(at[t], {"unlist", "destroy", "bind", "connect"})
    /\ UNCHANGED <<sock, inventory, peers, leaked, closes, engine, aborted, at,
                   mode, todo>>

\* Mutant: the first socket is taken off, whichever is closed.
UnlistFirst(t) ==
    /\ Move(t, "unlist", "destroy")
    /\ ListDrained
    /\ inventory' = Tail(inventory)
    /\ UNCHANGED <<sock, peers, leaked, closes, engine, aborted, at, mode, todo>>

Unlist(t) ==
    /\ Move(t, "unlist", "destroy")
    /\ ListDrained
    /\ inventory' = RemoveFirst(inventory, at[t])
    /\ UNCHANGED <<sock, peers, leaked, closes, engine, aborted, at, mode, todo>>

\* peers, windows and locks go; the write lock is given back
Destroy(t) ==
    /\ Move(t, "destroy", "free")
    /\ peers' = [peers EXCEPT ![at[t]] = {}]
    /\ UNCHANGED <<sock, inventory, leaked, closes, engine, aborted, at, mode,
                   todo>>

Free(t) ==
    /\ Leave(t, "free")
    /\ Apart(~In(at[t], {"after"}))
    /\ sock' = [sock EXCEPT ![at[t]].made = "freed"]
    /\ UNCHANGED <<inventory, peers, leaked, closes, engine, aborted, mode, todo>>

(* pgm_shutdown, once the administration has stopped and nobody is creating  *)
(* or closing a socket; other calls may be under way.                        *)
Shutdown(t) ==
    /\ engine = "up" /\ pc[t] = "idle"
    /\ \A u \in Threads : ~Closing(u) /\ pc[u] # "append"
    /\ \A a \in Admins : pc[a] = "idle"
    /\ engine' = t
    /\ UNCHANGED <<sock, inventory, peers, leaked, closes, aborted, pc, at, mode,
                   todo>>

ShutdownCloses(t) ==
    /\ engine = t /\ pc[t] = "idle" /\ inventory # <<>>
    /\ CloseEnter(t, Head(inventory))

ShutdownReturns(t) ==
    /\ engine = t /\ pc[t] = "idle" /\ inventory = <<>>
    /\ engine' = "down"
    /\ UNCHANGED <<sock, inventory, peers, leaked, closes, aborted, pc, at, mode,
                   todo>>

-----------------------------------------------------------------------------
(* An administration thread walks the list of sockets under its read lock    *)
(* and reads the peers of each under that of the socket.                     *)

Walk(a) ==
    /\ engine = "up" /\ ListUnlocked /\ inventory # <<>>
    /\ Arrive(a, Head(inventory), "walk")
    /\ UNCHANGED <<sock, inventory, peers, leaked, closes, engine, aborted, mode,
                   todo>>

WalkPeers(a) ==
    /\ Move(a, "walk", "peers")
    /\ ~In(at[a], {"newpeer"})
    /\ todo' = [todo EXCEPT ![a] = peers[at[a]]]
    /\ UNCHANGED <<sock, inventory, peers, leaked, closes, engine, aborted, at,
                   mode>>

ReadPeer(a) ==
    /\ pc[a] = "peers"
    /\ \E p \in todo[a] : todo' = [todo EXCEPT ![a] = @ \ {p}]
    /\ UNCHANGED <<sock, inventory, peers, leaked, closes, engine, aborted, pc, at,
                   mode>>

\* what was looked for is found or the peers are read: the next socket, if any
WalkOn(a) ==
    /\ pc[a] = "peers"
    /\ todo' = [todo EXCEPT ![a] = {}]
    /\ \/ Leave(a, "peers")
       \/ \E i \in 1 .. Len(inventory) - 1 :
            /\ inventory[i] = at[a]
            /\ at' = [at EXCEPT ![a] = inventory[i + 1]]
            /\ Move(a, "peers", "walk")
    /\ UNCHANGED <<sock, inventory, peers, leaked, closes, engine, aborted, mode>>

-----------------------------------------------------------------------------
\* what a thread does of itself once it is in a call
InCall(t) ==
    \/ Listed(t) \/ CallReturns(t) \/ ReceiverMutex(t) \/ RecvReturns(t)
    \/ NewPeer(t) \/ RecvEmpty(t) \/ RecvWouldBlock(t)
    \/ WaitForEvent(t) \/ PollInfo(t) \/ Polled(t)
    \/ FlagDestroyed(t) \/ Drained(t) \/ Unlist(t) \/ Destroy(t) \/ Free(t)
    \/ ShutdownCloses(t) \/ ShutdownReturns(t)
    \/ \E ok \in BOOLEAN : BindReturns(t, ok) \/ ConnectReturns(t, ok)

Calls(t, s) ==
    \/ Socket(t, s) \/ Bind(t, s) \/ Connect(t, s)
    \/ Option(t, s) \/ Send(t, s) \/ Close(t, s)
    \/ \E m \in RecvModes : Recv(t, s, m)

Administers(a) == WalkPeers(a) \/ ReadPeer(a) \/ WalkOn(a)

Next ==
    /\ ~aborted
    /\ \/ \E t \in Threads :
           \/ InCall(t) \/ HearsNew(t) \/ PeerExpires(t) \/ Shutdown(t)
           \/ engine # t /\ \E s \in Socks : Calls(t, s)
       \/ \E a \in Admins : Walk(a) \/ Administers(a)

Spec == Init /\ [][Next]_vars

-----------------------------------------------------------------------------
(* No thread is in a call on, or reads from the list, a socket that          *)
(* pgm_close has freed, or a peer that has expired or gone with its socket.  *)
(* Careful keeps the reads of recv.c:903 and the expiry of a peer under an   *)
(* administration thread away (receiver.c:1809), MaxCloses = 1 the second    *)
(* pgm_close of a socket (socket.c:232): by each the code breaks this.       *)
NeverTouchesFreed ==
    /\ \A t \in Everyone : at[t] # NoSock => sock[at[t]].made \in {"new", "live"}
    /\ \A a \in Admins : todo[a] # {} => todo[a] \subseteq peers[at[a]]

(* The inventory has each socket that pgm_socket returned once, until the    *)
(* pgm_close that destroys it has taken it off.                              *)
InventoryComplete ==
    /\ \A i, j \in 1 .. Len(inventory) : inventory[i] = inventory[j] => i = j
    /\ \A s \in Socks :
        s \in Range(inventory) <=> sock[s].made = "live" /\ ~In(s, {"destroy", "free"})

\* pgm_assert (-1 != status) in wait_for_event
PollInfoSucceeds == ~aborted

(* A thread in a call goes on: the wait for an event times out.  A walk is    *)
(* not held off by a peer that comes and goes: that takes seconds, the lock   *)
(* a few instructions.                                                       *)
Fairness ==
    /\ \A t \in Threads : WF_vars(~aborted /\ InCall(t))
    /\ \A a \in Admins : WF_vars(Administers(a)) /\ SF_vars(WalkPeers(a))

FairSpec == Spec /\ Fairness

(* A pgm_close under way ends, once every call that holds it up has noticed  *)
(* the closed socket and the walks of its list are over.                     *)
CloseReturns ==
    \A t \in Threads : pc[t] = "drain" ~> (pc[t] = "idle" \/ aborted)
=============================================================================
