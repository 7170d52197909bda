-------------------------- MODULE LifecycleProofs --------------------------
(* What Lifecycle says of the list of sockets and of the memory a call       *)
(* touches, proved for any number of sockets, threads and sources.  The      *)
(* application closes a socket at most once (MaxCloses = 1): a second        *)
(* pgm_close that draws its read lock before the first has set is_destroyed  *)
(* goes on to destroy the socket again.                                      *)
EXTENDS Lifecycle, SequenceTheorems, TLAPS

Calling == {"option", "send", "mutex", "bind", "connect"} \cup Receiving
ThreadPlaces ==
    {"idle", "append", "after", "closing", "drain", "unlist", "destroy", "free"}
    \cup Calling
AdminPlaces == {"idle", "walk", "peers"}

SockRecord == [made : {"none", "new", "live", "freed"}, bound : BOOLEAN,
               connected : BOOLEAN, destroyed : BOOLEAN]

TypeInv ==
    /\ sock \in [Socks -> SockRecord]
    /\ inventory \in Seq(Socks)
    /\ peers \in [Socks -> SUBSET Sources]
    /\ leaked \in [Socks -> Nat]
    /\ closes \in [Socks -> Nat]
    /\ pc \in [Everyone -> ThreadPlaces \cup AdminPlaces]
    /\ \A t \in Threads : pc[t] \in ThreadPlaces
    /\ \A a \in Admins : pc[a] \in AdminPlaces
    /\ at \in [Everyone -> Socks \cup {NoSock}]
    /\ mode \in [Threads -> {"wait", "dontwait"}]
    /\ todo \in [Admins -> SUBSET Sources]

\* A thread outside calls is at no socket, and no other thread is.
Placed == \A t \in Everyone : pc[t] = "idle" <=> at[t] = NoSock

(* A socket that a thread is at has not been freed, but for the last look of *)
(* a receive call; it is live unless pgm_socket is about to list it.         *)
Alive ==
    \A t \in Everyone : at[t] # NoSock =>
        /\ pc[t] = "append" => sock[at[t]].made = "new"
        /\ pc[t] = "after"  => /\ sock[at[t]].made \in {"live", "freed"}
                               /\ Careful => sock[at[t]].made = "live"
        /\ pc[t] \notin {"append", "after"} => sock[at[t]].made = "live"

\* One pgm_socket creates a socket.
OneCreates ==
    \A t, u \in Everyone : pc[t] = "append" /\ at[u] = at[t] => u = t

\* pgm_close is called once on a socket, so one thread at most is closing it.
ClosedOnce ==
    /\ \A s \in Socks : closes[s] \in 0 .. 1
    /\ \A s \in Socks : closes[s] = 0 => ~sock[s].destroyed
    /\ \A t \in Everyone : Closing(t) => closes[at[t]] = 1
    /\ \A t, u \in Everyone : Closing(t) /\ Closing(u) /\ at[u] = at[t] => u = t

(* A pgm_close that has waited for the readers meets at its socket only      *)
(* threads that hold no lock of it, and from when the socket is off the list *)
(* only receive calls at their last look.                                    *)
Alone ==
    \A t, u \in Everyone : u # t /\ at[u] = at[t] =>
        /\ pc[t] = "unlist" => pc[u] \in {"after", "walk", "peers"}
        /\ pc[t] \in {"destroy", "free"} => pc[u] = "after"

\* What an administration thread has yet to read is in the list it holds.
ToRead ==
    \A a \in Admins : todo[a] # {} =>
        pc[a] = "peers" /\ (Careful => todo[a] \subseteq peers[at[a]])

IInv ==
    /\ TypeInv /\ Placed /\ Alive /\ OneCreates /\ ClosedOnce /\ Alone
    /\ InventoryComplete /\ ToRead

-----------------------------------------------------------------------------
(* The list of sockets. *)

\* pgm_slist_append of a socket that the list has not keeps the sockets of the list
\* different from each other.
LEMMA AppendOnce ==
    ASSUME NEW q \in Seq(Socks), NEW e \in Socks, e \notin Range(q),
           \A i, j \in 1 .. Len(q) : q[i] = q[j] => i = j
    PROVE  /\ Append(q, e) \in Seq(Socks)
           /\ Range(Append(q, e)) = Range(q) \cup {e}
           /\ \A i, j \in 1 .. Len(Append(q, e)) :
                 Append(q, e)[i] = Append(q, e)[j] => i = j
<1> DEFINE p == Append(q, e)
<1>1. Len(q) \in Nat /\ DOMAIN q = 1 .. Len(q)
  BY LenProperties
<1>2. /\ p \in Seq(Socks) /\ Len(p) = Len(q) + 1 /\ p[Len(q) + 1] = e
      /\ \A i \in 1 .. Len(q) : p[i] = q[i]
  BY AppendProperties
<1>3. DOMAIN p = 1 .. Len(q) + 1
  BY <1>2, LenProperties
<1> HIDE DEF p
<1>4. \A i \in 1 .. Len(q) : q[i] \in Range(q) /\ q[i] # e
  BY <1>1 DEF Range
<1>5. \A i \in 1 .. Len(q) + 1 : i \in 1 .. Len(q) \/ i = Len(q) + 1
  BY <1>1
<1>6. 1 .. Len(q) \subseteq 1 .. Len(q) + 1 /\ Len(q) + 1 \in 1 .. Len(q) + 1
  BY <1>1
<1>7. Range(p) = Range(q) \cup {e}
  <2>1. ASSUME NEW x \in Range(p) PROVE x \in Range(q) \cup {e}
    <3>1. PICK i \in 1 .. Len(q) + 1 : x = p[i]
      BY <1>3 DEF Range
    <3> QED
      BY <1>2, <1>4, <1>5, <3>1
  <2>2. ASSUME NEW x \in Range(q) \cup {e} PROVE x \in Range(p)
    <3>1. CASE x = e
      BY <1>2, <1>3, <1>6, <3>1 DEF Range
    <3>2. CASE x \in Range(q)
      <4>1. PICK i \in 1 .. Len(q) : x = q[i]
        BY <1>1, <3>2 DEF Range
      <4> QED
        BY <1>2, <1>3, <1>6, <4>1 DEF Range
    <3> QED
      BY <3>1, <3>2
  <2> QED
    BY <2>1, <2>2
<1>8. \A i, j \in 1 .. Len(p) : p[i] = p[j] => i = j
  BY <1>2, <1>4, <1>5, Zenon
<1> QED
  BY <1>2, <1>7, <1>8 DEF p

\* pgm_slist_remove takes a socket off the list: the others stay, in their order, and
\* different from each other.
LEMMA RemoveOnce ==
    ASSUME NEW q \in Seq(Socks), NEW e \in Range(q),
           \A i, j \in 1 .. Len(q) : q[i] = q[j] => i = j
    PROVE  /\ RemoveFirst(q, e) \in Seq(Socks)
           /\ Range(RemoveFirst(q, e)) = Range(q) \ {e}
           /\ \A i, j \in 1 .. Len(RemoveFirst(q, e)) :
                 RemoveFirst(q, e)[i] = RemoveFirst(q, e)[j] => i = j
<1>1. Len(q) \in Nat /\ DOMAIN q = 1 .. Len(q) /\ \A i \in 1 .. Len(q) : q[i] \in Socks
  BY LenProperties, ElementOfSeq
<1>2. PICK k \in 1 .. Len(q) : q[k] = e
  BY <1>1 DEF Range
<1> DEFINE p == RemoveFirst(q, e)
           l == SubSeq(q, 1, k - 1)
           r == SubSeq(q, k + 1, Len(q))
<1>3. p = l \o r
  <2>1. {i \in 1 .. Len(q) : q[i] = e} = {k}
    BY <1>2
  <2>2. Min({k}) = k
    BY <1>1 DEF Min
  <2>3. p = RemoveAt(q, IF {i \in 1 .. Len(q) : q[i] = e} # {}
                        THEN Min({i \in 1 .. Len(q) : q[i] = e}) ELSE 0)
    BY <1>2 DEF RemoveFirst, SelectInSeq
  <2> QED
    BY <2>1, <2>2, <2>3 DEF RemoveAt
<1>4. k \in Nat /\ 1 <= k /\ k <= Len(q) /\ Len(q) \in Nat
  BY <1>1
<1>5. l \in Seq(Socks) /\ Len(l) = k - 1 /\ \A i \in 1 .. k - 1 : l[i] = q[i]
  BY <1>1, <1>4, SubSeqProperties
<1>6. r \in Seq(Socks) /\ Len(r) = Len(q) - k /\ \A i \in 1 .. Len(q) - k : r[i] = q[k + i]
  <2>1. \A i \in (k + 1) .. Len(q) : q[i] \in Socks
    BY <1>1, <1>4
  <2>2. /\ r \in Seq(Socks)
        /\ Len(r) = IF k + 1 <= Len(q) THEN Len(q) - (k + 1) + 1 ELSE 0
        /\ \A i \in 1 .. Len(q) - (k + 1) + 1 : r[i] = q[(k + 1) + i - 1]
    BY <1>1, <1>4, <2>1, SubSeqProperties
  <2> HIDE DEF r
  <2>3. Len(q) - (k + 1) + 1 = Len(q) - k
    BY <1>1, <1>4
  <2>5. Len(r) = IF k + 1 <= Len(q) THEN Len(q) - (k + 1) + 1 ELSE 0
    BY <2>2
  <2>6. Len(r) = Len(q) - k
    BY <1>4, <2>5
  <2>4. \A i \in 1 .. Len(q) - k : (k + 1) + i - 1 = k + i
    BY <1>1, <1>4
  <2> QED
    BY <2>2, <2>3, <2>4, <2>6, Zenon
<1> HIDE DEF l, r, p
<1>7. p \in Seq(Socks) /\ Len(p) = Len(q) - 1
  <2>1. p \in Seq(Socks) /\ Len(p) = Len(l) + Len(r)
    BY <1>3, <1>5, <1>6, ConcatProperties
  <2> QED
    BY <1>1, <1>4, <1>5, <1>6, <2>1
<1>8. ASSUME NEW i \in 1 .. Len(q) - 1 PROVE p[i] = IF i < k THEN q[i] ELSE q[i + 1]
  <2>1. p[i] = IF i <= Len(l) THEN l[i] ELSE r[i - Len(l)]
    BY <1>1, <1>3, <1>4, <1>5, <1>6, ConcatProperties
  <2>2. CASE i < k
    BY <1>4, <1>5, <2>1, <2>2
  <2>3. CASE i >= k
    <3>1. r[i - (k - 1)] = q[k + (i - (k - 1))] /\ k + (i - (k - 1)) = i + 1
      BY <1>1, <1>4, <1>6, <2>3
    <3> QED
      BY <1>4, <1>5, <2>1, <2>3, <3>1
  <2>4. i < k \/ i >= k
    BY <1>4
  <2> QED
    BY <2>2, <2>3, <2>4, Zenon
<1>9. DOMAIN p = 1 .. Len(q) - 1
  BY <1>7, LenProperties
<1>10. \A i, j \in 1 .. Len(p) : p[i] = p[j] => i = j
  BY <1>1, <1>4, <1>7, <1>8
<1>11. ASSUME NEW j \in 1 .. Len(q), j # k PROVE \E i \in 1 .. Len(q) - 1 : p[i] = q[j]
  <2>1. CASE j < k
    BY <1>1, <1>4, <1>8, <2>1
  <2>2. CASE j > k
    <3>1. j - 1 \in 1 .. Len(q) - 1 /\ ~(j - 1 < k) /\ (j - 1) + 1 = j
      BY <1>1, <1>4, <2>2
    <3>2. p[j - 1] = q[j]
      BY <1>8, <3>1
    <3> QED
      BY <3>1, <3>2
  <2> QED
    BY <1>4, <1>11, <2>1, <2>2
<1>12. ASSUME NEW i \in 1 .. Len(q) - 1 PROVE \E j \in 1 .. Len(q) : p[i] = q[j] /\ j # k
  BY <1>1, <1>4, <1>8
<1>13. Range(p) = Range(q) \ {e}
  <2>1. ASSUME NEW x \in Range(p) PROVE x \in Range(q) \ {e}
    <3>1. PICK i \in 1 .. Len(q) - 1 : x = p[i]
      BY <1>9 DEF Range
    <3>2. PICK j \in 1 .. Len(q) : p[i] = q[j] /\ j # k
      BY <1>12
    <3> QED
      BY <1>1, <1>2, <3>1, <3>2 DEF Range
  <2>2. ASSUME NEW x \in Range(q) \ {e} PROVE x \in Range(p)
    <3>1. PICK j \in 1 .. Len(q) : x = q[j] /\ j # k
      BY <1>1, <1>2 DEF Range
    <3>2. PICK i \in 1 .. Len(q) - 1 : p[i] = q[j]
      BY <1>11, <3>1
    <3> QED
      BY <1>9, <3>1, <3>2 DEF Range
  <2> QED
    BY <2>1, <2>2
<1> QED
  BY <1>7, <1>10, <1>13 DEF p

-----------------------------------------------------------------------------
(* The steps. *)

\* The thread t is now at pc p and at the socket s.
Moves(t, p, s) == pc' = [pc EXCEPT ![t] = p] /\ at' = [at EXCEPT ![t] = s]

\* No pgm_close that waits for nobody any more is at the socket s.
NoCloser(s) == ~In(s, {"unlist", "destroy", "free"})

\* The lists of peers that an administration thread holds have lost nobody.
PeersKept ==
    /\ peers' \in [Socks -> SUBSET Sources]
    /\ \A a \in Admins : Careful /\ pc[a] = "peers" => peers[at[a]] \subseteq peers'[at[a]]

\* A step of a call that is not pgm_socket or pgm_close, from the socket it enters to
\* the one it leaves, keeps the invariant.
LEMMA CallStep ==
    ASSUME IInv, NEW t \in Threads, NEW p, NEW s, Moves(t, p, s),
           pc[t] \in Calling \cup {"idle", "after"},
           \/ p = "idle" /\ s = NoSock
           \/ /\ p \in Calling \cup {"after"} /\ s \in Socks
              /\ sock[s].made = "live" /\ NoCloser(s),
           sock' \in [Socks -> SockRecord],
           \A r \in Socks : sock'[r].made = sock[r].made
                            /\ sock'[r].destroyed = sock[r].destroyed,
           mode' \in [Threads -> {"wait", "dontwait"}],
           UNCHANGED <<inventory, leaked, closes, todo>>, PeersKept
    PROVE  IInv'
<1>1. t \in Everyone /\ t \notin Admins /\ pc[t] \notin {"append", "walk", "peers"}
  BY LifecycleAssumption DEF Everyone, Calling, Receiving
<1>2. p \in ThreadPlaces /\ s \in Socks \cup {NoSock}
  BY DEF ThreadPlaces
<1>3. ~(p \in {"append", "walk", "peers", "closing", "drain", "unlist", "destroy", "free"})
      /\ ~(pc[t] \in {"append", "walk", "peers", "closing", "drain", "unlist", "destroy", "free"})
  BY DEF Calling, Receiving
<1>4. /\ pc' \in [Everyone -> ThreadPlaces \cup AdminPlaces]
      /\ at' \in [Everyone -> Socks \cup {NoSock}]
      /\ \A u \in Everyone : /\ pc'[u] = IF u = t THEN p ELSE pc[u]
                             /\ at'[u] = IF u = t THEN s ELSE at[u]
  BY <1>1, <1>2 DEF IInv, TypeInv, Moves
<1>a. p = "idle" <=> s = NoSock
  BY LifecycleAssumption DEF Calling, Receiving
<1>b. p # "idle" => sock[s].made = "live" /\ NoCloser(s)
  BY DEF Calling, Receiving
<1>c. /\ TypeInv /\ Placed /\ Alive /\ OneCreates /\ ClosedOnce /\ Alone
      /\ InventoryComplete /\ ToRead
  BY DEF IInv
<1>d. \A u \in Everyone : at[u] # NoSock => at[u] \in Socks
  BY <1>c DEF TypeInv
<1>5. TypeInv'
  BY <1>1, <1>2, <1>4, <1>c DEF TypeInv, PeersKept, Everyone
<1>6. Placed'
  BY <1>4, <1>a, <1>c DEF Placed
<1>7. Alive'
  <2> SUFFICES ASSUME NEW u \in Everyone, at'[u] # NoSock
               PROVE  /\ pc'[u] = "append" => sock'[at'[u]].made = "new"
                      /\ pc'[u] = "after" =>
                            /\ sock'[at'[u]].made \in {"live", "freed"}
                            /\ Careful => sock'[at'[u]].made = "live"
                      /\ pc'[u] \notin {"append", "after"} => sock'[at'[u]].made = "live"
    BY DEF Alive
  <2>1. CASE u = t
    BY <1>2, <1>3, <1>4, <1>a, <1>b, <2>1
  <2>2. CASE u # t
    BY <1>4, <1>c, <1>d, <2>2 DEF Alive
  <2> QED
    BY <2>1, <2>2
<1>8. OneCreates'
  <2> SUFFICES ASSUME NEW u \in Everyone, NEW v \in Everyone,
                      pc'[u] = "append", at'[v] = at'[u]
               PROVE  v = u
    BY DEF OneCreates
  <2>1. u # t /\ pc[u] = "append" /\ at'[u] = at[u]
    BY <1>3, <1>4
  <2>2. at[u] # NoSock /\ sock[at[u]].made = "new"
    BY <1>c, <2>1 DEF Placed, Alive
  <2>3. CASE v = t
    BY <1>4, <1>a, <1>b, <2>1, <2>2, <2>3
  <2>4. CASE v # t
    BY <1>4, <1>c, <2>1, <2>4 DEF OneCreates
  <2> QED
    BY <2>3, <2>4
<1>9. ClosedOnce'
  <2>1. \A u \in Everyone : Closing(u)' => u # t /\ Closing(u) /\ at'[u] = at[u]
    BY <1>3, <1>4 DEF Closing
  <2> QED
    BY <1>c, <2>1 DEF ClosedOnce
<1>10. Alone'
  <2> SUFFICES ASSUME NEW u \in Everyone, NEW v \in Everyone, v # u, at'[v] = at'[u]
               PROVE  /\ pc'[u] = "unlist" => pc'[v] \in {"after", "walk", "peers"}
                      /\ pc'[u] \in {"destroy", "free"} => pc'[v] = "after"
    BY DEF Alone
  <2>1. CASE u = t
    BY <1>3, <1>4, <2>1
  <2>2. CASE v = t /\ pc[u] \in {"unlist", "destroy", "free"}
    <3>1. at[u] # NoSock
      BY <1>c, <2>2 DEF Placed
    <3> QED
      BY <1>4, <1>a, <1>b, <2>2, <3>1 DEF NoCloser, In
  <2>3. CASE u # t /\ v # t
    BY <1>4, <1>c, <2>3 DEF Alone
  <2> QED
    BY <1>4, <2>1, <2>2, <2>3
<1>11. InventoryComplete'
  <2>1. \A r : In(r, {"destroy", "free"})' <=> In(r, {"destroy", "free"})
    BY <1>1, <1>3, <1>4 DEF In
  <2> QED
    BY <1>c, <2>1 DEF InventoryComplete
<1>12. ToRead'
  <2>1. \A a \in Admins : a # t /\ a \in Everyone
    BY <1>1 DEF Everyone
  <2> QED
    BY <1>4, <1>c, <2>1 DEF ToRead, PeersKept
<1> QED
  BY <1>5, <1>6, <1>7, <1>8, <1>9, <1>10, <1>11, <1>12 DEF IInv

\* A thread in a call other than pgm_close is at a socket that is live and that no
\* pgm_close destroys.
LEMMA InCallSafe ==
    ASSUME IInv, NEW t \in Threads, pc[t] \in Calling
    PROVE  at[t] \in Socks /\ sock[at[t]].made = "live" /\ NoCloser(at[t])
<1>1. t \in Everyone /\ pc[t] \notin {"idle", "append", "after", "walk", "peers",
                                      "unlist", "destroy", "free"}
  BY DEF Everyone, Calling, Receiving
<1>2. at[t] # NoSock /\ at[t] \in Socks
  BY <1>1 DEF IInv, Placed, TypeInv
<1>3. sock[at[t]].made = "live"
  BY <1>1, <1>2 DEF IInv, Alive
<1>4. NoCloser(at[t])
  BY <1>1 DEF IInv, Alone, NoCloser, In
<1> QED
  BY <1>2, <1>3, <1>4

\* So is a socket that a call may enter.
LEMMA EnterSafe ==
    ASSUME NEW s \in Socks, Usable(s), NoTicket(s)
    PROVE  sock[s].made = "live" /\ NoCloser(s)
BY DEF Usable, NoTicket, NoCloser, In, Ticketed

\* A call that enters a socket.
LEMMA Enters ==
    ASSUME IInv, NEW t \in Threads, NEW p \in Calling, NEW s \in Socks,
           Usable(s), NoTicket(s), Arrive(t, s, p),
           mode' \in [Threads -> {"wait", "dontwait"}],
           UNCHANGED <<sock, inventory, peers, leaked, closes, todo>>
    PROVE  IInv'
<1>1. Moves(t, p, s) /\ pc[t] = "idle"
  BY DEF Arrive, Moves
<1>2. sock' \in [Socks -> SockRecord] /\ PeersKept
  BY DEF IInv, TypeInv, PeersKept
<1> QED
  BY <1>1, <1>2, EnterSafe, CallStep

\* A call that leaves its socket.
LEMMA Leaves ==
    ASSUME IInv, NEW t \in Threads, NEW p \in Calling \cup {"after"}, Leave(t, p),
           sock' \in [Socks -> SockRecord],
           \A r \in Socks : sock'[r].made = sock[r].made
                            /\ sock'[r].destroyed = sock[r].destroyed,
           UNCHANGED <<inventory, peers, leaked, closes, todo>>,
           mode' \in [Threads -> {"wait", "dontwait"}]
    PROVE  IInv'
<1>1. Moves(t, "idle", NoSock) /\ pc[t] = p
  BY DEF Leave, Move, Moves
<1>2. PeersKept
  BY DEF IInv, TypeInv, PeersKept
<1> QED
  BY <1>1, <1>2, CallStep

\* A call that goes on at its socket.
LEMMA GoesOn ==
    ASSUME IInv, NEW t \in Threads, NEW p \in Calling, NEW q \in Calling \cup {"after"},
           Move(t, p, q), PeersKept,
           UNCHANGED <<sock, inventory, leaked, closes, at, mode, todo>>
    PROVE  IInv'
<1>1. pc[t] = p /\ at' = [at EXCEPT ![t] = at[t]]
  BY DEF IInv, TypeInv, Move, Everyone
<1>2. Moves(t, q, at[t])
  BY <1>1 DEF Move, Moves
<1>3. at[t] \in Socks /\ sock[at[t]].made = "live" /\ NoCloser(at[t])
  BY <1>1, InCallSafe
<1>4. mode' \in [Threads -> {"wait", "dontwait"}] /\ sock' \in [Socks -> SockRecord]
  BY DEF IInv, TypeInv
<1> QED
  BY <1>1, <1>2, <1>3, <1>4, CallStep

\* What a move of a thread does to pc and at.
LEMMA MovesFacts ==
    ASSUME TypeInv, NEW t, NEW p, NEW s \in Socks \cup {NoSock}, Moves(t, p, s),
           \/ t \in Threads /\ p \in ThreadPlaces
           \/ t \in Admins /\ p \in AdminPlaces
    PROVE  /\ pc' \in [Everyone -> ThreadPlaces \cup AdminPlaces]
           /\ \A u \in Threads : pc'[u] \in ThreadPlaces
           /\ \A a \in Admins : pc'[a] \in AdminPlaces
           /\ at' \in [Everyone -> Socks \cup {NoSock}]
           /\ \A u \in Everyone : /\ pc'[u] = IF u = t THEN p ELSE pc[u]
                                  /\ at'[u] = IF u = t THEN s ELSE at[u]
<1>1. t \in Everyone /\ Threads \subseteq Everyone /\ Admins \subseteq Everyone
  BY DEF Everyone
<1>2. /\ pc' \in [Everyone -> ThreadPlaces \cup AdminPlaces]
      /\ at' \in [Everyone -> Socks \cup {NoSock}]
      /\ \A u \in Everyone : /\ pc'[u] = IF u = t THEN p ELSE pc[u]
                             /\ at'[u] = IF u = t THEN s ELSE at[u]
  BY <1>1 DEF TypeInv, Moves
<1>3. (t \in Threads => t \notin Admins) /\ (t \in Admins => t \notin Threads)
  BY LifecycleAssumption
<1> QED
  BY <1>1, <1>2, <1>3 DEF TypeInv

\* pgm_socket creates a socket that no thread is at.
LEMMA SocketInv ==
    ASSUME IInv, NEW t \in Threads, NEW s \in Socks, Socket(t, s)
    PROVE  IInv'
<1>1. /\ TypeInv /\ Placed /\ Alive /\ OneCreates /\ ClosedOnce /\ Alone
      /\ InventoryComplete /\ ToRead
  BY DEF IInv
<1>2. t \in Everyone /\ t \notin Admins /\ s # NoSock
  BY LifecycleAssumption DEF Everyone
<1>3. /\ Moves(t, "append", s) /\ pc[t] = "idle" /\ sock[s].made = "none"
      /\ sock' = [sock EXCEPT ![s].made = "new"]
      /\ UNCHANGED <<inventory, peers, leaked, closes, mode, todo>>
  BY DEF Socket, Arrive, Moves
<1>4. /\ pc' \in [Everyone -> ThreadPlaces \cup AdminPlaces]
      /\ \A u \in Threads : pc'[u] \in ThreadPlaces
      /\ \A a \in Admins : pc'[a] \in AdminPlaces
      /\ at' \in [Everyone -> Socks \cup {NoSock}]
      /\ \A u \in Everyone : /\ pc'[u] = IF u = t THEN "append" ELSE pc[u]
                             /\ at'[u] = IF u = t THEN s ELSE at[u]
  BY <1>1, <1>2, <1>3, MovesFacts DEF ThreadPlaces
<1>5. /\ sock' \in [Socks -> SockRecord] /\ sock'[s].made = "new"
      /\ \A r \in Socks : /\ sock'[r].destroyed = sock[r].destroyed
                          /\ r # s => sock'[r].made = sock[r].made
  BY <1>1, <1>3 DEF TypeInv, SockRecord
<1>6. \A u \in Everyone : at[u] # s /\ (at[u] # NoSock => at[u] \in Socks)
  <2>1. \A u \in Everyone : at[u] # NoSock => sock[at[u]].made \in {"new", "live", "freed"}
    BY <1>1 DEF Alive
  <2> QED
    BY <1>1, <1>2, <1>3, <2>1 DEF TypeInv
<1>7. TypeInv'
  BY <1>1, <1>3, <1>4, <1>5 DEF TypeInv
<1>8. Placed'
  BY <1>1, <1>2, <1>4 DEF Placed
<1>9. Alive'
  BY <1>1, <1>4, <1>5, <1>6 DEF Alive
<1>10. OneCreates'
  BY <1>1, <1>4, <1>6 DEF OneCreates
<1>11. ClosedOnce'
  <2>1. \A u \in Everyone : Closing(u)' => u # t /\ Closing(u) /\ at'[u] = at[u]
    BY <1>4 DEF Closing
  <2> QED
    BY <1>1, <1>3, <1>5, <2>1 DEF ClosedOnce
<1>12. Alone'
  BY <1>1, <1>4, <1>6 DEF Alone
<1>13. InventoryComplete'
  <2>1. \A r : In(r, {"destroy", "free"})' <=> In(r, {"destroy", "free"})
    BY <1>2, <1>3, <1>4 DEF In
  <2> QED
    BY <1>1, <1>3, <1>5, <2>1 DEF InventoryComplete
<1>14. ToRead'
  BY <1>1, <1>2, <1>3, <1>4 DEF ToRead, Everyone
<1> QED
  BY <1>7, <1>8, <1>9, <1>10, <1>11, <1>12, <1>13, <1>14 DEF IInv

\* pgm_socket puts it on the list and returns it.
LEMMA ListedInv ==
    ASSUME IInv, NEW t \in Threads, Listed(t)
    PROVE  IInv'
<1>1. /\ TypeInv /\ Placed /\ Alive /\ OneCreates /\ ClosedOnce /\ Alone
      /\ InventoryComplete /\ ToRead
  BY DEF IInv
<1> DEFINE s == at[t]
<1>2. t \in Everyone /\ t \notin Admins
  BY LifecycleAssumption DEF Everyone
<1>3. /\ Moves(t, "idle", NoSock) /\ pc[t] = "append"
      /\ sock' = [sock EXCEPT ![s].made = "live"]
      /\ inventory' = Append(inventory, s)
      /\ UNCHANGED <<peers, leaked, closes, mode, todo>>
  BY DEF Listed, Leave, Move, Moves
<1>4. /\ pc' \in [Everyone -> ThreadPlaces \cup AdminPlaces]
      /\ \A u \in Threads : pc'[u] \in ThreadPlaces
      /\ \A a \in Admins : pc'[a] \in AdminPlaces
      /\ at' \in [Everyone -> Socks \cup {NoSock}]
      /\ \A u \in Everyone : /\ pc'[u] = IF u = t THEN "idle" ELSE pc[u]
                             /\ at'[u] = IF u = t THEN NoSock ELSE at[u]
  BY <1>1, <1>2, <1>3, MovesFacts DEF ThreadPlaces
<1>5. s \in Socks /\ s # NoSock /\ sock[s].made = "new"
  BY <1>1, <1>2, <1>3 DEF TypeInv, Placed, Alive
<1>6. /\ sock' \in [Socks -> SockRecord] /\ sock'[s].made = "live"
      /\ \A r \in Socks : /\ sock'[r].destroyed = sock[r].destroyed
                          /\ r # s => sock'[r].made = sock[r].made
  BY <1>1, <1>3, <1>5 DEF TypeInv, SockRecord
<1>7. \A u \in Everyone : u # t => at[u] # s
  <2> SUFFICES ASSUME NEW u \in Everyone, u # t, at[u] = s PROVE FALSE
    OBVIOUS
  <2>1. pc[u] = "append"
    BY <1>1, <1>5 DEF Alive
  <2> QED
    BY <1>1, <1>2, <2>1 DEF OneCreates
<1>8. s \notin Range(inventory)
  BY <1>1, <1>5 DEF InventoryComplete
<1>9. /\ inventory' \in Seq(Socks) /\ Range(inventory') = Range(inventory) \cup {s}
      /\ \A i, j \in 1 .. Len(inventory') : inventory'[i] = inventory'[j] => i = j
  BY <1>1, <1>3, <1>5, <1>8, AppendOnce DEF TypeInv, InventoryComplete
<1> HIDE DEF s
<1>10. TypeInv'
  BY <1>1, <1>3, <1>4, <1>6, <1>9 DEF TypeInv
<1>11. Placed'
  BY <1>1, <1>4 DEF Placed
<1>12. Alive'
  <2>1. \A u \in Everyone : at'[u] # NoSock => u # t /\ at[u] \in Socks /\ at[u] # s
    BY <1>1, <1>4, <1>7 DEF TypeInv
  <2> QED
    BY <1>1, <1>4, <1>6, <2>1 DEF Alive
<1>13. OneCreates'
  <2>1. \A u \in Everyone : pc'[u] = "append" => u # t /\ at[u] # NoSock
    BY <1>1, <1>4 DEF Placed
  <2> QED
    BY <1>1, <1>4, <2>1 DEF OneCreates
<1>14. ClosedOnce'
  <2>1. \A u \in Everyone : Closing(u)' => u # t /\ Closing(u) /\ at'[u] = at[u]
    BY <1>4 DEF Closing
  <2> QED
    BY <1>1, <1>3, <1>6, <2>1 DEF ClosedOnce
<1>15. Alone'
  <2>1. \A u \in Everyone : pc'[u] \in {"unlist", "destroy", "free"} =>
                            u # t /\ at[u] # NoSock /\ pc'[u] = pc[u]
    BY <1>1, <1>4 DEF Placed
  <2> QED
    BY <1>1, <1>4, <2>1 DEF Alone
<1>16. InventoryComplete'
  <2>1. \A r \in Socks : In(r, {"destroy", "free"})' <=> In(r, {"destroy", "free"})
    BY <1>2, <1>3, <1>4 DEF In
  <2>2. ~In(s, {"destroy", "free"})
    BY <1>2, <1>3, <1>7 DEF In
  <2> QED
    BY <1>1, <1>6, <1>9, <2>1, <2>2 DEF InventoryComplete
<1>17. ToRead'
  BY <1>1, <1>2, <1>3, <1>4 DEF ToRead, Everyone
<1> QED
  BY <1>10, <1>11, <1>12, <1>13, <1>14, <1>15, <1>16, <1>17 DEF IInv

\* pgm_close enters a socket that is live, that no other pgm_close has been at, and
\* that is on the list if its lock is free.
LEMMA CloseEnterInv ==
    ASSUME MaxCloses = 1, IInv, NEW t \in Threads, NEW s \in Socks, CloseEnter(t, s),
           sock[s].made = "live", ~In(s, {"free"})
    PROVE  IInv'
<1>1. /\ TypeInv /\ Placed /\ Alive /\ OneCreates /\ ClosedOnce /\ Alone
      /\ InventoryComplete /\ ToRead
  BY DEF IInv
<1>2. t \in Everyone /\ t \notin Admins /\ s # NoSock
  BY LifecycleAssumption DEF Everyone
<1>3. closes[s] = 0 /\ ~sock[s].destroyed
  BY <1>1 DEF CloseEnter, ClosedOnce
<1>4. /\ Moves(t, "closing", s) /\ pc[t] = "idle" /\ NoTicket(s)
      /\ closes' = [closes EXCEPT ![s] = @ + 1]
      /\ UNCHANGED <<sock, inventory, peers, leaked, mode, todo>>
  BY <1>3 DEF CloseEnter, Arrive, Moves
<1>5. /\ pc' \in [Everyone -> ThreadPlaces \cup AdminPlaces]
      /\ \A u \in Threads : pc'[u] \in ThreadPlaces
      /\ \A a \in Admins : pc'[a] \in AdminPlaces
      /\ at' \in [Everyone -> Socks \cup {NoSock}]
      /\ \A u \in Everyone : /\ pc'[u] = IF u = t THEN "closing" ELSE pc[u]
                             /\ at'[u] = IF u = t THEN s ELSE at[u]
  BY <1>1, <1>4, MovesFacts DEF ThreadPlaces
<1>6. /\ closes' \in [Socks -> Nat] /\ closes'[s] = 1
      /\ \A r \in Socks : r # s => closes'[r] = closes[r]
  BY <1>1, <1>3, <1>4 DEF TypeInv
<1>7. \A u \in Everyone : at[u] = s =>
          ~Closing(u) /\ pc[u] \notin {"append", "unlist", "destroy", "free"}
  BY <1>1, <1>2, <1>3 DEF ClosedOnce, Alive, Closing
<1>8. TypeInv'
  BY <1>1, <1>4, <1>5, <1>6 DEF TypeInv
<1>9. Placed'
  BY <1>1, <1>2, <1>5 DEF Placed
<1>10. Alive'
  BY <1>1, <1>4, <1>5 DEF Alive
<1>11. OneCreates'
  BY <1>1, <1>5, <1>7 DEF OneCreates
<1>12. ClosedOnce'
  <2>1. \A u \in Everyone : Closing(u)' =>
            (u = t /\ at'[u] = s) \/ (u # t /\ Closing(u) /\ at'[u] = at[u] /\ at[u] # s)
    BY <1>5, <1>7 DEF Closing
  <2>2. \A u \in Everyone : Closing(u) => at[u] \in Socks
    BY <1>1 DEF Closing, Placed, TypeInv
  <2>3. \A r \in Socks : closes'[r] \in 0 .. 1
    BY <1>1, <1>6 DEF ClosedOnce
  <2>4. \A r \in Socks : closes'[r] = 0 => ~sock'[r].destroyed
    BY <1>1, <1>4, <1>6 DEF ClosedOnce
  <2>5. \A u \in Everyone : Closing(u)' => closes'[at'[u]] = 1
    BY <1>1, <1>6, <2>1, <2>2 DEF ClosedOnce
  <2>6. \A u, v \in Everyone : Closing(u)' /\ Closing(v)' /\ at'[v] = at'[u] => v = u
    BY <1>1, <2>1 DEF ClosedOnce
  <2> QED
    BY <2>3, <2>4, <2>5, <2>6 DEF ClosedOnce
<1>13. Alone'
  BY <1>1, <1>5, <1>7 DEF Alone
<1>14. InventoryComplete'
  <2>1. \A r : In(r, {"destroy", "free"})' <=> In(r, {"destroy", "free"})
    BY <1>2, <1>4, <1>5 DEF In
  <2> QED
    BY <1>1, <1>4, <2>1 DEF InventoryComplete
<1>15. ToRead'
  BY <1>1, <1>2, <1>4, <1>5 DEF ToRead, Everyone
<1> QED
  BY <1>8, <1>9, <1>10, <1>11, <1>12, <1>13, <1>14, <1>15 DEF IInv

\* A step of pgm_close at its socket, up to where it frees it, keeps what does not
\* depend on how far it is.
LEMMA CloseStep ==
    ASSUME IInv, NEW t \in Threads, Closing(t),
           NEW p \in {"closing", "drain", "unlist", "destroy", "free"},
           Move(t, pc[t], p), UNCHANGED <<leaked, closes, at, mode, todo>>,
           sock' \in [Socks -> SockRecord],
           \A r \in Socks : /\ sock'[r].made = sock[r].made
                            /\ r # at[t] => sock'[r].destroyed = sock[r].destroyed,
           inventory' \in Seq(Socks), peers' \in [Socks -> SUBSET Sources]
    PROVE  /\ TypeInv' /\ Placed' /\ Alive' /\ OneCreates' /\ ClosedOnce'
           /\ t \in Everyone /\ t \notin Admins /\ at[t] \in Socks
           /\ \A u \in Everyone : pc'[u] = IF u = t THEN p ELSE pc[u]
<1>1. TypeInv /\ Placed /\ Alive /\ OneCreates /\ ClosedOnce
  BY DEF IInv
<1>2. t \in Everyone /\ t \notin Admins
  BY LifecycleAssumption DEF Everyone
<1>3. at[t] \in Socks /\ at[t] # NoSock /\ closes[at[t]] = 1
  BY <1>1, <1>2 DEF Closing, Placed, TypeInv, ClosedOnce
<1>4. Moves(t, p, at[t])
  <2>1. at' = [at EXCEPT ![t] = at[t]]
    BY <1>1, <1>2 DEF TypeInv
  <2> QED
    BY <2>1 DEF Move, Moves
<1>5. /\ pc' \in [Everyone -> ThreadPlaces \cup AdminPlaces]
      /\ \A u \in Threads : pc'[u] \in ThreadPlaces
      /\ \A a \in Admins : pc'[a] \in AdminPlaces
      /\ \A u \in Everyone : pc'[u] = IF u = t THEN p ELSE pc[u]
  BY <1>1, <1>2, <1>3, <1>4, MovesFacts DEF ThreadPlaces
<1>6. TypeInv'
  BY <1>1, <1>5 DEF TypeInv
<1>7. Placed'
  BY <1>1, <1>3, <1>5 DEF Placed
<1>8. Alive'
  <2>1. sock[at[t]].made = "live"
    BY <1>1, <1>2, <1>3 DEF Alive, Closing
  <2>2. \A u \in Everyone : at[u] # NoSock => at[u] \in Socks
    BY <1>1 DEF TypeInv
  <2> QED
    BY <1>1, <1>5, <2>1, <2>2 DEF Alive
<1>9. OneCreates'
  BY <1>1, <1>5 DEF OneCreates
<1>10. ClosedOnce'
  <2>1. \A u \in Everyone : Closing(u)' <=> Closing(u)
    BY <1>5 DEF Closing
  <2>2. \A r \in Socks : closes[r] = 0 => ~sock'[r].destroyed
    BY <1>1, <1>3 DEF ClosedOnce
  <2> QED
    BY <1>1, <2>1, <2>2 DEF ClosedOnce
<1> QED
  BY <1>2, <1>3, <1>5, <1>6, <1>7, <1>8, <1>9, <1>10

\* pgm_close sets is_destroyed.
LEMMA FlagDestroyedInv ==
    ASSUME IInv, NEW t \in Threads, FlagDestroyed(t)
    PROVE  IInv'
<1>1. Alone /\ InventoryComplete /\ ToRead /\ TypeInv
  BY DEF IInv
<1>2. /\ sock' \in [Socks -> SockRecord]
      /\ \A r \in Socks : /\ sock'[r].made = sock[r].made
                          /\ r # at[t] => sock'[r].destroyed = sock[r].destroyed
  BY <1>1 DEF FlagDestroyed, TypeInv, SockRecord
<1>3. pc[t] = "closing" /\ Closing(t) /\ Move(t, pc[t], "drain")
  BY DEF FlagDestroyed, Move, Closing
<1>4. UNCHANGED <<inventory, peers, leaked, closes, at, mode, todo>>
  BY DEF FlagDestroyed
<1>5. /\ TypeInv' /\ Placed' /\ Alive' /\ OneCreates' /\ ClosedOnce'
      /\ t \in Everyone /\ t \notin Admins
      /\ \A u \in Everyone : pc'[u] = IF u = t THEN "drain" ELSE pc[u]
  BY <1>1, <1>2, <1>3, <1>4, CloseStep DEF TypeInv
<1>6. Alone'
  BY <1>1, <1>3, <1>4, <1>5 DEF Alone
<1>7. InventoryComplete'
  <2>1. \A r : In(r, {"destroy", "free"})' <=> In(r, {"destroy", "free"})
    BY <1>3, <1>4, <1>5 DEF In
  <2> QED
    BY <1>1, <1>2, <1>4, <2>1 DEF InventoryComplete
<1>8. ToRead'
  BY <1>1, <1>4, <1>5 DEF ToRead, Everyone
<1> QED
  BY <1>5, <1>6, <1>7, <1>8 DEF IInv

\* The calls that held the lock when pgm_close drew its ticket are over.
LEMMA DrainedInv ==
    ASSUME IInv, NEW t \in Threads, Drained(t)
    PROVE  IInv'
<1>1. /\ TypeInv /\ Placed /\ Alive /\ ClosedOnce /\ Alone /\ InventoryComplete
      /\ ToRead
  BY DEF IInv
<1>2. /\ sock' \in [Socks -> SockRecord]
      /\ \A r \in Socks : /\ sock'[r].made = sock[r].made
                          /\ r # at[t] => sock'[r].destroyed = sock[r].destroyed
  BY <1>1 DEF Drained, TypeInv
<1>3. pc[t] = "drain" /\ Closing(t) /\ Move(t, pc[t], "unlist")
  BY DEF Drained, Move, Closing
<1>4. UNCHANGED <<sock, inventory, peers, leaked, closes, at, mode, todo>>
  BY DEF Drained
<1>5. /\ TypeInv' /\ Placed' /\ Alive' /\ OneCreates' /\ ClosedOnce'
      /\ t \in Everyone /\ t \notin Admins /\ at[t] \in Socks
      /\ \A u \in Everyone : pc'[u] = IF u = t THEN "unlist" ELSE pc[u]
  BY <1>1, <1>2, <1>3, <1>4, CloseStep DEF TypeInv
<1>6. ASSUME NEW u \in Everyone, u # t, at[u] = at[t]
      PROVE  pc[u] \in {"after", "walk", "peers"}
  <2>1. ~Closing(u)
    BY <1>1, <1>3, <1>5, <1>6 DEF ClosedOnce
  <2>2. pc[u] # "idle" /\ pc[u] # "append"
    BY <1>1, <1>3, <1>5, <1>6, LifecycleAssumption DEF Placed, Alive
  <2>3. pc[u] \notin Calling
    BY <1>6 DEF Drained, NoReader, In, Calling, Reading, Receiving
  <2>4. pc[u] \in ThreadPlaces \cup AdminPlaces
    BY <1>1 DEF TypeInv
  <2> QED
    BY <2>1, <2>2, <2>3, <2>4 DEF Closing, ThreadPlaces, AdminPlaces
<1>7. Alone'
  BY <1>1, <1>3, <1>4, <1>5, <1>6 DEF Alone
<1>8. InventoryComplete'
  <2>1. \A r : In(r, {"destroy", "free"})' <=> In(r, {"destroy", "free"})
    BY <1>3, <1>4, <1>5 DEF In
  <2> QED
    BY <1>1, <1>4, <2>1 DEF InventoryComplete
<1>9. ToRead'
  BY <1>1, <1>4, <1>5 DEF ToRead, Everyone
<1> QED
  BY <1>5, <1>7, <1>8, <1>9 DEF IInv

\* The socket goes off the list while nobody walks it.
LEMMA UnlistInv ==
    ASSUME IInv, NEW t \in Threads, Unlist(t)
    PROVE  IInv'
<1>1. /\ TypeInv /\ Placed /\ Alive /\ ClosedOnce /\ Alone /\ InventoryComplete
      /\ ToRead
  BY DEF IInv
<1>2. pc[t] = "unlist" /\ Closing(t) /\ Move(t, pc[t], "destroy") /\ t \in Everyone
  BY DEF Unlist, Move, Closing, Everyone
<1>3. /\ UNCHANGED <<sock, peers, leaked, closes, at, mode, todo>>
      /\ inventory' = RemoveFirst(inventory, at[t])
  BY DEF Unlist
<1>4. at[t] \in Socks /\ sock[at[t]].made = "live"
  BY <1>1, <1>2 DEF TypeInv, Placed, Alive
<1>5. \A u \in Everyone : at[u] = at[t] /\ pc[u] \in {"destroy", "free"} => u = t
  BY <1>1, <1>2 DEF ClosedOnce, Closing
<1>6. at[t] \in Range(inventory)
  BY <1>1, <1>2, <1>4, <1>5 DEF InventoryComplete, In
<1>7. /\ inventory' \in Seq(Socks) /\ Range(inventory') = Range(inventory) \ {at[t]}
      /\ \A i, j \in 1 .. Len(inventory') : inventory'[i] = inventory'[j] => i = j
  BY <1>1, <1>3, <1>6, RemoveOnce DEF TypeInv, InventoryComplete
<1>8. sock' \in [Socks -> SockRecord] /\ peers' \in [Socks -> SUBSET Sources]
  BY <1>1, <1>3 DEF TypeInv
<1>9. /\ TypeInv' /\ Placed' /\ Alive' /\ OneCreates' /\ ClosedOnce'
      /\ t \in Everyone /\ t \notin Admins
      /\ \A u \in Everyone : pc'[u] = IF u = t THEN "destroy" ELSE pc[u]
  BY <1>2, <1>3, <1>7, <1>8, CloseStep
<1>10. Alone'
  <2>1. ASSUME NEW u \in Everyone, u # t, at[u] = at[t]
        PROVE  pc[u] = "after"
    <3>1. pc[u] \in {"after", "walk", "peers"}
      BY <1>1, <1>2, <2>1 DEF Alone
    <3>2. u \in Admins => pc[u] \notin {"walk", "peers"}
      BY DEF Unlist, ListDrained
    <3>3. u \in Threads => pc[u] \notin {"walk", "peers"}
      BY <1>1 DEF TypeInv, ThreadPlaces, Calling, Receiving
    <3> QED
      BY <3>1, <3>2, <3>3 DEF Everyone
  <2> QED
    BY <1>1, <1>3, <1>9, <2>1 DEF Alone
<1>11. InventoryComplete'
  <2>1. \A r \in Socks : In(r, {"destroy", "free"})' <=>
                         In(r, {"destroy", "free"}) \/ r = at[t]
    BY <1>2, <1>3, <1>9 DEF In
  <2> QED
    BY <1>1, <1>3, <1>7, <2>1 DEF InventoryComplete
<1>12. ToRead'
  BY <1>1, <1>3, <1>9 DEF ToRead, Everyone
<1> QED
  BY <1>9, <1>10, <1>11, <1>12 DEF IInv

\* The peers go when no administration thread can be reading them.
LEMMA DestroyInv ==
    ASSUME IInv, NEW t \in Threads, Destroy(t)
    PROVE  IInv'
<1>1. /\ TypeInv /\ Placed /\ Alive /\ ClosedOnce /\ Alone /\ InventoryComplete
      /\ ToRead
  BY DEF IInv
<1>2. pc[t] = "destroy" /\ Closing(t) /\ Move(t, pc[t], "free")
  BY DEF Destroy, Move, Closing
<1>3. /\ UNCHANGED <<sock, inventory, leaked, closes, at, mode, todo>>
      /\ peers' = [peers EXCEPT ![at[t]] = {}]
  BY DEF Destroy
<1>4. /\ sock' \in [Socks -> SockRecord] /\ inventory' \in Seq(Socks)
      /\ peers' \in [Socks -> SUBSET Sources]
  BY <1>1, <1>3 DEF TypeInv
<1>5. /\ TypeInv' /\ Placed' /\ Alive' /\ OneCreates' /\ ClosedOnce'
      /\ t \in Everyone /\ t \notin Admins /\ at[t] \in Socks
      /\ \A u \in Everyone : pc'[u] = IF u = t THEN "free" ELSE pc[u]
  BY <1>2, <1>3, <1>4, CloseStep
<1>6. Alone'
  BY <1>1, <1>2, <1>3, <1>5 DEF Alone
<1>7. InventoryComplete'
  <2>1. \A r : In(r, {"destroy", "free"})' <=> In(r, {"destroy", "free"})
    BY <1>2, <1>3, <1>5 DEF In
  <2> QED
    BY <1>1, <1>3, <2>1 DEF InventoryComplete
<1>8. ToRead'
  <2> SUFFICES ASSUME NEW a \in Admins, todo[a] # {}
               PROVE  pc[a] = "peers" /\ (Careful => todo[a] \subseteq peers'[at[a]])
    BY <1>3, <1>5 DEF ToRead, Everyone
  <2>1. a \in Everyone /\ pc[a] = "peers" /\ (Careful => todo[a] \subseteq peers[at[a]])
    BY <1>1 DEF ToRead, Everyone
  <2>2. at[a] # at[t]
    BY <1>1, <1>2, <1>5, <2>1 DEF Alone
  <2>3. peers'[at[a]] = peers[at[a]]
    BY <1>1, <1>3, <1>5, <2>2 DEF TypeInv
  <2> QED
    BY <2>1, <2>3
<1> QED
  BY <1>5, <1>6, <1>7, <1>8 DEF IInv

\* The socket goes; a careful pgm_close has let the last looks at it pass.
LEMMA FreeInv ==
    ASSUME IInv, NEW t \in Threads, Free(t)
    PROVE  IInv'
<1>1. /\ TypeInv /\ Placed /\ Alive /\ OneCreates /\ ClosedOnce /\ Alone
      /\ InventoryComplete /\ ToRead
  BY DEF IInv
<1> DEFINE s == at[t]
<1>2. t \in Everyone /\ t \notin Admins
  BY LifecycleAssumption DEF Everyone
<1>3. /\ Moves(t, "idle", NoSock) /\ pc[t] = "free"
      /\ sock' = [sock EXCEPT ![s].made = "freed"]
      /\ UNCHANGED <<inventory, peers, leaked, closes, mode, todo>>
  BY DEF Free, Leave, Move, Moves
<1>4. /\ pc' \in [Everyone -> ThreadPlaces \cup AdminPlaces]
      /\ \A u \in Threads : pc'[u] \in ThreadPlaces
      /\ \A a \in Admins : pc'[a] \in AdminPlaces
      /\ at' \in [Everyone -> Socks \cup {NoSock}]
      /\ \A u \in Everyone : /\ pc'[u] = IF u = t THEN "idle" ELSE pc[u]
                             /\ at'[u] = IF u = t THEN NoSock ELSE at[u]
  BY <1>1, <1>3, MovesFacts DEF ThreadPlaces
<1>5. s \in Socks /\ s # NoSock /\ sock[s].made = "live"
  BY <1>1, <1>2, <1>3 DEF TypeInv, Placed, Alive
<1>6. /\ sock' \in [Socks -> SockRecord] /\ sock'[s].made = "freed"
      /\ \A r \in Socks : /\ sock'[r].destroyed = sock[r].destroyed
                          /\ r # s => sock'[r].made = sock[r].made
  BY <1>1, <1>3, <1>5 DEF TypeInv, SockRecord
<1>7. \A u \in Everyone : u # t /\ at[u] = s => pc[u] = "after" /\ ~Careful
  <2>1. \A u \in Everyone : u # t /\ at[u] = s => pc[u] = "after"
    BY <1>1, <1>2, <1>3 DEF Alone
  <2>2. Careful => \A u \in Everyone : ~(pc[u] = "after" /\ at[u] = s)
    BY DEF Free, Apart, In
  <2> QED
    BY <2>1, <2>2
<1>8. s \notin Range(inventory)
  BY <1>1, <1>2, <1>3, <1>5 DEF InventoryComplete, In
<1> HIDE DEF s
<1>9. TypeInv'
  BY <1>1, <1>3, <1>4, <1>6 DEF TypeInv
<1>10. Placed'
  BY <1>1, <1>4 DEF Placed
<1>11. Alive'
  <2>1. \A u \in Everyone : at'[u] # NoSock => u # t /\ at[u] \in Socks
    BY <1>1, <1>4 DEF TypeInv
  <2> QED
    BY <1>1, <1>4, <1>6, <1>7, <2>1 DEF Alive
<1>12. OneCreates'
  <2>1. \A u \in Everyone : pc'[u] = "append" => u # t /\ at[u] # NoSock
    BY <1>1, <1>4 DEF Placed
  <2> QED
    BY <1>1, <1>4, <2>1 DEF OneCreates
<1>13. ClosedOnce'
  <2>1. \A u \in Everyone : Closing(u)' => u # t /\ Closing(u) /\ at'[u] = at[u]
    BY <1>4 DEF Closing
  <2> QED
    BY <1>1, <1>3, <1>6, <2>1 DEF ClosedOnce
<1>14. Alone'
  <2>1. \A u \in Everyone : pc'[u] \in {"unlist", "destroy", "free"} =>
                            u # t /\ at[u] # NoSock /\ pc'[u] = pc[u]
    BY <1>1, <1>4 DEF Placed
  <2> QED
    BY <1>1, <1>4, <2>1 DEF Alone
<1>15. InventoryComplete'
  <2>1. \A r \in Socks : r # s =>
            (In(r, {"destroy", "free"})' <=> In(r, {"destroy", "free"}))
    BY <1>2, <1>3, <1>4 DEF In, s
  <2> QED
    BY <1>1, <1>3, <1>6, <1>8, <2>1 DEF InventoryComplete
<1>16. ToRead'
  BY <1>1, <1>2, <1>3, <1>4 DEF ToRead, Everyone
<1> QED
  BY <1>9, <1>10, <1>11, <1>12, <1>13, <1>14, <1>15, <1>16 DEF IInv

\* A step of an administration thread, to a socket of the list or off it.
LEMMA AdminStep ==
    ASSUME IInv, NEW a \in Admins, NEW p \in AdminPlaces, NEW s, Moves(a, p, s),
           \/ p = "idle" /\ s = NoSock
           \/ /\ p # "idle" /\ s \in Socks
              /\ sock[s].made = "live" /\ ~In(s, {"destroy", "free"}),
           todo' \in [Admins -> SUBSET Sources],
           \A b \in Admins : b # a => todo'[b] = todo[b],
           todo'[a] # {} => p = "peers" /\ (Careful => todo'[a] \subseteq peers[s]),
           UNCHANGED <<sock, inventory, peers, leaked, closes, mode>>
    PROVE  IInv'
<1>1. /\ TypeInv /\ Placed /\ Alive /\ OneCreates /\ ClosedOnce /\ Alone
      /\ InventoryComplete /\ ToRead
  BY DEF IInv
<1>2. a \in Everyone /\ pc[a] \in AdminPlaces /\ s \in Socks \cup {NoSock}
  BY <1>1 DEF Everyone, TypeInv
<1>3. /\ pc' \in [Everyone -> ThreadPlaces \cup AdminPlaces]
      /\ \A u \in Threads : pc'[u] \in ThreadPlaces
      /\ \A b \in Admins : pc'[b] \in AdminPlaces
      /\ at' \in [Everyone -> Socks \cup {NoSock}]
      /\ \A u \in Everyone : /\ pc'[u] = IF u = a THEN p ELSE pc[u]
                             /\ at'[u] = IF u = a THEN s ELSE at[u]
  BY <1>1, <1>2, MovesFacts
<1>4. p \in {"idle", "walk", "peers"} /\ pc[a] \in {"idle", "walk", "peers"}
  BY <1>2 DEF AdminPlaces
<1>5. p = "idle" <=> s = NoSock
  BY LifecycleAssumption
<1>6. TypeInv'
  BY <1>1, <1>3 DEF TypeInv
<1>7. Placed'
  BY <1>1, <1>3, <1>5 DEF Placed
<1>8. Alive'
  BY <1>1, <1>3, <1>4, <1>5 DEF Alive
<1>9. OneCreates'
  <2>1. \A u \in Everyone : pc'[u] = "append" =>
            u # a /\ pc[u] = "append" /\ at'[u] = at[u]
            /\ at[u] # NoSock /\ sock[at[u]].made = "new"
    BY <1>1, <1>3, <1>4 DEF Placed, Alive
  <2> QED
    BY <1>1, <1>3, <1>5, <2>1 DEF OneCreates
<1>10. ClosedOnce'
  <2>1. \A u \in Everyone : Closing(u)' => u # a /\ Closing(u) /\ at'[u] = at[u]
    BY <1>3, <1>4 DEF Closing
  <2> QED
    BY <1>1, <2>1 DEF ClosedOnce
<1>11. Alone'
  <2> SUFFICES ASSUME NEW u \in Everyone, NEW v \in Everyone, v # u, at'[v] = at'[u],
                      pc'[u] \in {"unlist", "destroy", "free"}
               PROVE  /\ pc'[u] = "unlist" => pc'[v] \in {"after", "walk", "peers"}
                      /\ pc'[u] \in {"destroy", "free"} => pc'[v] = "after"
    BY DEF Alone
  <2>1. u # a /\ pc'[u] = pc[u] /\ at'[u] = at[u] /\ at[u] # NoSock
    BY <1>1, <1>3, <1>4 DEF Placed
  <2>2. CASE v = a
    BY <1>3, <1>4, <1>5, <2>1, <2>2 DEF In
  <2>3. CASE v # a
    BY <1>1, <1>3, <2>1, <2>3 DEF Alone
  <2> QED
    BY <2>2, <2>3
<1>12. InventoryComplete'
  <2>1. \A r : In(r, {"destroy", "free"})' <=> In(r, {"destroy", "free"})
    BY <1>2, <1>3, <1>4 DEF In
  <2> QED
    BY <1>1, <2>1 DEF InventoryComplete
<1>13. ToRead'
  BY <1>1, <1>3 DEF ToRead, Everyone
<1> QED
  BY <1>6, <1>7, <1>8, <1>9, <1>10, <1>11, <1>12, <1>13 DEF IInv

\* Every step of an administration thread keeps the invariant.
LEMMA AdminInv ==
    ASSUME IInv, NEW a \in Admins, Walk(a) \/ Administers(a)
    PROVE  IInv'
<1>1. /\ TypeInv /\ Placed /\ Alive /\ Alone /\ InventoryComplete /\ ToRead
  BY DEF IInv
<1>2. a \in Everyone /\ DOMAIN inventory = 1 .. Len(inventory) /\ Len(inventory) \in Nat
  BY <1>1, LenProperties DEF TypeInv, Everyone
<1>3. \A i \in 1 .. Len(inventory) :
          /\ inventory[i] \in Socks /\ sock[inventory[i]].made = "live"
          /\ ~In(inventory[i], {"destroy", "free"})
  <2>1. \A i \in 1 .. Len(inventory) : inventory[i] \in Socks /\ inventory[i] \in Range(inventory)
    BY <1>1, <1>2, ElementOfSeq DEF TypeInv, Range
  <2> QED
    BY <1>1, <2>1 DEF InventoryComplete
<1>5. pc[a] \in {"walk", "peers"} =>
          at[a] \in Socks /\ sock[at[a]].made = "live" /\ ~In(at[a], {"destroy", "free"})
  BY <1>1, <1>2 DEF TypeInv, Placed, Alive, Alone, In
<1>6. CASE Walk(a)
  <2>1. inventory # <<>> /\ Moves(a, "walk", Head(inventory)) /\ pc[a] = "idle"
        /\ UNCHANGED <<sock, inventory, peers, leaked, closes, mode, todo>>
    BY <1>6 DEF Walk, Arrive, Moves
  <2>2. Len(inventory) # 0
    BY <1>1, <2>1, EmptySeq DEF TypeInv
  <2>3. Head(inventory) = inventory[1] /\ 1 \in 1 .. Len(inventory)
    BY <1>2, <2>2
  <2>4. todo[a] = {}
    BY <1>1, <2>1 DEF ToRead
  <2> QED
    BY <1>1, <1>3, <2>1, <2>3, <2>4, AdminStep DEF TypeInv, AdminPlaces
<1>7. CASE WalkPeers(a)
  <2>1. pc[a] = "walk" /\ at' = [at EXCEPT ![a] = at[a]]
    BY <1>1, <1>2, <1>7 DEF WalkPeers, Move, TypeInv
  <2>2. Moves(a, "peers", at[a])
    BY <1>7, <2>1 DEF WalkPeers, Move, Moves
  <2>3. /\ todo' \in [Admins -> SUBSET Sources] /\ todo'[a] = peers[at[a]]
        /\ \A b \in Admins : b # a => todo'[b] = todo[b]
    BY <1>1, <1>5, <1>7, <2>1 DEF WalkPeers, TypeInv
  <2>4. UNCHANGED <<sock, inventory, peers, leaked, closes, mode>>
    BY <1>7 DEF WalkPeers
  <2> QED
    BY <1>5, <2>1, <2>2, <2>3, <2>4, AdminStep DEF AdminPlaces
<1>8. CASE ReadPeer(a)
  <2>1. pc[a] = "peers" /\ at' = [at EXCEPT ![a] = at[a]] /\ pc' = [pc EXCEPT ![a] = "peers"]
    BY <1>1, <1>2, <1>8 DEF ReadPeer, TypeInv
  <2>2. Moves(a, "peers", at[a])
    BY <2>1 DEF Moves
  <2>3. /\ todo' \in [Admins -> SUBSET Sources] /\ todo'[a] \subseteq todo[a]
        /\ \A b \in Admins : b # a => todo'[b] = todo[b]
    BY <1>1, <1>8 DEF ReadPeer, TypeInv
  <2>4. Careful /\ todo'[a] # {} => todo'[a] \subseteq peers[at[a]]
    BY <1>1, <2>3 DEF ToRead
  <2>5. UNCHANGED <<sock, inventory, peers, leaked, closes, mode>>
    BY <1>8 DEF ReadPeer
  <2> QED
    BY <1>5, <2>1, <2>2, <2>3, <2>4, <2>5, AdminStep DEF AdminPlaces
<1>9. CASE WalkOn(a)
  <2>1. /\ todo' \in [Admins -> SUBSET Sources] /\ todo'[a] = {}
        /\ \A b \in Admins : b # a => todo'[b] = todo[b]
    BY <1>1, <1>9 DEF WalkOn, TypeInv
  <2>2. UNCHANGED <<sock, inventory, peers, leaked, closes, mode>>
    BY <1>9 DEF WalkOn
  <2>3. CASE Leave(a, "peers")
    <3>1. Moves(a, "idle", NoSock)
      BY <2>3 DEF Leave, Move, Moves
    <3> QED
      BY <2>1, <2>2, <3>1, AdminStep DEF AdminPlaces
  <2>4. ASSUME NEW i \in 1 .. Len(inventory) - 1,
               at' = [at EXCEPT ![a] = inventory[i + 1]], Move(a, "peers", "walk")
        PROVE  IInv'
    <3>1. Moves(a, "walk", inventory[i + 1])
      BY <2>4 DEF Move, Moves
    <3>2. i + 1 \in 1 .. Len(inventory)
      BY <1>2
    <3> QED
      BY <1>3, <2>1, <2>2, <3>1, <3>2, AdminStep DEF AdminPlaces
  <2> QED
    BY <1>9, <2>3, <2>4 DEF WalkOn
<1> QED
  BY <1>6, <1>7, <1>8, <1>9 DEF Administers

\* The engine's state and the failed assertion are nothing to the invariant.
LEMMA SameInv ==
    ASSUME IInv,
           UNCHANGED <<sock, inventory, peers, leaked, closes, pc, at, mode, todo>>
    PROVE  IInv'
BY DEF IInv, TypeInv, Placed, Alive, OneCreates, ClosedOnce, Alone, InventoryComplete,
       ToRead, Closing, In

\* What a thread does of itself keeps the invariant.
LEMMA InCallInv ==
    ASSUME MaxCloses = 1, IInv, NEW t \in Threads, InCall(t)
    PROVE  IInv'
<1>1. /\ TypeInv /\ Placed /\ Alive /\ Alone /\ InventoryComplete
      /\ t \in Everyone
  BY DEF IInv, Everyone
<1>2. PeersKept \/ peers' # peers
  BY <1>1 DEF TypeInv, PeersKept
<1>3. sock' = sock => /\ sock' \in [Socks -> SockRecord]
                      /\ \A r \in Socks : sock'[r].made = sock[r].made
                                          /\ sock'[r].destroyed = sock[r].destroyed
  BY <1>1 DEF TypeInv
<1>m. /\ mode \in [Threads -> {"wait", "dontwait"}]
      /\ [mode EXCEPT ![t] = "wait"] \in [Threads -> {"wait", "dontwait"}]
  BY <1>1 DEF TypeInv
<1>4. {"option", "send", "mutex", "bind", "connect", "recv", "newpeer", "event",
       "info", "poll"} = Calling
  BY DEF Calling, Receiving
<1>5. CASE Listed(t)
  BY <1>5, ListedInv
<1>6. CASE CallReturns(t)
  BY <1>3, <1>4, <1>6, <1>m, Leaves DEF CallReturns
<1>7. CASE ReceiverMutex(t)
  BY <1>2, <1>4, <1>7, GoesOn DEF ReceiverMutex
<1>8. CASE RecvReturns(t)
  BY <1>3, <1>4, <1>8, <1>m, Leaves DEF RecvReturns
<1>9. CASE NewPeer(t)
  <2>1. PeersKept
    <3>1. PICK x \in Sources : peers' = [peers EXCEPT ![at[t]] = @ \cup {x}]
      BY <1>9 DEF NewPeer
    <3>2. /\ peers' \in [Socks -> SUBSET Sources]
          /\ \A s \in Socks : peers[s] \subseteq peers'[s]
      BY <1>1, <3>1 DEF TypeInv
    <3>3. \A a \in Admins : pc[a] = "peers" => at[a] \in Socks
      BY <1>1 DEF TypeInv, Placed, Everyone
    <3> QED
      BY <3>2, <3>3 DEF PeersKept
  <2> QED
    BY <1>4, <1>9, <2>1, GoesOn DEF NewPeer
<1>10. CASE RecvEmpty(t)
  BY <1>2, <1>4, <1>10, GoesOn DEF RecvEmpty
<1>11. CASE RecvWouldBlock(t)
  BY <1>3, <1>11, <1>m, Leaves DEF RecvWouldBlock
<1>12. CASE WaitForEvent(t)
  <2>1. CASE sock[at[t]].destroyed
    <3>1. /\ Leave(t, "event") /\ "event" \in Calling
          /\ UNCHANGED <<sock, inventory, peers, leaked, closes, mode, todo>>
      BY <1>4, <1>12, <2>1, Zenon DEF WaitForEvent
    <3> QED
      BY <1>3, <1>m, <3>1, Leaves
  <2>2. CASE ~sock[at[t]].destroyed
    <3>1. /\ Move(t, "event", "info") /\ "event" \in Calling /\ "info" \in Calling
          /\ UNCHANGED <<sock, inventory, peers, leaked, closes, at, mode, todo>>
      BY <1>4, <1>12, <2>2 DEF WaitForEvent
    <3> QED
      BY <1>2, <3>1, GoesOn
  <2> QED
    BY <2>1, <2>2
<1>13. CASE PollInfo(t)
  BY <1>2, <1>4, <1>13, GoesOn DEF PollInfo
<1>14. CASE Polled(t)
  BY <1>2, <1>4, <1>14, GoesOn DEF Polled
<1>15. CASE FlagDestroyed(t)
  BY <1>15, FlagDestroyedInv
<1>16. CASE Drained(t)
  BY <1>16, DrainedInv
<1>17. CASE Unlist(t)
  BY <1>17, UnlistInv
<1>18. CASE Destroy(t)
  BY <1>18, DestroyInv
<1>19. CASE Free(t)
  BY <1>19, FreeInv
<1>20. CASE ShutdownCloses(t)
  <2>1. inventory \in Seq(Socks) /\ inventory # <<>>
    BY <1>1, <1>20 DEF ShutdownCloses, TypeInv
  <2>2. Head(inventory) \in Socks /\ Head(inventory) \in Range(inventory)
    <3>1. Len(inventory) \in Nat \ {0} /\ DOMAIN inventory = 1 .. Len(inventory)
      BY <2>1, LenProperties, EmptySeq
    <3>2. Head(inventory) = inventory[1] /\ 1 \in 1 .. Len(inventory)
      BY <3>1
    <3> QED
      BY <2>1, <3>1, <3>2, ElementOfSeq DEF Range
  <2>3. sock[Head(inventory)].made = "live" /\ ~In(Head(inventory), {"free"})
    BY <1>1, <2>2 DEF InventoryComplete, In
  <2> QED
    BY <1>20, <2>2, <2>3, CloseEnterInv DEF ShutdownCloses
<1>21. CASE ShutdownReturns(t)
  BY <1>21, SameInv DEF ShutdownReturns
<1>22. ASSUME NEW ok \in BOOLEAN, BindReturns(t, ok)
       PROVE  IInv'
  <2>1. /\ sock' \in [Socks -> SockRecord]
        /\ \A r \in Socks : sock'[r].made = sock[r].made
                            /\ sock'[r].destroyed = sock[r].destroyed
    BY <1>1, <1>22 DEF BindReturns, TypeInv, SockRecord
  <2> QED
    BY <1>4, <1>22, <1>m, <2>1, Leaves DEF BindReturns
<1>23. ASSUME NEW ok \in BOOLEAN, ConnectReturns(t, ok)
       PROVE  IInv'
  <2>1. /\ sock' \in [Socks -> SockRecord]
        /\ \A r \in Socks : sock'[r].made = sock[r].made
                            /\ sock'[r].destroyed = sock[r].destroyed
    BY <1>1, <1>23 DEF ConnectReturns, TypeInv, SockRecord
  <2> QED
    BY <1>4, <1>23, <1>m, <2>1, Leaves DEF ConnectReturns
<1> QED
  BY <1>5, <1>6, <1>7, <1>8, <1>9, <1>10, <1>11, <1>12, <1>13, <1>14, <1>15, <1>16,
     <1>17, <1>18, <1>19, <1>20, <1>21, <1>22, <1>23
  DEF InCall

\* So does what the application calls.
LEMMA CallsInv ==
    ASSUME MaxCloses = 1, IInv, NEW t \in Threads, NEW s \in Socks, Calls(t, s)
    PROVE  IInv'
<1>1. TypeInv
  BY DEF IInv
<1>2. {"option", "send", "mutex", "bind", "connect"} \subseteq Calling
  BY DEF Calling
<1>3. mode' = mode => mode' \in [Threads -> {"wait", "dontwait"}]
  BY <1>1 DEF TypeInv
<1>4. CASE Socket(t, s)
  BY <1>4, SocketInv
<1>5. CASE Bind(t, s)
  BY <1>2, <1>3, <1>5, Enters DEF Bind
<1>6. CASE Connect(t, s)
  BY <1>2, <1>3, <1>6, Enters DEF Connect
<1>7. CASE Option(t, s)
  BY <1>2, <1>3, <1>7, Enters DEF Option
<1>8. CASE Send(t, s)
  BY <1>2, <1>3, <1>8, Enters DEF Send
<1>9. CASE Close(t, s)
  BY <1>9, CloseEnterInv DEF Close, Usable
<1>10. ASSUME NEW m \in RecvModes, Recv(t, s, m)
       PROVE  IInv'
  <2>1. mode' \in [Threads -> {"wait", "dontwait"}]
    BY <1>1, <1>10, LifecycleAssumption DEF Recv, TypeInv
  <2> QED
    BY <1>2, <1>10, <2>1, Enters DEF Recv
<1> QED
  BY <1>4, <1>5, <1>6, <1>7, <1>8, <1>9, <1>10 DEF Calls

\* Every step keeps the invariant.
LEMMA NextInv ==
    ASSUME MaxCloses = 1, IInv, [Next]_vars
    PROVE  IInv'
<1>1. ASSUME NEW t \in Threads, HearsNew(t)
      PROVE  IInv'
  <2>1. PeersKept
    BY <1>1 DEF IInv, TypeInv, HearsNew, PeersKept
  <2> QED
    BY <1>1, <2>1, GoesOn DEF HearsNew, Calling, Receiving
<1>2. ASSUME NEW t \in Threads, PeerExpires(t)
      PROVE  IInv'
  <2>1. TypeInv /\ pc[t] \in Calling /\ t \in Everyone
    BY <1>2 DEF IInv, PeerExpires, Calling, Receiving, Everyone
  <2>2. at[t] \in Socks
    BY <2>1, InCallSafe
  <2>3. PICK x \in peers[at[t]] : peers' = [peers EXCEPT ![at[t]] = @ \ {x}]
    BY <1>2 DEF PeerExpires
  <2>4. Careful => \A a \in Admins : pc[a] = "peers" => at[a] # at[t]
    BY <1>2 DEF PeerExpires, Apart, PeersDrained, In, Everyone
  <2>5. PeersKept
    <3>1. peers' \in [Socks -> SUBSET Sources]
      BY <2>1, <2>2, <2>3 DEF TypeInv
    <3>2. \A a \in Admins : at[a] # at[t] => peers'[at[a]] = peers[at[a]]
      BY <2>1, <2>2, <2>3 DEF TypeInv
    <3> QED
      BY <2>4, <3>1, <3>2 DEF PeersKept
  <2>6. UNCHANGED <<sock, inventory, leaked, closes, pc, at, mode, todo>>
    BY <1>2 DEF PeerExpires
  <2>7. Move(t, pc[t], pc[t])
    BY <2>1, <2>6 DEF Move, TypeInv
  <2> QED
    BY <2>1, <2>5, <2>6, <2>7, GoesOn
<1>3. ASSUME NEW t \in Threads, Shutdown(t)
      PROVE  IInv'
  BY <1>3, SameInv DEF Shutdown
<1>4. CASE Next
  BY <1>1, <1>2, <1>3, <1>4, InCallInv, CallsInv, AdminInv DEF Next
<1>5. CASE UNCHANGED vars
  BY <1>5, SameInv DEF vars
<1> QED
  BY <1>4, <1>5

LEMMA InitInv == Init => IInv
<1> SUFFICES ASSUME Init PROVE IInv
  OBVIOUS
<1>1. /\ \A t \in Everyone : pc[t] = "idle" /\ at[t] = NoSock
      /\ \A s \in Socks : sock[s] = Fresh /\ closes[s] = 0
      /\ \A a \in Admins : todo[a] = {}
      /\ inventory = <<>>
  BY DEF Init
<1>2. Fresh \in SockRecord /\ Fresh.made = "none" /\ Fresh.destroyed = FALSE
  BY DEF Fresh, SockRecord
<1>3. TypeInv
  <2>1. /\ sock = [s \in Socks |-> Fresh] /\ peers = [s \in Socks |-> {}]
        /\ leaked = [s \in Socks |-> 0] /\ closes = [s \in Socks |-> 0]
        /\ pc = [t \in Everyone |-> "idle"] /\ at = [t \in Everyone |-> NoSock]
        /\ mode = [t \in Threads |-> "wait"] /\ todo = [a \in Admins |-> {}]
    BY DEF Init
  <2>2. inventory \in Seq(Socks)
    BY <1>1
  <2> QED
    BY <1>2, <2>1, <2>2 DEF TypeInv, ThreadPlaces, AdminPlaces, Everyone
<1>4. Placed /\ Alive /\ OneCreates /\ Alone /\ ToRead
  BY <1>1 DEF Placed, Alive, OneCreates, Alone, ToRead
<1>5. ClosedOnce
  BY <1>1, <1>2 DEF ClosedOnce, Closing
<1>6. InventoryComplete
  <2>1. Len(inventory) = 0 /\ Range(inventory) = {}
    BY <1>1 DEF Range
  <2> QED
    BY <1>1, <1>2, <2>1 DEF InventoryComplete
<1> QED
  BY <1>3, <1>4, <1>5, <1>6 DEF IInv

-----------------------------------------------------------------------------
(* The theorems. *)

\* The list that pgm_shutdown empties and the administration walks (pgm_sock_list) has
\* each socket once, from the pgm_socket that returns it to the pgm_close that destroys
\* it, when the application closes no socket twice.
THEOREM InventoryTheorem ==
    MaxCloses = 1 => (Spec => []InventoryComplete)
<1> SUFFICES ASSUME MaxCloses = 1 PROVE Spec => []InventoryComplete
  OBVIOUS
<1>1. IInv /\ [Next]_vars => IInv'
  BY NextInv
<1>2. IInv => InventoryComplete
  BY DEF IInv
<1> QED
  BY InitInv, <1>1, <1>2, PTL DEF Spec

\* No call reaches into a socket that pgm_close has freed, and no walk of the
\* administration reads a peer that has gone, when the application closes no socket
\* twice and the two steps that the code leaves unordered (Apart) are kept apart.
THEOREM FreedTheorem ==
    MaxCloses = 1 /\ Careful => (Spec => []NeverTouchesFreed)
<1> SUFFICES ASSUME MaxCloses = 1, Careful PROVE Spec => []NeverTouchesFreed
  OBVIOUS
<1>1. IInv /\ [Next]_vars => IInv'
  BY NextInv
<1>2. IInv => NeverTouchesFreed
  BY Zenon DEF IInv, Alive, ToRead, NeverTouchesFreed
<1> QED
  BY InitInv, <1>1, <1>2, PTL DEF Spec

=============================================================================
