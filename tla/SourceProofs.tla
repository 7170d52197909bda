---------------------------- MODULE SourceProofs ----------------------------
(* The send calls of source.c, for any number of threads, messages of any    *)
(* length, vectors of any length and any order of calls: what is in the      *)
(* transmit window is what calls have accepted, however often the buckets,   *)
(* the congestion window or the kernel refused in between.                   *)
EXTENDS Source, WellFoundedInduction, SequenceTheorems, TLAPS

Packet == [apdu : Apdus, piece : Nat, offset : Nat]

\* The packets of a sequence of messages.
PacketsOfAll(apdus) == FlattenSeq([i \in 1 .. Len(apdus) |-> PacketsOf(apdus[i])])

Busy(t) == pc[t] # "idle"

\* The message of its vector that a call is at.
Place(t) == IF call[t].op = "vector" THEN state.pkt ELSE 1

\* A packet is in the transmit window, and the call that put it there has yet to hand it
\* to the network, in this invocation or when it is repeated.
InHand(t) == pc[t] \in {"late", "send"} \/ (pc[t] = "blocked" /\ again)

\* The first packet of the message is still to be made.
AtStart(t) == pc[t] = "check" \/ (pc[t] = "blocked" /\ ~again)

\* How many packets of its current message a call has put into the window.
Held(t) ==
    IF AtStart(t) THEN 0
    ELSE IF call[t].op \in Single THEN (IF pc[t] = "add" THEN 0 ELSE 1)
    ELSE IF InHand(t) THEN state.offset + 1 ELSE state.offset

\* The messages that are all in the window: those accepted, and those of its vector
\* that a call has behind it.
Whole(t) == accepted \o SubSeq(call[t].vec, 1, Place(t) - 1)

\* One thread at a time is in a call, or has to repeat one.
OneCaller ==
    /\ \A t, u \in Threads : Busy(t) /\ Busy(u) => t = u
    /\ \A t \in Threads : pc[t] = "blocked" => nonblocking \/ pgmcc
    /\ \A t \in Threads : call[t] = NoCall <=> pc[t] = "idle"
    /\ \A t \in Threads : Busy(t) => call[t] \in Calls

\* Between calls there is nothing to resume.
Resting ==
    (\A t \in Threads : ~Busy(t)) =>
        /\ ~again
        /\ log = PacketsOfAll(accepted)
        /\ sent = 1 .. Len(log)

\* Where a call is in its vector and in its message.
AtPlace(t) ==
    /\ Place(t) \in 1 .. Len(call[t].vec)
    /\ call[t].op = "vector" => ~ChecksFirst
    /\ pc[t] = "blocked" /\ ~again => call[t].op # "vector"
    /\ pc[t] = "check" => ~again /\ call[t].op \notin Single
    /\ pc[t] = "late" => call[t].op \in Single
    /\ Held(t) <= Length(t)
    /\ pc[t] = "add" => Held(t) < Length(t)
    /\ pc[t] = "done" => Held(t) = Length(t)
    /\ call[t].op \notin Single /\ (pc[t] \in {"add", "done"} \/ InHand(t))
          => state.index = state.offset
    /\ call[t].op = "skbv" /\ AtStart(t) => state.offset = 0

\* The window has what lies behind the call and its packets so far; all but the one in
\* hand are sent.
UnderWay(t) ==
    /\ log = PacketsOfAll(Whole(t)) \o SubSeq(PacketsOf(Current(t)), 1, Held(t))
    /\ sent = 1 .. Len(log) \ (IF InHand(t) THEN {Len(log)} ELSE {})
    /\ InHand(t) => state.skb = Len(log) /\ state.skb # 0

\* A packet of the message will go out without asking the buckets.
Prepaid(t) ==
    /\ state.limited
    /\ \/ InHand(t) /\ pc[t] # "late"
       \/ pc[t] = "add" /\ call[t].op \notin Single

\* The buckets have let through the packets of the message that are still to be sent.
PaidAhead(t) ==
    Prepaid(t) =>
        (Len(log) + (IF InHand(t) THEN 0 ELSE 1)) .. (Len(log) + (Length(t) - Held(t)))
            \subseteq paid

IInv ==
    /\ TypeOK /\ OneCaller /\ Resting
    /\ \A t \in Threads : Busy(t) => AtPlace(t) /\ UnderWay(t) /\ PaidAhead(t)
    /\ PaidBeforeSent

\* What went out since the last heartbeat was restarted is noted in this invocation.
Followed ==
    /\ restless => progress
    /\ Outside => ~progress
    /\ \A i \in sent : i % GroupSize = 0 => Group(i) \in parity

-----------------------------------------------------------------------------
(* Flattening, by induction on how much is flattened.  The library's         *)
(* induction theorems speak of an operator; that every set of numbers has a  *)
(* least one speaks of a set, and gives induction for a set.                 *)

\* A set with 0 and with the successor of each number it has, has every number.
LEMMA SetInduction ==
    ASSUME NEW S, 0 \in S, \A n \in Nat : n \in S => n + 1 \in S
    PROVE  Nat \subseteq S
<1> SUFFICES ASSUME NEW x \in Nat \ S PROVE FALSE
  OBVIOUS
<1> DEFINE T == Nat \ S
<1>1. IsWellFoundedOn(OpToRel(<, Nat), Nat)
  BY NatLessThanWellFounded
<1>2. PICK m \in T : \A y \in T : ~(<<y, m>> \in OpToRel(<, Nat))
  <2> HIDE DEF T
  <2>1. T \subseteq Nat /\ T # {}
    BY DEF T
  <2> QED
    BY <1>1, <2>1, WFMin
<1>3. \A y \in T : ~(y < m)
  BY <1>2 DEF OpToRel
<1>4. m # 0 /\ m - 1 \in Nat /\ (m - 1) + 1 = m /\ m - 1 < m
  OBVIOUS
<1> QED
  BY <1>3, <1>4

\* f is the function that FlattenSeq defines on the first n sequences of s.
Flattens(f, s, n) == f = [i \in 1 .. n |-> IF i = 1 THEN s[i] ELSE f[i - 1] \o s[i]]

\* There is such a function.
LEMMA FlattensExists ==
    ASSUME NEW s, NEW n \in Nat
    PROVE  \E f : Flattens(f, s, n)
<1> DEFINE S == {k \in Nat : \E f : Flattens(f, s, k)}
<1>1. 0 \in S
  <2>1. Flattens([i \in 1 .. 0 |-> s], s, 0)
    BY DEF Flattens
  <2> QED
    BY <2>1
<1>2. ASSUME NEW k \in Nat, k \in S PROVE k + 1 \in S
  <2>1. PICK f : Flattens(f, s, k)
    BY <1>2
  <2> DEFINE last == IF k + 1 = 1 THEN s[k + 1] ELSE f[k] \o s[k + 1]
             g == [i \in 1 .. k + 1 |-> IF i = k + 1 THEN last ELSE f[i]]
  <2>2. \A i \in 1 .. k : f[i] = IF i = 1 THEN s[i] ELSE f[i - 1] \o s[i]
    BY <2>1 DEF Flattens
  <2>3. \A i \in 1 .. k + 1 : i = k + 1 \/ i \in 1 .. k
    OBVIOUS
  <2> HIDE DEF last
  <2>4. ASSUME NEW i \in 1 .. k + 1
        PROVE  g[i] = IF i = 1 THEN s[i] ELSE g[i - 1] \o s[i]
    <3>1. CASE i = k + 1
      <4>1. CASE i = 1
        BY <3>1, <4>1 DEF last
      <4>2. CASE i # 1
        <5>1. i - 1 \in 1 .. k + 1 /\ i - 1 # k + 1 /\ i - 1 = k
          BY <3>1, <4>2
        <5>2. g[i - 1] = f[k]
          BY <5>1
        <5> QED
          BY <3>1, <4>2, <5>2 DEF last
      <4> QED
        BY <4>1, <4>2
    <3>2. CASE i \in 1 .. k
      <4>1. g[i] = f[i]
        BY <3>2
      <4>2. CASE i = 1
        BY <2>2, <3>2, <4>1, <4>2
      <4>3. CASE i # 1
        <5>1. i - 1 \in 1 .. k + 1 /\ i - 1 # k + 1
          BY <3>2, <4>3
        <5>2. g[i - 1] = f[i - 1]
          BY <5>1
        <5> QED
          BY <2>2, <3>2, <4>1, <4>3, <5>2
      <4> QED
        BY <4>2, <4>3
    <3> QED
      BY <2>3, <3>1, <3>2
  <2>5. g = [i \in 1 .. k + 1 |-> IF i = 1 THEN s[i] ELSE g[i - 1] \o s[i]]
    <3>1. g = [i \in 1 .. k + 1 |-> g[i]]
      OBVIOUS
    <3> HIDE DEF g
    <3> QED
      BY <2>4, <3>1
  <2>6. Flattens(g, s, k + 1)
    BY <2>5 DEF Flattens
  <2> QED
    BY <2>6
<1>3. Nat \subseteq S
  <2> HIDE DEF S
  <2> QED
    BY <1>1, <1>2, SetInduction
<1> QED
  BY <1>3

\* It yields sequences, and depends on the sequences up to i only.
LEMMA FlattensUnique ==
    ASSUME NEW E, NEW s \in Seq(Seq(E)), NEW t \in Seq(Seq(E)), NEW n \in Nat,
           n <= Len(s), n <= Len(t), \A i \in 1 .. n : s[i] = t[i],
           NEW m \in Nat, n <= m,
           NEW f, NEW g, Flattens(f, s, n), Flattens(g, t, m)
    PROVE  \A i \in 1 .. n : f[i] = g[i] /\ f[i] \in Seq(E)
<1> DEFINE S == {k \in Nat : k \in 1 .. n => f[k] = g[k] /\ f[k] \in Seq(E)}
<1>1. 0 \in S
  OBVIOUS
<1>2. ASSUME NEW k \in Nat, k \in S PROVE k + 1 \in S
  <2> SUFFICES ASSUME k + 1 \in 1 .. n
               PROVE  f[k + 1] = g[k + 1] /\ f[k + 1] \in Seq(E)
    OBVIOUS
  <2>1. s[k + 1] = t[k + 1] /\ s[k + 1] \in Seq(E)
    <3>1. Len(s) \in Nat
      BY LenProperties
    <3>2. k + 1 \in 1 .. Len(s)
      BY <3>1
    <3> QED
      BY <3>2, ElementOfSeq
  <2>2. /\ f[k + 1] = IF k + 1 = 1 THEN s[k + 1] ELSE f[(k + 1) - 1] \o s[k + 1]
        /\ g[k + 1] = IF k + 1 = 1 THEN t[k + 1] ELSE g[(k + 1) - 1] \o t[k + 1]
    <3>1. k + 1 \in 1 .. n /\ k + 1 \in 1 .. m
      OBVIOUS
    <3>2. f = [i \in 1 .. n |-> IF i = 1 THEN s[i] ELSE f[i - 1] \o s[i]]
      BY DEF Flattens
    <3>3. g = [i \in 1 .. m |-> IF i = 1 THEN t[i] ELSE g[i - 1] \o t[i]]
      BY DEF Flattens
    <3>4. f[k + 1] = IF k + 1 = 1 THEN s[k + 1] ELSE f[(k + 1) - 1] \o s[k + 1]
      BY <3>1, <3>2, Zenon
    <3>5. g[k + 1] = IF k + 1 = 1 THEN t[k + 1] ELSE g[(k + 1) - 1] \o t[k + 1]
      BY <3>1, <3>3, Zenon
    <3> QED
      BY <3>4, <3>5
  <2>3. CASE k = 0
    BY <2>1, <2>2, <2>3
  <2>4. CASE k # 0
    <3>1. k \in 1 .. n /\ k + 1 # 1 /\ (k + 1) - 1 = k
      BY <2>4
    <3>2. f[k] = g[k] /\ f[k] \in Seq(E)
      BY <1>2, <3>1
    <3>3. f[k] \o s[k + 1] \in Seq(E)
      BY <2>1, <3>2, ConcatProperties
    <3> QED
      BY <2>1, <2>2, <3>1, <3>2, <3>3
  <2> QED
    BY <2>3, <2>4
<1>3. Nat \subseteq S
  <2> HIDE DEF S
  <2> QED
    BY <1>1, <1>2, SetInduction
<1> QED
  BY <1>3

\* What FlattenSeq of a non-empty sequence is.
LEMMA FlattenSeqIs ==
    ASSUME NEW s, Len(s) \in Nat \ {0}
    PROVE  \E f : Flattens(f, s, Len(s)) /\ FlattenSeq(s) = f[Len(s)]
<1>1. FlattenSeq(s) = (CHOOSE f : Flattens(f, s, Len(s)))[Len(s)]
  BY DEF FlattenSeq, Flattens
<1>2. Flattens(CHOOSE f : Flattens(f, s, Len(s)), s, Len(s))
  BY FlattensExists
<1> QED
  BY <1>1, <1>2

\* A sequence of sequences flattens to a sequence, and one more adds itself.
LEMMA FlattenMore ==
    ASSUME NEW E, NEW s \in Seq(Seq(E)), NEW t \in Seq(Seq(E)),
           Len(t) = Len(s) + 1, \A i \in 1 .. Len(s) : t[i] = s[i]
    PROVE  /\ FlattenSeq(s) \in Seq(E) /\ FlattenSeq(t) \in Seq(E)
           /\ FlattenSeq(t) = FlattenSeq(s) \o t[Len(t)]
<1>1. Len(s) \in Nat /\ Len(t) \in Nat \ {0} /\ t[Len(t)] \in Seq(E)
  BY LenProperties, ElementOfSeq
<1>2. PICK g : Flattens(g, t, Len(t)) /\ FlattenSeq(t) = g[Len(t)]
  BY <1>1, FlattenSeqIs
<1>3. g[Len(t)] = IF Len(t) = 1 THEN t[Len(t)] ELSE g[Len(s)] \o t[Len(t)]
  <2>1. Len(t) \in 1 .. Len(t) /\ Len(t) - 1 = Len(s)
    BY <1>1
  <2> QED
    BY <1>2, <2>1 DEF Flattens
<1>4. CASE Len(s) = 0
  <2>1. FlattenSeq(s) = s /\ s = <<>>
    BY <1>4, EmptySeq DEF FlattenSeq
  <2>2. <<>> \o t[Len(t)] = t[Len(t)]
    BY <1>1, ConcatEmptySeq
  <2>3. FlattenSeq(t) = t[Len(t)]
    BY <1>2, <1>3, <1>4
  <2>4. <<>> \in Seq(E)
    OBVIOUS
  <2> QED
    BY <1>1, <2>1, <2>2, <2>3, <2>4, Zenon
<1>5. CASE Len(s) # 0
  <2>1. PICK f : Flattens(f, s, Len(s)) /\ FlattenSeq(s) = f[Len(s)]
    BY <1>1, <1>5, FlattenSeqIs
  <2>2. \A i \in 1 .. Len(s) : f[i] = g[i] /\ f[i] \in Seq(E)
    <3>1. Len(s) <= Len(s) /\ Len(s) <= Len(t) /\ Len(t) \in Nat
      BY <1>1
    <3>2. \A i \in 1 .. Len(s) : s[i] = t[i]
      OBVIOUS
    <3> QED
      BY <1>1, <1>2, <2>1, <3>1, <3>2, FlattensUnique
  <2>3. Len(s) \in 1 .. Len(s) /\ Len(t) # 1
    BY <1>1, <1>5
  <2>4. FlattenSeq(s) \in Seq(E) /\ FlattenSeq(t) = FlattenSeq(s) \o t[Len(t)]
    BY <1>2, <1>3, <2>1, <2>2, <2>3
  <2> QED
    BY <1>1, <2>4, ConcatProperties
<1> QED
  BY <1>4, <1>5

\* What is in a sequence up to n + 1 is what is in it up to n, and one more.
LEMMA PrefixMore ==
    ASSUME NEW E, NEW q \in Seq(E), NEW n \in Nat, n < Len(q)
    PROVE  /\ SubSeq(q, 1, n) \in Seq(E) /\ Len(SubSeq(q, 1, n)) = n
           /\ SubSeq(q, 1, n + 1) = Append(SubSeq(q, 1, n), q[n + 1])
<1>1. Len(q) \in Nat /\ \A i \in 1 .. Len(q) : q[i] \in E
  BY LenProperties, ElementOfSeq
<1>2. /\ SubSeq(q, 1, n) \in Seq(E) /\ Len(SubSeq(q, 1, n)) = n
      /\ \A i \in 1 .. n : SubSeq(q, 1, n)[i] = q[i]
  BY <1>1
<1>3. /\ SubSeq(q, 1, n + 1) \in Seq(E) /\ Len(SubSeq(q, 1, n + 1)) = n + 1
      /\ \A i \in 1 .. n + 1 : SubSeq(q, 1, n + 1)[i] = q[i]
  BY <1>1
<1> DEFINE r == Append(SubSeq(q, 1, n), q[n + 1])
<1>4. /\ r \in Seq(E) /\ Len(r) = n + 1 /\ r[n + 1] = q[n + 1]
      /\ \A i \in 1 .. n : r[i] = q[i]
  BY <1>1, <1>2
<1>5. r = SubSeq(q, 1, n + 1)
  <2>1. \A i \in 1 .. n + 1 : i = n + 1 \/ i \in 1 .. n
    OBVIOUS
  <2>2. \A i \in 1 .. n + 1 : r[i] = SubSeq(q, 1, n + 1)[i]
    BY <1>3, <1>4, <2>1
  <2> HIDE DEF r
  <2> QED
    BY <1>3, <1>4, <2>2, SeqEqual
<1> QED
  BY <1>2, <1>5

\* The ends of a sequence.
LEMMA PrefixEnds ==
    ASSUME NEW E, NEW q \in Seq(E)
    PROVE  /\ SubSeq(q, 1, 0) = <<>> /\ SubSeq(q, 1, Len(q)) = q
           /\ q \o <<>> = q /\ <<>> \o q = q
<1>1. SubSeq(q, 1, 0) = <<>>
  <2>1. SubSeq(q, 1, 0) \in Seq(E) /\ Len(SubSeq(q, 1, 0)) = 0
    BY LenProperties
  <2> QED
    BY <2>1, EmptySeq
<1>2. SubSeq(q, 1, Len(q)) = q
  <2>1. Len(q) \in Nat
    BY LenProperties
  <2>2. /\ SubSeq(q, 1, Len(q)) \in Seq(E) /\ Len(SubSeq(q, 1, Len(q))) = Len(q)
        /\ \A i \in 1 .. Len(q) : SubSeq(q, 1, Len(q))[i] = q[i]
    BY <2>1
  <2> QED
    BY <2>2, SeqEqual
<1> QED
  BY <1>1, <1>2, ConcatEmptySeq

\* Adding to a concatenation is adding to its second part.
LEMMA AppendConcat ==
    ASSUME NEW E, NEW x \in Seq(E), NEW y \in Seq(E), NEW e \in E, NEW z, z = x \o y
    PROVE  Append(z, e) = x \o Append(y, e)
<1>1. z \in Seq(E) /\ <<e>> \in Seq(E)
  BY ConcatProperties
<1>2. Append(z, e) = z \o <<e>>
  BY <1>1, AppendIsConcat
<1>3. Append(y, e) = y \o <<e>>
  BY AppendIsConcat
<1>4. (x \o y) \o <<e>> = x \o (y \o <<e>>)
  BY <1>1, ConcatAssociative
<1> QED
  BY <1>2, <1>3, <1>4

\* The packets of a message, and what they are.
LEMMA PacketsOfType ==
    ASSUME NEW a \in Apdus
    PROVE  /\ Fragments[a] \in Nat \ {0}
           /\ PacketsOf(a) \in Seq(Packet) /\ Len(PacketsOf(a)) = Fragments[a]
           /\ \A n \in 0 .. Fragments[a] - 1 :
                PacketsOf(a)[n + 1] = [apdu |-> a, piece |-> n, offset |-> n]
<1>1. Fragments[a] \in Nat \ {0}
  BY SourceAssumption
<1> DEFINE N == Fragments[a]
<1> HIDE DEF N
<1>2. [i \in 1 .. N |-> [apdu |-> a, piece |-> i - 1, offset |-> i - 1]] \in Seq(Packet)
  <2>1. N \in Nat
    BY <1>1 DEF N
  <2>2. \A i \in 1 .. N : [apdu |-> a, piece |-> i - 1, offset |-> i - 1] \in Packet
    BY <2>1 DEF Packet
  <2> QED
    BY <2>1, <2>2, IsASeq
<1>3. /\ PacketsOf(a) = [i \in 1 .. N |-> [apdu |-> a, piece |-> i - 1, offset |-> i - 1]]
      /\ N \in Nat
  BY <1>1 DEF PacketsOf, N
<1>4. Len(PacketsOf(a)) = N
  BY <1>2, <1>3, LenProperties
<1>5. ASSUME NEW n \in 0 .. N - 1
      PROVE  PacketsOf(a)[n + 1] = [apdu |-> a, piece |-> n, offset |-> n]
  <2>1. n + 1 \in 1 .. N /\ (n + 1) - 1 = n
    BY <1>3
  <2> QED
    BY <1>3, <2>1
<1> QED
  BY <1>1, <1>2, <1>3, <1>4, <1>5 DEF N

\* The packets of no message.
LEMMA FlattenNothing == PacketsOfAll(<<>>) = <<>>
<1> DEFINE e == [i \in 1 .. Len(<<>>) |-> PacketsOf(<<>>[i])]
<1>1. e \in Seq(Packet) /\ Len(e) = 0
  OBVIOUS
<1>2. e = <<>>
  <2> HIDE DEF e
  <2> QED
    BY <1>1, EmptySeq
<1>3. FlattenSeq(e) = e
  <2> HIDE DEF e
  <2> QED
    BY <1>1 DEF FlattenSeq
<1> QED
  BY <1>2, <1>3 DEF PacketsOfAll

\* The packets of one message more.
LEMMA PacketsOfAllMore ==
    ASSUME NEW q \in Seq(Apdus), NEW a \in Apdus
    PROVE  /\ PacketsOfAll(q) \in Seq(Packet)
           /\ PacketsOfAll(Append(q, a)) = PacketsOfAll(q) \o PacketsOf(a)
<1> DEFINE s == [i \in 1 .. Len(q) |-> PacketsOf(q[i])]
           r == Append(q, a)
           t == [i \in 1 .. Len(r) |-> PacketsOf(r[i])]
<1>1. /\ Len(q) \in Nat /\ \A i \in 1 .. Len(q) : q[i] \in Apdus
      /\ r \in Seq(Apdus) /\ Len(r) = Len(q) + 1
      /\ r[Len(r)] = a /\ \A i \in 1 .. Len(q) : r[i] = q[i]
  BY LenProperties, ElementOfSeq, AppendProperties
<1>2. \A i \in 1 .. Len(r) : r[i] \in Apdus
  BY <1>1, ElementOfSeq
<1> HIDE DEF r
<1>3. s \in Seq(Seq(Packet)) /\ Len(s) = Len(q)
  <2>1. \A i \in 1 .. Len(q) : PacketsOf(q[i]) \in Seq(Packet)
    BY <1>1, PacketsOfType
  <2> QED
    BY <1>1, <2>1, IsASeq
<1>4. t \in Seq(Seq(Packet)) /\ Len(t) = Len(r)
  <2>1. \A i \in 1 .. Len(r) : PacketsOf(r[i]) \in Seq(Packet)
    BY <1>2, PacketsOfType
  <2>2. Len(r) \in Nat
    BY <1>1
  <2> QED
    BY <2>1, <2>2, IsASeq
<1>5. (\A i \in 1 .. Len(s) : t[i] = s[i]) /\ t[Len(t)] = PacketsOf(a)
  <2>1. \A i \in 1 .. Len(q) : i \in 1 .. Len(r)
    BY <1>1
  <2>2. Len(r) \in 1 .. Len(r)
    BY <1>1
  <2> QED
    BY <1>1, <1>3, <1>4, <2>1, <2>2
<1>6. /\ FlattenSeq(s) \in Seq(Packet)
      /\ FlattenSeq(t) = FlattenSeq(s) \o t[Len(t)]
  <2>1. Len(t) = Len(s) + 1
    BY <1>1, <1>3, <1>4
  <2> HIDE DEF s, t
  <2> QED
    BY <1>3, <1>4, <1>5, <2>1, FlattenMore
<1>7. PacketsOfAll(q) = FlattenSeq(s)
  BY DEF PacketsOfAll
<1>8. PacketsOfAll(r) = FlattenSeq(t)
  BY DEF PacketsOfAll
<1> QED
  BY <1>5, <1>6, <1>7, <1>8 DEF r

-----------------------------------------------------------------------------
(* One call, and what it leaves of the others. *)

\* What a call is made of.
LEMMA CallsType ==
    ASSUME NEW c \in Calls
    PROVE  /\ c.op \in Ops /\ c # NoCall
           /\ c.vec \in Seq(Apdus) /\ Len(c.vec) \in Nat \ {0}
           /\ c.op # "vector" => Len(c.vec) = 1
           /\ c.op \in Single => Fragments[c.vec[1]] = 1
<1>1. /\ c.op \in Ops /\ c.vec \in Seq(Apdus) \ {<<>>}
      /\ c.op # "vector" => Len(c.vec) = 1
      /\ c.op \in Single => Fragments[c.vec[1]] = 1
  BY SourceAssumption
<1>2. c # NoCall
  BY <1>1 DEF NoCall, Ops, Single, Pieces
<1>3. Len(c.vec) \in Nat \ {0}
  BY <1>1, LenProperties, EmptySeq
<1> QED
  BY <1>1, <1>2, <1>3

\* Where a call is: its message and the message's length.
LEMMA Here ==
    ASSUME IInv, NEW t \in Threads, Busy(t)
    PROVE  /\ call[t] \in Calls /\ call[t].op \in Ops
           /\ call[t].vec \in Seq(Apdus) /\ Len(call[t].vec) \in Nat \ {0}
           /\ call[t].op # "vector" => Len(call[t].vec) = 1
           /\ Place(t) \in 1 .. Len(call[t].vec)
           /\ Current(t) = call[t].vec[Place(t)] /\ Current(t) \in Apdus
           /\ Length(t) \in Nat \ {0}
           /\ call[t].op \in Single => Length(t) = 1
           /\ Held(t) \in 0 .. Length(t)
           /\ \A u \in Threads : Busy(u) => u = t
<1>1. call[t] \in Calls /\ \A u \in Threads : Busy(u) => u = t
  BY DEF IInv, OneCaller
<1>2. AtPlace(t)
  BY DEF IInv
<1>3. /\ call[t].op \in Ops /\ call[t].vec \in Seq(Apdus)
      /\ Len(call[t].vec) \in Nat \ {0}
      /\ call[t].op # "vector" => Len(call[t].vec) = 1
      /\ call[t].op \in Single => Fragments[call[t].vec[1]] = 1
  BY <1>1, CallsType
<1>4. Place(t) \in 1 .. Len(call[t].vec) /\ Held(t) <= Length(t)
  BY <1>2 DEF AtPlace
<1>5. Current(t) = call[t].vec[Place(t)]
  BY DEF Current, Place
<1>6. Current(t) \in Apdus
  BY <1>3, <1>4, <1>5, ElementOfSeq
<1>7. Length(t) \in Nat \ {0}
  BY <1>6, PacketsOfType DEF Length
<1>8. call[t].op \in Single => Length(t) = 1
  <2>1. call[t].op \in Single => Place(t) = 1
    BY DEF Place, Single
  <2> QED
    BY <1>3, <1>5, <2>1 DEF Length
<1>9. Held(t) \in Nat
  <2>1. state.offset \in Nat
    BY DEF IInv, TypeOK
  <2> QED
    BY <2>1 DEF Held
<1>10. Held(t) \in 0 .. Length(t)
  BY <1>4, <1>7, <1>9
<1> QED
  BY <1>1, <1>3, <1>4, <1>5, <1>6, <1>7, <1>8, <1>10

\* A step of a call that does not end it.
LEMMA StaysBusy ==
    ASSUME IInv, NEW t \in Threads, Busy(t), NEW p \in Points, p # "idle", Goto(t, p),
           UNCHANGED <<nonblocking, pgmcc, call>>,
           p = "blocked" => nonblocking \/ pgmcc,
           TypeOK', AtPlace(t)', UnderWay(t)', PaidAhead(t)', PaidBeforeSent'
    PROVE  IInv'
<1>1. pc \in [Threads -> Points]
  BY DEF IInv, TypeOK
<1>2. pc' = [pc EXCEPT ![t] = p]
  BY DEF Goto
<1>3. pc'[t] = p /\ \A u \in Threads \ {t} : pc'[u] = pc[u]
  BY <1>1, <1>2
<1>4. \A u \in Threads : Busy(u)' <=> Busy(u)
  BY <1>3 DEF Busy
<1>5. \A u \in Threads : Busy(u) => u = t
  BY Here
<1>6. OneCaller'
  <2>1. OneCaller
    BY DEF IInv
  <2>2. \A u, v \in Threads : Busy(u)' /\ Busy(v)' => u = v
    BY <1>4, <1>5
  <2>3. \A u \in Threads : pc'[u] = "blocked" => nonblocking' \/ pgmcc'
    BY <1>3, <2>1 DEF OneCaller
  <2>4. \A u \in Threads : call'[u] = NoCall <=> pc'[u] = "idle"
    BY <1>3, <2>1 DEF OneCaller, Busy
  <2>5. \A u \in Threads : Busy(u)' => call'[u] \in Calls
    BY <1>4, <2>1 DEF OneCaller
  <2> QED
    BY <2>2, <2>3, <2>4, <2>5 DEF OneCaller
<1>7. Resting'
  BY <1>4 DEF Resting
<1>8. ASSUME NEW u \in Threads, Busy(u)'
      PROVE  AtPlace(u)' /\ UnderWay(u)' /\ PaidAhead(u)'
  BY <1>4, <1>5, <1>8
<1> QED
  BY <1>6, <1>7, <1>8 DEF IInv

\* A step that leaves the call where it is, and the window and the network alone.
LEMMA StaysPut ==
    ASSUME NEW t \in Threads, UnderWay(t), UNCHANGED <<call, accepted, log, sent>>,
           Place(t)' = Place(t), Held(t)' = Held(t), InHand(t)' = InHand(t),
           state'.skb = state.skb
    PROVE  UnderWay(t)' /\ Current(t)' = Current(t) /\ Length(t)' = Length(t)
<1>1. Current(t) = call[t].vec[Place(t)] /\ Current(t)' = call'[t].vec[Place(t)']
  BY DEF Current, Place
<1>2. Current(t)' = Current(t)
  BY <1>1
<1>3. Length(t)' = Length(t)
  BY <1>2 DEF Length
<1>4. Whole(t)' = Whole(t)
  BY DEF Whole
<1>5. PacketsOfAll(Whole(t))' = PacketsOfAll(Whole(t))
  BY <1>4 DEF PacketsOfAll, PacketsOf
<1>6. PacketsOf(Current(t))' = PacketsOf(Current(t))
  BY <1>2 DEF PacketsOf
<1> QED
  BY <1>2, <1>3, <1>5, <1>6 DEF UnderWay

\* What is the case at a thread that is in a call.
LEMMA InCall ==
    ASSUME IInv, NEW t \in Threads, Busy(t)
    PROVE  /\ TypeOK /\ AtPlace(t) /\ UnderWay(t) /\ PaidAhead(t) /\ PaidBeforeSent
           /\ pc \in [Threads -> Points] /\ call[t].op \in Ops
           /\ state = [skb |-> state.skb, limited |-> state.limited,
                       offset |-> state.offset, index |-> state.index,
                       pkt |-> state.pkt]
           /\ state.skb \in 0 .. Len(log) /\ state.limited \in BOOLEAN
           /\ state.offset \in Nat /\ state.index \in Nat /\ state.pkt \in Nat
           /\ Len(log) \in Nat
<1>1. TypeOK /\ AtPlace(t) /\ UnderWay(t) /\ PaidAhead(t) /\ PaidBeforeSent
  BY DEF IInv
<1>2. /\ pc \in [Threads -> Points]
      /\ state \in [skb : 0 .. Len(log), limited : BOOLEAN, offset : Nat, index : Nat,
                    pkt : Nat]
      /\ log \in Seq([apdu : Apdus, piece : Nat, offset : Nat])
  BY <1>1 DEF TypeOK
<1>3. Len(log) \in Nat
  BY <1>2, LenProperties
<1>4. call[t].op \in Ops
  BY Here
<1> QED
  BY <1>1, <1>2, <1>3, <1>4

\* Repeating a call.
LEMMA RepeatInv ==
    ASSUME IInv, NEW t \in Threads, Repeat(t)
    PROVE  IInv'
<1>1. pc[t] = "blocked" /\ Busy(t)
  BY DEF Repeat, Busy
<1>2. /\ UNCHANGED <<nonblocking, pgmcc, again, log, sent, paid, parity, restless,
                     call, progress, accepted>>
      /\ Enter(t, call[t])
  BY DEF Repeat
<1>3. TypeOK /\ AtPlace(t) /\ UnderWay(t) /\ PaidAhead(t) /\ PaidBeforeSent
  BY <1>1, InCall
<1>4. PaidBeforeSent'
  BY <1>2, <1>3 DEF PaidBeforeSent
<1>5. CASE again
  <2>1. Goto(t, "send") /\ state' = state
    <3>1. state.skb # 0
      BY <1>1, <1>3, <1>5 DEF UnderWay, InHand
    <3> QED
      BY <1>2, <1>5, <3>1 DEF Enter
  <2>2. pc'[t] = "send" /\ pc' \in [Threads -> Points]
    BY <1>3, <2>1 DEF TypeOK, Goto, Points
  <2>3. /\ Place(t)' = Place(t) /\ Held(t)' = Held(t) /\ InHand(t)' = InHand(t)
        /\ InHand(t) /\ ~AtStart(t) /\ ~AtStart(t)'
    BY <1>1, <1>2, <1>5, <2>1, <2>2 DEF Place, Held, InHand, AtStart
  <2>4. UnderWay(t)' /\ Current(t)' = Current(t) /\ Length(t)' = Length(t)
    BY <1>2, <1>3, <2>1, <2>3, StaysPut
  <2>5. TypeOK'
    BY <1>2, <1>3, <2>1, <2>2 DEF TypeOK
  <2>6. AtPlace(t)'
    BY <1>1, <1>2, <1>3, <1>5, <2>1, <2>2, <2>3, <2>4 DEF AtPlace, ChecksFirst
  <2>7. PaidAhead(t)'
    BY <1>1, <1>2, <1>3, <2>1, <2>2, <2>3, <2>4 DEF PaidAhead, Prepaid
  <2> QED
    BY <1>1, <1>2, <1>4, <2>1, <2>4, <2>5, <2>6, <2>7, StaysBusy DEF Points
<1>6. CASE ~again
  <2> DEFINE p == IF call[t].op \in Single THEN "add" ELSE "check"
  <2>1. Goto(t, p) /\ state' = [state EXCEPT !.pkt = 1]
    BY <1>2, <1>6 DEF Enter
  <2>2. pc'[t] = p /\ pc' \in [Threads -> Points] /\ p \in Points
    BY <1>3, <2>1 DEF TypeOK, Goto, Points
  <2>3. /\ state'.skb = state.skb /\ state'.offset = state.offset
        /\ state'.index = state.index /\ state'.limited = state.limited
        /\ state' \in [skb : 0 .. Len(log), limited : BOOLEAN, offset : Nat,
                       index : Nat, pkt : Nat]
    BY <1>3, <2>1 DEF TypeOK
  <2>4. call[t].op # "vector"
    BY <1>1, <1>3, <1>6 DEF AtPlace
  <2>5. /\ Place(t)' = Place(t) /\ Held(t)' = Held(t) /\ InHand(t)' = InHand(t)
        /\ AtStart(t) /\ Held(t) = 0 /\ ~InHand(t)
    BY <1>1, <1>2, <1>6, <2>2, <2>4 DEF Place, Held, InHand, AtStart
  <2>6. UnderWay(t)' /\ Current(t)' = Current(t) /\ Length(t)' = Length(t)
    BY <1>2, <1>3, <2>3, <2>5, StaysPut
  <2>7. TypeOK'
    BY <1>2, <1>3, <2>2, <2>3 DEF TypeOK
  <2>8. Length(t) \in Nat \ {0}
    BY <1>1, Here
  <2>9. AtPlace(t)'
    BY <1>1, <1>2, <1>3, <1>6, <2>2, <2>3, <2>4, <2>5, <2>6, <2>8
       DEF AtPlace, ChecksFirst
  <2>10. PaidAhead(t)'
    BY <1>1, <1>2, <2>2, <2>5 DEF PaidAhead, Prepaid, InHand
  <2> QED
    <3> p # "idle" /\ p # "blocked"
      OBVIOUS
    <3> HIDE DEF p
    <3> QED
      BY <1>1, <1>2, <1>4, <2>1, <2>2, <2>6, <2>7, <2>9, <2>10, StaysBusy
<1> QED
  BY <1>5, <1>6

\* The buckets let a whole message through: all its packets are paid for.
LEMMA RateAllowsInv ==
    ASSUME IInv, NEW t \in Threads, RateAllows(t)
    PROVE  IInv'
<1>1. pc[t] = "check" /\ Busy(t)
  BY DEF RateAllows, Busy
<1>2. /\ UNCHANGED <<nonblocking, pgmcc, again, log, sent, parity, restless, call,
                     progress, accepted>>
      /\ Goto(t, "add") /\ state' = Started(t, ChecksFirst)
      /\ paid' = IF ChecksFirst
                 THEN paid \cup (Len(log) + 1 .. Len(log) + Length(t)) ELSE paid
  BY DEF RateAllows
<1>3. /\ TypeOK /\ AtPlace(t) /\ UnderWay(t) /\ PaidAhead(t) /\ PaidBeforeSent
      /\ Len(log) \in Nat
  BY <1>1, InCall
<1>4. PaidBeforeSent'
  BY <1>2, <1>3 DEF PaidBeforeSent
<1>5. pc'[t] = "add" /\ pc' \in [Threads -> Points]
  BY <1>2, <1>3 DEF TypeOK, Goto, Points
<1>6. ~again /\ call[t].op \notin Single /\ (call[t].op = "skbv" => state.offset = 0)
  BY <1>1, <1>3 DEF AtPlace, AtStart
<1>7. /\ state'.skb = state.skb /\ state'.offset = 0 /\ state'.index = 0
      /\ state'.limited = ChecksFirst /\ state'.pkt = state.pkt
      /\ state' \in [skb : 0 .. Len(log), limited : BOOLEAN, offset : Nat, index : Nat,
                     pkt : Nat]
  <2>1. ChecksFirst \in BOOLEAN
    BY <1>3, SourceAssumption DEF ChecksFirst, TypeOK
  <2>2. state.offset \in Nat /\ state \in [skb : 0 .. Len(log), limited : BOOLEAN,
                                           offset : Nat, index : Nat, pkt : Nat]
    BY <1>3 DEF TypeOK
  <2> HIDE DEF ChecksFirst
  <2> QED
    BY <1>2, <1>6, <2>1, <2>2 DEF Started
<1>8. /\ Place(t)' = Place(t) /\ Held(t)' = Held(t) /\ InHand(t)' = InHand(t)
      /\ Held(t) = 0 /\ ~InHand(t)
  BY <1>1, <1>2, <1>5, <1>6, <1>7 DEF Place, Held, InHand, AtStart
<1>9. UnderWay(t)' /\ Current(t)' = Current(t) /\ Length(t)' = Length(t)
  BY <1>2, <1>3, <1>7, <1>8, StaysPut
<1>10. TypeOK'
  BY <1>2, <1>3, <1>5, <1>7 DEF TypeOK
<1>11. Length(t) \in Nat \ {0}
  BY <1>1, Here
<1>12. AtPlace(t)'
  BY <1>2, <1>3, <1>5, <1>6, <1>7, <1>8, <1>9, <1>11 DEF AtPlace, ChecksFirst, AtStart
<1>13. PaidAhead(t)'
  BY <1>2, <1>3, <1>5, <1>7, <1>8, <1>9, <1>11 DEF PaidAhead, Prepaid
<1> QED
  BY <1>1, <1>2, <1>4, <1>9, <1>10, <1>12, <1>13, StaysBusy DEF Points

\* The buckets refuse a whole message, of which nothing is in the window.
LEMMA RateRefusesInv ==
    ASSUME IInv, NEW t \in Threads, RateRefuses(t)
    PROVE  IInv'
<1>1. pc[t] = "check" /\ Busy(t) /\ ChecksFirst
  BY DEF RateRefuses, Busy
<1>2. /\ UNCHANGED <<nonblocking, pgmcc, log, sent, paid, call, accepted>>
      /\ Goto(t, "blocked") /\ state' = [state EXCEPT !.limited = FALSE]
      /\ again' = (again \/ call[t].op = "vector")
      /\ restless' = (restless /\ ~progress) /\ progress' = FALSE
  BY DEF RateRefuses, GiveUp
<1>3. /\ TypeOK /\ AtPlace(t) /\ UnderWay(t) /\ PaidAhead(t) /\ PaidBeforeSent
      /\ Len(log) \in Nat
  BY <1>1, InCall
<1>4. PaidBeforeSent'
  BY <1>2, <1>3 DEF PaidBeforeSent
<1>5. pc'[t] = "blocked" /\ pc' \in [Threads -> Points]
  BY <1>2, <1>3 DEF TypeOK, Goto, Points
<1>6. /\ ~again /\ call[t].op \notin Single /\ (call[t].op = "skbv" => state.offset = 0)
      /\ call[t].op # "vector" /\ ~again'
  BY <1>1, <1>2, <1>3 DEF AtPlace, AtStart
<1>7. /\ state'.skb = state.skb /\ state'.offset = state.offset
      /\ state'.limited = FALSE /\ state'.pkt = state.pkt
      /\ state' \in [skb : 0 .. Len(log), limited : BOOLEAN, offset : Nat, index : Nat,
                     pkt : Nat]
  BY <1>2, <1>3 DEF TypeOK
<1>8. /\ Place(t)' = Place(t) /\ Held(t)' = Held(t) /\ InHand(t)' = InHand(t)
      /\ Held(t) = 0 /\ ~InHand(t)
  BY <1>1, <1>2, <1>5, <1>6, <1>7 DEF Place, Held, InHand, AtStart
<1>9. UnderWay(t)' /\ Current(t)' = Current(t) /\ Length(t)' = Length(t)
  BY <1>2, <1>3, <1>7, <1>8, StaysPut
<1>10. TypeOK'
  <2>1. again' \in BOOLEAN /\ restless' \in BOOLEAN /\ progress' \in BOOLEAN
    BY <1>2
  <2> QED
    BY <1>2, <1>3, <1>5, <1>7, <2>1 DEF TypeOK
<1>11. Length(t) \in Nat \ {0}
  BY <1>1, Here
<1>12. AtPlace(t)'
  BY <1>2, <1>3, <1>5, <1>6, <1>7, <1>8, <1>9, <1>11 DEF AtPlace, ChecksFirst, AtStart
<1>13. PaidAhead(t)'
  BY <1>7 DEF PaidAhead, Prepaid
<1>14. nonblocking
  BY <1>1 DEF ChecksFirst
<1> QED
  BY <1>1, <1>2, <1>4, <1>9, <1>10, <1>12, <1>13, <1>14, StaysBusy DEF Points

\* The buckets let a single packet through that is in the window already.
LEMMA LateAllowsInv ==
    ASSUME IInv, NEW t \in Threads, LateAllows(t)
    PROVE  IInv'
<1>1. pc[t] = "late" /\ Busy(t)
  BY DEF LateAllows, Busy
<1>2. /\ UNCHANGED <<nonblocking, pgmcc, again, log, sent, parity, restless, call,
                     progress, accepted>>
      /\ Goto(t, "send") /\ state' = [state EXCEPT !.limited = ChecksFirst]
      /\ paid' = IF ChecksFirst THEN paid \cup {state.skb} ELSE paid
  BY DEF LateAllows
<1>3. /\ TypeOK /\ AtPlace(t) /\ UnderWay(t) /\ PaidAhead(t) /\ PaidBeforeSent
      /\ Len(log) \in Nat
  BY <1>1, InCall
<1>4. PaidBeforeSent'
  BY <1>2, <1>3 DEF PaidBeforeSent
<1>5. pc'[t] = "send" /\ pc' \in [Threads -> Points]
  BY <1>2, <1>3 DEF TypeOK, Goto, Points
<1>6. call[t].op \in Single
  BY <1>1, <1>3 DEF AtPlace
<1>7. /\ state'.skb = state.skb /\ state'.offset = state.offset
      /\ state'.limited = ChecksFirst /\ state'.pkt = state.pkt
      /\ state' \in [skb : 0 .. Len(log), limited : BOOLEAN, offset : Nat, index : Nat,
                     pkt : Nat]
  <2>1. ChecksFirst \in BOOLEAN
    BY <1>3, SourceAssumption DEF ChecksFirst, TypeOK
  <2>2. state.offset \in Nat /\ state \in [skb : 0 .. Len(log), limited : BOOLEAN,
                                           offset : Nat, index : Nat, pkt : Nat]
    BY <1>3 DEF TypeOK
  <2> HIDE DEF ChecksFirst
  <2> QED
    BY <1>2, <2>1, <2>2
<1>8. /\ Place(t)' = Place(t) /\ Held(t)' = Held(t) /\ InHand(t)' = InHand(t)
      /\ Held(t) = 1 /\ InHand(t)
  BY <1>1, <1>2, <1>5, <1>6, <1>7 DEF Place, Held, InHand, AtStart
<1>9. UnderWay(t)' /\ Current(t)' = Current(t) /\ Length(t)' = Length(t)
  BY <1>2, <1>3, <1>7, <1>8, StaysPut
<1>10. TypeOK'
  BY <1>2, <1>3, <1>5, <1>7 DEF TypeOK
<1>11. Length(t) = 1
  BY <1>1, <1>6, Here
<1>12. AtPlace(t)'
  BY <1>2, <1>3, <1>5, <1>6, <1>7, <1>8, <1>9, <1>11
     DEF AtPlace, ChecksFirst, AtStart, Single
<1>13. PaidAhead(t)'
  <2>1. state.skb = Len(log)
    BY <1>3, <1>8 DEF UnderWay
  <2>2. Len(log) + 0 .. Len(log) + (1 - 1) = {Len(log)}
    BY <1>3
  <2> QED
    BY <1>2, <1>5, <1>7, <1>8, <1>9, <1>11, <2>1, <2>2 DEF PaidAhead, Prepaid
<1> QED
  BY <1>1, <1>2, <1>4, <1>9, <1>10, <1>12, <1>13, StaysBusy DEF Points

\* What lies behind a call is a sequence of messages, and its packets a sequence.
LEMMA WholeType ==
    ASSUME IInv, NEW t \in Threads, Busy(t)
    PROVE  /\ Whole(t) \in Seq(Apdus) /\ PacketsOfAll(Whole(t)) \in Seq(Packet)
           /\ Append(Whole(t), Current(t)) = accepted \o SubSeq(call[t].vec, 1, Place(t))
           /\ PacketsOfAll(Append(Whole(t), Current(t)))
                = PacketsOfAll(Whole(t)) \o PacketsOf(Current(t))
<1> DEFINE v == call[t].vec
           k == Place(t)
           S == SubSeq(v, 1, k - 1)
<1>1. /\ v \in Seq(Apdus) /\ Len(v) \in Nat /\ k \in 1 .. Len(v)
      /\ Current(t) = v[k] /\ Current(t) \in Apdus /\ accepted \in Seq(Apdus)
  BY Here DEF IInv, TypeOK
<1> HIDE DEF v, k
<1>2. k - 1 \in Nat /\ k - 1 < Len(v) /\ (k - 1) + 1 = k
  BY <1>1
<1>3. S \in Seq(Apdus) /\ SubSeq(v, 1, k) = Append(S, v[k])
  BY <1>1, <1>2, PrefixMore
<1>4. Whole(t) = accepted \o S
  BY DEF Whole, v, k
<1> HIDE DEF S
<1>5. Whole(t) \in Seq(Apdus)
  BY <1>1, <1>3, <1>4, ConcatProperties
<1>6. Append(Whole(t), Current(t)) = accepted \o Append(S, Current(t))
  BY <1>1, <1>3, <1>4, AppendConcat
<1>7. Append(Whole(t), Current(t)) = accepted \o SubSeq(v, 1, k)
  BY <1>1, <1>3, <1>4, <1>6
<1> QED
  BY <1>1, <1>5, <1>7, PacketsOfAllMore DEF v, k

\* A call with a packet in the window gives up and notes it.
LEMMA GivesUpInHand ==
    ASSUME IInv, NEW t \in Threads, Busy(t), InHand(t),
           pc[t] = "late" => ~state'.limited, GiveUp(t), again' = TRUE,
           nonblocking \/ pgmcc, paid \subseteq paid',
           state' = state \/ state' = [state EXCEPT !.limited = FALSE]
    PROVE  IInv'
<1>1. /\ UNCHANGED <<nonblocking, pgmcc, log, sent, call, accepted>>
      /\ Goto(t, "blocked")
      /\ restless' = (restless /\ ~progress) /\ progress' = FALSE
  BY DEF GiveUp
<1>2. /\ TypeOK /\ AtPlace(t) /\ UnderWay(t) /\ PaidAhead(t) /\ PaidBeforeSent
      /\ Len(log) \in Nat
  BY InCall
<1>3. PaidBeforeSent'
  BY <1>1, <1>2 DEF PaidBeforeSent
<1>4. pc'[t] = "blocked" /\ pc' \in [Threads -> Points]
  BY <1>1, <1>2 DEF TypeOK, Goto, Points
<1>5. /\ state'.skb = state.skb /\ state'.offset = state.offset
      /\ state'.index = state.index /\ state'.pkt = state.pkt
      /\ state'.limited => state.limited
      /\ state' \in [skb : 0 .. Len(log), limited : BOOLEAN, offset : Nat, index : Nat,
                     pkt : Nat]
  BY <1>2 DEF TypeOK
<1>6. ~AtStart(t) /\ ~AtStart(t)' /\ pc[t] # "add"
  BY <1>4 DEF InHand, AtStart
<1>7. Place(t)' = Place(t) /\ InHand(t)' /\ InHand(t)' = InHand(t)
  BY <1>1, <1>4, <1>5 DEF Place, InHand
<1>8. Held(t)' = Held(t)
  BY <1>1, <1>4, <1>5, <1>6, <1>7 DEF Held
<1>9. UnderWay(t)' /\ Current(t)' = Current(t) /\ Length(t)' = Length(t)
  BY <1>1, <1>2, <1>5, <1>7, <1>8, StaysPut
<1>10. TypeOK'
  <2>1. again' \in BOOLEAN /\ restless' \in BOOLEAN /\ progress' \in BOOLEAN
    BY <1>1
  <2> QED
    BY <1>1, <1>2, <1>4, <1>5, <2>1 DEF TypeOK
<1>11. AtPlace(t)'
  BY <1>1, <1>2, <1>4, <1>5, <1>6, <1>7, <1>8, <1>9 DEF AtPlace, ChecksFirst
<1>12. PaidAhead(t)'
  <2>1. Prepaid(t)' => Prepaid(t)
    BY <1>4, <1>5 DEF Prepaid
  <2> QED
    BY <1>1, <1>2, <1>7, <1>8, <1>9, <2>1 DEF PaidAhead
<1> QED
  BY <1>1, <1>3, <1>9, <1>10, <1>11, <1>12, StaysBusy DEF Points

\* The buckets refuse a single packet that is in the window already.
LEMMA LateRefusesInv ==
    ASSUME IInv, NEW t \in Threads, LateRefuses(t)
    PROVE  IInv'
<1>1. /\ pc[t] = "late" /\ Busy(t) /\ InHand(t) /\ nonblocking
      /\ GiveUp(t) /\ again' = TRUE /\ paid' = paid
      /\ state' = [state EXCEPT !.limited = FALSE]
  BY DEF LateRefuses, ChecksFirst, Busy, InHand
<1>2. ~state'.limited
  BY <1>1, InCall
<1> QED
  BY <1>1, <1>2, GivesUpInHand

\* The congestion window is closed.
LEMMA CongestedInv ==
    ASSUME IInv, NEW t \in Threads, Congested(t)
    PROVE  IInv'
<1>1. /\ pc[t] # "late" /\ Busy(t) /\ InHand(t) /\ pgmcc
      /\ GiveUp(t) /\ again' = TRUE /\ paid' = paid /\ state' = state
  BY DEF Congested, Busy, InHand
<1> QED
  BY <1>1, GivesUpInHand

\* The buckets or the kernel refuse a packet.
LEMMA SendRefusedInv ==
    ASSUME IInv, NEW t \in Threads, SendRefused(t)
    PROVE  IInv'
<1>1. /\ pc[t] # "late" /\ Busy(t) /\ InHand(t) /\ nonblocking
      /\ GiveUp(t) /\ again' = TRUE /\ paid \subseteq paid' /\ state' = state
  BY DEF SendRefused, Busy, InHand
<1> QED
  BY <1>1, GivesUpInHand

\* A packet is made and added to the window.
LEMMA AddPacketInv ==
    ASSUME IInv, NEW t \in Threads, AddPacket(t)
    PROVE  IInv'
<1> DEFINE n == Held(t)
           p == IF call[t].op \in Single THEN "late" ELSE "send"
           new == [apdu |-> Current(t), piece |-> n, offset |-> n]
<1>1. pc[t] = "add" /\ Busy(t)
  BY DEF AddPacket, Busy
<1>2. /\ TypeOK /\ AtPlace(t) /\ UnderWay(t) /\ PaidAhead(t) /\ PaidBeforeSent
      /\ Len(log) \in Nat /\ state.offset \in Nat
  BY <1>1, InCall
<1>3. ~InHand(t) /\ ~AtStart(t)
  BY <1>1 DEF InHand, AtStart
<1>4. n = IF call[t].op \in Single THEN 0 ELSE state.offset
  BY <1>1, <1>3 DEF Held
<1>5. n \in Nat /\ n < Length(t) /\ Length(t) \in Nat /\ Current(t) \in Apdus
  BY <1>1, <1>2, Here DEF AtPlace
<1>6. (IF call[t].op = "skbv" THEN state.index
       ELSE IF call[t].op \in Single THEN 0 ELSE state.offset) = n
  BY <1>1, <1>2, <1>4 DEF AtPlace, Single
<1>7. /\ UNCHANGED <<nonblocking, pgmcc, again, sent, paid, parity, restless, call,
                     progress, accepted>>
      /\ Goto(t, p) /\ log' = Append(log, new)
      /\ state' = [state EXCEPT !.skb = Len(log) + 1]
  BY <1>4, <1>6 DEF AddPacket
<1>8. pc'[t] = p /\ pc' \in [Threads -> Points] /\ p \in {"late", "send"}
  BY <1>2, <1>7 DEF TypeOK, Goto, Points
<1>9. /\ log \in Seq(Packet) /\ new \in Packet
      /\ log' \in Seq(Packet) /\ Len(log') = Len(log) + 1
  <2>1. log \in Seq(Packet) /\ new \in Packet
    BY <1>2, <1>5 DEF TypeOK, Packet
  <2> HIDE DEF new
  <2> QED
    BY <1>7, <2>1, AppendProperties
<1> HIDE DEF n, new
<1>10. /\ state'.skb = Len(log') /\ state'.offset = state.offset
       /\ state'.index = state.index /\ state'.pkt = state.pkt
       /\ state'.limited = state.limited
       /\ state' \in [skb : 0 .. Len(log'), limited : BOOLEAN, offset : Nat,
                      index : Nat, pkt : Nat]
  <2>1. state \in [skb : 0 .. Len(log), limited : BOOLEAN, offset : Nat, index : Nat,
                   pkt : Nat]
    BY <1>2 DEF TypeOK
  <2>2. Len(log) + 1 \in 0 .. Len(log')
    BY <1>2, <1>9
  <2> QED
    BY <1>7, <1>9, <2>1, <2>2
<1>11. Place(t)' = Place(t) /\ InHand(t)' /\ ~AtStart(t)' /\ pc'[t] # "add"
  BY <1>7, <1>8, <1>10 DEF Place, InHand, AtStart
<1>12. Held(t)' = n + 1
  BY <1>4, <1>7, <1>10, <1>11 DEF Held
<1>13. /\ Current(t)' = Current(t) /\ Length(t)' = Length(t)
       /\ PacketsOfAll(Whole(t))' = PacketsOfAll(Whole(t))
       /\ PacketsOf(Current(t))' = PacketsOf(Current(t))
  <2>1. Current(t)' = Current(t)
    BY <1>7, <1>11 DEF Current, Place
  <2>2. Whole(t)' = Whole(t)
    BY <1>7, <1>11 DEF Whole
  <2> QED
    BY <2>1, <2>2 DEF Length, PacketsOfAll, PacketsOf
<1>14. UnderWay(t)'
  <2> DEFINE B == PacketsOfAll(Whole(t))
             P == PacketsOf(Current(t))
  <2>1. P \in Seq(Packet) /\ Len(P) = Length(t) /\ P[n + 1] = new
    <3>1. n \in 0 .. Length(t) - 1
      BY <1>5
    <3> QED
      BY <1>5, <3>1, PacketsOfType DEF Length, new
  <2>2. B \in Seq(Packet)
    BY <1>1, WholeType
  <2>3. log = B \o SubSeq(P, 1, n)
    BY <1>2 DEF UnderWay, n
  <2> HIDE DEF B, P
  <2>4. SubSeq(P, 1, n) \in Seq(Packet) /\ SubSeq(P, 1, n + 1) = Append(SubSeq(P, 1, n), new)
    BY <1>5, <2>1, PrefixMore
  <2>5. log' = B \o SubSeq(P, 1, n + 1)
    <3> DEFINE S == SubSeq(P, 1, n)
    <3>1. S \in Seq(Packet)
      BY <2>4
    <3> HIDE DEF S
    <3>2. log = B \o S
      BY <2>3 DEF S
    <3>3. Append(log, new) = B \o Append(S, new)
      <4> DEFINE one == <<new>>
      <4>1. one \in Seq(Packet)
        BY <1>9
      <4>2. Append(log, new) = log \o one /\ Append(S, new) = S \o one
        BY <1>9, <3>1, AppendIsConcat
      <4> HIDE DEF one
      <4>3. (B \o S) \o one = B \o (S \o one)
        BY <2>2, <3>1, <4>1, ConcatAssociative
      <4> QED
        BY <3>2, <4>2, <4>3, Zenon
    <3> QED
      BY <1>7, <2>4, <3>3 DEF S
  <2>6. sent' = 1 .. Len(log') \ {Len(log')}
    <3>1. sent = 1 .. Len(log)
      BY <1>2, <1>3 DEF UnderWay
    <3> QED
      BY <1>2, <1>7, <1>9, <3>1
  <2>7. log' = B' \o SubSeq(P', 1, Held(t)')
    BY <1>12, <1>13, <2>5 DEF B, P
  <2>8. state'.skb = Len(log') /\ state'.skb # 0
    BY <1>2, <1>8, <1>9, <1>10
  <2> QED
    BY <1>10, <1>11, <2>6, <2>7, <2>8 DEF UnderWay, B, P
<1>15. TypeOK'
  <2>1. sent' \subseteq 1 .. Len(log')
    BY <1>2, <1>7, <1>9 DEF TypeOK
  <2> QED
    BY <1>2, <1>7, <1>8, <1>9, <1>10, <2>1 DEF TypeOK, Packet
<1>16. AtPlace(t)'
  BY <1>1, <1>2, <1>5, <1>7, <1>8, <1>10, <1>11, <1>12, <1>13 DEF AtPlace, ChecksFirst
<1>17. PaidAhead(t)'
  <2>1. Prepaid(t)' => Prepaid(t)
    BY <1>1, <1>7, <1>8, <1>10 DEF Prepaid
  <2>2. /\ Len(log') + 0 = Len(log) + 1
        /\ Len(log') + (Length(t) - (n + 1)) = Len(log) + (Length(t) - n)
    BY <1>2, <1>5, <1>9
  <2> QED
    BY <1>2, <1>3, <1>7, <1>11, <1>12, <1>13, <2>1, <2>2 DEF PaidAhead, n
<1>18. PaidBeforeSent'
  BY <1>2, <1>7 DEF PaidBeforeSent
<1> QED
  <2> p \in Points /\ p # "idle" /\ p # "blocked"
    BY <1>8 DEF Points
  <2> HIDE DEF p
  <2> QED
    BY <1>1, <1>7, <1>14, <1>15, <1>16, <1>17, <1>18, StaysBusy

\* A packet goes to the network.
LEMMA SendInv ==
    ASSUME IInv, NEW t \in Threads, NEW ok \in BOOLEAN, Send(t, ok)
    PROVE  IInv'
<1> DEFINE n == Held(t)
           single == call[t].op \in Single
           p == IF ~single /\ n < Length(t) THEN "add" ELSE "done"
<1>1. pc[t] = "send" /\ Busy(t) /\ InHand(t) /\ ~AtStart(t)
  BY DEF Send, Busy, InHand, AtStart
<1>2. /\ TypeOK /\ AtPlace(t) /\ UnderWay(t) /\ PaidAhead(t) /\ PaidBeforeSent
      /\ Len(log) \in Nat /\ state.offset \in Nat /\ state.index \in Nat
  BY <1>1, InCall
<1>3. n \in 1 .. Length(t) /\ Length(t) \in Nat /\ (single => Length(t) = 1)
  BY <1>1, <1>2, Here DEF Held
<1>4. n = IF single THEN 1 ELSE state.offset + 1
  BY <1>1 DEF Held
<1>5. ~single => state.index = state.offset
  BY <1>1, <1>2 DEF AtPlace
<1>6. state.skb = Len(log)
  BY <1>1, <1>2 DEF UnderWay
<1>7. /\ UNCHANGED <<nonblocking, pgmcc, again, log, call, accepted>>
      /\ sent' = sent \cup {Len(log)}
      /\ paid' = paid \cup (IF state.limited THEN {} ELSE {Len(log)})
      /\ restless' = (restless \/ ok) /\ progress' = (progress \/ ok)
      /\ state' = IF single THEN state
                  ELSE [state EXCEPT !.offset = @ + 1, !.index = @ + 1]
      /\ Goto(t, p)
  <2>1. /\ UNCHANGED <<nonblocking, pgmcc, again, log, call, accepted>>
        /\ sent' = sent \cup {Len(log)}
        /\ paid' = paid \cup (IF state.limited THEN {} ELSE {Len(log)})
        /\ restless' = (restless \/ ok) /\ progress' = (progress \/ ok)
    BY <1>6 DEF Send
  <2>2. CASE single
    <3>1. Goto(t, "done") /\ state' = state
      BY <2>2 DEF Send
    <3> QED
      BY <2>1, <2>2, <3>1
  <2>3. CASE ~single
    <3>1. /\ state' = [state EXCEPT !.offset = @ + 1, !.index = @ + 1]
          /\ Goto(t, IF (IF call[t].op = "skbv" THEN state.index ELSE state.offset) + 1
                          < Length(t) THEN "add" ELSE "done")
      BY <2>3, Zenon DEF Send
    <3>2. (IF call[t].op = "skbv" THEN state.index ELSE state.offset) + 1 = n
      BY <1>4, <1>5, <2>3
    <3> QED
      BY <2>1, <2>3, <3>1, <3>2, Zenon
  <2> QED
    BY <2>2, <2>3
<1>8. pc'[t] = p /\ pc' \in [Threads -> Points] /\ p \in {"add", "done"}
  BY <1>2, <1>7 DEF TypeOK, Goto, Points
<1>9. /\ state'.skb = state.skb /\ state'.limited = state.limited
      /\ state'.pkt = state.pkt
      /\ ~single => state'.offset = n /\ state'.index = n
      /\ state' \in [skb : 0 .. Len(log), limited : BOOLEAN, offset : Nat, index : Nat,
                     pkt : Nat]
  <2>1. state \in [skb : 0 .. Len(log), limited : BOOLEAN, offset : Nat, index : Nat,
                   pkt : Nat]
    BY <1>2 DEF TypeOK
  <2>2. CASE single
    BY <1>7, <2>1, <2>2
  <2>3. CASE ~single
    <3>1. state' = [state EXCEPT !.offset = state.offset + 1, !.index = state.index + 1]
      BY <1>7, <2>3
    <3>2. n = state.offset + 1 /\ n = state.index + 1 /\ n \in Nat
      BY <1>2, <1>4, <1>5, <2>3
    <3> HIDE DEF n
    <3> QED
      BY <2>1, <3>1, <3>2
  <2> QED
    BY <2>2, <2>3
<1> HIDE DEF n
<1>10. Place(t)' = Place(t) /\ ~InHand(t)' /\ ~AtStart(t)'
  BY <1>7, <1>8, <1>9 DEF Place, InHand, AtStart
<1>11. Held(t)' = n
  BY <1>4, <1>7, <1>8, <1>9, <1>10 DEF Held
<1>12. /\ Current(t)' = Current(t) /\ Length(t)' = Length(t)
       /\ PacketsOfAll(Whole(t))' = PacketsOfAll(Whole(t))
       /\ PacketsOf(Current(t))' = PacketsOf(Current(t))
  <2>1. Current(t)' = Current(t)
    BY <1>7, <1>10 DEF Current, Place
  <2>2. Whole(t)' = Whole(t)
    BY <1>7, <1>10 DEF Whole
  <2> QED
    BY <2>1, <2>2 DEF Length, PacketsOfAll, PacketsOf
<1>13. Len(log) # 0
  <2>1. sent = 1 .. Len(log) \ {Len(log)}
    BY <1>1, <1>2 DEF UnderWay
  <2> DEFINE B == PacketsOfAll(Whole(t))
             P == PacketsOf(Current(t))
  <2>2. B \in Seq(Packet) /\ log = B \o SubSeq(P, 1, n)
    BY <1>1, <1>2, WholeType DEF UnderWay, n
  <2>3. P \in Seq(Packet) /\ Len(P) = Length(t)
    BY <1>1, Here, PacketsOfType DEF Length
  <2> HIDE DEF B, P
  <2>4. SubSeq(P, 1, n) \in Seq(Packet) /\ Len(SubSeq(P, 1, n)) = n
    BY <1>3, <2>3
  <2>5. Len(log) = Len(B) + n /\ Len(B) \in Nat
    <3> DEFINE S == SubSeq(P, 1, n)
    <3>1. S \in Seq(Packet) /\ Len(S) = n
      BY <2>4
    <3> HIDE DEF S
    <3>2. log = B \o S
      BY <2>2 DEF S
    <3> QED
      BY <2>2, <3>1, <3>2, ConcatProperties, LenProperties
  <2> QED
    BY <1>3, <2>5
<1>14. UnderWay(t)'
  <2>1. sent' = 1 .. Len(log)
    <3>1. sent = 1 .. Len(log) \ {Len(log)}
      BY <1>1, <1>2 DEF UnderWay
    <3> QED
      BY <1>2, <1>7, <1>13, <3>1
  <2>2. log = PacketsOfAll(Whole(t)) \o SubSeq(PacketsOf(Current(t)), 1, n)
    BY <1>2 DEF UnderWay, n
  <2>3. log' = PacketsOfAll(Whole(t))' \o SubSeq(PacketsOf(Current(t))', 1, Held(t)')
    BY <1>7, <1>11, <1>12, <2>2, Zenon
  <2> QED
    BY <1>7, <1>10, <2>1, <2>3 DEF UnderWay
<1>15. TypeOK'
  <2>1. sent' \subseteq 1 .. Len(log) /\ restless' \in BOOLEAN /\ progress' \in BOOLEAN
    BY <1>2, <1>7, <1>13 DEF TypeOK
  <2> QED
    BY <1>2, <1>7, <1>8, <1>9, <2>1 DEF TypeOK
<1>16. AtPlace(t)'
  <2>1. pc'[t] = "add" => ~single /\ n < Length(t)
    BY <1>8
  <2>2. pc'[t] = "done" => n = Length(t)
    BY <1>3, <1>4, <1>8
  <2> HIDE DEF p
  <2> QED
    BY <1>2, <1>3, <1>7, <1>8, <1>9, <1>10, <1>11, <1>12, <2>1, <2>2
       DEF AtPlace, ChecksFirst
<1>17. PaidAhead(t)'
  <2>1. Prepaid(t)' => Prepaid(t)
    BY <1>1, <1>9, <1>10 DEF Prepaid
  <2>2. Prepaid(t) => (Len(log) .. (Len(log) + (Length(t) - n))) \subseteq paid
    <3>1. Len(log) + 0 = Len(log)
      BY <1>2
    <3> QED
      BY <1>1, <1>2, <3>1 DEF PaidAhead, n
  <2>3. Prepaid(t) => ((Len(log) + 1) .. (Len(log) + (Length(t) - n))) \subseteq paid'
    BY <1>2, <1>3, <1>7, <2>2
  <2> QED
    BY <1>7, <1>10, <1>11, <1>12, <2>1, <2>3 DEF PaidAhead
<1>18. PaidBeforeSent'
  <2>1. state.limited => Len(log) \in paid
    <3>1. state.limited => Prepaid(t)
      BY <1>1 DEF Prepaid
    <3>2. Len(log) \in Len(log) + 0 .. Len(log) + (Length(t) - n)
      BY <1>2, <1>3
    <3> QED
      BY <1>1, <1>2, <3>1, <3>2 DEF PaidAhead, n
  <2> QED
    BY <1>2, <1>7, <2>1 DEF PaidBeforeSent
<1> QED
  <2> p \in Points /\ p # "idle" /\ p # "blocked"
    BY <1>8 DEF Points
  <2> HIDE DEF p
  <2> QED
    BY <1>1, <1>7, <1>14, <1>15, <1>16, <1>17, <1>18, StaysBusy

\* What a completed message leaves in the window, and with the network.
LEMMA Completed ==
    ASSUME IInv, NEW t \in Threads, pc[t] = "done"
    PROVE  /\ log = PacketsOfAll(Append(Whole(t), Current(t)))
           /\ sent = 1 .. Len(log) /\ ~InHand(t) /\ ~AtStart(t)
<1>1. Busy(t) /\ ~InHand(t) /\ ~AtStart(t)
  BY DEF Busy, InHand, AtStart
<1>2. AtPlace(t) /\ UnderWay(t)
  BY <1>1, InCall
<1>3. Held(t) = Length(t)
  BY <1>2 DEF AtPlace
<1> DEFINE P == PacketsOf(Current(t))
<1>4. P \in Seq(Packet) /\ Len(P) = Length(t)
  BY <1>1, Here, PacketsOfType DEF Length
<1>5. SubSeq(P, 1, Len(P)) = P
  <2> HIDE DEF P
  <2> QED
    BY <1>4, PrefixEnds
<1>6. log = PacketsOfAll(Whole(t)) \o P
  <2>1. log = PacketsOfAll(Whole(t)) \o SubSeq(P, 1, Held(t))
    BY <1>2 DEF UnderWay
  <2> HIDE DEF P
  <2>2. SubSeq(P, 1, Held(t)) = P
    BY <1>3, <1>4, <1>5
  <2> QED
    BY <2>1, <2>2, Zenon
<1>7. log = PacketsOfAll(Append(Whole(t), Current(t)))
  BY <1>1, <1>6, WholeType
<1>8. sent = 1 .. Len(log)
  BY <1>1, <1>2 DEF UnderWay
<1> QED
  BY <1>1, <1>7, <1>8

\* A sequence of packets, and nothing of the next message.
LEMMA NothingOf ==
    ASSUME NEW q \in Seq(Apdus), NEW a \in Apdus
    PROVE  PacketsOfAll(q) \o SubSeq(PacketsOf(a), 1, 0) = PacketsOfAll(q)
<1> DEFINE P == PacketsOf(a)
           B == PacketsOfAll(q)
<1>1. P \in Seq(Packet) /\ B \in Seq(Packet)
  BY PacketsOfType, PacketsOfAllMore
<1> HIDE DEF P, B
<1>2. SubSeq(P, 1, 0) = <<>> /\ B \o <<>> = B
  BY <1>1, PrefixEnds
<1>3. B \o SubSeq(P, 1, 0) = B
  BY <1>2
<1> QED
  BY <1>3 DEF P, B

\* A message is complete and its vector has another.
LEMMA DoneMoreInv ==
    ASSUME IInv, NEW t \in Threads, Done(t),
           call[t].op = "vector", state.pkt < Len(call[t].vec)
    PROVE  IInv'
<1>1. pc[t] = "done" /\ Busy(t)
  BY DEF Done, Busy
<1>2. /\ UNCHANGED <<nonblocking, pgmcc, log, sent, paid, parity, call, accepted>>
      /\ again' = FALSE /\ restless' = FALSE /\ progress' = FALSE
      /\ state' = [state EXCEPT !.pkt = @ + 1] /\ Goto(t, "check")
  BY DEF Done
<1>3. /\ TypeOK /\ AtPlace(t) /\ PaidBeforeSent
      /\ Len(log) \in Nat /\ state.pkt \in Nat
  BY <1>1, InCall
<1>4. pc'[t] = "check" /\ pc' \in [Threads -> Points]
  BY <1>2, <1>3 DEF TypeOK, Goto, Points
<1>5. /\ state'.pkt = state.pkt + 1
      /\ state' \in [skb : 0 .. Len(log), limited : BOOLEAN, offset : Nat, index : Nat,
                     pkt : Nat]
      /\ call[t].op = "skbv" => state'.offset = 0
  <2>1. state \in [skb : 0 .. Len(log), limited : BOOLEAN, offset : Nat, index : Nat,
                   pkt : Nat]
    BY <1>3 DEF TypeOK
  <2> QED
    BY <1>2, <1>3, <2>1
<1>6. ~InHand(t)' /\ AtStart(t)' /\ Held(t)' = 0 /\ ~Prepaid(t)'
  BY <1>4 DEF InHand, AtStart, Held, Prepaid
<1>7. Place(t) = state.pkt /\ Place(t)' = state.pkt + 1
  BY <1>2, <1>5 DEF Place
<1>8. /\ call[t].vec \in Seq(Apdus) /\ Len(call[t].vec) \in Nat
      /\ Place(t) \in 1 .. Len(call[t].vec)
  BY <1>1, Here
<1>9. Place(t)' \in 1 .. Len(call[t].vec)
  BY <1>7, <1>8
<1>10. Current(t)' \in Apdus /\ Length(t)' \in Nat \ {0}
  <2>1. Current(t)' = call[t].vec[Place(t)']
    BY <1>2 DEF Current, Place
  <2>2. Current(t)' \in Apdus
    BY <1>8, <1>9, <2>1, ElementOfSeq
  <2> QED
    BY <2>2, PacketsOfType DEF Length
<1>11. Whole(t)' = Append(Whole(t), Current(t))
  <2>1. Whole(t)' = accepted \o SubSeq(call[t].vec, 1, Place(t))
    <3>1. Place(t)' - 1 = Place(t)
      BY <1>3, <1>7
    <3> QED
      BY <1>2, <3>1 DEF Whole
  <2> QED
    BY <1>1, <2>1, WholeType
<1>12. UnderWay(t)'
  <2>1. log = PacketsOfAll(Append(Whole(t), Current(t))) /\ sent = 1 .. Len(log)
    BY <1>1, Completed
  <2>2. Append(Whole(t), Current(t)) \in Seq(Apdus)
    BY <1>1, WholeType, Here, AppendProperties
  <2> DEFINE W == Append(Whole(t), Current(t))
             a == Current(t)'
  <2>3. PacketsOfAll(W) \o SubSeq(PacketsOf(a), 1, 0) = PacketsOfAll(W)
    <3>1. W \in Seq(Apdus) /\ a \in Apdus
      BY <1>10, <2>2
    <3> HIDE DEF W, a
    <3> QED
      BY <3>1, NothingOf
  <2>4. PacketsOfAll(Whole(t))' = PacketsOfAll(W) /\ PacketsOf(Current(t))' = PacketsOf(a)
    BY <1>11 DEF PacketsOfAll, PacketsOf
  <2>5. log' = PacketsOfAll(Whole(t))' \o SubSeq(PacketsOf(Current(t))', 1, Held(t)')
    <3> HIDE DEF W, a
    <3>1. log = PacketsOfAll(W)
      BY <2>1 DEF W
    <3> QED
      BY <1>2, <1>6, <2>3, <2>4, <3>1, Zenon
  <2>6. sent' = 1 .. Len(log')
    BY <1>2, <2>1
  <2> QED
    BY <1>6, <2>5, <2>6 DEF UnderWay
<1>13. TypeOK'
  BY <1>2, <1>3, <1>4, <1>5 DEF TypeOK
<1>14. AtPlace(t)'
  <2>1. ~ChecksFirst'
    BY <1>2, <1>3 DEF AtPlace, ChecksFirst
  <2>2. call'[t].op \notin Single
    BY <1>2 DEF Single
  <2> QED
    BY <1>2, <1>4, <1>5, <1>6, <1>9, <1>10, <2>1, <2>2 DEF AtPlace
<1>15. PaidAhead(t)'
  BY <1>6 DEF PaidAhead
<1>16. PaidBeforeSent'
  BY <1>2, <1>3 DEF PaidBeforeSent
<1> QED
  BY <1>1, <1>2, <1>12, <1>13, <1>14, <1>15, <1>16, StaysBusy DEF Points

\* A call returns PGM_IO_STATUS_NORMAL.
LEMMA DoneLastInv ==
    ASSUME IInv, NEW t \in Threads, Done(t),
           ~(call[t].op = "vector" /\ state.pkt < Len(call[t].vec))
    PROVE  IInv'
<1>1. pc[t] = "done" /\ Busy(t)
  BY DEF Done, Busy
<1>2. /\ UNCHANGED <<nonblocking, pgmcc, log, sent, paid, parity, state>>
      /\ again' = FALSE /\ restless' = FALSE /\ progress' = FALSE
      /\ Goto(t, "idle") /\ call' = [call EXCEPT ![t] = NoCall]
      /\ accepted' = accepted \o call[t].vec
  BY DEF Done
<1>3. /\ TypeOK /\ PaidBeforeSent /\ pc \in [Threads -> Points]
      /\ call \in [Threads -> Calls \cup {NoCall}] /\ accepted \in Seq(Apdus)
  BY <1>1, InCall DEF TypeOK
<1>4. /\ pc' \in [Threads -> Points] /\ call' \in [Threads -> Calls \cup {NoCall}]
      /\ \A u \in Threads : u # t => pc'[u] = pc[u] /\ call'[u] = call[u]
      /\ pc'[t] = "idle" /\ call'[t] = NoCall
  BY <1>2, <1>3 DEF Goto, Points
<1>5. \A u \in Threads : pc'[u] = "idle" /\ call'[u] = NoCall
  <2>1. \A u \in Threads : u # t => pc[u] = "idle" /\ call[u] = NoCall
    BY <1>1, Here DEF Busy, IInv, OneCaller
  <2> QED
    BY <1>4, <2>1
<1>6. /\ call[t].vec \in Seq(Apdus) /\ Len(call[t].vec) \in Nat \ {0}
      /\ call[t].op # "vector" => Len(call[t].vec) = 1
      /\ Place(t) \in 1 .. Len(call[t].vec)
  BY <1>1, Here
<1>7. Place(t) = Len(call[t].vec)
  <2>1. CASE call[t].op = "vector"
    <3>1. Place(t) = state.pkt /\ ~(state.pkt < Len(call[t].vec))
      BY <2>1 DEF Place
    <3> QED
      BY <1>6, <3>1
  <2>2. CASE call[t].op # "vector"
    BY <1>6, <2>2 DEF Place
  <2> QED
    BY <2>1, <2>2
<1>8. accepted' = Append(Whole(t), Current(t))
  <2> DEFINE v == call[t].vec
  <2>1. SubSeq(v, 1, Len(v)) = v
    <3>1. v \in Seq(Apdus)
      BY <1>6
    <3> HIDE DEF v
    <3> QED
      BY <3>1, PrefixEnds
  <2>2. Append(Whole(t), Current(t)) = accepted \o SubSeq(v, 1, Len(v))
    BY <1>1, <1>7, WholeType
  <2>3. accepted' = accepted \o v
    BY <1>2
  <2> HIDE DEF v
  <2> QED
    BY <2>1, <2>2, <2>3, Zenon
<1>9. OneCaller'
  BY <1>5 DEF OneCaller, Busy
<1>10. Resting'
  <2>1. log = PacketsOfAll(Append(Whole(t), Current(t))) /\ sent = 1 .. Len(log)
    BY <1>1, Completed
  <2>2. PacketsOfAll(accepted)' = PacketsOfAll(Append(Whole(t), Current(t)))
    BY <1>8 DEF PacketsOfAll, PacketsOf
  <2> QED
    BY <1>2, <2>1, <2>2 DEF Resting
<1>11. accepted' \in Seq(Apdus)
  BY <1>2, <1>3, <1>6, ConcatProperties
<1>12. TypeOK'
  BY <1>2, <1>3, <1>4, <1>11 DEF TypeOK
<1>13. \A u \in Threads : ~Busy(u)'
  BY <1>5 DEF Busy
<1>14. PaidBeforeSent'
  BY <1>2, <1>3 DEF PaidBeforeSent
<1> QED
  BY <1>9, <1>10, <1>12, <1>13, <1>14 DEF IInv

\* A new call.
LEMMA BeginInv ==
    ASSUME IInv, Careful, NEW t \in Threads, NEW c \in Calls, Begin(t, c)
    PROVE  IInv'
<1> DEFINE p == IF c.op \in Single THEN "add" ELSE "check"
<1>1. /\ Outside /\ pc[t] = "idle" /\ ~Avoided(c)
      /\ nonblocking \/ pgmcc => \A s \in Threads : pc[s] = "idle"
      /\ call' = [call EXCEPT ![t] = c] /\ Enter(t, c)
      /\ UNCHANGED <<nonblocking, pgmcc, again, log, sent, paid, parity, restless,
                     progress, accepted>>
  BY DEF Begin
<1>2. \A u \in Threads : ~Busy(u) /\ pc[u] = "idle"
  <2>1. \A u \in Threads : pc[u] = "blocked" => nonblocking \/ pgmcc
    BY DEF IInv, OneCaller
  <2> QED
    BY <1>1, <2>1 DEF Outside, Busy
<1>3. ~again /\ log = PacketsOfAll(accepted) /\ sent = 1 .. Len(log)
  BY <1>2 DEF IInv, Resting
<1>4. /\ TypeOK /\ OneCaller /\ PaidBeforeSent
      /\ pc \in [Threads -> Points] /\ call \in [Threads -> Calls \cup {NoCall}]
      /\ accepted \in Seq(Apdus)
  BY DEF IInv, TypeOK
<1>5. Goto(t, p) /\ state' = [state EXCEPT !.pkt = 1]
  BY <1>1, <1>3 DEF Enter
<1>6. /\ pc' \in [Threads -> Points] /\ call' \in [Threads -> Calls \cup {NoCall}]
      /\ pc'[t] = p /\ call'[t] = c
      /\ \A u \in Threads \ {t} : pc'[u] = pc[u] /\ call'[u] = call[u]
  BY <1>1, <1>4, <1>5 DEF Goto, Points
<1>7. /\ c.op \in Ops /\ c # NoCall
      /\ c.vec \in Seq(Apdus) /\ Len(c.vec) \in Nat \ {0}
      /\ c.op # "vector" => Len(c.vec) = 1
  BY CallsType
<1>8. /\ state'.pkt = 1 /\ state'.offset = state.offset
      /\ state' \in [skb : 0 .. Len(log), limited : BOOLEAN, offset : Nat, index : Nat,
                     pkt : Nat]
  <2>1. state \in [skb : 0 .. Len(log), limited : BOOLEAN, offset : Nat, index : Nat,
                   pkt : Nat]
    BY <1>4 DEF TypeOK
  <2> QED
    BY <1>5, <2>1
<1>9. /\ p \in {"add", "check"} /\ (p = "add" <=> c.op \in Single)
      /\ Place(t)' = 1 /\ ~InHand(t)' /\ ~Prepaid(t)'
  BY <1>6, <1>8 DEF Place, InHand, Prepaid
<1>10. Held(t)' = 0
  BY <1>6, <1>9 DEF Held, AtStart
<1>11. Current(t)' \in Apdus /\ Length(t)' \in Nat \ {0}
  <2>1. Current(t)' = c.vec[1]
    BY <1>6, <1>9 DEF Current, Place
  <2>2. Current(t)' \in Apdus
    BY <1>7, <2>1, ElementOfSeq
  <2> QED
    BY <2>2, PacketsOfType DEF Length
<1>12. TypeOK'
  BY <1>1, <1>4, <1>6, <1>8 DEF TypeOK
<1>13. OneCaller'
  <2>1. \A u \in Threads : Busy(u)' => u = t
    BY <1>2, <1>6 DEF Busy
  <2>2. pc'[t] # "blocked" /\ pc'[t] # "idle"
    BY <1>6, <1>9
  <2>3. \A u \in Threads : pc'[u] # "blocked"
    BY <1>2, <1>6, <2>2
  <2>4. \A u \in Threads : call'[u] = NoCall <=> pc'[u] = "idle"
    <3>1. \A u \in Threads : u # t => call'[u] = NoCall /\ pc'[u] = "idle"
      BY <1>2, <1>4, <1>6 DEF OneCaller
    <3> QED
      BY <1>6, <1>7, <2>2, <3>1
  <2> QED
    BY <1>6, <2>1, <2>3, <2>4 DEF OneCaller
<1>14. Resting'
  BY <1>6, <1>9 DEF Resting, Busy
<1>15. AtPlace(t)'
  <2>1. 1 \in 1 .. Len(c.vec)
    BY <1>7
  <2>2. c.op = "vector" => ~ChecksFirst'
    BY <1>1 DEF Avoided, ChecksFirst
  <2>3. c.op = "skbv" => state'.offset = 0
    BY <1>1, <1>8 DEF Avoided
  <2>4. ~again' /\ call'[t].op = c.op /\ call'[t].vec = c.vec
    BY <1>1, <1>3, <1>6
  <2> HIDE DEF p
  <2> QED
    BY <1>6, <1>9, <1>10, <1>11, <2>1, <2>2, <2>3, <2>4 DEF AtPlace
<1>16. UnderWay(t)'
  <2>1. Whole(t)' = accepted
    <3>1. Whole(t)' = accepted \o SubSeq(c.vec, 1, 0)
      BY <1>1, <1>6, <1>9 DEF Whole
    <3>2. SubSeq(c.vec, 1, 0) = <<>> /\ accepted \o <<>> = accepted
      BY <1>4, <1>7, PrefixEnds
    <3>3. accepted \o SubSeq(c.vec, 1, 0) = accepted
      BY <3>2
    <3> QED
      BY <3>1, <3>3, Zenon
  <2> DEFINE a == Current(t)'
  <2>2. PacketsOfAll(accepted) \o SubSeq(PacketsOf(a), 1, 0) = PacketsOfAll(accepted)
    <3> HIDE DEF a
    <3>1. a \in Apdus
      BY <1>11 DEF a
    <3> QED
      BY <1>4, <3>1, NothingOf
  <2>3. PacketsOfAll(Whole(t))' = PacketsOfAll(accepted)
    BY <2>1 DEF PacketsOfAll, PacketsOf
  <2>4. PacketsOf(Current(t))' = PacketsOf(a)
    BY DEF PacketsOf
  <2>5. log' = PacketsOfAll(Whole(t))' \o SubSeq(PacketsOf(Current(t))', 1, Held(t)')
    <3> HIDE DEF a
    <3> QED
      BY <1>1, <1>3, <1>10, <2>2, <2>3, <2>4, Zenon
  <2>6. sent' = 1 .. Len(log')
    BY <1>1, <1>3
  <2> QED
    BY <1>9, <2>5, <2>6 DEF UnderWay
<1>17. PaidAhead(t)'
  BY <1>9 DEF PaidAhead
<1>18. PaidBeforeSent'
  BY <1>1, <1>4 DEF PaidBeforeSent
<1>19. ASSUME NEW u \in Threads, Busy(u)'
       PROVE  AtPlace(u)' /\ UnderWay(u)' /\ PaidAhead(u)'
  <2>1. u = t
    BY <1>2, <1>6, <1>19 DEF Busy
  <2> QED
    BY <1>15, <1>16, <1>17, <2>1
<1> QED
  BY <1>12, <1>13, <1>14, <1>18, <1>19 DEF IInv

-----------------------------------------------------------------------------
(* The invariant and the theorems. *)

\* It holds before the first call.
LEMMA InitInv == Init => IInv
<1> SUFFICES ASSUME Init PROVE IInv
  OBVIOUS
<1>1. \A t \in Threads : pc[t] = "idle" /\ call[t] = NoCall
  BY DEF Init
<1>2. TypeOK
  <2>1. /\ log = <<>> /\ Len(log) = 0 /\ sent = {} /\ accepted = <<>>
    BY DEF Init
  <2>2. state \in [skb : 0 .. 0, limited : BOOLEAN, offset : Nat, index : Nat, pkt : Nat]
    BY DEF Init
  <2>3. /\ log \in Seq([apdu : Apdus, piece : Nat, offset : Nat]) /\ accepted \in Seq(Apdus)
        /\ sent \subseteq 1 .. Len(log)
        /\ state \in [skb : 0 .. Len(log), limited : BOOLEAN, offset : Nat, index : Nat,
                      pkt : Nat]
    BY <2>1, <2>2
  <2>4. pc \in [Threads -> Points] /\ call \in [Threads -> Calls \cup {NoCall}]
    BY DEF Init, Points
  <2> QED
    BY <2>3, <2>4 DEF Init, TypeOK
<1>3. OneCaller
  BY <1>1 DEF OneCaller, Busy
<1>4. Resting
  <2>1. PacketsOfAll(<<>>) = <<>>
    BY FlattenNothing
  <2>2. sent = 1 .. Len(log) /\ log = <<>> /\ accepted = <<>> /\ ~again
    BY DEF Init
  <2> QED
    BY <2>1, <2>2 DEF Resting
<1>5. PaidBeforeSent
  BY DEF Init, PaidBeforeSent
<1> QED
  BY <1>1, <1>2, <1>3, <1>4, <1>5 DEF IInv, Busy

\* Every step keeps it.
LEMMA NextInv == Careful /\ IInv /\ [Next]_vars => IInv'
<1> SUFFICES ASSUME Careful, IInv, [Next]_vars PROVE IInv'
  OBVIOUS
<1>1. CASE UNCHANGED vars
  <2>1. UNCHANGED <<nonblocking, pgmcc, again, state, log, sent, paid, parity, restless,
                    call, pc, progress, accepted>>
    BY <1>1 DEF vars
  <2>2. TypeOK' /\ OneCaller' /\ PaidBeforeSent'
    BY <2>1 DEF IInv, TypeOK, OneCaller, PaidBeforeSent, Busy
  <2>3. Resting'
    <3>1. Resting
      BY DEF IInv
    <3>2. PacketsOfAll(accepted)' = PacketsOfAll(accepted)
      BY <2>1 DEF PacketsOfAll, PacketsOf
    <3> QED
      BY <2>1, <3>1, <3>2 DEF Resting, Busy
  <2>4. ASSUME NEW t \in Threads, Busy(t)'
        PROVE  AtPlace(t)' /\ UnderWay(t)' /\ PaidAhead(t)'
    <3>1. Busy(t)
      BY <2>1, <2>4 DEF Busy
    <3>2. AtPlace(t) /\ UnderWay(t) /\ PaidAhead(t)
      BY <3>1 DEF IInv
    <3>3. /\ Place(t)' = Place(t) /\ Held(t)' = Held(t) /\ InHand(t)' = InHand(t)
          /\ AtStart(t)' = AtStart(t) /\ Prepaid(t)' = Prepaid(t)
      BY <2>1 DEF Place, Held, InHand, AtStart, Prepaid
    <3>4. UnderWay(t)' /\ Length(t)' = Length(t)
      BY <2>1, <3>2, <3>3, StaysPut
    <3>5. AtPlace(t)'
      BY <2>1, <3>2, <3>3, <3>4 DEF AtPlace, ChecksFirst
    <3>6. PaidAhead(t)'
      BY <2>1, <3>2, <3>3, <3>4 DEF PaidAhead
    <3> QED
      BY <3>4, <3>5, <3>6
  <2> QED
    BY <2>2, <2>3, <2>4 DEF IInv
<1>2. ASSUME NEW t \in Threads, NEW c \in Calls, Begin(t, c)
      PROVE  IInv'
  BY <1>2, BeginInv
<1>3. ASSUME NEW t \in Threads, Step(t)
      PROVE  IInv'
  <2>1. CASE Repeat(t)
    BY <2>1, RepeatInv
  <2>2. CASE AddPacket(t)
    BY <2>2, AddPacketInv
  <2>3. CASE Done(t)
    BY <2>3, DoneMoreInv, DoneLastInv
  <2>4. CASE RateAllows(t)
    BY <2>4, RateAllowsInv
  <2>5. CASE RateRefuses(t)
    BY <2>5, RateRefusesInv
  <2>6. CASE LateAllows(t)
    BY <2>6, LateAllowsInv
  <2>7. CASE LateRefuses(t)
    BY <2>7, LateRefusesInv
  <2>8. CASE Congested(t)
    BY <2>8, CongestedInv
  <2>9. CASE SendRefused(t)
    BY <2>9, SendRefusedInv
  <2>10. CASE \E ok \in BOOLEAN : Send(t, ok)
    BY <2>10, SendInv
  <2> QED
    BY <1>3, <2>1, <2>2, <2>3, <2>4, <2>5, <2>6, <2>7, <2>8, <2>9, <2>10 DEF Step
<1> QED
  BY <1>1, <1>2, <1>3 DEF Next

\* In every state that a careful use of the send calls reaches.
LEMMA Invariance == Careful => (Spec => []IInv)
<1> SUFFICES ASSUME Careful PROVE Spec => []IInv
  OBVIOUS
<1>1. IInv /\ [Next]_vars => IInv'
  BY NextInv
<1> QED
  BY InitInv, <1>1, PTL DEF Spec

\* The indices that a resumed call works with stay within the transmit window, and a
\* thread is always at a point of source.c from which its call goes on.
THEOREM TypeTheorem == Careful => (Spec => []TypeOK)
<1> SUFFICES ASSUME Careful PROVE Spec => []TypeOK
  OBVIOUS
<1>1. IInv => TypeOK
  BY DEF IInv
<1> QED
  BY Invariance, <1>1, PTL

\* No resumed call of pgm_send, pgm_sendv or pgm_send_skbv skips or repeats a
\* fragment: between calls the window is what calls accepted, whole and in order, and
\* all of it was handed to the network.
THEOREM AcceptedTheorem == Careful => (Spec => []AcceptedOnce)
<1> SUFFICES ASSUME Careful PROVE Spec => []AcceptedOnce
  OBVIOUS
<1>1. IInv => AcceptedOnce
  BY DEF IInv, Resting, AcceptedOnce, Busy, PacketsOfAll
<1> QED
  BY Invariance, <1>1, PTL

\* No resumed call sends a packet that the rate buckets have not let through.
THEOREM PaidTheorem == Careful => (Spec => []PaidBeforeSent)
<1> SUFFICES ASSUME Careful PROVE Spec => []PaidBeforeSent
  OBVIOUS
<1>1. IInv => PaidBeforeSent
  BY DEF IInv
<1> QED
  BY Invariance, <1>1, PTL

\* The assertion at the end of send_apdu, pgm_sendv and pgm_send_skbv holds for every use
\* of the calls but the two that Avoided names.
THEOREM OffsetTheorem == Careful => (Spec => []OffsetAtEnd)
<1> SUFFICES ASSUME Careful PROVE Spec => []OffsetAtEnd
  OBVIOUS
<1>1. ASSUME IInv, NEW t \in Threads, pc[t] = "done", call[t].op \notin Single
      PROVE  state.offset = Length(t)
  <2>1. Busy(t) /\ ~InHand(t) /\ ~AtStart(t)
    BY <1>1 DEF Busy, InHand, AtStart
  <2>2. Held(t) = Length(t)
    BY <1>1, <2>1 DEF IInv, AtPlace
  <2> QED
    BY <1>1, <2>1, <2>2 DEF Held
<1>2. IInv => OffsetAtEnd
  BY <1>1 DEF OffsetAtEnd
<1> QED
  BY Invariance, <1>2, PTL

\* The heartbeat and the proactive parity follow the data, however calls are made.
LEMMA FollowedInv ==
    ASSUME pc \in [Threads -> Points], Followed, [Next]_vars
    PROVE  pc' \in [Threads -> Points] /\ Followed'
<1>1. CASE UNCHANGED vars
  BY <1>1 DEF vars, Followed, Outside, Group
<1>2. ASSUME NEW t \in Threads, NEW p \in Points, Goto(t, p)
      PROVE  pc' \in [Threads -> Points] /\ (p \notin {"idle", "blocked"} => ~Outside')
  BY <1>2 DEF Goto, Outside
<1>3. ASSUME NEW t \in Threads, Outside, UNCHANGED <<sent, parity, restless, progress>>,
             NEW c, Enter(t, c)
      PROVE  pc' \in [Threads -> Points] /\ Followed'
  <2>1. \E p \in Points : Goto(t, p)
    BY <1>3 DEF Enter, Points
  <2>2. pc' \in [Threads -> Points]
    BY <2>1, <1>2
  <2> QED
    BY <1>3, <2>2 DEF Followed, Group
<1>4. ASSUME NEW t \in Threads, GiveUp(t), sent' = sent
      PROVE  pc' \in [Threads -> Points] /\ Followed'
  <2>1. "blocked" \in Points
    BY DEF Points
  <2> QED
    BY <1>2, <1>4, <2>1 DEF GiveUp, Followed, Group
<1>5. ASSUME NEW t \in Threads, NEW p \in {"add", "late", "send"}, Goto(t, p),
             UNCHANGED <<sent, parity, restless, progress>>
      PROVE  pc' \in [Threads -> Points] /\ Followed'
  <2>1. p \in Points
    BY DEF Points
  <2> QED
    BY <1>2, <1>5, <2>1 DEF Followed, Group
<1>6. ASSUME NEW t \in Threads, Step(t)
      PROVE  pc' \in [Threads -> Points] /\ Followed'
  <2>1. CASE Repeat(t)
    BY <1>3, <2>1 DEF Repeat
  <2>2. CASE AddPacket(t)
    <3>1. \E p \in {"add", "late", "send"} : Goto(t, p)
      BY <2>2 DEF AddPacket
    <3>2. UNCHANGED <<sent, parity, restless, progress>>
      BY <2>2 DEF AddPacket
    <3> QED
      BY <1>5, <3>1, <3>2
  <2>3. CASE Done(t)
    <3>1. \E p \in {"idle", "check"} : Goto(t, p)
      BY <2>3 DEF Done
    <3>2. pc' \in [Threads -> Points]
      BY <1>2, <3>1 DEF Points
    <3>3. restless' = FALSE /\ progress' = FALSE /\ UNCHANGED <<sent, parity>>
      BY <2>3 DEF Done
    <3> QED
      BY <3>2, <3>3 DEF Followed, Group
  <2>4. CASE RateAllows(t)
    BY <1>5, <2>4 DEF RateAllows
  <2>5. CASE RateRefuses(t)
    BY <1>4, <2>5 DEF RateRefuses, GiveUp
  <2>6. CASE LateAllows(t)
    BY <1>5, <2>6 DEF LateAllows
  <2>7. CASE LateRefuses(t)
    BY <1>4, <2>7 DEF LateRefuses, GiveUp
  <2>8. CASE Congested(t)
    BY <1>4, <2>8 DEF Congested, GiveUp
  <2>9. CASE SendRefused(t)
    BY <1>4, <2>9 DEF SendRefused, GiveUp
  <2>10. ASSUME NEW ok \in BOOLEAN, Send(t, ok)
         PROVE  pc' \in [Threads -> Points] /\ Followed'
    <3>1. \E p \in {"add", "done"} : Goto(t, p)
      BY <2>10 DEF Send
    <3>2. pc' \in [Threads -> Points] /\ ~Outside'
      BY <1>2, <3>1 DEF Points
    <3>3. /\ sent' = sent \cup {state.skb} /\ parity' = AfterSend(state.skb)
          /\ restless' = (restless \/ ok) /\ progress' = (progress \/ ok)
      BY <2>10 DEF Send
    <3>4. restless' => progress'
      BY <3>3 DEF Followed
    <3>5. \A i \in sent' : i % GroupSize = 0 => Group(i) \in parity'
      BY <3>3 DEF Followed, AfterSend
    <3> QED
      BY <3>2, <3>4, <3>5 DEF Followed, Group
  <2> QED
    BY <1>6, <2>1, <2>2, <2>3, <2>4, <2>5, <2>6, <2>7, <2>8, <2>9, <2>10 DEF Step
<1>7. ASSUME NEW t \in Threads, NEW c \in Calls, Begin(t, c)
      PROVE  pc' \in [Threads -> Points] /\ Followed'
  BY <1>3, <1>7 DEF Begin
<1> QED
  BY <1>1, <1>6, <1>7 DEF Next

\* When a call has returned, with any status, the heartbeat was restarted after the
\* last data packet, and every full group that was sent had its parity asked for.
THEOREM FollowedTheorem == Spec => []SentIsFollowedUp
<1> DEFINE Inv == pc \in [Threads -> Points] /\ Followed
<1>1. Init => Inv
  BY DEF Init, Followed, Points
<1>2. Inv /\ [Next]_vars => Inv'
  BY FollowedInv
<1>3. Inv => SentIsFollowedUp
  BY DEF Followed, SentIsFollowedUp
<1> QED
  BY <1>1, <1>2, <1>3, PTL DEF Spec

=============================================================================
