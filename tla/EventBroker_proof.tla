------------------------- MODULE EventBroker_proof -------------------------
(***************************************************************************)
(* Proofs about EventBroker for any number of clients and connections, any *)
(* ring and channel capacity and any number of events.                     *)
(*                                                                         *)
(* What a client has read, what is left of its replay and what its channel *)
(* buffers are three increasing runs, each below the next (OrderInv), and  *)
(* together with what was lost they leave no gap (SkipInv).  The ring      *)
(* holds the newest ids that were stored (RingInv).  A channel is in one   *)
(* place: fanned out to, about to be closed, or closed (ChanInv).          *)
(***************************************************************************)
EXTENDS EventBroker, FiniteSetTheorems, SequenceTheorems, TLAPS

\* A channel belongs to a connection that has been made, and is in one place.
ChanInv ==
  /\ closed => subs = {}
  /\ ~closed => toClose = {}
  /\ (subs \union toClose) \intersect shut = {}
  /\ \A k \in subs \union toClose \union shut : k[2] <= conns[k[1]]
  /\ \A c \in Clients : Gone(c) => Conn(c) \notin subs

\* The ring holds the newest stored ids, oldest first, all of them until it is full.
RingInv ==
  /\ Increasing(ring)
  /\ Elems(ring) \subseteq stored
  /\ \A i \in stored \ Elems(ring) : \A j \in Elems(ring) : i < j
  /\ Len(ring) < Cap => stored \subseteq Elems(ring)

OrderInv ==
  \A c \in Clients :
    /\ Increasing(got[c])
    /\ pc[c] = "live" => replay[c] = <<>>
    /\ ~Gone(c) =>
         /\ Increasing(replay[c]) /\ Increasing(chan[c])
         /\ \A x \in Elems(replay[c]) \union Elems(chan[c]) : LastOf(got[c]) < x
         /\ \A x \in Elems(replay[c]), y \in Elems(chan[c]) : x < y

\* Event i has been read by c, is on its way to it, or was lost to it ...
Covered(c, i) == i \in Elems(got[c]) \union Elems(replay[c]) \union Elems(chan[c]) \union lost[c]

\* ... or c has not come to it yet.
Ahead(c, i) ==
  LastOf(got[c]) < i /\ \A x \in Elems(replay[c]) \union Elems(chan[c]) : x < i

SkipInv ==
  \A c \in Clients : \A i \in stored :
    /\ i <= LastOf(got[c]) => i \in Elems(got[c]) \union lost[c]
    /\ ~Gone(c) => Covered(c, i) \/ Ahead(c, i)
    /\ Conn(c) \in subs => Covered(c, i)

IInv == TypeOK /\ ChanInv /\ RingInv /\ OrderInv /\ SkipInv

-----------------------------------------------------------------------------
(* Increasing sequences.                                                   *)

LEMMA ElemsIn ==
  ASSUME NEW s \in Seq(Nat)
  PROVE  Elems(s) \subseteq Nat /\ (s = <<>> => Elems(s) = {}) /\ LastOf(s) \in Nat
         /\ (s # <<>> => LastOf(s) \in Elems(s))
         /\ (Increasing(s) => \A x \in Elems(s) : x <= LastOf(s))
  <1>1. Elems(s) \subseteq Nat /\ (s = <<>> => Elems(s) = {})
    BY DEF Elems
  <1>2. LastOf(s) \in Nat
    BY DEF LastOf
  <1>3. ASSUME s # <<>> PROVE LastOf(s) \in Elems(s)
    <2>1. Len(s) \in DOMAIN s
      BY <1>3
    <2>. QED  BY <1>3, <2>1 DEF LastOf, Elems
  <1>4. ASSUME Increasing(s), NEW x \in Elems(s) PROVE x <= LastOf(s)
    <2>1. PICK k \in DOMAIN s : x = s[k]
      BY DEF Elems
    <2>2. k \in 1..Len(s) /\ Len(s) \in DOMAIN s /\ s # <<>> /\ s[k] \in Nat /\ s[Len(s)] \in Nat
      OBVIOUS
    <2>3. k = Len(s) \/ k < Len(s)
      BY <2>2
    <2>4. k < Len(s) => s[k] < s[Len(s)]
      BY <1>4, <2>2 DEF Increasing
    <2>5. x <= s[Len(s)]
      BY <2>1, <2>2, <2>3, <2>4
    <2>. QED  BY <2>2, <2>5 DEF LastOf
  <1>. QED  BY <1>1, <1>2, <1>3, <1>4

LEMMA AppendFacts ==
  ASSUME NEW s \in Seq(Nat), NEW x \in Nat
  PROVE  /\ Append(s, x) \in Seq(Nat) /\ Len(Append(s, x)) = Len(s) + 1
         /\ Elems(Append(s, x)) = Elems(s) \union {x}
         /\ LastOf(Append(s, x)) = x
         /\ Increasing(s) /\ (\A y \in Elems(s) : y < x) => Increasing(Append(s, x))
  <1>1. /\ DOMAIN Append(s, x) = 1..(Len(s) + 1) /\ DOMAIN s = 1..Len(s) /\ Len(s) \in Nat
        /\ \A k \in 1..Len(s) : Append(s, x)[k] = s[k]
        /\ Append(s, x)[Len(s) + 1] = x
    OBVIOUS
  <1>2. Elems(Append(s, x)) = Elems(s) \union {x}
    <2>1. ASSUME NEW y \in Elems(Append(s, x)) PROVE y \in Elems(s) \union {x}
      <3>1. PICK k \in DOMAIN Append(s, x) : y = Append(s, x)[k]
        BY DEF Elems
      <3>2. k \in 1..Len(s) \/ k = Len(s) + 1
        BY <1>1
      <3>. QED  BY <1>1, <3>1, <3>2 DEF Elems
    <2>2. ASSUME NEW y \in Elems(s) PROVE y \in Elems(Append(s, x))
      <3>1. PICK k \in DOMAIN s : y = s[k]
        BY DEF Elems
      <3>2. k \in DOMAIN Append(s, x) /\ Append(s, x)[k] = s[k]
        BY <1>1
      <3>. QED  BY <3>1, <3>2 DEF Elems
    <2>3. x \in Elems(Append(s, x))
      <3>1. Len(s) + 1 \in DOMAIN Append(s, x)
        BY <1>1
      <3>. QED  BY <1>1, <3>1 DEF Elems
    <2>. QED  BY <2>1, <2>2, <2>3
  <1>3. LastOf(Append(s, x)) = x
    <2>1. Append(s, x) # <<>> /\ Len(Append(s, x)) = Len(s) + 1
      OBVIOUS
    <2>. QED  BY <1>1, <2>1 DEF LastOf
  <1>4. ASSUME Increasing(s), \A y \in Elems(s) : y < x PROVE Increasing(Append(s, x))
    <2>. SUFFICES ASSUME NEW i \in 1..(Len(s) + 1), NEW j \in 1..(Len(s) + 1), i < j
                  PROVE  Append(s, x)[i] < Append(s, x)[j]
      BY <1>1 DEF Increasing
    <2>1. i \in 1..Len(s) /\ (j \in 1..Len(s) \/ j = Len(s) + 1)
      BY <1>1
    <2>2. s[i] < x
      BY <1>1, <1>4, <2>1 DEF Elems
    <2>. QED  BY <1>1, <1>4, <2>1, <2>2 DEF Increasing
  <1>. QED  BY <1>2, <1>3, <1>4

LEMMA TailFacts ==
  ASSUME NEW s \in Seq(Nat), s # <<>>, Increasing(s)
  PROVE  /\ Tail(s) \in Seq(Nat) /\ Head(s) \in Nat /\ Len(Tail(s)) = Len(s) - 1
         /\ Elems(s) = {Head(s)} \union Elems(Tail(s))
         /\ Increasing(Tail(s))
         /\ \A y \in Elems(Tail(s)) : Head(s) < y
  <1>1. /\ DOMAIN Tail(s) = 1..(Len(s) - 1) /\ DOMAIN s = 1..Len(s) /\ Len(s) \in Nat \ {0}
        /\ \A k \in 1..(Len(s) - 1) : Tail(s)[k] = s[k + 1]
        /\ Head(s) = s[1] /\ 1 \in DOMAIN s
    OBVIOUS
  <1>2. Elems(s) = {Head(s)} \union Elems(Tail(s))
    <2>1. ASSUME NEW y \in Elems(s) PROVE y = Head(s) \/ y \in Elems(Tail(s))
      <3>1. PICK k \in DOMAIN s : y = s[k]
        BY DEF Elems
      <3>2. k = 1 \/ (k - 1 \in 1..(Len(s) - 1) /\ s[k] = s[(k - 1) + 1])
        BY <1>1
      <3>. QED  BY <1>1, <3>1, <3>2 DEF Elems
    <2>2. ASSUME NEW y \in Elems(Tail(s)) PROVE y \in Elems(s)
      <3>1. PICK k \in DOMAIN Tail(s) : y = Tail(s)[k]
        BY DEF Elems
      <3>2. k + 1 \in DOMAIN s /\ y = s[k + 1]
        BY <1>1, <3>1
      <3>. QED  BY <3>2 DEF Elems
    <2>3. Head(s) \in Elems(s)
      BY <1>1 DEF Elems
    <2>. QED  BY <2>1, <2>2, <2>3
  <1>3. Increasing(Tail(s))
    <2>. SUFFICES ASSUME NEW i \in 1..(Len(s) - 1), NEW j \in 1..(Len(s) - 1), i < j
                  PROVE  Tail(s)[i] < Tail(s)[j]
      BY <1>1 DEF Increasing
    <2>1. i + 1 \in DOMAIN s /\ j + 1 \in DOMAIN s /\ i + 1 < j + 1
      BY <1>1
    <2>. QED  BY <1>1, <2>1 DEF Increasing
  <1>4. ASSUME NEW y \in Elems(Tail(s)) PROVE Head(s) < y
    <2>1. PICK k \in DOMAIN Tail(s) : y = Tail(s)[k]
      BY DEF Elems
    <2>2. k + 1 \in DOMAIN s /\ y = s[k + 1] /\ 1 < k + 1
      BY <1>1, <2>1
    <2>. QED  BY <1>1, <2>2 DEF Increasing
  <1>. QED  BY <1>2, <1>3, <1>4

\* A nonempty set of numbers has a least element.
LEMMA LeastOf ==
  ASSUME NEW T, T \subseteq Nat, T # {}
  PROVE  \E m \in T : \A x \in T : m <= x
  <1>1. PICK m \in T : \A x \in T : <<x, m>> \notin OpToRel(<, Nat)
    BY NatLessThanWellFounded, WFMin
  <1>2. \A x \in T : ~(x < m)
    BY <1>1 DEF OpToRel
  <1>. QED  BY <1>2

\* The replay is the part of the ring above a, in order.
LEMMA AfterFacts ==
  ASSUME ring \in Seq(Nat), Increasing(ring), NEW a \in Nat
  PROVE  /\ After(a) \in Seq(Nat)
         /\ Elems(After(a)) = {i \in Elems(ring) : i > a}
         /\ Increasing(After(a))
  <1>. DEFINE P(n) == \A k \in DOMAIN ring : ring[k] > a <=> k > n
              n == CHOOSE n \in 0..Len(ring) : P(n)
  <1>0. Len(ring) \in Nat /\ DOMAIN ring = 1..Len(ring) /\ \A k \in 1..Len(ring) : ring[k] \in Nat
    OBVIOUS
  <1>1. \E m \in 0..Len(ring) : P(m)
    <2>. DEFINE T == {k \in 1..Len(ring) : ring[k] > a}
    <2>1. CASE T = {}
      <3>1. Len(ring) \in 0..Len(ring) /\ P(Len(ring))
        BY <1>0, <2>1
      <3>. QED  BY <3>1
    <2>2. CASE T # {}
      <3>1. PICK m \in T : \A x \in T : m <= x
        <4>1. T \subseteq Nat
          OBVIOUS
        <4>. HIDE DEF T
        <4>. QED  BY <2>2, <4>1, LeastOf
      <3>2. m \in 1..Len(ring) /\ m - 1 \in 0..Len(ring) /\ ring[m] > a
        BY <1>0
      <3>3. ASSUME NEW k \in 1..Len(ring) PROVE ring[k] > a <=> k > m - 1
        <4>1. CASE k < m
          <5>1. k \notin T
            BY <3>1, <3>2, <4>1
          <5>. QED  BY <1>0, <3>2, <4>1, <5>1
        <4>2. CASE k = m
          BY <3>2, <4>2
        <4>3. CASE k > m
          BY <1>0, <3>2, <4>3 DEF Increasing
        <4>. QED  BY <1>0, <3>2, <4>1, <4>2, <4>3
      <3>4. P(m - 1)
        BY <1>0, <3>3
      <3>. QED  BY <3>2, <3>4
    <2>. QED  BY <2>1, <2>2
  <1>2. n \in 0..Len(ring) /\ P(n)
    BY <1>1
  <1>3. After(a) = SubSeq(ring, n + 1, Len(ring))
    BY DEF After
  <1>. HIDE DEF n
  <1>4. /\ After(a) \in Seq(Nat) /\ Len(After(a)) = Len(ring) - n
        /\ DOMAIN After(a) = 1..(Len(ring) - n)
        /\ \A k \in 1..(Len(ring) - n) : After(a)[k] = ring[k + n]
    <2>1. n + 1 \in Int /\ Len(ring) \in Int /\ \A i \in (n + 1)..Len(ring) : ring[i] \in Nat
      BY <1>0, <1>2
    <2>2. /\ After(a) \in Seq(Nat)
          /\ Len(After(a)) = IF n + 1 <= Len(ring) THEN Len(ring) - (n + 1) + 1 ELSE 0
          /\ \A i \in 1..(Len(ring) - (n + 1) + 1) : After(a)[i] = ring[n + 1 + i - 1]
      BY <1>3, <2>1, SubSeqProperties
    <2>3. Len(After(a)) = Len(ring) - n
      <3>1. n \in Nat /\ Len(ring) \in Nat /\ n <= Len(ring)
        BY <1>0, <1>2
      <3>2. CASE n + 1 <= Len(ring)
        <4>1. Len(After(a)) = Len(ring) - (n + 1) + 1
          BY <2>2, <3>2
        <4>. QED  BY <3>1, <4>1
      <3>3. CASE ~(n + 1 <= Len(ring))
        <4>1. Len(After(a)) = 0
          BY <2>2, <3>3
        <4>2. n = Len(ring)
          BY <3>1, <3>3
        <4>. QED  BY <3>1, <4>1, <4>2
      <3>. QED  BY <3>2, <3>3
    <2>4. DOMAIN After(a) = 1..(Len(ring) - n)
      BY <2>2, <2>3
    <2>5. ASSUME NEW k \in 1..(Len(ring) - n) PROVE After(a)[k] = ring[k + n]
      <3>1. k \in 1..(Len(ring) - (n + 1) + 1) /\ n + 1 + k - 1 = k + n
        BY <1>0, <1>2
      <3>. QED  BY <2>2, <3>1
    <2>. QED  BY <2>2, <2>3, <2>4, <2>5
  <1>5. ASSUME NEW x \in Elems(After(a)) PROVE x \in Elems(ring) /\ x > a
    <2>1. PICK k \in 1..(Len(ring) - n) : x = ring[k + n]
      BY <1>4 DEF Elems
    <2>2. k + n \in 1..Len(ring) /\ k + n > n
      BY <1>0, <1>2
    <2>. QED  BY <1>0, <1>2, <2>1, <2>2 DEF Elems
  <1>6. ASSUME NEW x \in Elems(ring), x > a PROVE x \in Elems(After(a))
    <2>1. PICK k \in 1..Len(ring) : x = ring[k]
      BY <1>0 DEF Elems
    <2>2. k > n
      BY <1>0, <1>2, <1>6, <2>1
    <2>3. k - n \in 1..(Len(ring) - n) /\ (k - n) + n = k
      BY <1>0, <1>2, <2>2
    <2>. QED  BY <1>4, <2>1, <2>3 DEF Elems
  <1>7. Increasing(After(a))
    <2>. SUFFICES ASSUME NEW i \in 1..(Len(ring) - n), NEW j \in 1..(Len(ring) - n), i < j
                  PROVE  After(a)[i] < After(a)[j]
      BY <1>4 DEF Increasing
    <2>1. i + n \in 1..Len(ring) /\ j + n \in 1..Len(ring) /\ i + n < j + n
      BY <1>0, <1>2
    <2>. QED  BY <1>0, <1>4, <2>1 DEF Increasing
  <1>. QED  BY <1>4, <1>5, <1>6, <1>7

-----------------------------------------------------------------------------
(* Types.                                                                  *)

LEMMA SeqRange ==
  ASSUME NEW n \in Nat, NEW s
  PROVE  s \in Seq(1..n) <=> s \in Seq(Nat) /\ \A x \in Elems(s) : x \in 1..n
  <1>1. ASSUME s \in Seq(1..n) PROVE s \in Seq(Nat) /\ \A x \in Elems(s) : x \in 1..n
    BY <1>1 DEF Elems
  <1>2. ASSUME s \in Seq(Nat), \A x \in Elems(s) : x \in 1..n PROVE s \in Seq(1..n)
    <2>1. \A k \in 1..Len(s) : s[k] \in 1..n
      BY <1>2 DEF Elems
    <2>. QED  BY <1>2, <2>1
  <1>. QED  BY <1>1, <1>2

\* Ids are numbers, and none is above the counter.
LEMMA Ids ==
  ASSUME TypeOK
  PROVE  /\ nextID \in Nat /\ ring \in Seq(Nat) /\ \A x \in Elems(ring) : x \in 1..nextID
         /\ stored \subseteq 1..nextID
         /\ \A c \in Clients :
              /\ got[c] \in Seq(Nat) /\ \A x \in Elems(got[c]) : x \in 1..nextID
              /\ replay[c] \in Seq(Nat) /\ \A x \in Elems(replay[c]) : x \in 1..nextID
              /\ chan[c] \in Seq(Nat) /\ \A x \in Elems(chan[c]) : x \in 1..nextID
              /\ LastOf(got[c]) \in 0..nextID
  <1>1. nextID \in Nat /\ ring \in Seq(1..nextID)
    BY BoundAssumption DEF TypeOK
  <1>2. ASSUME NEW c \in Clients
        PROVE  /\ got[c] \in Seq(Nat) /\ \A x \in Elems(got[c]) : x \in 1..nextID
               /\ replay[c] \in Seq(Nat) /\ \A x \in Elems(replay[c]) : x \in 1..nextID
               /\ chan[c] \in Seq(Nat) /\ \A x \in Elems(chan[c]) : x \in 1..nextID
    <2>1. got[c] \in Seq(1..nextID) /\ replay[c] \in Seq(1..nextID) /\ chan[c] \in Seq(1..nextID)
      BY DEF TypeOK
    <2>. QED  BY <1>1, <2>1, SeqRange
  <1>3. ASSUME NEW c \in Clients PROVE LastOf(got[c]) \in 0..nextID
    <2>1. got[c] = <<>> => LastOf(got[c]) = 0
      BY DEF LastOf
    <2>2. got[c] # <<>> => LastOf(got[c]) \in 1..nextID
      BY <1>2, ElemsIn
    <2>. QED  BY <1>1, <2>1, <2>2
  <1>. QED  BY <1>1, <1>2, <1>3, SeqRange DEF TypeOK

LEMMA TypeInit == Init => TypeOK
  <1>. SUFFICES ASSUME Init PROVE TypeOK
    OBVIOUS
  <1>1. nextID \in 0..MaxEvents /\ \A n \in Nat : <<>> \in Seq(1..n) /\ Len(<<>>) = 0
    BY BoundAssumption DEF Init
  <1>2. closed \in BOOLEAN /\ follow \in [Clients -> BOOLEAN]
    BY DEF Init
  <1>3. ring \in Seq(1..nextID) /\ Len(ring) <= Cap
    BY <1>1, CapAssumption DEF Init
  <1>4. /\ replay \in [Clients -> Seq(1..nextID)] /\ got \in [Clients -> Seq(1..nextID)]
        /\ chan \in [Clients -> Seq(1..nextID)] /\ \A c \in Clients : Len(chan[c]) <= SubDepth
    BY <1>1, DepthAssumption DEF Init
  <1>5. conns \in [Clients -> 0..MaxConns]
    BY BoundAssumption DEF Init
  <1>. QED  BY <1>1, <1>2, <1>3, <1>4, <1>5 DEF Init, TypeOK

LEMMA PushFacts ==
  ASSUME NEW s \in Seq(Nat), Len(s) <= Cap, Increasing(s), NEW x \in Nat,
         \A y \in Elems(s) : y < x
  PROVE  /\ Push(s, x) \in Seq(Nat) /\ Len(Push(s, x)) <= Cap /\ Increasing(Push(s, x))
         /\ Len(s) < Cap => Elems(Push(s, x)) = Elems(s) \union {x}
         /\ ~(Len(s) < Cap) =>
              /\ Len(Push(s, x)) = Cap
              /\ Elems(Push(s, x)) = Elems(Tail(s)) \union {x}
              /\ Elems(s) = {Head(s)} \union Elems(Tail(s))
              /\ \A y \in Elems(Tail(s)) : Head(s) < y
              /\ Head(s) < x
  <1>0. Cap \in Nat /\ Cap >= 1 /\ Len(s) \in Nat
    BY CapAssumption
  <1>1. CASE Len(s) < Cap
    <2>1. Push(s, x) = Append(s, x)
      BY <1>1 DEF Push
    <2>. QED  BY <1>0, <1>1, <2>1, AppendFacts
  <1>2. CASE ~(Len(s) < Cap)
    <2>1. Push(s, x) = Append(Tail(s), x) /\ s # <<>> /\ Len(s) = Cap
      BY <1>0, <1>2 DEF Push
    <2>2. /\ Tail(s) \in Seq(Nat) /\ Head(s) \in Nat /\ Len(Tail(s)) = Cap - 1
          /\ Elems(s) = {Head(s)} \union Elems(Tail(s)) /\ Increasing(Tail(s))
          /\ \A y \in Elems(Tail(s)) : Head(s) < y
      BY <2>1, TailFacts
    <2>3. \A y \in Elems(Tail(s)) : y < x
      BY <2>2
    <2>4. /\ Append(Tail(s), x) \in Seq(Nat) /\ Len(Append(Tail(s), x)) = Cap
          /\ Elems(Append(Tail(s), x)) = Elems(Tail(s)) \union {x}
          /\ Increasing(Append(Tail(s), x))
      <3>. DEFINE q == Tail(s)
      <3>1. q \in Seq(Nat) /\ Len(q) + 1 = Cap /\ Increasing(q) /\ \A y \in Elems(q) : y < x
        BY <1>0, <2>2, <2>3
      <3>. HIDE DEF q
      <3>2. /\ Append(q, x) \in Seq(Nat) /\ Len(Append(q, x)) = Cap
            /\ Elems(Append(q, x)) = Elems(q) \union {x} /\ Increasing(Append(q, x))
        BY <3>1, AppendFacts
      <3>. QED  BY <3>2 DEF q
    <2>. QED  BY <1>0, <1>2, <2>1, <2>2, <2>4
  <1>. QED  BY <1>1, <1>2

\* What publish does to c's channel.
LEMMA PublishChan ==
  ASSUME TypeOK, NEW t \in Types, Publish(t), t \in filter, NEW c \in Clients
  PROVE  \/ /\ Conn(c) \notin subs /\ chan'[c] = chan[c] /\ lost'[c] = lost[c]
         \/ /\ Conn(c) \in subs /\ Len(chan[c]) < SubDepth
            /\ chan'[c] = Append(chan[c], nextID + 1) /\ lost'[c] = lost[c]
         \/ /\ Conn(c) \in subs /\ chan'[c] = chan[c] /\ lost'[c] = lost[c] \union {nextID + 1}
  <1>1. Len(chan[c]) \in Nat /\ SubDepth \in Nat
    BY Ids, DepthAssumption
  <1>2. /\ chan' = [d \in Clients |-> IF Conn(d) \in subs /\ ~Full(d)
                                      THEN Append(chan[d], nextID + 1) ELSE chan[d]]
        /\ lost' = [d \in Clients |-> IF Conn(d) \in subs /\ Full(d)
                                      THEN lost[d] \union {nextID + 1} ELSE lost[d]]
    BY DEF Publish
  <1>. QED  BY <1>1, <1>2 DEF Full

LEMMA TypeStep ==
  ASSUME TypeOK, ChanInv, RingInv, OrderInv, [Next]_vars
  PROVE  TypeOK'
  <1>. USE DEF ringVars, connVars
  <1>0. /\ nextID \in Nat /\ nextID \in 0..MaxEvents /\ stored \subseteq 1..nextID
        /\ filter \subseteq Types
        /\ ring \in Seq(1..nextID) /\ Len(ring) <= Cap
        /\ subs \subseteq Channels /\ toClose \subseteq Channels /\ shut \subseteq Channels
        /\ pc \in [Clients -> {"off", "left", "replay", "live"}]
        /\ replay \in [Clients -> Seq(1..nextID)]
        /\ chan \in [Clients -> Seq(1..nextID)] /\ \A c \in Clients : Len(chan[c]) <= SubDepth
        /\ got \in [Clients -> Seq(1..nextID)]
        /\ lost \in [Clients -> SUBSET (1..nextID)]
        /\ conns \in [Clients -> 0..MaxConns]
    BY Ids DEF TypeOK
  <1>a. closed \in BOOLEAN /\ follow \in [Clients -> BOOLEAN]
    BY DEF TypeOK
  <1>1. ASSUME NEW t \in Types, Publish(t) PROVE TypeOK'
    <2>1. /\ nextID' = nextID + 1 /\ nextID' \in 0..MaxEvents /\ nextID' \in Nat
          /\ UNCHANGED <<filter, subs, toClose, shut, pc, replay, got, conns>>
      BY <1>0, <1>1, BoundAssumption DEF Publish
    <2>b. closed' \in BOOLEAN /\ follow' \in [Clients -> BOOLEAN]
      BY <1>a, <1>1 DEF Publish
    <2>2. ASSUME NEW q \in Seq(1..nextID) PROVE q \in Seq(1..nextID')
      <3>1. q \in Seq(Nat) /\ \A x \in Elems(q) : x \in 1..nextID'
        BY <1>0, <2>1, SeqRange
      <3>. QED  BY <2>1, <3>1, SeqRange
    <2>3. replay' \in [Clients -> Seq(1..nextID')] /\ got' \in [Clients -> Seq(1..nextID')]
      BY <1>0, <2>1, <2>2
    <2>4. CASE t \in filter
      <3>1. stored' \subseteq 1..nextID'
        <4>1. stored' = stored \union {nextID + 1}
          BY <1>1, <2>4 DEF Publish
        <4>. QED  BY <1>0, <2>1, <4>1
      <3>2. ring' \in Seq(1..nextID') /\ Len(ring') <= Cap
        <4>1. ring' = Push(ring, nextID + 1)
          BY <1>1, <2>4 DEF Publish
        <4>2. \A x \in Elems(ring) : x < nextID + 1
          BY <1>0, Ids
        <4>3. /\ ring' \in Seq(Nat) /\ Len(ring') <= Cap
              /\ \/ Elems(ring') = Elems(ring) \union {nextID + 1}
                 \/ /\ Elems(ring') = Elems(Tail(ring)) \union {nextID + 1}
                    /\ Elems(ring) = {Head(ring)} \union Elems(Tail(ring))
          <5>1. ring \in Seq(Nat) /\ Increasing(ring) /\ Len(ring) <= Cap /\ nextID + 1 \in Nat
            BY <1>0, Ids DEF RingInv
          <5>. QED  BY <4>1, <4>2, <5>1, PushFacts
        <4>4. \A x \in Elems(ring') : x \in 1..nextID'
          BY <1>0, <2>1, <4>3, Ids
        <4>. QED  BY <2>1, <4>3, <4>4, SeqRange
      <3>3. ASSUME NEW c \in Clients
            PROVE  /\ chan'[c] \in Seq(1..nextID') /\ Len(chan'[c]) <= SubDepth
                   /\ lost'[c] \in SUBSET (1..nextID')
        <4>1. chan'[c] = chan[c] \/ (Len(chan[c]) < SubDepth /\ chan'[c] = Append(chan[c], nextID + 1))
          BY <1>1, <2>4, PublishChan
        <4>2. lost'[c] = lost[c] \/ lost'[c] = lost[c] \union {nextID + 1}
          BY <1>1, <2>4, PublishChan
        <4>3. lost'[c] \in SUBSET (1..nextID')
          <5>1. lost[c] \subseteq 1..nextID /\ nextID + 1 \in 1..nextID' /\ 1..nextID \subseteq 1..nextID'
            BY <1>0, <2>1
          <5>. QED  BY <4>2, <5>1
        <4>4. chan[c] \in Seq(1..nextID') /\ nextID + 1 \in 1..nextID' /\ SubDepth \in Nat
                /\ Len(chan[c]) <= SubDepth
          BY <1>0, <2>1, <2>2, DepthAssumption
        <4>5. chan'[c] \in Seq(1..nextID') /\ Len(chan'[c]) <= SubDepth
          <5>1. CASE chan'[c] = chan[c]
            BY <4>4, <5>1
          <5>2. CASE Len(chan[c]) < SubDepth /\ chan'[c] = Append(chan[c], nextID + 1)
            <6>1. Len(chan'[c]) = Len(chan[c]) + 1 /\ Len(chan[c]) \in Nat
              BY <4>4, <5>2
            <6>. QED  BY <4>4, <5>2, <6>1
          <5>. QED  BY <4>1, <5>1, <5>2
        <4>. QED  BY <4>3, <4>5
      <3>4. /\ chan' \in [Clients -> Seq(1..nextID')] /\ lost' \in [Clients -> SUBSET (1..nextID')]
        <4>1. DOMAIN chan' = Clients /\ DOMAIN lost' = Clients
                /\ chan' = [c \in Clients |-> chan'[c]] /\ lost' = [c \in Clients |-> lost'[c]]
          BY <1>1, <2>4 DEF Publish
        <4>. QED  BY <3>3, <4>1
      <3>. QED  BY <1>0, <2>1, <2>b, <2>3, <3>1, <3>2, <3>3, <3>4 DEF TypeOK, Channels
    <2>5. CASE t \notin filter
      <3>1. UNCHANGED <<stored, ring, chan, lost>>
        BY <1>1, <2>5 DEF Publish
      <3>2. /\ stored' \subseteq 1..nextID' /\ ring' \in Seq(1..nextID')
            /\ chan' \in [Clients -> Seq(1..nextID')]
            /\ lost' \in [Clients -> SUBSET (1..nextID')]
        BY <1>0, <2>1, <2>2, <3>1
      <3>. QED  BY <1>0, <2>1, <2>b, <2>3, <3>1, <3>2 DEF TypeOK, Channels
    <2>. QED  BY <2>4, <2>5
  <1>2. ASSUME NEW f \in SUBSET Types, SetFilter(f) PROVE TypeOK'
    BY <1>2 DEF SetFilter, TypeOK, Channels
  <1>3. ASSUME NEW c \in Clients, NEW f \in BOOLEAN, Connect(c, f) PROVE TypeOK'
    <2>1. /\ UNCHANGED <<nextID, stored, filter, ring, toClose, got>>
          /\ pc' \in [Clients -> {"off", "left", "replay", "live"}]
      BY <1>0, <1>3 DEF Connect
    <2>2. conns' = [conns EXCEPT ![c] = conns[c] + 1] /\ conns' \in [Clients -> 0..MaxConns]
      BY <1>0, <1>3, BoundAssumption DEF Connect, Subscribe
    <2>3. <<c, conns[c] + 1>> \in Channels
      BY <1>0, <1>3, BoundAssumption DEF Connect, Channels
    <2>4. <<>> \in Seq(1..nextID) /\ Len(<<>>) <= SubDepth
      BY DepthAssumption
    <2>5. /\ chan' \in [Clients -> Seq(1..nextID)] /\ \A d \in Clients : Len(chan'[d]) <= SubDepth
      BY <1>0, <1>3, <2>4 DEF Connect, Subscribe
    <2>6. subs' \subseteq Channels /\ shut' \subseteq Channels
      BY <1>0, <1>3, <2>3 DEF Connect, Subscribe
    <2>7. lost' \in [Clients -> SUBSET (1..nextID)]
      BY <1>0, <1>3 DEF Connect, Subscribe, Evicted
    <2>8. replay' \in [Clients -> Seq(1..nextID)]
      <3>1. LastOf(got[c]) \in Nat /\ ring \in Seq(Nat) /\ Increasing(ring)
        BY Ids, ElemsIn DEF RingInv
      <3>2. After(LastOf(got[c])) \in Seq(1..nextID)
        BY <1>0, <3>1, AfterFacts, Ids, SeqRange
      <3>. QED  BY <1>0, <1>3, <2>4, <3>2 DEF Connect, Subscribe
    <2>9. closed' \in BOOLEAN /\ follow' \in [Clients -> BOOLEAN]
      BY <1>a, <1>3 DEF Connect
    <2>. QED  BY <1>0, <2>1, <2>2, <2>5, <2>6, <2>7, <2>8, <2>9 DEF TypeOK, Channels
  <1>4. ASSUME NEW c \in Clients, WriteReplay(c) PROVE TypeOK'
    <2>1. Head(replay[c]) \in 1..nextID /\ Tail(replay[c]) \in Seq(1..nextID)
      BY <1>0, <1>4 DEF WriteReplay
    <2>2. got' \in [Clients -> Seq(1..nextID)] /\ replay' \in [Clients -> Seq(1..nextID)]
      BY <1>0, <1>4, <2>1 DEF WriteReplay
    <2>. QED  BY <1>0, <1>a, <1>4, <2>2 DEF WriteReplay, TypeOK, Channels
  <1>5. ASSUME NEW c \in Clients, EndReplay(c) PROVE TypeOK'
    BY <1>0, <1>a, <1>5 DEF EndReplay, TypeOK, Channels
  <1>6. ASSUME NEW c \in Clients, Receive(c) PROVE TypeOK'
    <2>1. Head(chan[c]) \in 1..nextID /\ Tail(chan[c]) \in Seq(1..nextID)
            /\ Len(Tail(chan[c])) <= SubDepth
      BY <1>0, <1>6, DepthAssumption DEF Receive
    <2>2. got' \in [Clients -> Seq(1..nextID)] /\ chan' \in [Clients -> Seq(1..nextID)]
            /\ \A d \in Clients : Len(chan'[d]) <= SubDepth
      BY <1>0, <1>6, <2>1 DEF Receive
    <2>. QED  BY <1>0, <1>a, <1>6, <2>2 DEF Receive, TypeOK, Channels
  <1>7. ASSUME NEW c \in Clients, Finish(c) \/ Disconnect(c) PROVE TypeOK'
    <2>1. pc' \in [Clients -> {"off", "left", "replay", "live"}] /\ Unsubscribe(c)
      BY <1>0, <1>7 DEF Finish, Disconnect
    <2>. QED  BY <1>0, <1>a, <2>1 DEF Unsubscribe, TypeOK, Channels
  <1>8. CASE CloseBroker
    BY <1>0, <1>a, <1>8 DEF CloseBroker, TypeOK, Channels
  <1>9. ASSUME NEW k \in Channels, CloseChannel(k) PROVE TypeOK'
    BY <1>0, <1>a, <1>9 DEF CloseChannel, TypeOK, Channels
  <1>10. CASE UNCHANGED vars
    BY <1>10 DEF vars, TypeOK, Channels
  <1>. QED
    BY <1>1, <1>2, <1>3, <1>4, <1>5, <1>6, <1>7, <1>8, <1>9, <1>10 DEF Next

-----------------------------------------------------------------------------
(* The channels.                                                           *)

LEMMA ChanStep ==
  ASSUME TypeOK, ChanInv, [Next]_vars
  PROVE  ChanInv'
  <1>. USE DEF ringVars, connVars
  <1>0. /\ subs \subseteq Channels /\ toClose \subseteq Channels /\ shut \subseteq Channels
        /\ pc \in [Clients -> {"off", "left", "replay", "live"}]
        /\ conns \in [Clients -> 0..MaxConns] /\ MaxConns \in Nat
    BY BoundAssumption DEF TypeOK
  \* Steps that touch neither channels nor handlers.
  <1>a. ASSUME UNCHANGED <<subs, closed, toClose, shut, conns>>,
               \A c \in Clients : Gone(c)' => Gone(c)
        PROVE  ChanInv'
    BY <1>a DEF ChanInv, Conn
  <1>1. ASSUME NEW t \in Types, Publish(t) PROVE ChanInv'
    BY <1>1, <1>a DEF Publish, Gone
  <1>2. ASSUME NEW f \in SUBSET Types, SetFilter(f) PROVE ChanInv'
    BY <1>2, <1>a DEF SetFilter, Gone
  <1>3. ASSUME NEW c \in Clients, NEW f \in BOOLEAN, Connect(c, f) PROVE ChanInv'
    <2>. DEFINE new == <<c, conns[c] + 1>>
    <2>1. /\ Gone(c) /\ pc' = [pc EXCEPT ![c] = "replay"] /\ closed' = closed /\ toClose' = toClose
          /\ conns' = [conns EXCEPT ![c] = conns[c] + 1]
          /\ \/ closed /\ shut' = shut \union {new} /\ subs' = subs
             \/ ~closed /\ subs' = subs \union {new} /\ shut' = shut
      BY <1>3 DEF Connect, Subscribe
    <2>2. \A k \in subs \union toClose \union shut :
            k \in Channels /\ k[1] \in Clients /\ k[2] \in Nat /\ k[2] <= conns[k[1]]
      BY <1>0 DEF ChanInv, Channels
    <2>3. new \notin subs \union toClose \union shut /\ conns[c] \in Nat
          /\ new[1] = c /\ new[2] = conns[c] + 1
      BY <1>0, <2>2
    <2>4. \A k \in subs \union toClose \union shut \union {new} : k[2] <= conns'[k[1]]
      BY <1>0, <2>1, <2>2, <2>3
    <2>5. ASSUME NEW d \in Clients, Gone(d)' PROVE Conn(d)' \notin subs'
      <3>1. d # c
        BY <1>0, <2>1, <2>5 DEF Gone
      <3>2. Gone(d) /\ Conn(d)' = Conn(d) /\ Conn(d) # new
        BY <1>0, <2>1, <2>5, <3>1 DEF Gone, Conn
      <3>. QED  BY <2>1, <3>2 DEF ChanInv
    <2>. HIDE DEF new
    <2>. QED  BY <2>1, <2>3, <2>4, <2>5 DEF ChanInv
  <1>4. ASSUME NEW c \in Clients, WriteReplay(c) \/ Receive(c) PROVE ChanInv'
    BY <1>4, <1>a DEF WriteReplay, Receive, Gone
  <1>5. ASSUME NEW c \in Clients, EndReplay(c) PROVE ChanInv'
    BY <1>0, <1>5, <1>a DEF EndReplay, Gone
  <1>6. ASSUME NEW c \in Clients, Finish(c) \/ Disconnect(c) PROVE ChanInv'
    <2>1. /\ \A d \in Clients : d # c => pc'[d] = pc[d]
          /\ subs' = subs \ {Conn(c)} /\ shut' = shut \union (subs \intersect {Conn(c)})
          /\ UNCHANGED <<closed, toClose, conns>>
      BY <1>0, <1>6 DEF Finish, Disconnect, Unsubscribe
    <2>2. \A d \in Clients : Conn(d)' = Conn(d)
      BY <2>1 DEF Conn
    <2>3. ASSUME NEW d \in Clients, Gone(d)' PROVE Conn(d)' \notin subs'
      <3>1. CASE d = c
        BY <2>1, <2>2, <3>1
      <3>2. CASE d # c
        BY <2>1, <2>2, <2>3, <3>2 DEF ChanInv, Gone
      <3>. QED  BY <3>1, <3>2
    <2>4. (subs' \union toClose') \intersect shut' = {}
      BY <2>1 DEF ChanInv
    <2>. QED  BY <2>1, <2>3, <2>4 DEF ChanInv
  <1>7. CASE CloseBroker
    BY <1>7 DEF CloseBroker, ChanInv, Gone, Conn
  <1>8. ASSUME NEW k \in Channels, CloseChannel(k) PROVE ChanInv'
    BY <1>8 DEF CloseChannel, ChanInv, Gone, Conn
  <1>9. CASE UNCHANGED vars
    BY <1>9, <1>a DEF vars, Gone
  <1>. QED  BY <1>1, <1>2, <1>3, <1>4, <1>5, <1>6, <1>7, <1>8, <1>9 DEF Next

-----------------------------------------------------------------------------
(* The ring.                                                               *)

LEMMA RingStep ==
  ASSUME TypeOK, RingInv, [Next]_vars
  PROVE  RingInv'
  <1>. USE DEF ringVars
  <1>0. /\ nextID \in Nat /\ stored \subseteq 1..nextID /\ ring \in Seq(Nat)
        /\ Len(ring) <= Cap /\ Len(ring) \in Nat /\ Cap \in Nat
        /\ Elems(ring) \subseteq stored /\ Increasing(ring)
    BY Ids, CapAssumption DEF TypeOK, RingInv
  <1>1. ASSUME NEW t \in Types, Publish(t), t \in filter PROVE RingInv'
    <2>. DEFINE x == nextID + 1
    <2>1. stored' = stored \union {x} /\ ring' = Push(ring, x)
      BY <1>1 DEF Publish
    <2>2. x \in Nat /\ \A i \in stored : i \in Nat /\ i < x
      BY <1>0
    <2>. HIDE DEF x
    <2>3. Increasing(ring')
      BY <1>0, <2>1, <2>2, PushFacts
    <2>4. CASE Len(ring) < Cap
      <3>1. Elems(ring') = Elems(ring) \union {x} /\ stored \subseteq Elems(ring)
        BY <1>0, <2>1, <2>2, <2>4, PushFacts DEF RingInv
      <3>. QED  BY <2>1, <2>3, <3>1, <1>0 DEF RingInv
    <2>5. CASE ~(Len(ring) < Cap)
      <3>1. /\ Len(ring') = Cap /\ Elems(ring') = Elems(Tail(ring)) \union {x}
            /\ Elems(ring) = {Head(ring)} \union Elems(Tail(ring))
            /\ \A y \in Elems(Tail(ring)) : Head(ring) < y
        BY <1>0, <2>1, <2>2, <2>5, PushFacts
      <3>2. ASSUME NEW i \in stored' \ Elems(ring'), NEW j \in Elems(ring') PROVE i < j
        <4>1. i \in stored
          BY <2>1, <3>1, <3>2
        <4>2. CASE j = x
          BY <2>2, <4>1, <4>2
        <4>3. CASE j \in Elems(Tail(ring)) /\ i = Head(ring)
          BY <3>1, <4>3
        <4>4. CASE j \in Elems(Tail(ring)) /\ i # Head(ring)
          BY <3>1, <3>2, <4>1, <4>4 DEF RingInv
        <4>. QED  BY <3>1, <3>2, <4>2, <4>3, <4>4
      <3>3. Elems(ring') \subseteq stored'
        BY <1>0, <2>1, <3>1
      <3>4. ~(Len(ring') < Cap)
        BY <1>0, <3>1
      <3>. QED  BY <2>3, <3>2, <3>3, <3>4 DEF RingInv
    <2>. QED  BY <2>4, <2>5
  <1>2. ASSUME UNCHANGED <<stored, ring>> PROVE RingInv'
    BY <1>2 DEF RingInv
  <1>3. ASSUME NEW t \in Types, Publish(t), t \notin filter PROVE RingInv'
    BY <1>2, <1>3 DEF Publish
  <1>4. ASSUME NEW f \in SUBSET Types, SetFilter(f) PROVE RingInv'
    BY <1>2, <1>4 DEF SetFilter
  <1>5. ASSUME NEW c \in Clients, NEW f \in BOOLEAN, Connect(c, f) PROVE RingInv'
    BY <1>2, <1>5 DEF Connect
  <1>6. ASSUME NEW c \in Clients, \/ WriteReplay(c) \/ EndReplay(c) \/ Receive(c) \/ Finish(c)
                                  \/ Disconnect(c)
        PROVE  RingInv'
    BY <1>2, <1>6 DEF WriteReplay, EndReplay, Receive, Finish, Disconnect, Unsubscribe
  <1>7. ASSUME NEW k \in Channels, CloseChannel(k) PROVE RingInv'
    BY <1>2, <1>7 DEF CloseChannel
  <1>8. CASE CloseBroker \/ UNCHANGED vars
    BY <1>2, <1>8 DEF CloseBroker, vars
  <1>. QED  BY <1>1, <1>3, <1>4, <1>5, <1>6, <1>7, <1>8 DEF Next

-----------------------------------------------------------------------------
(* What a client reads.                                                    *)

\* The parts of OrderInv and SkipInv that are about one client.
OrderOK(c) ==
  /\ Increasing(got[c])
  /\ pc[c] = "live" => replay[c] = <<>>
  /\ ~Gone(c) =>
       /\ Increasing(replay[c]) /\ Increasing(chan[c])
       /\ \A x \in Elems(replay[c]) \union Elems(chan[c]) : LastOf(got[c]) < x
       /\ \A x \in Elems(replay[c]), y \in Elems(chan[c]) : x < y

SkipOK(c) ==
  \A i \in stored :
    /\ i <= LastOf(got[c]) => i \in Elems(got[c]) \union lost[c]
    /\ ~Gone(c) => Covered(c, i) \/ Ahead(c, i)
    /\ Conn(c) \in subs => Covered(c, i)

\* A step that is not about c and stores nothing.
LEMMA ClientKept ==
  ASSUME NEW c \in Clients, OrderOK(c), SkipOK(c), stored' = stored,
         Conn(c)' \in subs' => Conn(c) \in subs,
         replay'[c] = replay[c], chan'[c] = chan[c], got'[c] = got[c], lost'[c] = lost[c],
         Gone(c)' \/ pc'[c] = pc[c]
  PROVE  OrderOK(c)' /\ SkipOK(c)'
  <1>1. ~Gone(c)' => ~Gone(c)
    BY DEF Gone
  <1>2. pc'[c] = "live" => pc[c] = "live"
    BY DEF Gone
  <1>3. OrderOK(c)'
    BY <1>1, <1>2 DEF OrderOK
  <1>4. ASSUME NEW i \in stored PROVE (Covered(c, i)' <=> Covered(c, i)) /\ (Ahead(c, i)' <=> Ahead(c, i))
    BY DEF Covered, Ahead
  <1>5. SkipOK(c)'
    BY <1>1, <1>4 DEF SkipOK
  <1>. QED  BY <1>3, <1>5

\* What publish does to one client.
LEMMA PublishClient ==
  ASSUME TypeOK, ChanInv, NEW t \in Types, Publish(t), t \in filter, NEW c \in Clients,
         OrderOK(c), SkipOK(c)
  PROVE  OrderOK(c)' /\ SkipOK(c)'
  <1>0. PICK x \in Nat : x = nextID + 1
    BY Ids
  <1>1. /\ stored' = stored \union {x} /\ UNCHANGED <<pc, replay, got, subs, conns>>
    BY <1>0 DEF Publish, connVars
  <1>2. /\ got[c] \in Seq(Nat) /\ replay[c] \in Seq(Nat) /\ chan[c] \in Seq(Nat)
        /\ \A y \in Elems(got[c]) \union Elems(replay[c]) \union Elems(chan[c]) : y \in Nat /\ y < x
        /\ LastOf(got[c]) \in Nat /\ LastOf(got[c]) < x /\ x \in Nat
        /\ \A i \in stored : i \in Nat /\ i < x
    <2>1. /\ got[c] \in Seq(Nat) /\ replay[c] \in Seq(Nat) /\ chan[c] \in Seq(Nat)
          /\ nextID \in Nat /\ LastOf(got[c]) \in 0..nextID /\ stored \subseteq 1..nextID
          /\ \A y \in Elems(got[c]) \union Elems(replay[c]) \union Elems(chan[c]) : y \in 1..nextID
      BY Ids
    <2>2. \A y \in 1..nextID : y \in Nat /\ y < x
      BY <1>0, <2>1
    <2>3. LastOf(got[c]) \in Nat /\ LastOf(got[c]) < x
      BY <1>0, <2>1
    <2>. QED  BY <2>1, <2>2, <2>3
  <1>3. Gone(c)' = Gone(c) /\ Conn(c)' = Conn(c)
    BY <1>1 DEF Gone, Conn
  <1>4. CASE Conn(c) \notin subs /\ chan'[c] = chan[c] /\ lost'[c] = lost[c]
    <2>1. OrderOK(c)'
      BY <1>1, <1>3, <1>4 DEF OrderOK
    <2>2. ASSUME NEW i \in stored PROVE (Covered(c, i)' <=> Covered(c, i)) /\ (Ahead(c, i)' <=> Ahead(c, i))
      BY <1>1, <1>4 DEF Covered, Ahead
    <2>3. Ahead(c, x)' /\ ~(x <= LastOf(got[c]))
      BY <1>1, <1>2, <1>4 DEF Ahead
    <2>4. SkipOK(c)'
      BY <1>1, <1>3, <1>4, <2>2, <2>3 DEF SkipOK
    <2>. QED  BY <2>1, <2>4
  <1>5. CASE Conn(c) \in subs /\ chan'[c] = Append(chan[c], x) /\ lost'[c] = lost[c]
    <2>1. ~Gone(c)
      BY <1>5 DEF ChanInv
    <2>2. Increasing(chan[c]) /\ \A y \in Elems(chan[c]) : y < x
      BY <1>2, <2>1 DEF OrderOK
    <2>3. Elems(chan'[c]) = Elems(chan[c]) \union {x} /\ Increasing(chan'[c])
      BY <1>2, <1>5, <2>2, AppendFacts
    <2>4. OrderOK(c)'
      BY <1>1, <1>2, <1>3, <2>1, <2>3 DEF OrderOK
    <2>5. \A i \in stored' : Covered(c, i)'
      BY <1>1, <1>5, <2>3 DEF SkipOK, Covered
    <2>6. \A i \in stored' : i <= LastOf(got[c]) => i \in Elems(got[c]) \union lost[c]
      BY <1>1, <1>2 DEF SkipOK
    <2>7. SkipOK(c)'
      BY <1>1, <1>5, <2>5, <2>6 DEF SkipOK
    <2>. QED  BY <2>4, <2>7
  <1>6. CASE Conn(c) \in subs /\ chan'[c] = chan[c] /\ lost'[c] = lost[c] \union {x}
    <2>1. OrderOK(c)'
      BY <1>1, <1>3, <1>6 DEF OrderOK
    <2>2. \A i \in stored' : Covered(c, i)'
      BY <1>1, <1>6 DEF SkipOK, Covered
    <2>3. \A i \in stored' : i <= LastOf(got[c]) => i \in Elems(got[c]) \union lost[c]
      BY <1>1, <1>2 DEF SkipOK
    <2>4. SkipOK(c)'
      BY <1>1, <1>6, <2>2, <2>3 DEF SkipOK
    <2>. QED  BY <2>1, <2>4
  <1>. QED  BY <1>0, <1>4, <1>5, <1>6, PublishChan

LEMMA ConnectClient ==
  ASSUME TypeOK, ChanInv, RingInv, NEW c \in Clients, NEW f \in BOOLEAN, Connect(c, f),
         OrderOK(c), SkipOK(c)
  PROVE  OrderOK(c)' /\ SkipOK(c)'
  <1>. DEFINE a == LastOf(got[c])
  <1>0. /\ ring \in Seq(Nat) /\ got[c] \in Seq(Nat) /\ a \in Nat /\ stored \subseteq Nat
        /\ Increasing(got[c]) /\ Increasing(ring)
        /\ conns \in [Clients -> 0..MaxConns] /\ MaxConns \in Nat
    BY Ids, BoundAssumption DEF OrderOK, RingInv, TypeOK
  <1>1. /\ stored' = stored /\ got' = got /\ chan'[c] = <<>> /\ pc'[c] = "replay" /\ closed' = closed
        /\ conns' = [conns EXCEPT ![c] = conns[c] + 1] /\ Conn(c)' = <<c, conns[c] + 1>>
    <2>1. /\ chan \in [Clients -> Seq(1..nextID)]
          /\ pc \in [Clients -> {"off", "left", "replay", "live"}]
      BY DEF TypeOK
    <2>. QED  BY <1>0, <2>1 DEF Connect, Subscribe, ringVars, Conn
  <1>2. Elems(chan'[c]) = {} /\ Increasing(chan'[c]) /\ ~Gone(c)'
    BY <1>1 DEF Elems, Increasing, Gone
  <1>3. \A i \in stored : i <= a => i \in Elems(got[c]) \union lost[c]
    BY DEF SkipOK
  <1>4. CASE closed
    <2>1. replay'[c] = <<>> /\ lost' = lost /\ subs' = subs
      BY <1>4 DEF Connect, Subscribe, TypeOK
    <2>2. Elems(replay'[c]) = {} /\ Increasing(replay'[c])
      BY <2>1 DEF Elems, Increasing
    <2>3. Conn(c)' \notin subs'
      BY <1>4, <2>1 DEF ChanInv
    <2>4. OrderOK(c)'
      BY <1>0, <1>1, <1>2, <2>2 DEF OrderOK
    <2>5. ASSUME NEW i \in stored PROVE Covered(c, i)' \/ Ahead(c, i)'
      BY <1>0, <1>1, <1>2, <1>3, <2>1, <2>2 DEF Covered, Ahead
    <2>6. SkipOK(c)'
      BY <1>1, <1>3, <2>1, <2>3, <2>5 DEF SkipOK
    <2>. QED  BY <2>4, <2>6
  <1>5. CASE ~closed
    <2>1. replay'[c] = After(a) /\ lost'[c] = lost[c] \union Evicted(a)
      BY <1>5 DEF Connect, Subscribe, TypeOK
    <2>. HIDE DEF a
    <2>2. Elems(replay'[c]) = {i \in Elems(ring) : i > a} /\ Increasing(replay'[c])
      BY <1>0, <2>1, AfterFacts
    <2>3. OrderOK(c)'
      BY <1>0, <1>1, <1>2, <2>2 DEF OrderOK, a
    <2>4. ASSUME NEW i \in stored PROVE Covered(c, i)'
      <3>1. CASE i <= a
        BY <1>1, <1>3, <2>1, <3>1 DEF Covered
      <3>2. CASE i > a
        BY <2>1, <2>2, <3>2 DEF Covered, Evicted
      <3>. QED  BY <1>0, <3>1, <3>2
    <2>5. SkipOK(c)'
      BY <1>1, <1>3, <2>1, <2>4 DEF SkipOK, a
    <2>. QED  BY <2>3, <2>5
  <1>. QED  BY <1>4, <1>5

\* The next event is taken from the front of the replay, or of the channel.
LEMMA ReadClient ==
  ASSUME TypeOK, NEW c \in Clients, WriteReplay(c) \/ Receive(c), OrderOK(c), SkipOK(c)
  PROVE  OrderOK(c)' /\ SkipOK(c)'
  <1>0. /\ got[c] \in Seq(Nat) /\ replay[c] \in Seq(Nat) /\ chan[c] \in Seq(Nat)
        /\ stored \subseteq Nat /\ LastOf(got[c]) \in Nat
        /\ Elems(got[c]) \subseteq Nat /\ Elems(replay[c]) \subseteq Nat /\ Elems(chan[c]) \subseteq Nat
    BY Ids, ElemsIn
  <1>1. /\ stored' = stored /\ pc' = pc /\ lost' = lost /\ subs' = subs /\ Conn(c)' = Conn(c)
        /\ ~Gone(c) /\ Gone(c)' = Gone(c)
    BY DEF WriteReplay, Receive, Gone, Conn, ringVars, connVars
  <1>2. /\ Increasing(got[c]) /\ Increasing(replay[c]) /\ Increasing(chan[c])
        /\ \A x \in Elems(replay[c]) \union Elems(chan[c]) : LastOf(got[c]) < x
        /\ \A x \in Elems(replay[c]), y \in Elems(chan[c]) : x < y
        /\ \A x \in Elems(got[c]) : x <= LastOf(got[c])
    BY <1>0, <1>1, ElemsIn DEF OrderOK
  \* It is the least of what is on its way, so nothing is left behind.
  <1>3. ASSUME NEW h \in Nat, got'[c] = Append(got[c], h),
               LastOf(got[c]) < h,
               h \notin Elems(replay'[c]) \union Elems(chan'[c]),
               Elems(replay[c]) \union Elems(chan[c]) = Elems(replay'[c]) \union Elems(chan'[c]) \union {h},
               \A x \in Elems(replay'[c]) \union Elems(chan'[c]) : h < x,
               Increasing(replay'[c]), Increasing(chan'[c]),
               \A x \in Elems(replay'[c]), y \in Elems(chan'[c]) : x < y,
               pc[c] = "live" => replay'[c] = <<>>
        PROVE  OrderOK(c)' /\ SkipOK(c)'
    <2>1. Elems(got'[c]) = Elems(got[c]) \union {h} /\ LastOf(got'[c]) = h /\ Increasing(got'[c])
      <3>1. \A y \in Elems(got[c]) : y < h
        BY <1>0, <1>2, <1>3
      <3>. QED  BY <1>0, <1>2, <1>3, <3>1, AppendFacts
    <2>2. OrderOK(c)'
      BY <1>1, <1>3, <2>1 DEF OrderOK
    <2>3. ASSUME NEW i \in stored PROVE Covered(c, i) => Covered(c, i)'
      BY <1>1, <1>3, <2>1 DEF Covered
    <2>4. ASSUME NEW i \in stored PROVE Ahead(c, i) => Ahead(c, i)'
      BY <1>3, <2>1 DEF Ahead
    <2>5. ASSUME NEW i \in stored, i <= h PROVE i \in Elems(got'[c]) \union lost[c]
      <3>1. CASE i <= LastOf(got[c])
        BY <2>1, <3>1 DEF SkipOK
      <3>2. CASE LastOf(got[c]) < i
        <4>1. ~Ahead(c, i)
          BY <1>0, <1>3, <2>5 DEF Ahead
        <4>2. Covered(c, i)
          BY <1>1, <4>1 DEF SkipOK
        <4>3. i \notin Elems(replay'[c]) \union Elems(chan'[c])
          BY <1>0, <1>3, <2>5
        <4>. QED  BY <1>3, <2>1, <4>2, <4>3 DEF Covered
      <3>. QED  BY <1>0, <3>1, <3>2
    <2>6. SkipOK(c)'
      BY <1>1, <2>1, <2>3, <2>4, <2>5 DEF SkipOK
    <2>. QED  BY <2>2, <2>6
  <1>4. CASE WriteReplay(c)
    <2>. DEFINE h == Head(replay[c])
    <2>1. /\ replay[c] # <<>> /\ got'[c] = Append(got[c], h) /\ replay'[c] = Tail(replay[c])
          /\ chan'[c] = chan[c] /\ pc[c] = "replay"
      BY <1>4 DEF WriteReplay, TypeOK
    <2>2. /\ h \in Nat /\ Elems(replay[c]) = {h} \union Elems(replay'[c]) /\ Increasing(replay'[c])
          /\ \A y \in Elems(replay'[c]) : h < y
      BY <1>0, <1>2, <2>1, TailFacts
    <2>. HIDE DEF h
    <2>3. h \notin Elems(replay'[c]) \union Elems(chan'[c])
          /\ \A x \in Elems(replay'[c]) \union Elems(chan'[c]) : h < x
      <3>1. h \in Elems(replay[c]) /\ Elems(chan'[c]) = Elems(chan[c]) /\ Elems(chan[c]) \subseteq Nat
        BY <1>0, <2>1, <2>2
      <3>2. \A x \in Elems(chan[c]) : h < x
        BY <1>2, <3>1
      <3>3. \A x \in Elems(replay'[c]) \union Elems(chan'[c]) : h < x
        BY <2>2, <3>1, <3>2
      <3>. QED  BY <2>2, <3>3
    <2>. QED  BY <1>2, <1>3, <2>1, <2>2, <2>3
  <1>5. CASE Receive(c)
    <2>. DEFINE h == Head(chan[c])
    <2>1. /\ chan[c] # <<>> /\ got'[c] = Append(got[c], h) /\ chan'[c] = Tail(chan[c])
          /\ replay'[c] = replay[c] /\ replay[c] = <<>>
      BY <1>5 DEF Receive, TypeOK, OrderOK
    <2>2. /\ h \in Nat /\ Elems(chan[c]) = {h} \union Elems(chan'[c]) /\ Increasing(chan'[c])
          /\ \A y \in Elems(chan'[c]) : h < y
      BY <1>0, <1>2, <2>1, TailFacts
    <2>. HIDE DEF h
    <2>3. Elems(replay'[c]) = {}
      BY <2>1 DEF Elems
    <2>4. h \notin Elems(replay'[c]) \union Elems(chan'[c])
          /\ \A x \in Elems(replay'[c]) \union Elems(chan'[c]) : h < x
      BY <1>0, <2>2, <2>3
    <2>. QED  BY <1>2, <1>3, <2>1, <2>2, <2>3, <2>4
  <1>. QED  BY <1>4, <1>5

LEMMA ClientStep ==
  ASSUME TypeOK, ChanInv, RingInv, OrderInv, SkipInv, [Next]_vars
  PROVE  OrderInv' /\ SkipInv'
  <1>. USE DEF ringVars, connVars
  <1>. SUFFICES ASSUME NEW c \in Clients PROVE OrderOK(c)' /\ SkipOK(c)'
    BY DEF OrderInv, SkipInv, OrderOK, SkipOK
  <1>0. OrderOK(c) /\ SkipOK(c)
    BY DEF OrderInv, SkipInv, OrderOK, SkipOK
  <1>a. /\ pc \in [Clients -> {"off", "left", "replay", "live"}]
        /\ replay \in [Clients -> Seq(1..nextID)] /\ chan \in [Clients -> Seq(1..nextID)]
        /\ got \in [Clients -> Seq(1..nextID)] /\ lost \in [Clients -> SUBSET (1..nextID)]
        /\ conns \in [Clients -> 0..MaxConns] /\ MaxConns \in Nat
    BY BoundAssumption DEF TypeOK
  \* A step that is about the broker, or about another client.
  <1>b. ASSUME stored' = stored, subs' \subseteq subs \union {k \in Channels : k[1] # c},
               conns'[c] = conns[c], replay'[c] = replay[c], chan'[c] = chan[c],
               got'[c] = got[c], lost'[c] = lost[c], Gone(c)' \/ pc'[c] = pc[c]
        PROVE  OrderOK(c)' /\ SkipOK(c)'
    <2>1. Conn(c)' \in subs' => Conn(c) \in subs
      BY <1>b DEF Conn
    <2>. QED  BY <1>0, <1>b, <2>1, ClientKept
  <1>1. ASSUME NEW t \in Types, Publish(t) PROVE OrderOK(c)' /\ SkipOK(c)'
    <2>1. CASE t \in filter
      BY <1>0, <1>1, <2>1, PublishClient
    <2>2. CASE t \notin filter
      BY <1>1, <1>b, <2>2 DEF Publish
    <2>. QED  BY <2>1, <2>2
  <1>2. ASSUME NEW f \in SUBSET Types, SetFilter(f) PROVE OrderOK(c)' /\ SkipOK(c)'
    BY <1>2, <1>b DEF SetFilter
  <1>3. ASSUME NEW d \in Clients, NEW f \in BOOLEAN, Connect(d, f)
        PROVE  OrderOK(c)' /\ SkipOK(c)'
    <2>1. CASE d = c
      BY <1>0, <1>3, <2>1, ConnectClient
    <2>2. CASE d # c
      <3>1. subs' \subseteq subs \union {k \in Channels : k[1] # c}
        BY <1>a, <1>3, <2>2 DEF Connect, Subscribe, Channels
      <3>2. /\ stored' = stored /\ conns'[c] = conns[c] /\ replay'[c] = replay[c]
            /\ chan'[c] = chan[c] /\ got'[c] = got[c] /\ lost'[c] = lost[c] /\ pc'[c] = pc[c]
        BY <1>a, <1>3, <2>2 DEF Connect, Subscribe
      <3>. QED  BY <1>b, <3>1, <3>2
    <2>. QED  BY <2>1, <2>2
  <1>4. ASSUME NEW d \in Clients, WriteReplay(d) \/ Receive(d) PROVE OrderOK(c)' /\ SkipOK(c)'
    <2>1. CASE d = c
      BY <1>0, <1>4, <2>1, ReadClient
    <2>2. CASE d # c
      BY <1>a, <1>b, <1>4, <2>2 DEF WriteReplay, Receive
    <2>. QED  BY <2>1, <2>2
  <1>5. ASSUME NEW d \in Clients, EndReplay(d) PROVE OrderOK(c)' /\ SkipOK(c)'
    <2>1. CASE d = c
      <3>1. /\ stored' = stored /\ subs' = subs /\ Conn(c)' = Conn(c) /\ replay' = replay
            /\ chan' = chan /\ got' = got /\ lost' = lost
            /\ replay[c] = <<>> /\ ~Gone(c) /\ ~Gone(c)'
        BY <1>a, <1>5, <2>1 DEF EndReplay, Conn, Gone
      <3>2. OrderOK(c)'
        BY <1>0, <3>1 DEF OrderOK
      <3>3. ASSUME NEW i \in stored
            PROVE  (Covered(c, i)' <=> Covered(c, i)) /\ (Ahead(c, i)' <=> Ahead(c, i))
        BY <3>1 DEF Covered, Ahead
      <3>4. SkipOK(c)'
        BY <1>0, <3>1, <3>3 DEF SkipOK
      <3>. QED  BY <3>2, <3>4
    <2>2. CASE d # c
      BY <1>a, <1>b, <1>5, <2>2 DEF EndReplay
    <2>. QED  BY <2>1, <2>2
  <1>6. ASSUME NEW d \in Clients, Finish(d) \/ Disconnect(d) PROVE OrderOK(c)' /\ SkipOK(c)'
    <2>1. Gone(c)' \/ pc'[c] = pc[c]
      BY <1>a, <1>6 DEF Finish, Disconnect, Gone
    <2>. QED  BY <1>b, <1>6, <2>1 DEF Finish, Disconnect, Unsubscribe
  <1>7. CASE CloseBroker
    BY <1>7, <1>b DEF CloseBroker
  <1>8. ASSUME NEW k \in Channels, CloseChannel(k) PROVE OrderOK(c)' /\ SkipOK(c)'
    BY <1>8, <1>b DEF CloseChannel
  <1>9. CASE UNCHANGED vars
    BY <1>9, <1>b DEF vars
  <1>. QED  BY <1>1, <1>2, <1>3, <1>4, <1>5, <1>6, <1>7, <1>8, <1>9 DEF Next

-----------------------------------------------------------------------------
(* The inductive invariant and what follows from it.                       *)

LEMMA InitInv == Init => IInv
  <1>. SUFFICES ASSUME Init PROVE IInv
    OBVIOUS
  <1>1. ChanInv
    BY DEF Init, ChanInv
  <1>2. RingInv
    BY DEF Init, RingInv, Increasing, Elems
  <1>3. OrderInv
    BY DEF Init, OrderInv, Increasing, Gone
  <1>4. SkipInv
    BY DEF Init, SkipInv
  <1>. QED  BY <1>1, <1>2, <1>3, <1>4, TypeInit DEF IInv

LEMMA StepInv == IInv /\ [Next]_vars => IInv'
  BY TypeStep, ChanStep, RingStep, ClientStep DEF IInv

(* Ids come from the counter; the ring and the channels stay within their  *)
(* capacities.                                                             *)
THEOREM TypeCorrect == Spec => []TypeOK
  <1>1. IInv => TypeOK
    BY DEF IInv
  <1>. QED  BY <1>1, InitInv, StepInv, PTL DEF Spec

(* broker.go:286: no channel that publish may send on, or that Close is    *)
(* about to close, has been closed: neither cancel nor Close panics.       *)
THEOREM ChannelsSafeHolds == Spec => []ChannelsSafe
  <1>1. IInv => ChannelsSafe
    BY DEF IInv, ChanInv, ChannelsSafe
  <1>. QED  BY <1>1, InitInv, StepInv, PTL DEF Spec

(* events.go:44: over replay, channel and reconnects a client reads ids in *)
(* strictly increasing order.                                              *)
THEOREM InOrderHolds == Spec => []InOrder
  <1>1. IInv => InOrder
    BY DEF IInv, OrderInv, InOrder
  <1>. QED  BY <1>1, InitInv, StepInv, PTL DEF Spec

(* events.go:44, broker.go:172: the hand-over from replay to channel skips *)
(* nothing, and the ring lets an event go only for Cap newer ones.         *)
THEOREM NothingSkippedHolds == Spec => []NothingSkipped
  <1>1. IInv => NothingSkipped
    <2>. SUFFICES ASSUME IInv PROVE NothingSkipped
      OBVIOUS
    <2>0. /\ nextID \in Nat /\ stored \subseteq 1..nextID /\ ring \in Seq(Nat)
          /\ Len(ring) \in Nat /\ Cap \in Nat /\ Len(ring) <= Cap
      BY Ids, CapAssumption DEF IInv, TypeOK
    <2>1. \A c \in Clients : \A i \in stored :
            i < LastOf(got[c]) => i \in Elems(got[c]) \union lost[c]
      <3>1. \A c \in Clients : LastOf(got[c]) \in Nat
        BY Ids DEF IInv
      <3>. TAKE c \in Clients
      <3>. TAKE i \in stored
      <3>2. i \in Nat /\ LastOf(got[c]) \in Nat
        BY <2>0, <3>1
      <3>. QED  BY <3>2 DEF IInv, SkipInv
    <2>2. ASSUME NEW i \in stored, i \notin Elems(ring)
          PROVE  Cardinality({j \in stored : j > i}) >= Cap
      <3>. DEFINE T == {j \in stored : j > i}
      <3>1. Len(ring) = Cap
        BY <2>0, <2>2 DEF IInv, RingInv
      <3>2. ring \in Injection(1..Cap, T)
        <4>1. ring \in [1..Cap -> T]
          <5>1. \A k \in 1..Cap : ring[k] \in stored /\ ring[k] > i
            BY <2>0, <2>2, <3>1 DEF IInv, RingInv, Elems
          <5>2. DOMAIN ring = 1..Cap /\ ring = [k \in 1..Cap |-> ring[k]]
            BY <2>0, <3>1
          <5>. QED  BY <5>1, <5>2
        <4>2. \A k, l \in 1..Cap : ring[k] = ring[l] => k = l
          <5>1. ASSUME NEW k \in 1..Cap, NEW l \in 1..Cap, k < l PROVE ring[k] < ring[l]
            BY <2>0, <3>1, <5>1 DEF IInv, RingInv, Increasing
          <5>2. \A k \in 1..Cap : ring[k] \in Nat
            BY <2>0, <3>1
          <5>. QED  BY <2>0, <5>1, <5>2
        <4>. QED  BY <4>1, <4>2 DEF Injection, IsInjective
      <3>3. IsFiniteSet(T)
        <4>0. \A j \in stored : j \in Nat /\ j <= nextID
          BY <2>0
        <4>1. T \in SUBSET Nat /\ \A j \in T : j <= nextID
          BY <4>0
        <4>. HIDE DEF T
        <4>. QED  BY <2>0, <4>1, FS_BoundedSetOfNaturals
      <3>4. Cardinality(1..Cap) = Cap
        BY <2>0, FS_Interval, CapAssumption
      <3>5. Cardinality(1..Cap) <= Cardinality(T)
        <4>. HIDE DEF T
        <4>. QED  BY <3>2, <3>3, FS_Injection
      <3>6. Cardinality(T) \in Nat
        <4>. HIDE DEF T
        <4>. QED  BY <3>3, FS_CardinalityType
      <3>. QED  BY <2>0, <3>4, <3>5, <3>6
    <2>. QED  BY <2>1, <2>2 DEF NothingSkipped
  <1>. QED  BY <1>1, InitInv, StepInv, PTL DEF Spec
=============================================================================
