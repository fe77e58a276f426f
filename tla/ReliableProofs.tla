--------------------------- MODULE ReliableProofs ---------------------------
(***************************************************************************)
(* Theorems about the reliability layer, for every size of its windows,    *)
(* ack arrays and records, every number of packets and every network.      *)
(***************************************************************************)
EXTENDS ReliableChannel, FiniteSetTheorems, WellFoundedInduction, TLAPS

\* The packets 1, ..., n in order.
FirstPackets(n) == [i \in 1 .. n |-> i]

\* Entries of a window that differ in their ids.
Distinct(E) == \A e, f \in E : e.id = f.id => e = f

\* A receive window at base holds the packet with this id, or is past it.
StoredIn(base, buf, id) == id < base \/ \E e \in buf : e.id = id

\* Peer p has delivered the packet with this id or holds it.
Stored(p, id) == StoredIn(recId[p], recBuf[p], id)

(* A send window with next id top: every entry is the packet its id says,  *)
(* no two have one id, and the ids span less than SendSize.                *)
SendWindow(buf, top) ==
    /\ buf \in SUBSET SendEntry
    /\ \A e \in buf : e.id < top /\ e.data = e.id + 1
    /\ Distinct(buf)
    /\ \A e, f \in buf : e.id - f.id < SendSize

(* A receive window at base of packets whose next id is top: it holds      *)
(* packets of the RecSize ids from base on.                                *)
RecWindow(buf, base, top) ==
    /\ buf \in SUBSET RecEntry
    /\ \A e \in buf : /\ base <= e.id /\ e.id < base + RecSize
                      /\ e.id < top /\ e.data = e.id + 1

(* What was handed over is numbered in order.                              *)
SendInv(p) ==
    /\ sendId[p] <= MaxSegs(p)
    /\ sent[p] = FirstPackets(sendId[p])
    /\ ks_state[p] = "S_INITIAL" => sendId[p] = 0
    /\ SendWindow(sendBuf[p], sendId[p])

(* What was delivered is a prefix of what was sent.                        *)
RecInv(p) ==
    /\ recId[p] <= sendId[Other(p)]
    /\ got[p] = FirstPackets(recId[p])
    /\ RecWindow(recBuf[p], recId[p], sendId[Other(p)])

(* Whatever is acknowledged, or will be, is stored.                        *)
AckInv(p) ==
    /\ Len(recAck[p]) <= AckSize /\ Len(lruAcks[p]) <= AckSize
    /\ \A i \in DOMAIN recAck[p] : Stored(p, recAck[p][i])
    /\ \A i \in DOMAIN lruAcks[p] : Stored(p, lruAcks[p][i])

(* A packet in the network is the one its id says, and its acks are true.  *)
NetInv(m) ==
    /\ m.id # NoId => m.id < sendId[Other(m.to)] /\ m.data = m.id + 1
    /\ \A i \in DOMAIN m.acks : Stored(Other(m.to), m.acks[i])

(* What has left the send window is stored at the other side.              *)
PurgedInv(p) ==
    \A id \in 0 .. sendId[p] - 1 : (\E e \in sendBuf[p] : e.id = id) \/ Stored(Other(p), id)

(* The type invariant, without the sizes that follow from the rest.        *)
Shape ==
    /\ ks_state \in [Peers -> States] /\ linked \in [Peers -> BOOLEAN]
    /\ sendId \in [Peers -> Ids] /\ recId \in [Peers -> Ids]
    /\ sendBuf \in [Peers -> SUBSET SendEntry] /\ recBuf \in [Peers -> SUBSET RecEntry]
    /\ recAck \in [Peers -> Seq(Ids)] /\ lruAcks \in [Peers -> Seq(Ids)]
    /\ net \in SUBSET Packet
    /\ sent \in [Peers -> Seq(Data)] /\ got \in [Peers -> Seq(Data)]

ChannelInv ==
    /\ Shape
    /\ \A p \in Peers : SendInv(p) /\ RecInv(p) /\ AckInv(p) /\ PurgedInv(p)
    /\ \A m \in net : NetInv(m)
-----------------------------------------------------------------------------
(* Numbers.                                                                *)

\* A remainder below the modulus, and one just below zero.
LEMMA ModFacts ==
    ASSUME NEW M \in Nat
    PROVE  /\ \A a \in 0 .. M - 1 : a % M = a
           /\ \A a \in 1 .. M - 1 : (-a) % M = M - a
  OBVIOUS

\* A non-empty set of numbers has a least element, and a greatest if bounded.
LEMMA Least ==
    ASSUME NEW T \in SUBSET Nat, T # {}
    PROVE  \E x \in T : \A y \in T : x <= y
  <1> DEFINE R == {ss \in Nat \X Nat : ss[1] < ss[2]}
  <1>1. OpToRel(<, Nat) = R
    BY Zenon DEF OpToRel
  <1>2. IsWellFoundedOn(R, Nat)
    BY <1>1, NatLessThanWellFounded, Zenon
  <1>3. PICK x \in T : \A y \in T : ~ (<<y, x>> \in R)
    BY <1>2, WFMin, Zenon
  <1>4. ASSUME NEW y \in T
        PROVE  x <= y
    <2>1. <<y, x>> \in Nat \X Nat /\ <<y, x>>[1] = y /\ <<y, x>>[2] = x
      OBVIOUS
    <2>2. ~ (y < x)
      BY <1>3, <2>1
    <2> QED
      BY <2>2
  <1> QED
    BY <1>4

LEMMA Greatest ==
    ASSUME NEW k \in Nat, NEW T \in SUBSET (0 .. k), T # {}
    PROVE  Max(T) \in T /\ \A y \in T : y <= Max(T)
  <1> DEFINE U == {n \in 0 .. k : k - n \in T}
  <1>1. U \in SUBSET Nat
    OBVIOUS
  <1>2. PICK t : t \in T
    OBVIOUS
  <1>3. k - t \in U
    BY <1>2
  <1>4. PICK u \in U : \A y \in U : u <= y
    BY <1>1, <1>3, Least
  <1>5. k - u \in T
    BY <1>4
  <1>6. ASSUME NEW y \in T
        PROVE  k - u >= y
    <2>1. k - y \in U
      OBVIOUS
    <2>2. u <= k - y /\ u \in 0 .. k /\ y \in 0 .. k
      BY <1>4, <2>1
    <2> HIDE DEF U
    <2> QED
      BY <2>2
  <1> QED
    BY <1>5, <1>6 DEF Max

LEMMA MinFacts ==
    ASSUME NEW a \in Int, NEW b \in Int
    PROVE  Min({a, b}) = IF a <= b THEN a ELSE b
  <1>1. CASE a <= b
    BY <1>1 DEF Min
  <1>2. CASE ~ (a <= b)
    BY <1>2 DEF Min
  <1> QED
    BY <1>1, <1>2

-----------------------------------------------------------------------------
(* Packet ids and entries.                                                 *)

\* The ids of a run: far enough from wrapping.
Small(id) == id \in Nat /\ 2 * (id + 1) < IdMod

\* Among them the arithmetic of reliable.c is the usual order.
LEMMA PidFacts ==
    ASSUME NEW a, NEW b, Small(a), Small(b)
    PROVE  /\ subtract_pid(a, b) = IF a >= b THEN a - b ELSE a - b + IdMod
           /\ reliable_pid_in_range1(a, b, Half) <=> a >= b
           /\ reliable_pid_min(a, b) <=> a < b
  <1> USE NoWrapAssumption DEF Small
  <1>1. subtract_pid(a, b) = IF a >= b THEN a - b ELSE a - b + IdMod
    <2>1. CASE a >= b
      <3>1. a - b \in 0 .. IdMod - 1
        BY <2>1
      <3> QED
        BY <2>1, <3>1, ModFacts DEF subtract_pid
    <2>2. CASE a < b
      <3>1. b - a \in 1 .. IdMod - 1 /\ -(b - a) = a - b
        BY <2>2
      <3>2. (-(b - a)) % IdMod = IdMod - (b - a)
        BY <3>1, ModFacts
      <3> QED
        BY <2>2, <3>1, <3>2 DEF subtract_pid
    <2> QED
      BY <2>1, <2>2
  <1>2. 2 * Half <= IdMod /\ IdMod <= 2 * Half + 1 /\ Half \in Nat
    BY DEF Half
  <1>3. reliable_pid_in_range1(a, b, Half) <=> a >= b
    BY <1>1, <1>2 DEF reliable_pid_in_range1
  <1> QED
    BY <1>1, <1>3 DEF reliable_pid_min

\* Lowest() finds the entry with the lowest id.
LEMMA LowestFacts ==
    ASSUME NEW E, E # {}, \A e \in E : Small(e.id), Distinct(E)
    PROVE  Lowest(E) \in E /\ \A f \in E : Lowest(E).id <= f.id
  <1> DEFINE T == {e.id : e \in E}
             IsLowest(e) == \A f \in E \ {e} : reliable_pid_min(e.id, f.id)
  <1>1. T \in SUBSET Nat /\ T # {}
    BY DEF Small
  <1>2. PICK x \in T : \A y \in T : x <= y
    BY <1>1, Least
  <1>3. PICK e \in E : e.id = x
    BY <1>2
  <1>4. ASSUME NEW f \in E \ {e}
        PROVE  reliable_pid_min(e.id, f.id)
    <2>1. e.id <= f.id /\ e.id # f.id
      BY <1>2, <1>3 DEF Distinct
    <2>2. e.id < f.id
      BY <2>1 DEF Small
    <2> QED
      BY <2>2, PidFacts
  <1>5. IsLowest(e)
    BY <1>4
  <1>6. Lowest(E) \in E /\ IsLowest(Lowest(E))
    <2>1. \E l \in E : IsLowest(l)
      BY <1>5
    <2> QED
      BY <2>1, Zenon DEF Lowest
  <1>7. ASSUME NEW f \in E
        PROVE  Lowest(E).id <= f.id
    <2>1. CASE f = Lowest(E)
      BY <1>6, <2>1 DEF Small
    <2>2. CASE f # Lowest(E)
      <3>1. reliable_pid_min(Lowest(E).id, f.id)
        BY <1>6, <2>2
      <3>2. Small(Lowest(E).id) /\ Small(f.id)
        BY <1>6
      <3>3. Lowest(E).id < f.id
        BY <3>1, <3>2, PidFacts
      <3> QED
        BY <3>2, <3>3 DEF Small
    <2> QED
      BY <2>1, <2>2
  <1> QED
    BY <1>6, <1>7

\* A window of k ids holds at most k entries.
LEMMA WindowCardinality ==
    ASSUME NEW E, NEW lo \in Int, NEW k \in Nat,
           \A e \in E : e.id \in lo .. lo + k - 1, Distinct(E)
    PROVE  IsFiniteSet(E) /\ Cardinality(E) <= k /\ Cardinality(E) \in Nat
  <1> DEFINE f == [e \in E |-> e.id]
             W == lo .. lo + k - 1
  <1>1. IsFiniteSet(W) /\ Cardinality(W) = k
    BY FS_Interval
  <1>2. f \in Injection(E, W)
    BY DEF Injection, IsInjective, Distinct
  <1>3. IsFiniteSet(E) /\ Cardinality(E) <= Cardinality(W)
    BY <1>1, <1>2, FS_Injection
  <1> QED
    BY <1>1, <1>3, FS_CardinalityType

\* The packets in sequence that DeliverInSequence() finds are there.
LEMMA InSequenceFacts ==
    ASSUME NEW buf, NEW base \in Nat, base + RecSize < IdMod
    PROVE  LET n == InSequence(buf, base)
           IN  /\ n \in 0 .. RecSize
               /\ \A i \in 0 .. n - 1 : \E e \in buf : e.id = base + i
  <1> USE SizesAssumption, NoWrapAssumption
  <1> DEFINE T == {n \in 0 .. RecSize : \A i \in 0 .. n - 1 : \E e \in buf : e.id = (base + i) % IdMod}
             n == InSequence(buf, base)
  <1>1. 0 \in T
    OBVIOUS
  <1>2. n \in T
    BY <1>1, Greatest DEF InSequence
  <1>3. ASSUME NEW i \in 0 .. n - 1
        PROVE  (base + i) % IdMod = base + i
    <2>1. base + i \in 0 .. IdMod - 1
      BY <1>2
    <2> QED
      BY <2>1, ModFacts
  <1> QED
    BY <1>2, <1>3
-----------------------------------------------------------------------------
(* Acknowledgements.                                                       *)

\* The elements of K up to n.
Upto(K, n) == {j \in K : j <= n}

LEMMA UptoFacts ==
    ASSUME NEW len \in Nat, NEW K \in SUBSET (1 .. len), NEW n \in Nat
    PROVE  /\ Upto(K, n) \in SUBSET K
           /\ Upto(K, len) = K
           /\ Upto(K, 0) = {}
           /\ n # 0 => Upto(K, n) = IF n \in K THEN Upto(K, n - 1) \cup {n} ELSE Upto(K, n - 1)
           /\ n # 0 => {j \in K : j < n} = Upto(K, n - 1)
           /\ n # 0 => n \notin Upto(K, n - 1)
  <1>1. Upto(K, n) \in SUBSET K
    BY DEF Upto
  <1>2. \A j \in K : j \in 1 .. len /\ j <= len /\ ~ (j <= 0)
    OBVIOUS
  <1>3. Upto(K, len) = K
    BY <1>2, Zenon DEF Upto
  <1>4. Upto(K, 0) = {}
    BY <1>2, Zenon DEF Upto
  <1>5. ASSUME n # 0
        PROVE  /\ Upto(K, n) = IF n \in K THEN Upto(K, n - 1) \cup {n} ELSE Upto(K, n - 1)
               /\ {j \in K : j < n} = Upto(K, n - 1)
               /\ n \notin Upto(K, n - 1)
    <2>1. \A j \in K : (j <= n <=> j <= n - 1 \/ j = n) /\ (j < n <=> j <= n - 1)
      BY <1>2
    <2>2. {j \in K : j < n} = Upto(K, n - 1)
      BY <2>1 DEF Upto
    <2>3. n \notin Upto(K, n - 1)
      BY DEF Upto
    <2>4. Upto(K, n) = IF n \in K THEN Upto(K, n - 1) \cup {n} ELSE Upto(K, n - 1)
      <3>1. CASE n \in K
        BY <2>1, <3>1 DEF Upto
      <3>2. CASE n \notin K
        BY <2>1, <3>2 DEF Upto
      <3> QED
        BY <3>1, <3>2
    <2> QED
      BY <2>2, <2>3, <2>4
  <1> QED
    BY <1>1, <1>3, <1>4, <1>5

\* The k-th element of a set of numbers, counted from below, exists.
LEMMA NthExists ==
    ASSUME NEW len \in Nat, NEW K \in SUBSET (1 .. len), NEW k \in 1 .. Cardinality(K)
    PROVE  \E i \in K : Cardinality({j \in K : j < i}) = k - 1
  <1> DEFINE C(n) == Cardinality(Upto(K, n))
             T == {n \in Nat : C(n) >= k}
  <1>1. \A n \in Nat : IsFiniteSet(Upto(K, n)) /\ C(n) \in Nat
    <2> TAKE n \in Nat
    <2>1. IsFiniteSet(1 .. len)
      BY FS_Interval
    <2>2. Upto(K, n) \in SUBSET (1 .. len)
      BY UptoFacts
    <2> QED
      BY <2>1, <2>2, FS_Subset, FS_CardinalityType
  <1>2. Cardinality(K) \in Nat /\ k \in Nat \ {0} /\ C(len) >= k
    <2>1. C(len) = Cardinality(K)
      BY UptoFacts
    <2> QED
      BY <1>1, <2>1
  <1>3. len \in T
    BY <1>2
  <1>4. PICK i \in T : \A y \in T : i <= y
    BY <1>3, Least
  <1>5. i \in Nat /\ C(i) >= k
    BY <1>4
  <1>6. i # 0
    <2>1. C(0) = 0
      BY UptoFacts, FS_EmptySet
    <2> QED
      BY <1>2, <1>5, <2>1
  <1>7. i - 1 \in Nat /\ C(i - 1) < k
    <2>1. i - 1 \in Nat /\ i - 1 \notin T
      BY <1>4, <1>5, <1>6
    <2>2. ~ (C(i - 1) >= k)
      BY <2>1
    <2> QED
      BY <1>1, <1>2, <2>1, <2>2
  <1> HIDE DEF T
  <1>8. CASE i \in K
    <2>1. C(i) = C(i - 1) + 1
      <3>1. Upto(K, i) = IF i \in K THEN Upto(K, i - 1) \cup {i} ELSE Upto(K, i - 1)
        BY <1>5, <1>6, UptoFacts
      <3>2. i \notin Upto(K, i - 1)
        BY <1>5, <1>6, UptoFacts
      <3>3. Upto(K, i) = Upto(K, i - 1) \cup {i}
        BY <1>8, <3>1
      <3> QED
        BY <1>1, <1>7, <3>2, <3>3, FS_AddElement
    <2>2. {j \in K : j < i} = Upto(K, i - 1)
      BY <1>5, <1>6, UptoFacts
    <2>3. C(i - 1) = k - 1
      BY <1>1, <1>2, <1>5, <1>7, <2>1
    <2> QED
      BY <1>8, <2>2, <2>3
  <1>9. CASE i \notin K
    <2>1. Upto(K, i) = Upto(K, i - 1)
      BY <1>5, <1>6, <1>9, UptoFacts
    <2> QED
      BY <1>1, <1>2, <1>5, <1>7, <2>1
  <1> QED
    BY <1>8, <1>9

\* Removing ids from a list leaves ids of the list.
LEMMA WithoutFacts ==
    ASSUME NEW s \in Seq(Ids), NEW ids
    PROVE  /\ Without(s, ids) \in Seq(Ids)
           /\ \A k \in DOMAIN Without(s, ids) : \E i \in DOMAIN s : Without(s, ids)[k] = s[i]
  <1> DEFINE kept == {i \in DOMAIN s : s[i] \notin ids}
             nth(k) == CHOOSE i \in kept : Cardinality({j \in kept : j < i}) = k - 1
             r == [k \in 1 .. Cardinality(kept) |-> s[nth(k)]]
  <1>1. Without(s, ids) = r
    BY DEF Without
  <1>2. kept \in SUBSET (1 .. Len(s)) /\ Len(s) \in Nat
    OBVIOUS
  <1>3. Cardinality(kept) \in Nat
    <2>1. IsFiniteSet(1 .. Len(s))
      BY <1>2, FS_Interval
    <2> QED
      BY <1>2, <2>1, FS_Subset, FS_CardinalityType
  <1> HIDE DEF kept
  <1>4. \A k \in 1 .. Cardinality(kept) : nth(k) \in kept
    <2> TAKE k \in 1 .. Cardinality(kept)
    <2>1. \E i \in kept : Cardinality({j \in kept : j < i}) = k - 1
      BY <1>2, NthExists
    <2> QED
      BY <2>1, Zenon
  <1> HIDE DEF nth
  <1>5. \A k \in 1 .. Cardinality(kept) : nth(k) \in DOMAIN s /\ s[nth(k)] \in Ids
    <2>1. \A i \in kept : i \in DOMAIN s /\ s[i] \in Ids
      BY DEF kept
    <2> QED
      BY <1>4, <2>1
  <1>6. r \in Seq(Ids) /\ DOMAIN r = 1 .. Cardinality(kept)
    BY <1>3, <1>5
  <1>7. \A k \in 1 .. Cardinality(kept) : r[k] = s[nth(k)]
    OBVIOUS
  <1> QED
    BY <1>1, <1>5, <1>6, <1>7

\* The first n elements of a sequence, and the others.
LEMMA SubSeqFacts ==
    ASSUME NEW S, NEW s \in Seq(S), NEW n \in 0 .. Len(s)
    PROVE  /\ SubSeq(s, 1, n) \in Seq(S) /\ Len(SubSeq(s, 1, n)) = n
           /\ \A i \in 1 .. n : SubSeq(s, 1, n)[i] = s[i]
           /\ SubSeq(s, n + 1, Len(s)) \in Seq(S) /\ Len(SubSeq(s, n + 1, Len(s))) = Len(s) - n
           /\ \A i \in 1 .. Len(s) - n : SubSeq(s, n + 1, Len(s))[i] = s[n + i]
  OBVIOUS

\* Ids taken from two lists.
From(t, a, b) ==
    \A i \in DOMAIN t : (\E j \in DOMAIN a : t[i] = a[j]) \/ (\E j \in DOMAIN b : t[i] = b[j])

\* copy_acks_to_lru() keeps to its array and to the ids it is given.
LEMMA LruFacts ==
    ASSUME NEW first \in Seq(Ids), NEW lru \in Seq(Ids)
    PROVE  /\ copy_acks_to_lru(first, lru) \in Seq(Ids)
           /\ Len(copy_acks_to_lru(first, lru)) <= AckSize
           /\ From(copy_acks_to_lru(first, lru), first, lru)
  <1> USE SizesAssumption
  <1> DEFINE rest == Without(lru, Range(first))
             all == first \o rest
             n == Min({Len(all), AckSize})
  <1>1. rest \in Seq(Ids) /\ \A k \in DOMAIN rest : \E i \in DOMAIN lru : rest[k] = lru[i]
    BY WithoutFacts
  <1>2. copy_acks_to_lru(first, lru) = SubSeq(all, 1, n)
    BY DEF copy_acks_to_lru
  <1> HIDE DEF rest
  <1>3. all \in Seq(Ids) /\ Len(all) = Len(first) + Len(rest)
    BY <1>1
  <1>4. From(all, first, lru)
    <2> SUFFICES ASSUME NEW i \in DOMAIN all
                 PROVE  (\E j \in DOMAIN first : all[i] = first[j]) \/ (\E j \in DOMAIN lru : all[i] = lru[j])
      BY DEF From
    <2>1. CASE i <= Len(first)
      <3>1. i \in DOMAIN first /\ all[i] = first[i]
        BY <1>1, <2>1
      <3> QED
        BY <3>1
    <2>2. CASE i > Len(first)
      <3>1. i - Len(first) \in DOMAIN rest /\ all[i] = rest[i - Len(first)]
        BY <1>1, <2>2
      <3> QED
        BY <1>1, <3>1
    <2> QED
      BY <1>3, <2>1, <2>2
  <1> HIDE DEF all
  <1>5. n \in 0 .. Len(all) /\ n <= AckSize
    BY <1>3, MinFacts
  <1> HIDE DEF n
  <1>6. /\ SubSeq(all, 1, n) \in Seq(Ids) /\ Len(SubSeq(all, 1, n)) = n
        /\ \A i \in 1 .. n : SubSeq(all, 1, n)[i] = all[i]
    BY <1>3, <1>5, SubSeqFacts
  <1>7. From(SubSeq(all, 1, n), first, lru)
    BY <1>3, <1>4, <1>5, <1>6, SMTT(60) DEF From
  <1> QED
    BY <1>2, <1>5, <1>6, <1>7

\* So does reliable_ack_write(), on the wire and in what it leaves.
LEMMA AckWriteFacts ==
    ASSUME NEW ack \in Seq(Ids), NEW lru \in Seq(Ids), NEW max \in 1 .. AckSize, Len(ack) <= AckSize
    PROVE  LET w == reliable_ack_write(ack, lru, max)
           IN  /\ w.wire \in Seq(Ids) /\ w.lru \in Seq(Ids) /\ w.left \in Seq(Ids)
               /\ Len(w.lru) <= AckSize /\ Len(w.left) <= AckSize
               /\ From(w.wire, ack, lru) /\ From(w.lru, ack, lru) /\ From(w.left, ack, lru)
  <1> USE SizesAssumption
  <1> DEFINE n == Min({Len(ack), max})
             first == SubSeq(ack, 1, n)
             left == SubSeq(ack, n + 1, Len(ack))
             lru1 == copy_acks_to_lru(first, lru)
             k == Min({Len(lru1), max})
             wire == SubSeq(lru1, 1, k)
             w == reliable_ack_write(ack, lru, max)
  <1>1. w.wire = wire /\ w.lru = lru1 /\ w.left = left
    BY DEF reliable_ack_write
  <1>2. n \in 0 .. Len(ack)
    BY MinFacts
  <1> HIDE DEF n
  <1>3. /\ first \in Seq(Ids) /\ Len(first) = n /\ \A i \in 1 .. n : first[i] = ack[i]
        /\ left \in Seq(Ids) /\ Len(left) = Len(ack) - n
        /\ \A i \in 1 .. Len(ack) - n : left[i] = ack[n + i]
    BY <1>2, SubSeqFacts
  <1> HIDE DEF first, left
  <1>4. lru1 \in Seq(Ids) /\ Len(lru1) <= AckSize /\ From(lru1, first, lru)
    BY <1>3, LruFacts
  <1> HIDE DEF lru1
  <1>5. From(lru1, ack, lru)
    BY <1>2, <1>3, <1>4 DEF From
  <1>6. k \in 0 .. Len(lru1)
    BY <1>4, MinFacts
  <1> HIDE DEF k
  <1>7. wire \in Seq(Ids) /\ Len(wire) = k /\ \A i \in 1 .. k : wire[i] = lru1[i]
    BY <1>4, <1>6, SubSeqFacts
  <1> HIDE DEF wire
  <1>8. From(wire, ack, lru)
    BY <1>4, <1>5, <1>6, <1>7 DEF From
  <1>9. Len(left) <= AckSize
    BY <1>2, <1>3
  <1>10. From(left, ack, lru)
    <2> SUFFICES ASSUME NEW i \in DOMAIN left
                 PROVE  \E j \in DOMAIN ack : left[i] = ack[j]
      BY DEF From
    <2>1. n + i \in DOMAIN ack /\ left[i] = ack[n + i]
      BY <1>2, <1>3
    <2> QED
      BY <2>1
  <1> QED
    BY <1>1, <1>3, <1>4, <1>5, <1>7, <1>8, <1>9, <1>10
-----------------------------------------------------------------------------
(* The send window.                                                        *)

LEMMA ConstantFacts ==
    ASSUME NEW p \in Peers
    PROVE  /\ Other(p) \in Peers /\ Other(p) # p /\ Other(Other(p)) = p
           /\ \A q \in Peers : q = p \/ q = Other(p)
           /\ MaxSegs(p) \in Nat \ {0} /\ 2 * (MaxSegs(p) + RecSize) < IdMod
  BY NoWrapAssumption DEF Peers, Other, MaxSegs

\* A send window fits its array.
LEMMA SendWindowFits ==
    ASSUME NEW p \in Peers, NEW top \in 0 .. MaxSegs(p), NEW buf, SendWindow(buf, top)
    PROVE  /\ Cardinality(buf) <= SendSize
           /\ \A e \in buf : Small(e.id)
  <1> USE SizesAssumption, NoWrapAssumption, ConstantFacts
  <1>1. \A e \in buf : Small(e.id) /\ e.id \in Nat
    BY DEF SendWindow, Small, SendEntry, Ids
  <1>2. CASE buf = {}
    BY <1>1, <1>2, FS_EmptySet
  <1>3. CASE buf # {}
    <2> DEFINE lo == Lowest(buf).id
    <2>1. Lowest(buf) \in buf /\ \A f \in buf : lo <= f.id
      BY <1>1, <1>3, LowestFacts DEF SendWindow
    <2>2. lo \in Nat /\ \A f \in buf : f.id - lo < SendSize
      BY <1>1, <2>1 DEF SendWindow
    <2> HIDE DEF lo
    <2>3. \A f \in buf : f.id \in lo .. lo + SendSize - 1
      BY <1>1, <2>1, <2>2
    <2> QED
      BY <1>1, <2>2, <2>3, WindowCardinality DEF SendWindow
  <1> QED
    BY <1>1, <1>2, <1>3

\* Entries of new are entries of old with other timers.
Reworked(new, old) ==
    /\ new \in SUBSET SendEntry
    /\ \A e \in new : \E f \in old : e.id = f.id /\ e.data = f.data
    /\ Distinct(new)

\* SameIds: nothing is dropped.
SameIds(new, old) == \A f \in old : \E e \in new : e.id = f.id

LEMMA ReworkedWindow ==
    ASSUME NEW new, NEW old, NEW top, SendWindow(old, top), Reworked(new, old)
    PROVE  SendWindow(new, top)
  BY DEF SendWindow, Reworked

LEMMA ReplaceFacts ==
    ASSUME NEW buf, NEW top, SendWindow(buf, top), NEW e \in buf, NEW g \in SendEntry,
           g.id = e.id, g.data = e.data
    PROVE  Reworked((buf \ {e}) \cup {g}, buf) /\ SameIds((buf \ {e}) \cup {g}, buf)
  BY DEF SendWindow, Reworked, SameIds, Distinct

\* Setting the timer of an entry leaves an entry with its id and data.
LEMMA EntryFacts ==
    ASSUME NEW D, NEW N, NEW e \in [id : Ids, data : Data, due : D, n_acks : N],
           NEW d \in D, NEW k \in N
    PROVE  /\ [e EXCEPT !.due = d, !.n_acks = k] \in [id : Ids, data : Data, due : D, n_acks : N]
           /\ [e EXCEPT !.due = d, !.n_acks = k].id = e.id
           /\ [e EXCEPT !.due = d, !.n_acks = k].data = e.data
           /\ [e EXCEPT !.due = d] \in [id : Ids, data : Data, due : D, n_acks : N]
           /\ [e EXCEPT !.due = d].id = e.id
           /\ [e EXCEPT !.due = d].data = e.data
  OBVIOUS

LEMMA TimerFacts ==
    ASSUME NEW e \in SendEntry, NEW d \in BOOLEAN
    PROVE  /\ [e EXCEPT !.due = d, !.n_acks = 0] \in SendEntry
           /\ [e EXCEPT !.due = d, !.n_acks = 0].id = e.id
           /\ [e EXCEPT !.due = d, !.n_acks = 0].data = e.data
           /\ [e EXCEPT !.due = d] \in SendEntry
           /\ [e EXCEPT !.due = d].id = e.id
           /\ [e EXCEPT !.due = d].data = e.data
  <1>1. 0 \in 0 .. NAckRetransmit
    BY SizesAssumption
  <1> QED
    BY <1>1, EntryFacts, Zenon DEF SendEntry

LEMMA SendFacts ==
    ASSUME NEW buf, NEW top, SendWindow(buf, top), NEW e \in buf
    PROVE  Reworked(reliable_send(buf, e), buf) /\ SameIds(reliable_send(buf, e), buf)
  <1> DEFINE g == [e EXCEPT !.due = FALSE, !.n_acks = 0]
  <1>1. e \in SendEntry
    BY DEF SendWindow
  <1>2. g \in SendEntry /\ g.id = e.id /\ g.data = e.data
    BY <1>1, TimerFacts, Zenon
  <1> HIDE DEF g
  <1>3. Reworked((buf \ {e}) \cup {g}, buf) /\ SameIds((buf \ {e}) \cup {g}, buf)
    BY <1>2, ReplaceFacts
  <1> QED
    BY <1>3 DEF reliable_send, g

LEMMA ScheduleFacts ==
    ASSUME NEW buf, NEW top, SendWindow(buf, top)
    PROVE  Reworked(reliable_schedule_now(buf), buf) /\ SameIds(reliable_schedule_now(buf), buf)
  <1> DEFINE g(e) == [e EXCEPT !.due = TRUE]
  <1>1. reliable_schedule_now(buf) = {g(e) : e \in buf}
    BY DEF reliable_schedule_now
  <1>2. \A e \in buf : g(e) \in SendEntry /\ g(e).id = e.id /\ g(e).data = e.data
    BY TimerFacts, Zenon DEF SendWindow
  <1> HIDE DEF g
  <1>3. Reworked({g(e) : e \in buf}, buf) /\ SameIds({g(e) : e \in buf}, buf)
    BY <1>2 DEF Reworked, SameIds, SendWindow, Distinct
  <1> QED
    BY <1>1, <1>3

\* reliable_send_purge() drops the acknowledged entries and no other.
LEMMA PurgeFacts ==
    ASSUME NEW buf, NEW top, SendWindow(buf, top), NEW acks \in Seq(Ids)
    PROVE  /\ Reworked(reliable_send_purge(buf, acks), buf)
           /\ \A f \in buf : \/ \E i \in DOMAIN acks : f.id = acks[i]
                             \/ \E e \in reliable_send_purge(buf, acks) : e.id = f.id
  <1> DEFINE count(e) == Min({NAckRetransmit,
                              e.n_acks + Cardinality({i \in DOMAIN acks : acks[i] > e.id})})
             g(e) == [e EXCEPT !.n_acks = count(e)]
             kept == {f \in buf : f.id \notin Range(acks)}
  <1>1. reliable_send_purge(buf, acks) = {g(e) : e \in kept}
    BY DEF reliable_send_purge
  <1>2. \A e \in buf : count(e) \in 0 .. NAckRetransmit
    <2> TAKE e \in buf
    <2> DEFINE C == {i \in DOMAIN acks : acks[i] > e.id}
    <2>1. IsFiniteSet(1 .. Len(acks)) /\ C \in SUBSET (1 .. Len(acks))
      BY FS_Interval
    <2>2. Cardinality(C) \in Nat
      BY <2>1, FS_Subset, FS_CardinalityType
    <2> HIDE DEF C
    <2>3. e.n_acks \in 0 .. NAckRetransmit
      BY DEF SendWindow, SendEntry
    <2>4. Min({NAckRetransmit, e.n_acks + Cardinality(C)}) \in 0 .. NAckRetransmit
      BY <2>2, <2>3, MinFacts, SizesAssumption
    <2> QED
      BY <2>4 DEF C
  <1> HIDE DEF count
  <1>3. \A e \in buf : g(e) \in SendEntry /\ g(e).id = e.id /\ g(e).data = e.data
    BY <1>2 DEF SendWindow, SendEntry
  <1> HIDE DEF g
  <1>4. Reworked({g(e) : e \in kept}, buf)
    BY <1>3 DEF Reworked, SendWindow, Distinct
  <1>5. \A f \in buf : \/ \E i \in DOMAIN acks : f.id = acks[i]
                       \/ \E e \in {g(h) : h \in kept} : e.id = f.id
    BY <1>3 DEF Range
  <1> QED
    BY <1>1, <1>4, <1>5

\* reliable_mark_active_outgoing() of n packets for which there is room.
LEMMA OutgoingFacts ==
    ASSUME NEW p \in Peers, NEW top \in Nat, NEW n \in 0 .. SendSize, top + n <= MaxSegs(p),
           NEW buf, SendWindow(buf, top), \A f \in buf : n > 0 => top + n - f.id <= SendSize
    PROVE  LET new == reliable_mark_active_outgoing(buf, top, top, n)
           IN  /\ SendWindow(new, top + n)
               /\ \A f \in buf : f \in new
               /\ \A id \in top .. top + n - 1 : \E e \in new : e.id = id
  <1> USE SizesAssumption, NoWrapAssumption, ConstantFacts
  <1> DEFINE g(i) == [id |-> (top + i) % IdMod, data |-> top + i + 1, due |-> TRUE, n_acks |-> 0]
             add == {g(i) : i \in 0 .. n - 1}
             new == reliable_mark_active_outgoing(buf, top, top, n)
  <1>1. new = buf \cup add
    BY DEF reliable_mark_active_outgoing
  <1>2. ASSUME NEW i \in 0 .. n - 1
        PROVE  /\ g(i) \in SendEntry
               /\ g(i).id = top + i /\ g(i).data = top + i + 1
    <2>1. top + i \in 0 .. IdMod - 1
      OBVIOUS
    <2>2. (top + i) % IdMod = top + i
      BY <2>1, ModFacts
    <2>3. top + i \in Ids /\ top + i + 1 \in Data /\ 0 \in 0 .. NAckRetransmit
      BY <2>1 DEF Ids, Data
    <2>4. g(i) \in SendEntry
      BY <2>2, <2>3, Zenon DEF SendEntry
    <2> QED
      BY <2>2, <2>4
  <1> HIDE DEF g
  <1>3. \A e \in add : /\ e \in SendEntry /\ e.id \in top .. top + n - 1 /\ e.data = e.id + 1
                       /\ e = g(e.id - top)
    <2> SUFFICES ASSUME NEW i \in 0 .. n - 1
                 PROVE  /\ g(i) \in SendEntry /\ g(i).id \in top .. top + n - 1
                        /\ g(i).data = g(i).id + 1 /\ g(i) = g(g(i).id - top)
      OBVIOUS
    <2>1. g(i).id = top + i /\ g(i).id - top = i
      BY <1>2
    <2> QED
      BY <1>2, <2>1
  <1>4. \A id \in top .. top + n - 1 : \E e \in add : e.id = id
    <2> TAKE id \in top .. top + n - 1
    <2>1. id - top \in 0 .. n - 1
      OBVIOUS
    <2>2. g(id - top).id = id
      BY <1>2, <2>1
    <2> QED
      BY <2>1, <2>2
  <1>5. \A f \in buf : /\ f \in SendEntry /\ f.id \in Nat /\ f.id < top /\ f.data = f.id + 1
                       /\ n > 0 => top + n - f.id <= SendSize
    BY DEF SendWindow, SendEntry, Ids
  <1> HIDE DEF add
  <1>6. SendWindow(buf \cup add, top + n)
    <2>1. buf \cup add \in SUBSET SendEntry
      BY <1>3, <1>5
    <2>2. \A e \in buf \cup add : e.id \in Nat /\ e.id < top + n /\ e.data = e.id + 1
      BY <1>3, <1>5
    <2>3. Distinct(buf \cup add)
      <3> SUFFICES ASSUME NEW e \in buf \cup add, NEW f \in buf \cup add, e.id = f.id
                   PROVE  e = f
        BY DEF Distinct
      <3>1. CASE e \in buf /\ f \in buf
        BY <3>1 DEF SendWindow, Distinct
      <3>2. CASE e \in add /\ f \in add
        BY <1>3, <3>2
      <3> QED
        BY <1>3, <1>5, <3>1, <3>2
    <2>4. ASSUME NEW e \in buf \cup add, NEW f \in buf \cup add
          PROVE  e.id - f.id < SendSize
      <3>1. CASE e \in buf /\ f \in buf
        BY <3>1 DEF SendWindow
      <3>2. CASE e \in add
        <4>1. n > 0 /\ e.id \in top .. top + n - 1
          BY <1>3, <3>2
        <4>2. f.id \in Nat /\ top + n - f.id <= SendSize
          BY <1>3, <1>5, <4>1
        <4> QED
          BY <4>1, <4>2
      <3>3. CASE e \in buf /\ f \in add
        BY <1>3, <1>5, <3>3
      <3> QED
        BY <3>1, <3>2, <3>3
    <2> QED
      BY <2>1, <2>2, <2>3, <2>4 DEF SendWindow
  <1> QED
    BY <1>1, <1>4, <1>6

\* What is handed over next continues the numbering.
LEMMA FirstPacketsFacts ==
    ASSUME NEW a \in Nat, NEW b \in Nat
    PROVE  /\ FirstPackets(a) \in Seq(Data) /\ Len(FirstPackets(a)) = a
           /\ FirstPackets(a) \o [i \in 1 .. b |-> a + i] = FirstPackets(a + b)
           /\ a <= b => SubSeq(FirstPackets(b), 1, a) = FirstPackets(a)
  <1>1. FirstPackets(a) \in Seq(Data) /\ Len(FirstPackets(a)) = a
    BY DEF FirstPackets, Data
  <1>2. FirstPackets(a) \o [i \in 1 .. b |-> a + i] = FirstPackets(a + b)
    BY DEF FirstPackets
  <1>3. a <= b => SubSeq(FirstPackets(b), 1, a) = FirstPackets(a)
    BY DEF FirstPackets
  <1> QED
    BY <1>1, <1>2, <1>3
-----------------------------------------------------------------------------
(* The receive window.                                                     *)

\* A receive window has one entry per id and fits its array; when it is full
\* it holds the packet that is delivered next.
LEMMA RecWindowFits ==
    ASSUME NEW buf, NEW base \in Nat, NEW top, RecWindow(buf, base, top)
    PROVE  /\ Distinct(buf) /\ Cardinality(buf) <= RecSize /\ Cardinality(buf) \in Nat
           /\ Cardinality(buf) >= RecSize => \E e \in buf : e.id = base
  <1> USE SizesAssumption
  <1>1. Distinct(buf)
    BY DEF RecWindow, RecEntry, Distinct
  <1>2. \A e \in buf : e.id \in Nat /\ base <= e.id /\ e.id < base + RecSize
    BY DEF RecWindow, RecEntry, Ids
  <1>3. Cardinality(buf) <= RecSize /\ Cardinality(buf) \in Nat
    BY <1>1, <1>2, WindowCardinality
  <1>4. ASSUME \A e \in buf : e.id # base
        PROVE  Cardinality(buf) < RecSize
    <2>1. RecSize - 1 \in Nat /\ base + 1 \in Int
      OBVIOUS
    <2>2. \A e \in buf : e.id \in (base + 1) .. (base + 1) + (RecSize - 1) - 1
      BY <1>2, <1>4
    <2>3. Cardinality(buf) <= RecSize - 1
      BY <1>1, <2>1, <2>2, WindowCardinality
    <2> QED
      BY <1>3, <2>3
  <1> QED
    BY <1>1, <1>3, <1>4

\* DeliverInSequence() delivers the packets its window starts with.
LEMMA DeliverFacts ==
    ASSUME NEW buf, NEW base \in Nat, NEW top \in Nat, base <= top, top + RecSize < IdMod,
           RecWindow(buf, base, top)
    PROVE  LET n == InSequence(buf, base)
               ids == {(base + i) % IdMod : i \in 0 .. n - 1}
               rest == {e \in buf : e.id \notin ids}
           IN  /\ n \in Nat /\ base + n <= top /\ (base + n) % IdMod = base + n
               /\ [i \in 1 .. n |-> DataOf(buf, (base + i - 1) % IdMod)] = [i \in 1 .. n |-> base + i]
               /\ RecWindow(rest, base + n, top)
               /\ \A id \in Nat : StoredIn(base, buf, id) => StoredIn(base + n, rest, id)
  <1> USE SizesAssumption, NoWrapAssumption
  <1> DEFINE n == InSequence(buf, base)
             ids == {(base + i) % IdMod : i \in 0 .. n - 1}
             rest == {e \in buf : e.id \notin ids}
  <1>1. n \in 0 .. RecSize /\ \A i \in 0 .. n - 1 : \E e \in buf : e.id = base + i
    BY InSequenceFacts
  <1> HIDE DEF n
  <1>2. \A e \in buf : /\ e \in RecEntry /\ e.id \in Nat /\ base <= e.id /\ e.id < base + RecSize
                       /\ e.id < top /\ e.data = e.id + 1
    BY DEF RecWindow, RecEntry, Ids
  <1>3. base + n <= top
    <2>1. CASE n = 0
      BY <2>1
    <2>2. CASE n # 0
      <3>1. n - 1 \in 0 .. n - 1
        BY <1>1, <2>2
      <3>2. PICK e \in buf : e.id = base + (n - 1)
        BY <1>1, <3>1
      <3> QED
        BY <1>1, <1>2, <3>2
    <2> QED
      BY <2>1, <2>2
  <1>4. \A i \in 0 .. n : (base + i) % IdMod = base + i
    <2> TAKE i \in 0 .. n
    <2>1. base + i \in 0 .. IdMod - 1
      BY <1>1, <1>3
    <2> QED
      BY <2>1, ModFacts
  <1>5. (base + n) % IdMod = base + n
    BY <1>1, <1>4
  <1>6. ids = base .. base + n - 1
    <2>1. \A i \in 0 .. n - 1 : (base + i) % IdMod = base + i
      BY <1>1, <1>4
    <2>2. \A x \in base .. base + n - 1 : x - base \in 0 .. n - 1 /\ x = base + (x - base)
      BY <1>1
    <2>3. \A x \in base .. base + n - 1 : x \in ids
      BY <2>1, <2>2
    <2>4. \A x \in ids : x \in base .. base + n - 1
      BY <1>1, <2>1
    <2> QED
      BY <2>3, <2>4
  <1> HIDE DEF ids
  <1>7. \A i \in 1 .. n : DataOf(buf, (base + i - 1) % IdMod) = base + i
    <2> TAKE i \in 1 .. n
    <2>1. i - 1 \in 0 .. n - 1 /\ base + i - 1 = base + (i - 1)
      BY <1>1
    <2>2. (base + i - 1) % IdMod = base + (i - 1)
      BY <1>1, <1>4, <2>1
    <2> DEFINE id == base + (i - 1)
               h == CHOOSE e \in buf : e.id = id
    <2>3. \E e \in buf : e.id = id
      BY <1>1, <2>1
    <2>4. h \in buf /\ h.id = id
      BY <2>3, Zenon
    <2> HIDE DEF h
    <2>5. h.data = base + i
      BY <1>1, <1>2, <2>4
    <2> QED
      BY <2>2, <2>5 DEF DataOf, h
  <1>8. RecWindow(rest, base + n, top)
    <2> SUFFICES ASSUME NEW e \in buf, e.id \notin ids
                 PROVE  /\ e \in RecEntry /\ base + n <= e.id /\ e.id < base + n + RecSize
                        /\ e.id < top /\ e.data = e.id + 1
      BY DEF RecWindow
    <2> QED
      BY <1>1, <1>2, <1>6
  <1>9. \A id \in Nat : StoredIn(base, buf, id) => StoredIn(base + n, rest, id)
    BY <1>1, <1>2, <1>6 DEF StoredIn
  <1>10. [i \in 1 .. n |-> DataOf(buf, (base + i - 1) % IdMod)] = [i \in 1 .. n |-> base + i]
    BY <1>7
  <1>11. n \in Nat
    BY <1>1
  <1> QED
    BY <1>3, <1>5, <1>8, <1>9, <1>10, <1>11, Zenon DEF n, ids

\* A packet that TlsPreDecrypt() accepts fits its window, and is stored
\* whether it is new or a replay.
LEMMA IncomingFacts ==
    ASSUME NEW buf, NEW base \in Nat, NEW top \in Nat, base <= top, 2 * (top + RecSize) < IdMod,
           RecWindow(buf, base, top), NEW id \in Ids, id < top,
           reliable_wont_break_sequentiality(base, id)
    PROVE  LET new == IF reliable_not_replay(buf, base, id)
                      THEN buf \cup {[id |-> id, data |-> id + 1]} ELSE buf
           IN  /\ RecWindow(new, base, top)
               /\ StoredIn(base, new, id)
               /\ \A k : StoredIn(base, buf, k) => StoredIn(base, new, k)
  <1> USE SizesAssumption, NoWrapAssumption
  <1>1. id \in Nat /\ Small(id) /\ Small(base)
    BY DEF Ids, Small
  <1>2. id < base + RecSize
    BY DEF reliable_wont_break_sequentiality, reliable_pid_in_range2
  <1>3. reliable_not_replay(buf, base, id) <=> base <= id /\ \A e \in buf : e.id # id
    <2>1. reliable_pid_min(id, base) <=> id < base
      BY <1>1, PidFacts
    <2> QED
      BY <1>1, <2>1 DEF reliable_not_replay
  <1>4. CASE reliable_not_replay(buf, base, id)
    <2> DEFINE g == [id |-> id, data |-> id + 1]
    <2>1. g \in RecEntry /\ g.id = id /\ g.data = id + 1
      BY <1>1 DEF RecEntry, Data
    <2> HIDE DEF g
    <2>2. RecWindow(buf \cup {g}, base, top)
      BY <1>1, <1>2, <1>3, <1>4, <2>1 DEF RecWindow
    <2>3. StoredIn(base, buf \cup {g}, id)
      BY <2>1 DEF StoredIn
    <2>4. \A k : StoredIn(base, buf, k) => StoredIn(base, buf \cup {g}, k)
      BY DEF StoredIn
    <2> QED
      BY <1>4, <2>2, <2>3, <2>4 DEF g
  <1>5. CASE ~ reliable_not_replay(buf, base, id)
    <2>1. StoredIn(base, buf, id)
      BY <1>1, <1>3, <1>5 DEF StoredIn
    <2> QED
      BY <1>5, <2>1
  <1> QED
    BY <1>4, <1>5

\* reliable_ack_acknowledge_packet_id() keeps to its array.
LEMMA OweFacts ==
    ASSUME NEW ack \in Seq(Ids), Len(ack) <= AckSize, NEW id \in Ids
    PROVE  LET new == reliable_ack_acknowledge_packet_id(ack, id)
           IN  /\ new \in Seq(Ids) /\ Len(new) <= AckSize
               /\ \A i \in DOMAIN new : new[i] = id \/ \E j \in DOMAIN ack : new[i] = ack[j]
  <1> USE SizesAssumption
  <1>1. CASE id \notin Range(ack) /\ Len(ack) < AckSize
    <2>1. reliable_ack_acknowledge_packet_id(ack, id) = Append(ack, id)
      BY <1>1 DEF reliable_ack_acknowledge_packet_id
    <2>2. Append(ack, id) \in Seq(Ids) /\ Len(Append(ack, id)) <= AckSize
      BY <1>1
    <2>3. ASSUME NEW i \in DOMAIN Append(ack, id)
          PROVE  Append(ack, id)[i] = id \/ (i \in DOMAIN ack /\ Append(ack, id)[i] = ack[i])
      <3>1. i \in 1 .. Len(ack) + 1
        OBVIOUS
      <3>2. CASE i = Len(ack) + 1
        BY <3>2
      <3>3. CASE i # Len(ack) + 1
        <4>1. i \in 1 .. Len(ack) /\ DOMAIN ack = 1 .. Len(ack)
          BY <3>1, <3>3
        <4>2. Append(ack, id)[i] = ack[i]
          BY <4>1
        <4> QED
          BY <4>1, <4>2
      <3> QED
        BY <3>2, <3>3
    <2> QED
      BY <2>1, <2>2, <2>3
  <1>2. CASE ~ (id \notin Range(ack) /\ Len(ack) < AckSize)
    BY <1>2 DEF reliable_ack_acknowledge_packet_id
  <1> QED
    BY <1>1, <1>2
-----------------------------------------------------------------------------
(* The steps.                                                              *)

LEMMA InitInv == Init => ChannelInv
  <1> SUFFICES ASSUME Init PROVE ChannelInv
    OBVIOUS
  <1> USE SizesAssumption, NoWrapAssumption DEF Init
  <1>1. Shape
    <2>1. 0 \in Ids /\ <<>> \in Seq(Ids) /\ <<>> \in Seq(Data) /\ "S_INITIAL" \in States
      BY DEF Ids, States
    <2> QED
      BY <2>1, Zenon DEF Shape
  <1>2. FirstPackets(0) = <<>>
    BY DEF FirstPackets
  <1>3. ASSUME NEW p \in Peers
        PROVE  SendInv(p) /\ RecInv(p) /\ AckInv(p) /\ PurgedInv(p)
    <2>1. Other(p) \in Peers /\ MaxSegs(p) \in Nat
      BY ConstantFacts
    <2> QED
      BY <1>2, <2>1 DEF SendInv, RecInv, AckInv, PurgedInv, SendWindow, RecWindow, Distinct
  <1> QED
    BY <1>1, <1>3 DEF ChannelInv

\* The numbers of a state that satisfies the invariant.
LEMMA NumberFacts ==
    ASSUME ChannelInv, NEW p \in Peers
    PROVE  /\ sendId[p] \in Nat /\ recId[p] \in Nat /\ MaxSegs(p) \in Nat
           /\ sendId[p] <= MaxSegs(p) /\ recId[p] <= sendId[Other(p)]
           /\ 2 * (sendId[p] + RecSize) < IdMod
  <1> USE SizesAssumption, NoWrapAssumption
  <1>1. sendId[p] \in Nat /\ recId[p] \in Nat
    BY DEF ChannelInv, Shape, Ids
  <1>2. sendId[p] <= MaxSegs(p) /\ recId[p] <= sendId[Other(p)]
    BY DEF ChannelInv, SendInv, RecInv
  <1>3. MaxSegs(p) \in Nat /\ 2 * (MaxSegs(p) + RecSize) < IdMod
    BY ConstantFacts
  <1> QED
    BY <1>1, <1>2, <1>3

\* A packet stays right, and its acks true, while ids grow and nothing is lost.
LEMMA KeepsNet ==
    ASSUME ChannelInv, \A r \in Peers : sendId[r] <= sendId'[r] /\ sendId'[r] \in Int,
           \A r \in Peers : \A id \in Nat : Stored(r, id) => Stored(r, id)',
           NEW m \in net
    PROVE  NetInv(m)'
  <1>1. m \in Packet /\ m.to \in Peers /\ m.acks \in Seq(Ids) /\ NetInv(m)
    BY DEF ChannelInv, Shape, Packet
  <1>2. Other(m.to) \in Peers /\ sendId[Other(m.to)] \in Nat
    BY <1>1, ConstantFacts, NumberFacts
  <1>3. m.id # NoId => m.id < sendId'[Other(m.to)] /\ m.data = m.id + 1
    <2>1. m.id # NoId => m.id \in Nat
      BY <1>1 DEF Packet, Ids
    <2> QED
      BY <1>1, <1>2, <2>1 DEF NetInv
  <1>4. \A i \in DOMAIN m.acks : Stored(Other(m.to), m.acks[i])'
    <2> TAKE i \in DOMAIN m.acks
    <2>1. m.acks[i] \in Nat
      BY <1>1, NoWrapAssumption DEF Ids
    <2>2. Stored(Other(m.to), m.acks[i])
      BY <1>1 DEF NetInv
    <2> QED
      BY <1>2, <2>1, <2>2 DEF Stored
  <1> QED
    BY <1>3, <1>4 DEF NetInv

\* So do the acknowledgements a peer owes, or owed lately.
LEMMA KeepsAcks ==
    ASSUME ChannelInv, NEW p \in Peers, NEW base, NEW buf,
           \A id \in Nat : Stored(p, id) => StoredIn(base, buf, id),
           NEW t, t \in Seq(Ids), From(t, recAck[p], lruAcks[p])
    PROVE  \A i \in DOMAIN t : StoredIn(base, buf, t[i])
  <1> TAKE i \in DOMAIN t
  <1>1. t[i] \in Nat
    BY NoWrapAssumption DEF Ids
  <1>2. Stored(p, t[i])
    BY DEF From, ChannelInv, AckInv
  <1> QED
    BY <1>1, <1>2

\* MayHandOver() lets a peer hand over only what its window has room for.
LEMMA RoomFacts ==
    ASSUME ChannelInv, NEW p \in Peers, NEW n \in 0 .. SegsPerRead, n \in MayHandOver(p)
    PROVE  /\ sendId[p] + n <= MaxSegs(p)
           /\ \A f \in sendBuf[p] : n > 0 => sendId[p] + n - f.id <= SendSize
  <1> USE SizesAssumption, NoWrapAssumption
  <1>1. /\ sendId[p] \in Nat /\ MaxSegs(p) \in Nat \ {0} /\ sendId[p] <= MaxSegs(p)
        /\ SendWindow(sendBuf[p], sendId[p])
        /\ Len(sent[p]) = sendId[p]
        /\ ks_state[p] = "S_INITIAL" => sendId[p] = 0
    BY NumberFacts, ConstantFacts, FirstPacketsFacts DEF ChannelInv, SendInv
  <1>2. \A f \in sendBuf[p] : Small(f.id) /\ f.id \in Nat /\ f.id < sendId[p]
    <2>1. sendId[p] \in 0 .. MaxSegs(p)
      BY <1>1
    <2>2. \A f \in sendBuf[p] : Small(f.id)
      BY <1>1, <2>1, SendWindowFits
    <2> QED
      BY <1>1, <2>2 DEF SendWindow, Small
  <1>3. CASE ks_state[p] = "S_INITIAL"
    <2>0. HandshakeState(p) = "S_PRE_START"
      BY <1>3 DEF HandshakeState
    <2>1. n = 1
      BY <1>3, <2>0 DEF MayHandOver
    <2> QED
      BY <1>1, <1>2, <1>3, <2>1
  <1>4. CASE ks_state[p] # "S_INITIAL" /\ n # 0
    <2>1. /\ reliable_get_num_output_sequenced_available(sendBuf[p], sendId[p]) >= SegsPerRead
          /\ Len(sent[p]) + n <= MaxSegs(p)
      <3>1. CASE HandshakeState(p) = "S_START"
        BY <1>4, <3>1 DEF MayHandOver
      <3>2. CASE HandshakeState(p) # "S_START"
        BY <1>4, <3>2 DEF MayHandOver
      <3> QED
        BY <3>1, <3>2
    <2>2. ASSUME NEW f \in sendBuf[p]
          PROVE  sendId[p] + n - f.id <= SendSize
      <3> DEFINE l == Lowest(sendBuf[p])
      <3>1. l \in sendBuf[p] /\ l.id <= f.id
        BY <1>1, <1>2, LowestFacts DEF SendWindow
      <3>2. Small(sendId[p])
        BY <1>1, ConstantFacts, SMTT(60) DEF Small
      <3>3. Small(l.id) /\ l.id \in Nat /\ l.id < sendId[p]
        BY <1>2, <3>1
      <3>4. subtract_pid(sendId[p], l.id) = sendId[p] - l.id
        BY <1>1, <3>2, <3>3, PidFacts
      <3>5. SendSize - subtract_pid(sendId[p], l.id) >= SegsPerRead
        BY <2>1 DEF reliable_get_num_output_sequenced_available
      <3> HIDE DEF l
      <3> QED
        BY <1>1, <1>2, <3>1, <3>3, <3>4, <3>5, SMTT(60)
    <2> QED
      BY <1>1, <2>1, <2>2
  <1>5. CASE n = 0
    BY <1>1, <1>5
  <1> QED
    BY <1>3, <1>4, <1>5

(* What a call of Output() leaves: p's window with the ids of buf, ack     *)
(* lists made of the old ones, and at most one new packet, a right one.    *)
Emission(p, buf, top) ==
    /\ sendBuf' \in [Peers -> SUBSET SendEntry]
    /\ recAck' \in [Peers -> Seq(Ids)] /\ lruAcks' \in [Peers -> Seq(Ids)]
    /\ \A r \in Peers \ {p} : /\ sendBuf'[r] = sendBuf[r]
                              /\ recAck'[r] = recAck[r] /\ lruAcks'[r] = lruAcks[r]
    /\ SendWindow(sendBuf'[p], top) /\ SameIds(sendBuf'[p], buf)
    /\ Len(recAck'[p]) <= AckSize /\ Len(lruAcks'[p]) <= AckSize
    /\ From(recAck'[p], recAck[p], lruAcks[p]) /\ From(lruAcks'[p], recAck[p], lruAcks[p])
    /\ \A m \in net' \ net : /\ m \in Packet /\ m.to = Other(p)
                             /\ m.id # NoId => m.id < top /\ m.data = m.id + 1
                             /\ From(m.acks, recAck[p], lruAcks[p])

LEMMA FromSelf ==
    ASSUME NEW a, NEW b
    PROVE  From(a, a, b) /\ From(b, a, b)
  BY DEF From

\* Transmit() of a right packet.
LEMMA TransmitFacts ==
    ASSUME ChannelInv, NEW p \in Peers, NEW id \in Ids \cup {NoId}, NEW data \in Data,
           NEW max \in 1 .. AckSize,
           Transmit(p, id, data, reliable_ack_write(recAck[p], lruAcks[p], max))
    PROVE  /\ recAck' \in [Peers -> Seq(Ids)] /\ lruAcks' \in [Peers -> Seq(Ids)]
           /\ \A r \in Peers \ {p} : recAck'[r] = recAck[r] /\ lruAcks'[r] = lruAcks[r]
           /\ Len(recAck'[p]) <= AckSize /\ Len(lruAcks'[p]) <= AckSize
           /\ From(recAck'[p], recAck[p], lruAcks[p]) /\ From(lruAcks'[p], recAck[p], lruAcks[p])
           /\ \A m \in net' \ net : /\ m \in Packet /\ m.to = Other(p) /\ m.id = id /\ m.data = data
                                    /\ From(m.acks, recAck[p], lruAcks[p])
  <1> DEFINE w == reliable_ack_write(recAck[p], lruAcks[p], max)
  <1>1. /\ recAck \in [Peers -> Seq(Ids)] /\ lruAcks \in [Peers -> Seq(Ids)]
        /\ Len(recAck[p]) <= AckSize
    BY DEF ChannelInv, Shape, AckInv
  <1>2. recAck[p] \in Seq(Ids) /\ lruAcks[p] \in Seq(Ids)
    BY <1>1
  <1>3. /\ w.wire \in Seq(Ids) /\ w.lru \in Seq(Ids) /\ w.left \in Seq(Ids)
        /\ Len(w.lru) <= AckSize /\ Len(w.left) <= AckSize
        /\ From(w.wire, recAck[p], lruAcks[p]) /\ From(w.lru, recAck[p], lruAcks[p])
        /\ From(w.left, recAck[p], lruAcks[p])
    BY <1>1, <1>2, AckWriteFacts, Zenon
  <1>4. /\ net' = net \cup {[to |-> Other(p), id |-> id, data |-> data, acks |-> w.wire]}
        /\ recAck' = [recAck EXCEPT ![p] = w.left]
        /\ lruAcks' = [lruAcks EXCEPT ![p] = w.lru]
    BY DEF Transmit
  <1> HIDE DEF w
  <1>5. recAck'[p] = w.left /\ lruAcks'[p] = w.lru
    BY <1>1, <1>4
  <1>6. /\ recAck' \in [Peers -> Seq(Ids)] /\ lruAcks' \in [Peers -> Seq(Ids)]
        /\ \A r \in Peers \ {p} : recAck'[r] = recAck[r] /\ lruAcks'[r] = lruAcks[r]
    BY <1>1, <1>3, <1>4
  <1>7. ASSUME NEW m \in net' \ net
        PROVE  /\ m \in Packet /\ m.to = Other(p) /\ m.id = id /\ m.data = data
               /\ From(m.acks, recAck[p], lruAcks[p])
    <2>1. m = [to |-> Other(p), id |-> id, data |-> data, acks |-> w.wire]
      BY <1>4
    <2>2. Other(p) \in Peers
      BY ConstantFacts
    <2>3. m \in Packet
      BY <1>3, <2>1, <2>2 DEF Packet
    <2> QED
      BY <1>3, <2>1, <2>3
  <1> QED
    BY <1>3, <1>5, <1>6, <1>7

LEMMA OutputFacts ==
    ASSUME ChannelInv, NEW p \in Peers, NEW top \in 0 .. MaxSegs(p),
           NEW buf, SendWindow(buf, top), Output(p, buf)
    PROVE  Emission(p, buf, top)
  <1> USE SizesAssumption
  <1>1. /\ sendBuf \in [Peers -> SUBSET SendEntry] /\ buf \in SUBSET SendEntry
        /\ recAck \in [Peers -> Seq(Ids)] /\ lruAcks \in [Peers -> Seq(Ids)]
        /\ Len(recAck[p]) <= AckSize /\ Len(lruAcks[p]) <= AckSize
    BY DEF ChannelInv, Shape, AckInv, SendWindow
  <1>2. CASE Current(buf) # {}
    <2> DEFINE e == Lowest(Current(buf))
    <2>1. Current(buf) \in SUBSET buf
      BY DEF Current
    <2>2. (\A f \in Current(buf) : Small(f.id)) /\ Distinct(Current(buf))
      BY <2>1, SendWindowFits DEF SendWindow, Distinct
    <2>3. e \in buf
      BY <1>2, <2>1, <2>2, LowestFacts
    <2>4. /\ Transmit(p, e.id, e.data, reliable_ack_write(recAck[p], lruAcks[p], SendAckMax))
          /\ sendBuf' = [sendBuf EXCEPT ![p] = reliable_send(buf, e)]
      BY <1>2 DEF Output
    <2> HIDE DEF e
    <2>5. e.id \in Ids \cup {NoId} /\ e.data \in Data /\ e.id < top /\ e.data = e.id + 1
      BY <1>1, <2>3 DEF SendWindow, SendEntry
    <2>6. Reworked(reliable_send(buf, e), buf) /\ SameIds(reliable_send(buf, e), buf)
      BY <2>3, SendFacts
    <2>7. SendWindow(reliable_send(buf, e), top)
      BY <2>6, ReworkedWindow
    <2>8. reliable_send(buf, e) \in SUBSET SendEntry
      BY <2>7 DEF SendWindow
    <2>9. /\ sendBuf' \in [Peers -> SUBSET SendEntry] /\ sendBuf'[p] = reliable_send(buf, e)
          /\ \A r \in Peers \ {p} : sendBuf'[r] = sendBuf[r]
      BY <1>1, <2>4, <2>8
    <2>10. /\ recAck' \in [Peers -> Seq(Ids)] /\ lruAcks' \in [Peers -> Seq(Ids)]
           /\ \A r \in Peers \ {p} : recAck'[r] = recAck[r] /\ lruAcks'[r] = lruAcks[r]
           /\ Len(recAck'[p]) <= AckSize /\ Len(lruAcks'[p]) <= AckSize
           /\ From(recAck'[p], recAck[p], lruAcks[p]) /\ From(lruAcks'[p], recAck[p], lruAcks[p])
           /\ \A m \in net' \ net : /\ m \in Packet /\ m.to = Other(p) /\ m.id = e.id /\ m.data = e.data
                                    /\ From(m.acks, recAck[p], lruAcks[p])
      BY <2>4, <2>5, TransmitFacts
    <2> QED
      BY <2>5, <2>6, <2>7, <2>9, <2>10 DEF Emission
  <1>3. CASE Current(buf) = {}
    <2>1. /\ sendBuf' = [sendBuf EXCEPT ![p] = buf]
          /\ IF recAck[p] # <<>>
             THEN Transmit(p, NoId, 0, reliable_ack_write(recAck[p], lruAcks[p], AckSize))
             ELSE UNCHANGED <<net, recAck, lruAcks>>
      BY <1>3 DEF Output
    <2>2. /\ sendBuf' \in [Peers -> SUBSET SendEntry] /\ sendBuf'[p] = buf
          /\ \A r \in Peers \ {p} : sendBuf'[r] = sendBuf[r]
      BY <1>1, <2>1
    <2>3. SameIds(buf, buf)
      BY DEF SameIds
    <2>4. CASE recAck[p] # <<>>
      <3>1. NoId \in Ids \cup {NoId} /\ 0 \in Data /\ AckSize \in 1 .. AckSize
        BY DEF Data
      <3>2. Transmit(p, NoId, 0, reliable_ack_write(recAck[p], lruAcks[p], AckSize))
        BY <2>1, <2>4
      <3>3. /\ recAck' \in [Peers -> Seq(Ids)] /\ lruAcks' \in [Peers -> Seq(Ids)]
            /\ \A r \in Peers \ {p} : recAck'[r] = recAck[r] /\ lruAcks'[r] = lruAcks[r]
            /\ Len(recAck'[p]) <= AckSize /\ Len(lruAcks'[p]) <= AckSize
            /\ From(recAck'[p], recAck[p], lruAcks[p]) /\ From(lruAcks'[p], recAck[p], lruAcks[p])
            /\ \A m \in net' \ net : /\ m \in Packet /\ m.to = Other(p) /\ m.id = NoId /\ m.data = 0
                                     /\ From(m.acks, recAck[p], lruAcks[p])
        BY <3>1, <3>2, TransmitFacts
      <3> QED
        BY <2>2, <2>3, <3>3 DEF Emission
    <2>5. CASE recAck[p] = <<>>
      <3>1. net' = net /\ recAck' = recAck /\ lruAcks' = lruAcks
        BY <2>1, <2>5
      <3> QED
        BY <1>1, <2>2, <2>3, <3>1, FromSelf DEF Emission
    <2> QED
      BY <2>4, <2>5
  <1> QED
    BY <1>2, <1>3

\* HandOver() continues the numbering, without wrapping.
LEMMA HandOverFacts ==
    ASSUME ChannelInv, NEW p \in Peers, NEW n \in 0 .. SegsPerRead, n \in MayHandOver(p),
           HandOver(p, n)
    PROVE  /\ sendId[p] + n \in Ids /\ sendId[p] + n <= MaxSegs(p)
           /\ sendId' = [sendId EXCEPT ![p] = sendId[p] + n]
           /\ sent' = [sent EXCEPT ![p] = FirstPackets(sendId[p] + n)]
  <1> USE SizesAssumption, NoWrapAssumption
  <1> DEFINE top == sendId[p]
  <1>1. top \in Nat /\ MaxSegs(p) \in Nat /\ 2 * (MaxSegs(p) + RecSize) < IdMod
    BY NumberFacts, ConstantFacts
  <1>2. sent[p] = FirstPackets(top)
    BY DEF ChannelInv, SendInv
  <1>3. top + n <= MaxSegs(p)
    BY RoomFacts
  <1>4. (top + n) % IdMod = top + n /\ top + n \in Ids
    <2>1. top + n \in 0 .. IdMod - 1
      BY <1>1, <1>3
    <2> QED
      BY <2>1, ModFacts DEF Ids
  <1>5. /\ sent' = [sent EXCEPT ![p] = sent[p] \o [i \in 1 .. n |-> Len(sent[p]) + i]]
        /\ sendId' = [sendId EXCEPT ![p] = (top + n) % IdMod]
    BY DEF HandOver
  <1>6. /\ FirstPackets(top) \o [i \in 1 .. n |-> top + i] = FirstPackets(top + n)
        /\ Len(FirstPackets(top)) = top
    <2>1. n \in Nat
      OBVIOUS
    <2> HIDE DEF top
    <2> QED
      BY <1>1, <2>1, FirstPacketsFacts
  <1> QED
    BY <1>2, <1>3, <1>4, <1>5, <1>6

\* DeliverInSequence() delivers the next k packets of the other side.
LEMMA DeliveryFacts ==
    ASSUME ChannelInv, NEW p \in Peers, DeliverInSequence(p)
    PROVE  \E k \in Nat, rest \in SUBSET RecEntry :
             /\ recId[p] + k <= sendId[Other(p)]
             /\ RecWindow(rest, recId[p] + k, sendId[Other(p)])
             /\ \A id \in Nat : Stored(p, id) => StoredIn(recId[p] + k, rest, id)
             /\ got' = [got EXCEPT ![p] = FirstPackets(recId[p] + k)]
             /\ recBuf' = [recBuf EXCEPT ![p] = rest]
             /\ recId' = [recId EXCEPT ![p] = recId[p] + k]
  <1> USE SizesAssumption, NoWrapAssumption
  <1> DEFINE q == Other(p)
             base == recId[p]
             k == InSequence(recBuf[p], recId[p])
             ids == {(recId[p] + i) % IdMod : i \in 0 .. k - 1}
             rest == {e \in recBuf[p] : e.id \notin ids}
  <1>1. q \in Peers /\ base \in Nat /\ sendId[q] \in Nat /\ base <= sendId[q] /\ sendId[q] + RecSize < IdMod
    BY NumberFacts, ConstantFacts
  <1>2. RecWindow(recBuf[p], base, sendId[q]) /\ got[p] = FirstPackets(base)
    BY DEF ChannelInv, RecInv
  <1>3. /\ k \in Nat /\ base + k <= sendId[q] /\ (base + k) % IdMod = base + k
        /\ [i \in 1 .. k |-> DataOf(recBuf[p], (base + i - 1) % IdMod)] = [i \in 1 .. k |-> base + i]
        /\ RecWindow(rest, base + k, sendId[q])
        /\ \A id \in Nat : StoredIn(base, recBuf[p], id) => StoredIn(base + k, rest, id)
    BY <1>1, <1>2, DeliverFacts, Zenon
  <1>4. /\ got' = [got EXCEPT ![p] = got[p] \o [i \in 1 .. k |-> DataOf(recBuf[p], (recId[p] + i - 1) % IdMod)]]
        /\ recBuf' = [recBuf EXCEPT ![p] = rest]
        /\ recId' = [recId EXCEPT ![p] = (recId[p] + k) % IdMod]
    BY DEF DeliverInSequence
  <1> HIDE DEF k, rest
  <1>5. FirstPackets(base) \o [i \in 1 .. k |-> base + i] = FirstPackets(base + k)
    <2> HIDE DEF base
    <2> QED
      BY <1>1, <1>3, FirstPacketsFacts
  <1>6. got' = [got EXCEPT ![p] = FirstPackets(base + k)] /\ recId' = [recId EXCEPT ![p] = base + k]
    BY <1>2, <1>3, <1>4, <1>5
  <1>7. rest \in SUBSET RecEntry
    BY <1>3 DEF RecWindow
  <1>8. \A id \in Nat : Stored(p, id) => StoredIn(base + k, rest, id)
    BY <1>3 DEF Stored
  <1> QED
    BY <1>3, <1>4, <1>6, <1>7, <1>8

\* tls_multi_process() preserves the invariant.
LEMMA TlsProcessInv ==
    ASSUME ChannelInv, NEW p \in Peers, NEW busy \in BOOLEAN, NEW n \in 0 .. SegsPerRead,
           TlsProcess(p, busy, n)
    PROVE  ChannelInv'
  <1> USE SizesAssumption, NoWrapAssumption
  <1> DEFINE q == Other(p)
             base == recId[p]
             top == sendId[p]
             buf == reliable_mark_active_outgoing(sendBuf[p], sendId[p], Len(sent[p]), n)
  <1>1. q \in Peers /\ q # p /\ Other(q) = p /\ \A r \in Peers : r = p \/ r = q
    BY ConstantFacts
  <1>2. Shape /\ \A r \in Peers : SendInv(r) /\ RecInv(r) /\ AckInv(r) /\ PurgedInv(r)
    BY DEF ChannelInv
  <1>3. /\ top \in Nat /\ base \in Nat /\ sendId[q] \in Nat /\ recId[q] \in Nat
        /\ top <= MaxSegs(p) /\ base <= sendId[q] /\ recId[q] <= top
        /\ 2 * (sendId[q] + RecSize) < IdMod /\ MaxSegs(p) \in Nat
    BY <1>1, NumberFacts, ConstantFacts
  <1>4. sent[p] = FirstPackets(top) /\ Len(sent[p]) = top /\ SendWindow(sendBuf[p], top)
    BY <1>2, <1>3, FirstPacketsFacts DEF SendInv
  <1>5. n \in MayHandOver(p) /\ HandOver(p, n) /\ DeliverInSequence(p)
    BY DEF TlsProcess
  <1>6. top + n <= MaxSegs(p) /\ \A f \in sendBuf[p] : n > 0 => top + n - f.id <= SendSize
    BY <1>5, RoomFacts
  <1>7. /\ SendWindow(buf, top + n)
        /\ \A f \in sendBuf[p] : f \in buf
        /\ \A id \in top .. top + n - 1 : \E e \in buf : e.id = id
    <2>1. n \in 0 .. SendSize
      OBVIOUS
    <2>2. buf = reliable_mark_active_outgoing(sendBuf[p], top, top, n)
      BY <1>4
    <2> HIDE DEF buf, top
    <2> QED
      BY <1>3, <1>4, <1>6, <2>1, <2>2, OutgoingFacts
  <1>8. top + n \in Ids
    BY <1>5, HandOverFacts
  <1>9. /\ sendId' = [sendId EXCEPT ![p] = top + n]
        /\ sent' = [sent EXCEPT ![p] = FirstPackets(top + n)]
    BY <1>5, HandOverFacts
  <1>10. PICK k \in Nat, rest \in SUBSET RecEntry :
           /\ base + k <= sendId[q]
           /\ RecWindow(rest, base + k, sendId[q])
           /\ \A id \in Nat : Stored(p, id) => StoredIn(base + k, rest, id)
           /\ got' = [got EXCEPT ![p] = FirstPackets(base + k)]
           /\ recBuf' = [recBuf EXCEPT ![p] = rest]
           /\ recId' = [recId EXCEPT ![p] = base + k]
    BY <1>5, DeliveryFacts
  <1>11. \A id \in Nat : Stored(p, id) => StoredIn(base + k, rest, id)
    BY <1>10
  <1>12. Emission(p, buf, top + n)
    <2>1. CASE busy
      <3>1. sendBuf' = [sendBuf EXCEPT ![p] = buf] /\ UNCHANGED <<net, recAck, lruAcks>>
        BY <2>1 DEF TlsProcess
      <3> HIDE DEF buf
      <3>2. SameIds(buf, buf) /\ buf \in SUBSET SendEntry
        BY <1>7 DEF SameIds, SendWindow
      <3>3. AckInv(p)
        BY <1>2
      <3>4. /\ sendBuf' \in [Peers -> SUBSET SendEntry] /\ sendBuf'[p] = buf
            /\ \A r \in Peers \ {p} : sendBuf'[r] = sendBuf[r]
        BY <1>2, <3>1, <3>2 DEF Shape
      <3> QED
        BY <1>2, <1>7, <3>1, <3>2, <3>3, <3>4, FromSelf DEF Emission, Shape, AckInv
    <2>2. CASE ~ busy
      <3>1. Output(p, buf)
        BY <2>2 DEF TlsProcess
      <3>2. top + n \in 0 .. MaxSegs(p)
        BY <1>3, <1>6
      <3> QED
        BY <1>7, <3>1, <3>2, OutputFacts
    <2> QED
      BY <2>1, <2>2
  <1>13. ks_state' = [ks_state EXCEPT ![p] = HandshakeState(p)] /\ linked' = linked
    BY DEF TlsProcess
  <1>14. HandshakeState(p) \in States \ {"S_INITIAL"}
    <2>1. ks_state[p] \in States
      BY <1>2 DEF Shape
    <2> QED
      BY <2>1 DEF HandshakeState, States
  <1> HIDE DEF buf
  <1>15. /\ sendId'[p] = top + n /\ sendId'[q] = sendId[q]
         /\ recId'[p] = base + k /\ recId'[q] = recId[q]
         /\ recBuf'[p] = rest /\ recBuf'[q] = recBuf[q]
         /\ sent'[p] = FirstPackets(top + n) /\ sent'[q] = sent[q]
         /\ got'[p] = FirstPackets(base + k) /\ got'[q] = got[q]
         /\ ks_state'[p] = HandshakeState(p) /\ ks_state'[q] = ks_state[q]
    BY <1>1, <1>2, <1>9, <1>10, <1>13 DEF Shape
  <1>16. \A r \in Peers : sendId[r] <= sendId'[r] /\ sendId'[r] \in Int
    BY <1>1, <1>3, <1>15
  <1>17. ASSUME NEW r \in Peers, NEW id \in Nat, Stored(r, id)
         PROVE  Stored(r, id)'
    <2>1. CASE r = p
      BY <1>11, <1>15, <1>17, <2>1 DEF Stored
    <2>2. CASE r = q
      BY <1>15, <1>17, <2>2 DEF Stored
    <2> QED
      BY <1>1, <2>1, <2>2
  <1>18. \A id \in Nat : Stored(p, id) => StoredIn(recId'[p], recBuf'[p], id)
    BY <1>17 DEF Stored
  <1>19. Shape'
    <2>1. base + k \in Ids
      BY <1>3, <1>10 DEF Ids
    <2>2. rest \in SUBSET RecEntry
      BY <1>10 DEF RecWindow
    <2>3. FirstPackets(top + n) \in Seq(Data) /\ FirstPackets(base + k) \in Seq(Data)
      <3>1. top + n \in Nat /\ base + k \in Nat
        BY <1>3, <1>10
      <3> HIDE DEF top, base
      <3> QED
        BY <3>1, FirstPacketsFacts
    <2>4. /\ sendId' \in [Peers -> Ids] /\ recId' \in [Peers -> Ids]
          /\ recBuf' \in [Peers -> SUBSET RecEntry]
          /\ sent' \in [Peers -> Seq(Data)] /\ got' \in [Peers -> Seq(Data)]
      BY <1>2, <1>8, <1>9, <1>10, <2>1, <2>2, <2>3 DEF Shape
    <2>5. ks_state' \in [Peers -> States] /\ linked' \in [Peers -> BOOLEAN]
      BY <1>2, <1>13, <1>14, Zenon DEF Shape
    <2>6. net' \in SUBSET Packet
      BY <1>2, <1>12 DEF Shape, Emission
    <2> QED
      BY <1>12, <2>4, <2>5, <2>6 DEF Shape, Emission
  <1>20. ASSUME NEW r \in Peers
         PROVE  SendInv(r)' /\ RecInv(r)' /\ AckInv(r)' /\ PurgedInv(r)'
    <2>1. CASE r = p
      <3>1. SendInv(p)'
        BY <1>6, <1>12, <1>14, <1>15 DEF SendInv, Emission
      <3>2. RecInv(p)'
        BY <1>10, <1>15 DEF RecInv
      <3>3. AckInv(p)'
        <4>1. /\ recAck'[p] \in Seq(Ids) /\ lruAcks'[p] \in Seq(Ids)
              /\ Len(recAck'[p]) <= AckSize /\ Len(lruAcks'[p]) <= AckSize
              /\ From(recAck'[p], recAck[p], lruAcks[p]) /\ From(lruAcks'[p], recAck[p], lruAcks[p])
          BY <1>12 DEF Emission
        <4>2. \A i \in DOMAIN recAck'[p] : StoredIn(recId'[p], recBuf'[p], recAck'[p][i])
          BY <1>18, <4>1, KeepsAcks
        <4>3. \A i \in DOMAIN lruAcks'[p] : StoredIn(recId'[p], recBuf'[p], lruAcks'[p][i])
          BY <1>18, <4>1, KeepsAcks
        <4> QED
          BY <4>1, <4>2, <4>3 DEF AckInv, Stored
      <3>4. PurgedInv(p)'
        <4> SUFFICES ASSUME NEW id \in 0 .. top + n - 1
                     PROVE  (\E e \in sendBuf'[p] : e.id = id) \/ StoredIn(recId'[q], recBuf'[q], id)
          <5>1. sendId'[p] = top + n /\ top \in Nat /\ n \in Nat
            BY <1>3, <1>15
          <5>2. sendId'[p] - 1 = top + n - 1
            BY <5>1
          <5> HIDE DEF top, base
          <5> QED
            BY <5>2, Zenon DEF PurgedInv, Stored, q
        <4>1. CASE id < top
          <5>1. (\E e \in sendBuf[p] : e.id = id) \/ StoredIn(recId[q], recBuf[q], id)
            BY <1>2, <1>3, <4>1 DEF PurgedInv, Stored
          <5> QED
            BY <1>7, <1>12, <1>15, <5>1, ZenonT(60) DEF Emission, SameIds
        <4>2. CASE id >= top
          <5>1. id \in top .. top + n - 1
            BY <1>3, <4>2
          <5> QED
            BY <1>7, <1>12, <5>1, ZenonT(60) DEF Emission, SameIds
        <4> QED
          BY <1>3, <4>1, <4>2
      <3> QED
        BY <2>1, <3>1, <3>2, <3>3, <3>4
    <2>2. CASE r = q
      <3>1. sendBuf'[q] = sendBuf[q] /\ recAck'[q] = recAck[q] /\ lruAcks'[q] = lruAcks[q]
        BY <1>1, <1>12 DEF Emission
      <3>2. SendInv(q)'
        BY <1>1, <1>2, <1>15, <3>1 DEF SendInv
      <3>3. RecInv(q)'
        <4>1. RecInv(q)
          BY <1>1, <1>2
        <4>2. \A e \in recBuf[q] : e.id \in Nat
          BY <1>1, <1>2 DEF Shape, RecEntry, Ids
        <4>3. RecWindow(recBuf[q], recId[q], top + n)
          BY <1>1, <1>3, <4>1, <4>2 DEF RecInv, RecWindow
        <4> QED
          BY <1>1, <1>3, <1>15, <4>1, <4>3 DEF RecInv
      <3>4. AckInv(q)'
        BY <1>1, <1>2, <1>15, <3>1 DEF AckInv, Stored
      <3>5. PurgedInv(q)'
        <4> SUFFICES ASSUME NEW id \in 0 .. sendId[q] - 1
                     PROVE  (\E e \in sendBuf[q] : e.id = id) \/ StoredIn(recId'[p], recBuf'[p], id)
          BY <1>1, <1>15, <3>1 DEF PurgedInv, Stored
        <4>1. (\E e \in sendBuf[q] : e.id = id) \/ Stored(p, id)
          BY <1>1, <1>2 DEF PurgedInv
        <4>2. id \in Nat
          BY <1>3
        <4> QED
          BY <1>18, <4>1, <4>2
      <3> QED
        BY <2>2, <3>2, <3>3, <3>4, <3>5
    <2> QED
      BY <1>1, <2>1, <2>2
  <1>21. ASSUME NEW m \in net'
         PROVE  NetInv(m)'
    <2>1. CASE m \in net
      BY <1>16, <1>17, <2>1, KeepsNet
    <2>2. CASE m \notin net
      <3>1. /\ m \in Packet /\ m.to = q /\ (m.id # NoId => m.id < top + n /\ m.data = m.id + 1)
            /\ From(m.acks, recAck[p], lruAcks[p])
        BY <1>12, <2>2 DEF Emission
      <3>2. m.acks \in Seq(Ids)
        BY <3>1 DEF Packet
      <3>3. \A i \in DOMAIN m.acks : StoredIn(recId'[p], recBuf'[p], m.acks[i])
        BY <1>18, <3>1, <3>2, KeepsAcks
      <3> QED
        BY <1>1, <1>15, <3>1, <3>3 DEF NetInv, Stored
    <2> QED
      BY <2>1, <2>2
  <1> QED
    BY <1>19, <1>20, <1>21 DEF ChannelInv

\* A step that leaves the ids and the receive windows, and of the network
\* keeps or drops packets, needs a look at the send windows alone.
LEMMA QuietInv ==
    ASSUME ChannelInv, UNCHANGED <<ks_state, sendId, recId, recBuf, recAck, lruAcks, sent, got>>,
           linked' \in [Peers -> BOOLEAN], net' \in SUBSET net,
           sendBuf' \in [Peers -> SUBSET SendEntry],
           \A r \in Peers : SendWindow(sendBuf'[r], sendId[r]) /\ SameIds(sendBuf'[r], sendBuf[r])
    PROVE  ChannelInv'
  <1>1. Shape'
    BY DEF ChannelInv, Shape
  <1>2. ASSUME NEW r \in Peers
        PROVE  SendInv(r)' /\ RecInv(r)' /\ AckInv(r)' /\ PurgedInv(r)'
    <2>1. SendInv(r) /\ RecInv(r) /\ AckInv(r) /\ PurgedInv(r)
      BY DEF ChannelInv
    <2>2. SendInv(r)'
      BY <2>1 DEF SendInv
    <2>3. RecInv(r)' /\ AckInv(r)'
      BY <2>1 DEF RecInv, AckInv, Stored
    <2>4. PurgedInv(r)'
      BY <2>1 DEF PurgedInv, Stored, SameIds
    <2> QED
      BY <2>2, <2>3, <2>4
  <1>3. \A m \in net' : NetInv(m)'
    BY DEF ChannelInv, NetInv, Stored
  <1> QED
    BY <1>1, <1>2, <1>3 DEF ChannelInv

LEMMA SameWindow ==
    ASSUME ChannelInv, NEW r \in Peers
    PROVE  SendWindow(sendBuf[r], sendId[r]) /\ SameIds(sendBuf[r], sendBuf[r])
  BY DEF ChannelInv, SendInv, SameIds

\* A timer that fires.
LEMMA TimeoutInv ==
    ASSUME ChannelInv, NEW p \in Peers, NEW id, Timeout(p, id)
    PROVE  ChannelInv'
  <1>1. PICK e \in sendBuf[p] :
           sendBuf' = [sendBuf EXCEPT ![p] = (sendBuf[p] \ {e}) \cup {[e EXCEPT !.due = TRUE]}]
    BY DEF Timeout
  <1> DEFINE g == [e EXCEPT !.due = TRUE]
             new == (sendBuf[p] \ {e}) \cup {g}
  <1>2. sendBuf \in [Peers -> SUBSET SendEntry] /\ linked \in [Peers -> BOOLEAN]
    BY DEF ChannelInv, Shape
  <1>3. SendWindow(sendBuf[p], sendId[p])
    BY SameWindow
  <1>4. e \in SendEntry
    BY <1>3 DEF SendWindow
  <1>5. g \in SendEntry /\ g.id = e.id /\ g.data = e.data
    BY <1>4, TimerFacts, Zenon
  <1> HIDE DEF g
  <1>6. SendWindow(new, sendId[p]) /\ SameIds(new, sendBuf[p])
    BY <1>3, <1>5, ReplaceFacts, ReworkedWindow
  <1>7. new \in SUBSET SendEntry
    BY <1>6 DEF SendWindow
  <1>8. sendBuf' = [sendBuf EXCEPT ![p] = new]
    BY <1>1 DEF g
  <1> HIDE DEF new
  <1>9. sendBuf' \in [Peers -> SUBSET SendEntry]
    BY <1>2, <1>7, <1>8
  <1>10. \A r \in Peers : SendWindow(sendBuf'[r], sendId[r]) /\ SameIds(sendBuf'[r], sendBuf[r])
    BY <1>2, <1>6, <1>8, SameWindow
  <1>11. /\ UNCHANGED <<ks_state, sendId, recId, recBuf, recAck, lruAcks, sent, got>>
         /\ linked' = linked /\ net' = net
    BY DEF Timeout
  <1> QED
    BY <1>2, <1>9, <1>10, <1>11, QuietInv

\* A step that leaves all the variables but net, which may shrink.
LEMMA DropInv ==
    ASSUME ChannelInv, net' \in SUBSET net,
           UNCHANGED <<ks_state, linked, sendId, sendBuf, recId, recBuf, recAck, lruAcks, sent, got>>
    PROVE  ChannelInv'
  <1>1. linked' \in [Peers -> BOOLEAN] /\ sendBuf' \in [Peers -> SUBSET SendEntry]
    BY DEF ChannelInv, Shape
  <1>2. \A r \in Peers : SendWindow(sendBuf'[r], sendId[r]) /\ SameIds(sendBuf'[r], sendBuf[r])
    BY SameWindow
  <1> QED
    BY <1>1, <1>2, QuietInv

\* tls_pre_decrypt() preserves the invariant.
LEMMA TlsPreDecryptInv ==
    ASSUME ChannelInv, NEW p \in Peers, NEW m \in net, m.to = p, TlsPreDecrypt(p, m),
           net' \in SUBSET net
    PROVE  ChannelInv'
  <1> USE SizesAssumption, NoWrapAssumption
  <1> DEFINE q == Other(p)
             old == IF linked[p] THEN sendBuf[p] ELSE reliable_schedule_now(sendBuf[p])
             new == reliable_send_purge(old, m.acks)
             taken == m.id # NoId /\ Accept(p, m)
  <1>1. q \in Peers /\ q # p /\ Other(q) = p /\ \A r \in Peers : r = p \/ r = q
    BY ConstantFacts
  <1>2. Shape /\ (\A r \in Peers : SendInv(r) /\ RecInv(r) /\ AckInv(r) /\ PurgedInv(r)) /\ NetInv(m)
    BY DEF ChannelInv
  <1>3. /\ sendId[p] \in Nat /\ recId[p] \in Nat /\ sendId[q] \in Nat
        /\ recId[p] <= sendId[q] /\ 2 * (sendId[q] + RecSize) < IdMod
    BY <1>1, NumberFacts
  <1>4. m \in Packet /\ m.acks \in Seq(Ids)
    BY <1>2 DEF Shape, Packet
  <1>5. SendWindow(old, sendId[p]) /\ SameIds(old, sendBuf[p])
    <2>1. SendWindow(sendBuf[p], sendId[p]) /\ SameIds(sendBuf[p], sendBuf[p])
      BY SameWindow
    <2>2. /\ SendWindow(reliable_schedule_now(sendBuf[p]), sendId[p])
          /\ SameIds(reliable_schedule_now(sendBuf[p]), sendBuf[p])
      BY <2>1, ScheduleFacts, ReworkedWindow
    <2> QED
      BY <2>1, <2>2
  <1> HIDE DEF old
  <1>6. /\ SendWindow(new, sendId[p])
        /\ \A f \in old : (\E i \in DOMAIN m.acks : f.id = m.acks[i]) \/ (\E e \in new : e.id = f.id)
    BY <1>4, <1>5, PurgeFacts, ReworkedWindow
  <1>7. sendBuf' = [sendBuf EXCEPT ![p] = new]
    BY DEF TlsPreDecrypt, old
  <1>8. /\ linked' = [linked EXCEPT ![p] = TRUE]
        /\ UNCHANGED <<ks_state, sendId, recId, lruAcks, sent, got>>
    BY DEF TlsPreDecrypt
  <1> HIDE DEF new
  <1>9. new \in SUBSET SendEntry
    BY <1>6 DEF SendWindow
  <1>10. /\ sendBuf' \in [Peers -> SUBSET SendEntry]
         /\ sendBuf'[p] = new /\ sendBuf'[q] = sendBuf[q]
    BY <1>1, <1>2, <1>7, <1>9 DEF Shape
  <1>11. linked' \in [Peers -> BOOLEAN]
    BY <1>2, <1>8, Zenon DEF Shape
  <1>12. /\ recBuf' \in [Peers -> SUBSET RecEntry] /\ recAck' \in [Peers -> Seq(Ids)]
         /\ recBuf'[q] = recBuf[q] /\ recAck'[q] = recAck[q]
         /\ RecWindow(recBuf'[p], recId[p], sendId[q])
         /\ \A id : Stored(p, id) => StoredIn(recId[p], recBuf'[p], id)
         /\ Len(recAck'[p]) <= AckSize
         /\ \A i \in DOMAIN recAck'[p] : StoredIn(recId[p], recBuf'[p], recAck'[p][i])
    <2>1. /\ RecWindow(recBuf[p], recId[p], sendId[q])
          /\ Len(recAck[p]) <= AckSize /\ recAck[p] \in Seq(Ids)
          /\ recBuf \in [Peers -> SUBSET RecEntry] /\ recAck \in [Peers -> Seq(Ids)]
          /\ \A i \in DOMAIN recAck[p] : Stored(p, recAck[p][i])
      BY <1>2 DEF RecInv, AckInv, Shape
    <2>2. CASE taken
      <3> DEFINE buf2 == IF reliable_not_replay(recBuf[p], recId[p], m.id)
                         THEN recBuf[p] \cup {[id |-> m.id, data |-> m.id + 1]} ELSE recBuf[p]
                 ack2 == reliable_ack_acknowledge_packet_id(recAck[p], m.id)
      <3>1. m.id \in Ids /\ m.id < sendId[q] /\ m.data = m.id + 1
        BY <1>2, <1>4, <2>2 DEF NetInv, Packet
      <3>2. reliable_wont_break_sequentiality(recId[p], m.id)
        BY <2>2 DEF Accept
      <3>3. /\ RecWindow(buf2, recId[p], sendId[q])
            /\ StoredIn(recId[p], buf2, m.id)
            /\ \A id : StoredIn(recId[p], recBuf[p], id) => StoredIn(recId[p], buf2, id)
        BY <1>3, <2>1, <3>1, <3>2, IncomingFacts, Zenon
      <3>4. /\ ack2 \in Seq(Ids) /\ Len(ack2) <= AckSize
            /\ \A i \in DOMAIN ack2 : ack2[i] = m.id \/ \E j \in DOMAIN recAck[p] : ack2[i] = recAck[p][j]
        BY <2>1, <3>1, OweFacts, Zenon
      <3>5. recBuf' = [recBuf EXCEPT ![p] = buf2] /\ recAck' = [recAck EXCEPT ![p] = ack2]
        BY <2>2, <3>1 DEF TlsPreDecrypt
      <3> HIDE DEF buf2, ack2
      <3>6. buf2 \in SUBSET RecEntry
        BY <3>3 DEF RecWindow
      <3>7. \A i \in DOMAIN ack2 : StoredIn(recId[p], buf2, ack2[i])
        BY <2>1, <3>3, <3>4 DEF Stored
      <3>8. recBuf'[p] = buf2 /\ recAck'[p] = ack2
        BY <2>1, <3>5
      <3>9. /\ recBuf' \in [Peers -> SUBSET RecEntry] /\ recAck' \in [Peers -> Seq(Ids)]
            /\ recBuf'[q] = recBuf[q] /\ recAck'[q] = recAck[q]
        BY <1>1, <2>1, <3>4, <3>5, <3>6
      <3> QED
        BY <3>3, <3>4, <3>7, <3>8, <3>9 DEF Stored
    <2>3. CASE ~ taken
      <3>1. recBuf' = recBuf /\ recAck' = recAck
        BY <2>3 DEF TlsPreDecrypt
      <3> QED
        BY <2>1, <3>1 DEF Stored
    <2> QED
      BY <2>2, <2>3
  <1>13. ASSUME NEW r \in Peers, NEW id, Stored(r, id)
         PROVE  Stored(r, id)'
    BY <1>1, <1>8, <1>12, <1>13 DEF Stored
  <1>14. Shape'
    BY <1>2, <1>8, <1>10, <1>11, <1>12 DEF Shape
  <1>15. ASSUME NEW r \in Peers
         PROVE  SendInv(r)' /\ RecInv(r)' /\ AckInv(r)' /\ PurgedInv(r)'
    <2>1. SendInv(r) /\ RecInv(r) /\ AckInv(r) /\ PurgedInv(r)
      BY <1>2
    <2>2. CASE r = p
      <3>1. SendInv(p)'
        BY <1>6, <1>8, <1>10, <2>1, <2>2 DEF SendInv
      <3>2. RecInv(p)'
        BY <1>8, <1>12, <2>1, <2>2 DEF RecInv
      <3>3. AckInv(p)'
        <4>1. \A i \in DOMAIN lruAcks[p] : StoredIn(recId[p], recBuf'[p], lruAcks[p][i])
          BY <1>12, <2>1, <2>2 DEF AckInv
        <4> QED
          BY <1>8, <1>12, <2>1, <2>2, <4>1 DEF AckInv, Stored
      <3>4. PurgedInv(p)'
        <4> SUFFICES ASSUME NEW id \in 0 .. sendId[p] - 1
                     PROVE  (\E e \in new : e.id = id) \/ StoredIn(recId[q], recBuf[q], id)
          BY <1>8, <1>10, <1>12 DEF PurgedInv, Stored
        <4>1. (\E f \in sendBuf[p] : f.id = id) \/ StoredIn(recId[q], recBuf[q], id)
          BY <2>1, <2>2 DEF PurgedInv, Stored
        <4>2. ASSUME NEW i \in DOMAIN m.acks, id = m.acks[i]
              PROVE  StoredIn(recId[q], recBuf[q], id)
          BY <1>2, <4>2 DEF NetInv, Stored
        <4> QED
          BY <1>5, <1>6, <4>1, <4>2 DEF SameIds
      <3> QED
        BY <2>2, <3>1, <3>2, <3>3, <3>4
    <2>3. CASE r = q
      <3>1. SendInv(q)'
        BY <1>8, <1>10, <2>1, <2>3 DEF SendInv
      <3>2. RecInv(q)'
        BY <1>8, <1>12, <2>1, <2>3 DEF RecInv
      <3>3. AckInv(q)'
        BY <1>8, <1>12, <2>1, <2>3 DEF AckInv, Stored
      <3>4. PurgedInv(q)'
        BY <1>1, <1>8, <1>10, <1>12, <2>1, <2>3 DEF PurgedInv, Stored
      <3> QED
        BY <2>3, <3>1, <3>2, <3>3, <3>4
    <2> QED
      BY <1>1, <2>2, <2>3
  <1>16. ASSUME NEW x \in net'
         PROVE  NetInv(x)'
    <2>1. \A r \in Peers : sendId[r] <= sendId'[r] /\ sendId'[r] \in Int
      BY <1>8, NumberFacts
    <2> QED
      BY <1>13, <2>1, KeepsNet
  <1> QED
    BY <1>14, <1>15, <1>16 DEF ChannelInv

LEMMA NextInv ==
    ASSUME ChannelInv, [Next]_vars
    PROVE  ChannelInv'
  <1>1. ASSUME NEW p \in Peers, NEW busy \in BOOLEAN, NEW n \in 0 .. SegsPerRead,
               TlsProcess(p, busy, n)
        PROVE  ChannelInv'
    BY <1>1, TlsProcessInv
  <1>2. ASSUME NEW p \in Peers, NEW e \in sendBuf[p], Timeout(p, e.id)
        PROVE  ChannelInv'
    BY <1>2, TimeoutInv
  <1>3. ASSUME NEW p \in Peers, NEW m \in net, NEW copy \in BOOLEAN, Arrive(p, m, copy)
        PROVE  ChannelInv'
    <2>1. net' \in SUBSET net /\ m.to = p
      BY <1>3 DEF Arrive
    <2>2. CASE TlsPreDecrypt(p, m)
      BY <2>1, <2>2, TlsPreDecryptInv
    <2>3. CASE Unroutable(p, m)
      BY <2>1, <2>3, DropInv DEF Unroutable
    <2> QED
      BY <1>3, <2>2, <2>3 DEF Arrive
  <1>4. ASSUME NEW m \in net, Lose(m)
        PROVE  ChannelInv'
    BY <1>4, DropInv DEF Lose
  <1>5. CASE UNCHANGED vars
    BY <1>5, DropInv DEF vars
  <1> QED
    BY <1>1, <1>2, <1>3, <1>4, <1>5 DEF Next

LEMMA Invariance == Spec => []ChannelInv
  BY InitInv, NextInv, PTL DEF Spec
-----------------------------------------------------------------------------
(* What the invariant shows.                                               *)

LEMMA TypeFromInv == ChannelInv => TypeOK
  <1> SUFFICES ASSUME ChannelInv PROVE TypeOK
    OBVIOUS
  <1>1. Shape /\ \A p \in Peers : SendInv(p) /\ RecInv(p) /\ AckInv(p)
    BY DEF ChannelInv
  <1>2. ASSUME NEW p \in Peers
        PROVE  Cardinality(sendBuf[p]) <= SendSize /\ Cardinality(recBuf[p]) <= RecSize
    <2>1. sendId[p] \in 0 .. MaxSegs(p) /\ recId[p] \in Nat
      BY NumberFacts
    <2>2. SendWindow(sendBuf[p], sendId[p]) /\ RecWindow(recBuf[p], recId[p], sendId[Other(p)])
      BY <1>1 DEF SendInv, RecInv
    <2> QED
      BY <2>1, <2>2, SendWindowFits, RecWindowFits
  <1> QED
    BY <1>1, <1>2 DEF TypeOK, Shape, AckInv

\* The send and receive windows and the ack lists never outgrow the arrays
\* reliable.h declares for them: reliable_get_buf_output_sequenced(),
\* reliable_can_get() and reliable_ack_acknowledge_packet_id() together keep
\* the bounds.
THEOREM WindowsFit == Spec => []TypeOK
  BY Invariance, TypeFromInv, PTL

LEMMA RecordFromInv == ChannelInv => RecordFits
  BY DEF ChannelInv, SendInv, SendWindow, RecordFits

\* A TLS record for which there was room when it was read finds a buffer for
\* every piece: the "ASSERT(buf)" of write_outgoing_tls_ciphertext() holds.
THEOREM RecordsFit == Spec => []RecordFits
  BY Invariance, RecordFromInv, PTL

LEMMA AckedFromInv == ChannelInv => AckedIsStored
  BY DEF ChannelInv, PurgedInv, Stored, StoredIn, AckedIsStored

\* Whatever acknowledgements are lost, repeated or overtaken, a packet leaves
\* the send window only when the peer has delivered it or holds it.
THEOREM PurgedIsStored == Spec => []AckedIsStored
  BY Invariance, AckedFromInv, PTL

LEMMA OpenFromInv == ChannelInv => NeverClogged
  <1> SUFFICES ASSUME ChannelInv, NEW p \in Peers, ~ reliable_can_get(recBuf[p])
               PROVE  \E e \in recBuf[p] : e.id = recId[p]
    BY DEF NeverClogged
  <1>1. recId[p] \in Nat
    BY NumberFacts
  <1>2. RecWindow(recBuf[p], recId[p], sendId[Other(p)])
    BY DEF ChannelInv, RecInv
  <1>3. RecSize \in Nat /\ Cardinality(recBuf[p]) \in Nat
    BY <1>1, <1>2, RecWindowFits, SizesAssumption
  <1>4. Cardinality(recBuf[p]) >= RecSize
    BY <1>3 DEF reliable_can_get
  <1> QED
    BY <1>1, <1>2, <1>4, RecWindowFits

\* A full receive window holds the packet that is delivered next, so that
\* reliable_can_get() never refuses the one packet everybody waits for.
THEOREM WindowNeverClogs == Spec => []NeverClogged
  BY Invariance, OpenFromInv, PTL
-----------------------------------------------------------------------------
(* The reliability layer implements a stream in each direction.            *)

\* What a step may do to the stream from p to the other side.
StreamStep(p) ==
    LET q == Other(p)
    IN  \/ \E n \in 1 .. SegsPerRead :
              sent'[p] = FirstPackets(sendId[p] + n) /\ got'[q] = got[q]
        \/ \E n \in recId[q] + 1 .. sendId[p] :
              got'[q] = FirstPackets(n) /\ sent'[p] = sent[p]
        \/ sent'[p] = sent[p] /\ got'[q] = got[q]

LEMMA StepIsStreamStep ==
    ASSUME ChannelInv, [Next]_vars, NEW p \in Peers
    PROVE  StreamStep(p)
  <1> USE SizesAssumption
  <1> DEFINE q == Other(p)
  <1>1. q \in Peers /\ q # p /\ Other(q) = p /\ \A r \in Peers : r = p \/ r = q
    BY ConstantFacts
  <1>2. sent \in [Peers -> Seq(Data)] /\ got \in [Peers -> Seq(Data)]
    BY DEF ChannelInv, Shape
  <1>3. sendId[p] \in Nat /\ recId[q] \in Nat
    BY <1>1, NumberFacts
  <1>4. ASSUME NEW r \in Peers, NEW busy \in BOOLEAN, NEW n \in 0 .. SegsPerRead,
               TlsProcess(r, busy, n)
        PROVE  StreamStep(p)
    <2>1. n \in MayHandOver(r) /\ HandOver(r, n) /\ DeliverInSequence(r)
      BY <1>4 DEF TlsProcess
    <2>2. sent' = [sent EXCEPT ![r] = FirstPackets(sendId[r] + n)]
      BY <2>1, HandOverFacts
    <2>3. PICK k \in Nat : /\ recId[r] + k <= sendId[Other(r)]
                           /\ got' = [got EXCEPT ![r] = FirstPackets(recId[r] + k)]
      BY <2>1, DeliveryFacts
    <2>4. CASE r = p
      <3>1. sent'[p] = FirstPackets(sendId[p] + n) /\ got'[q] = got[q]
        BY <1>1, <1>2, <2>2, <2>3, <2>4
      <3>2. CASE n = 0
        <4>1. sent'[p] = sent[p]
          BY <1>3, <3>1, <3>2 DEF ChannelInv, SendInv
        <4> QED
          BY <3>1, <4>1 DEF StreamStep
      <3>3. CASE n # 0
        <4>1. n \in 1 .. SegsPerRead
          BY <3>3
        <4> QED
          BY <3>1, <4>1 DEF StreamStep
      <3> QED
        BY <3>2, <3>3
    <2>5. CASE r = q
      <3>1. sent'[p] = sent[p] /\ got'[q] = FirstPackets(recId[q] + k) /\ recId[q] + k <= sendId[p]
        BY <1>1, <1>2, <2>2, <2>3, <2>5
      <3>2. CASE k = 0
        <4>1. got'[q] = got[q]
          BY <1>1, <1>3, <3>1, <3>2 DEF ChannelInv, RecInv
        <4> QED
          BY <3>1, <4>1 DEF StreamStep
      <3>3. CASE k # 0
        <4>1. recId[q] + k \in recId[q] + 1 .. sendId[p]
          BY <1>3, <3>1, <3>3
        <4> QED
          BY <3>1, <4>1 DEF StreamStep
      <3> QED
        BY <3>2, <3>3
    <2> QED
      BY <1>1, <2>4, <2>5
  <1>5. ASSUME sent' = sent, got' = got
        PROVE  StreamStep(p)
    BY <1>5 DEF StreamStep
  <1>6. ASSUME NEW r \in Peers, NEW e \in sendBuf[r], Timeout(r, e.id)
        PROVE  sent' = sent /\ got' = got
    BY <1>6 DEF Timeout
  <1>7. ASSUME NEW r \in Peers, NEW m \in net, NEW copy \in BOOLEAN, Arrive(r, m, copy)
        PROVE  sent' = sent /\ got' = got
    BY <1>7 DEF Arrive, TlsPreDecrypt, Unroutable
  <1>8. ASSUME NEW m \in net, Lose(m)
        PROVE  sent' = sent /\ got' = got
    BY <1>8 DEF Lose
  <1>9. CASE UNCHANGED vars
    BY <1>5, <1>9 DEF vars
  <1> QED
    BY <1>4, <1>5, <1>6, <1>7, <1>8, <1>9 DEF Next

\* Such a step hands packets over, delivers the next ones, or is invisible.
LEMMA ToServerStep ==
    ASSUME ChannelInv, [Next]_vars
    PROVE  [ToServer!Next]_(ToServer!vars)
  <1> DEFINE s == sendId["client"]
             g == recId["server"]
  <1>1. "client" \in Peers /\ "server" \in Peers /\ Other("client") = "server" /\ Other("server") = "client"
    BY DEF Peers, Other
  <1>2. s \in Nat /\ g \in Nat /\ g <= s
    BY <1>1, NumberFacts
  <1>3. sent["client"] = FirstPackets(s) /\ got["server"] = FirstPackets(g)
    BY <1>1 DEF ChannelInv, SendInv, RecInv
  <1>4. Len(sent["client"]) = s /\ Len(got["server"]) = g
    BY <1>2, <1>3, FirstPacketsFacts
  <1>5. StreamStep("client")
    BY <1>1, StepIsStreamStep
  <1>6. ASSUME NEW n \in 1 .. SegsPerRead,
               sent'["client"] = FirstPackets(s + n), got'["server"] = got["server"]
        PROVE  ToServer!HandOver
    <2>1. s + n \in Nat /\ s <= s + n
      BY <1>2, SizesAssumption
    <2>2. /\ Len(FirstPackets(s + n)) = s + n
          /\ SubSeq(FirstPackets(s + n), 1, s) = FirstPackets(s)
      BY <1>2, <2>1, FirstPacketsFacts
    <2>3. \A i \in s + 1 .. s + n : FirstPackets(s + n)[i] \in Data
      BY <1>2, <2>1 DEF FirstPackets, Data
    <2> QED
      BY <1>3, <1>4, <1>6, <2>2, <2>3 DEF ToServer!HandOver
  <1>7. ASSUME NEW n \in g + 1 .. s, got'["server"] = FirstPackets(n), sent'["client"] = sent["client"]
        PROVE  ToServer!Deliver
    <2>1. n \in Nat /\ n <= s
      BY <1>2
    <2>2. FirstPackets(n) = SubSeq(FirstPackets(s), 1, n)
      BY <1>2, <2>1, FirstPacketsFacts
    <2> QED
      BY <1>3, <1>4, <1>7, <2>2 DEF ToServer!Deliver
  <1> QED
    BY <1>1, <1>5, <1>6, <1>7 DEF StreamStep, ToServer!Next, ToServer!vars

LEMMA ToClientStep ==
    ASSUME ChannelInv, [Next]_vars
    PROVE  [ToClient!Next]_(ToClient!vars)
  <1> DEFINE s == sendId["server"]
             g == recId["client"]
  <1>1. "client" \in Peers /\ "server" \in Peers /\ Other("client") = "server" /\ Other("server") = "client"
    BY DEF Peers, Other
  <1>2. s \in Nat /\ g \in Nat /\ g <= s
    BY <1>1, NumberFacts
  <1>3. sent["server"] = FirstPackets(s) /\ got["client"] = FirstPackets(g)
    BY <1>1 DEF ChannelInv, SendInv, RecInv
  <1>4. Len(sent["server"]) = s /\ Len(got["client"]) = g
    BY <1>2, <1>3, FirstPacketsFacts
  <1>5. StreamStep("server")
    BY <1>1, StepIsStreamStep
  <1>6. ASSUME NEW n \in 1 .. SegsPerRead,
               sent'["server"] = FirstPackets(s + n), got'["client"] = got["client"]
        PROVE  ToClient!HandOver
    <2>1. s + n \in Nat /\ s <= s + n
      BY <1>2, SizesAssumption
    <2>2. /\ Len(FirstPackets(s + n)) = s + n
          /\ SubSeq(FirstPackets(s + n), 1, s) = FirstPackets(s)
      BY <1>2, <2>1, FirstPacketsFacts
    <2>3. \A i \in s + 1 .. s + n : FirstPackets(s + n)[i] \in Data
      BY <1>2, <2>1 DEF FirstPackets, Data
    <2> QED
      BY <1>3, <1>4, <1>6, <2>2, <2>3 DEF ToClient!HandOver
  <1>7. ASSUME NEW n \in g + 1 .. s, got'["client"] = FirstPackets(n), sent'["server"] = sent["server"]
        PROVE  ToClient!Deliver
    <2>1. n \in Nat /\ n <= s
      BY <1>2
    <2>2. FirstPackets(n) = SubSeq(FirstPackets(s), 1, n)
      BY <1>2, <2>1, FirstPacketsFacts
    <2> QED
      BY <1>3, <1>4, <1>7, <2>2 DEF ToClient!Deliver
  <1> QED
    BY <1>1, <1>5, <1>6, <1>7 DEF StreamStep, ToClient!Next, ToClient!vars

\* The reliability layer implements a first-in first-out stream both ways:
\* over a network that loses, repeats and reorders, the TLS library is given
\* every packet at most once, in order and without a gap, for every size of
\* the windows and every number of packets.
THEOREM ImplementsStreams == Spec => Streams
  <1>1. Init => ToServer!Init /\ ToClient!Init
    BY DEF Init, Peers, ToServer!Init, ToClient!Init
  <1>2. ChannelInv /\ [Next]_vars => [ToServer!Next]_(ToServer!vars) /\ [ToClient!Next]_(ToClient!vars)
    BY ToServerStep, ToClientStep
  <1> QED
    BY <1>1, <1>2, Invariance, PTL DEF Spec, Streams, ToServer!Safety, ToClient!Safety
=============================================================================
