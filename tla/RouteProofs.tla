------------------------------ MODULE RouteProofs ------------------------------
(***************************************************************************)
(* Theorems about generateIPList(), for addresses of any width and any     *)
(* number of routes.  The queue and the current network always decide the  *)
(* addresses still to be done as the routes do, and the finished networks  *)
(* decide those below; no step brings a conflict into the queue.           *)
(***************************************************************************)
EXTENDS RouteSpace, WellFoundedInduction, TLAPS

-----------------------------------------------------------------------------
(* Powers of two.  What holds of every number is shown of the least one of *)
(* which it would not hold.                                                *)

LEMMA LeastNumber ==
    ASSUME NEW T \in SUBSET Nat, T # {}
    PROVE  \E x \in T : \A y \in T : x <= y
  <1> DEFINE R == {ss \in Nat \X Nat : ss[1] < ss[2]}
  <1>1. IsWellFoundedOn(R, Nat)
    <2>1. OpToRel(<, Nat) = R
      BY Zenon DEF OpToRel
    <2> QED
      BY <2>1, NatLessThanWellFounded, Zenon
  <1>2. PICK x \in T : \A y \in T : ~ (<<y, x>> \in R)
    BY <1>1, WFMin, Zenon
  <1>3. ASSUME NEW y \in T PROVE x <= y
    <2>1. <<y, x>> \in Nat \X Nat /\ <<y, x>>[1] = y /\ <<y, x>>[2] = x
      OBVIOUS
    <2> QED
      BY <1>2, <2>1
  <1> QED
    BY <1>3

(* f doubles from 1 up to n.                                               *)
Doubles(f, n) ==
    /\ f \in [0 .. n -> Nat] /\ f[0] = 1
    /\ \A i \in 1 .. n : f[i] = 2 * f[i - 1]

LEMMA DoublesExist == \A n \in Nat : \E f : Doubles(f, n)
  <1> DEFINE T == {n \in Nat : ~ \E f : Doubles(f, n)}
  <1> SUFFICES ASSUME T # {} PROVE FALSE
    OBVIOUS
  <1>1. PICK n \in T : \A k \in T : n <= k
    <2> HIDE DEF T
    <2>1. T \in SUBSET Nat
      BY DEF T
    <2> QED
      BY <2>1, LeastNumber
  <1>2. CASE n = 0
    <2>1. Doubles([i \in 0 .. 0 |-> 1], 0)
      BY DEF Doubles
    <2> QED
      BY <1>2, <2>1
  <1>3. CASE n # 0
    <2>1. n - 1 \in Nat /\ n - 1 \notin T
      BY <1>1, <1>3
    <2>2. PICK f : Doubles(f, n - 1)
      BY <2>1
    <2>3. Doubles([i \in 0 .. n |-> IF i = n THEN 2 * f[n - 1] ELSE f[i]], n)
      BY <1>3, <2>1, <2>2 DEF Doubles
    <2> QED
      BY <2>3
  <1> QED
    BY <1>2, <1>3

LEMMA DoublesAgree ==
    ASSUME NEW n \in Nat, NEW m \in Nat, NEW f, NEW g, Doubles(f, n), Doubles(g, m),
           NEW i \in Nat, i <= n, i <= m
    PROVE  f[i] = g[i]
  <1> DEFINE T == {k \in Nat : k <= n /\ k <= m /\ f[k] # g[k]}
  <1> SUFFICES ASSUME T # {} PROVE FALSE
    OBVIOUS
  <1>1. PICK k \in T : \A j \in T : k <= j
    <2> HIDE DEF T
    <2>1. T \in SUBSET Nat
      BY DEF T
    <2> QED
      BY <2>1, LeastNumber
  <1>2. k # 0
    BY DEF Doubles
  <1>3. k - 1 \in Nat /\ k - 1 \notin T
    BY <1>1, <1>2
  <1>4. f[k - 1] = g[k - 1] /\ f[k] = 2 * f[k - 1] /\ g[k] = 2 * g[k - 1]
    BY <1>2, <1>3 DEF Doubles
  <1> QED
    BY <1>4

LEMMA TwoToDef == \A n \in Nat : TwoTo[n] = IF n = 0 THEN 1 ELSE 2 * TwoTo[n - 1]
  <1> DEFINE F == [n \in Nat |-> (CHOOSE f : Doubles(f, n))[n]]
  <1>1. \A n \in Nat : Doubles(CHOOSE f : Doubles(f, n), n)
    BY DoublesExist
  <1>2. ASSUME NEW n \in Nat PROVE F[n] = IF n = 0 THEN 1 ELSE 2 * F[n - 1]
    <2>1. CASE n = 0
      BY <1>1, <2>1 DEF Doubles
    <2>2. CASE n # 0
      <3> DEFINE f == CHOOSE f : Doubles(f, n)
                 g == CHOOSE g : Doubles(g, n - 1)
      <3>1. n - 1 \in Nat /\ Doubles(f, n) /\ Doubles(g, n - 1)
        BY <1>1, <2>2
      <3> HIDE DEF f, g
      <3>2. f[n - 1] = g[n - 1]
        BY <3>1, DoublesAgree
      <3>3. f[n] = 2 * f[n - 1]
        BY <2>2, <3>1 DEF Doubles
      <3>4. F[n] = f[n] /\ F[n - 1] = g[n - 1]
        BY <3>1 DEF f, g
      <3> QED
        BY <2>2, <3>2, <3>3, <3>4
    <2> QED
      BY <2>1, <2>2
  <1>3. F = [n \in Nat |-> IF n = 0 THEN 1 ELSE 2 * F[n - 1]]
    <2>1. F = [n \in Nat |-> F[n]]
      OBVIOUS
    <2> HIDE DEF F
    <2> QED
      BY <1>2, <2>1, Zenon
  <1>4. TwoTo = [n \in Nat |-> IF n = 0 THEN 1 ELSE 2 * TwoTo[n - 1]]
    <2> HIDE DEF F
    <2> QED
      BY <1>3 DEF TwoTo
  <1> QED
    BY <1>4, Zenon

LEMMA TwoToSteps == TwoTo[0] = 1 /\ \A n \in Nat : TwoTo[n + 1] = 2 * TwoTo[n]
  <1>1. TwoTo[0] = 1
    BY TwoToDef
  <1>2. ASSUME NEW n \in Nat PROVE TwoTo[n + 1] = 2 * TwoTo[n]
    <2>1. n + 1 \in Nat /\ n + 1 # 0 /\ (n + 1) - 1 = n
      OBVIOUS
    <2>2. TwoTo[n + 1] = IF n + 1 = 0 THEN 1 ELSE 2 * TwoTo[(n + 1) - 1]
      BY <2>1, TwoToDef, Zenon
    <2> QED
      BY <2>1, <2>2
  <1> QED
    BY <1>1, <1>2

LEMMA TwoToType == \A n \in Nat : TwoTo[n] \in Nat \ {0}
  <1> DEFINE T == {n \in Nat : TwoTo[n] \notin Nat \ {0}}
  <1> SUFFICES ASSUME T # {} PROVE FALSE
    OBVIOUS
  <1>1. PICK k \in T : \A j \in T : k <= j
    <2> HIDE DEF T
    <2>1. T \in SUBSET Nat
      BY DEF T
    <2> QED
      BY <2>1, LeastNumber
  <1>2. k # 0
    BY TwoToSteps
  <1>3. k - 1 \in Nat /\ k - 1 \notin T /\ (k - 1) + 1 = k
    BY <1>1, <1>2
  <1>4. TwoTo[k] = 2 * TwoTo[k - 1]
    BY <1>3, TwoToSteps
  <1> QED
    BY <1>3, <1>4

LEMMA TwoToSum == \A a, b \in Nat : TwoTo[a + b] = TwoTo[a] * TwoTo[b]
  <1> SUFFICES ASSUME NEW a \in Nat PROVE \A b \in Nat : TwoTo[a + b] = TwoTo[a] * TwoTo[b]
    OBVIOUS
  <1> DEFINE T == {b \in Nat : TwoTo[a + b] # TwoTo[a] * TwoTo[b]}
  <1> SUFFICES ASSUME T # {} PROVE FALSE
    OBVIOUS
  <1>1. PICK k \in T : \A j \in T : k <= j
    <2> HIDE DEF T
    <2>1. T \in SUBSET Nat
      BY DEF T
    <2> QED
      BY <2>1, LeastNumber
  <1>2. k # 0
    BY TwoToSteps, TwoToType
  <1>3. k - 1 \in Nat /\ k - 1 \notin T /\ (k - 1) + 1 = k /\ a + (k - 1) \in Nat /\ (a + (k - 1)) + 1 = a + k
    BY <1>1, <1>2
  <1>4. TwoTo[k] = 2 * TwoTo[k - 1] /\ TwoTo[a + k] = 2 * TwoTo[a + (k - 1)]
    BY <1>3, TwoToSteps
  <1>5. TwoTo[a + (k - 1)] = TwoTo[a] * TwoTo[k - 1]
    BY <1>3
  <1>6. TwoTo[a] \in Nat /\ TwoTo[k - 1] \in Nat /\ TwoTo[a] * TwoTo[k - 1] \in Nat
    BY <1>3, TwoToType
  <1>7. TwoTo[a] * (2 * TwoTo[k - 1]) = 2 * (TwoTo[a] * TwoTo[k - 1])
    BY <1>6
  <1>8. TwoTo[a + k] = TwoTo[a] * TwoTo[k]
    BY <1>4, <1>5, <1>7
  <1> QED
    BY <1>8

(* Masks beyond Bits have size one, too.                                   *)
LEMMA SizeFacts ==
    /\ Bits \in Nat /\ Bits # 0
    /\ Size(0) = TwoTo[Bits] /\ Size(Bits) = 1 /\ Size(Bits + 1) = 1
    /\ \A m \in 0 .. Bits + 1 : Size(m) \in Nat /\ 1 <= Size(m)
    /\ \A m \in 0 .. Bits : m < Bits => Size(m) = 2 * Size(m + 1)
  <1>1. Bits \in Nat /\ Bits # 0
    BY RouteAssumption
  <1>2. Size(0) = TwoTo[Bits] /\ Size(Bits) = 1 /\ Size(Bits + 1) = 1
    BY <1>1 DEF Size
  <1>3. ASSUME NEW m \in 0 .. Bits + 1 PROVE Size(m) \in Nat /\ 1 <= Size(m)
    <2>1. CASE m >= Bits
      BY <2>1 DEF Size
    <2>2. CASE ~ (m >= Bits)
      <3>1. Bits - m \in Nat
        BY <1>1, <2>2
      <3>2. Size(m) = TwoTo[Bits - m]
        BY <2>2 DEF Size
      <3> QED
        BY <3>1, <3>2, TwoToType
    <2> QED
      BY <2>1, <2>2
  <1>4. ASSUME NEW m \in 0 .. Bits, m < Bits PROVE Size(m) = 2 * Size(m + 1)
    <2>1. Bits - (m + 1) \in Nat /\ (Bits - (m + 1)) + 1 = Bits - m
      BY <1>1, <1>4
    <2>2. TwoTo[Bits - m] = 2 * TwoTo[Bits - (m + 1)]
      BY <2>1, TwoToSteps
    <2>3. Size(m) = TwoTo[Bits - m]
      BY <1>1, <1>4 DEF Size
    <2>4. Size(m + 1) = TwoTo[Bits - (m + 1)]
      <3>1. CASE m + 1 >= Bits
        <4>1. Bits - (m + 1) = 0
          BY <1>1, <1>4, <3>1
        <4> QED
          BY <3>1, <4>1, TwoToSteps DEF Size
      <3>2. CASE ~ (m + 1 >= Bits)
        BY <3>2 DEF Size
      <3> QED
        BY <3>1, <3>2
    <2> QED
      BY <2>2, <2>3, <2>4
  <1> QED
    BY <1>1, <1>2, <1>3, <1>4

LEMMA SizeIsTwoTo == \A m \in 0 .. Bits : Bits - m \in Nat /\ Size(m) = TwoTo[Bits - m]
  <1> SUFFICES ASSUME NEW m \in 0 .. Bits PROVE Bits - m \in Nat /\ Size(m) = TwoTo[Bits - m]
    OBVIOUS
  <1>1. Bits \in Nat /\ Bits - m \in Nat
    BY RouteAssumption
  <1>2. CASE m = Bits
    <2>1. Bits - m = 0
      BY <1>1, <1>2
    <2> QED
      BY <1>1, <1>2, <2>1, TwoToSteps, SizeFacts
  <1>3. CASE m # Bits
    BY <1>1, <1>3 DEF Size
  <1> QED
    BY <1>2, <1>3

(* A shorter mask means a multiple of the size.                            *)
LEMMA SizesDivide ==
    ASSUME NEW m \in 0 .. Bits, NEW n \in 0 .. Bits, m <= n
    PROVE  /\ \E q \in Nat \ {0} : Size(m) = q * Size(n)
           /\ m < n => Size(n) < Size(m)
  <1>1. Bits \in Nat /\ Bits - n \in Nat /\ n - m \in Nat /\ (n - m) + (Bits - n) = Bits - m
    BY RouteAssumption
  <1>2. TwoTo[Bits - m] = TwoTo[n - m] * TwoTo[Bits - n]
    BY <1>1, TwoToSum
  <1>3. Size(m) = TwoTo[n - m] * Size(n) /\ TwoTo[n - m] \in Nat \ {0}
    BY <1>1, <1>2, SizeIsTwoTo, TwoToType
  <1>4. ASSUME m < n PROVE Size(n) < Size(m)
    <2>1. n - m - 1 \in Nat /\ (n - m - 1) + 1 = n - m
      BY <1>1, <1>4
    <2>2. TwoTo[n - m] = 2 * TwoTo[n - m - 1] /\ TwoTo[n - m - 1] \in Nat \ {0}
      BY <2>1, TwoToSteps, TwoToType
    <2>3. TwoTo[n - m] >= 2 /\ Size(n) \in Nat /\ 1 <= Size(n)
      BY <1>1, <2>2, SizeFacts
    <2> DEFINE t == TwoTo[n - m]
               s == Size(n)
    <2>4. t \in Nat /\ t >= 2 /\ s \in Nat /\ 1 <= s
      BY <2>3, <1>3
    <2> HIDE DEF t, s
    <2>5. s < t * s
      BY <2>4
    <2> QED
      BY <1>3, <2>5 DEF t, s
  <1> QED
    BY <1>3, <1>4

LEMMA Remainder ==
    ASSUME NEW a \in Nat, NEW s \in Nat, 1 <= s
    PROVE  /\ a % s \in Nat /\ a % s < s
           /\ \E k \in Nat : a = k * s + (a % s)
  <1>1. a % s \in Nat /\ a % s < s
    OBVIOUS
  <1>2. a \div s \in Nat /\ a = (a \div s) * s + (a % s)
    OBVIOUS
  <1> QED
    BY <1>1, <1>2

LEMMA NoRemainder ==
    ASSUME NEW a \in Nat, NEW s \in Nat, 1 <= s, NEW k \in Nat, a = k * s
    PROVE  a % s = 0
  OBVIOUS

-----------------------------------------------------------------------------
(* Networks of at least one address, within the address space.             *)

Block(n) ==
    /\ n \in [first : Nat, mask : 0 .. Bits, included : BOOLEAN]
    /\ \E k \in Nat : n.first = k * Size(n.mask)
    /\ Last(n) < TwoTo[Bits]

LEMMA BlockFacts ==
    ASSUME NEW n, Block(n)
    PROVE  /\ n.first \in Nat /\ n.mask \in Nat /\ n.mask <= Bits /\ n.included \in BOOLEAN
           /\ Size(n.mask) \in Nat /\ 1 <= Size(n.mask)
           /\ Last(n) = n.first + Size(n.mask) - 1 /\ Last(n) \in Nat /\ n.first <= Last(n)
           /\ n \in Nets
  <1>1. n.first \in Nat /\ n.mask \in 0 .. Bits /\ n.included \in BOOLEAN
    BY DEF Block
  <1>2. Bits \in Nat /\ n.mask \in 0 .. Bits + 1
    BY <1>1, SizeFacts
  <1>3. Size(n.mask) \in Nat /\ 1 <= Size(n.mask)
    BY <1>2, SizeFacts
  <1>4. Last(n) = n.first + Size(n.mask) - 1 /\ Last(n) \in Nat /\ n.first <= Last(n)
    BY <1>1, <1>3 DEF Last
  <1>5. n \in Nets
    <2>1. TwoTo[Bits] \in Nat /\ n.first \in 0 .. TwoTo[Bits]
      BY <1>1, <1>2, <1>4, TwoToType DEF Block
    <2>2. n.first % Size(n.mask) = 0
      BY <1>1, <1>3, NoRemainder DEF Block
    <2>3. n \in [first : 0 .. TwoTo[Bits], mask : 0 .. Bits + 1, included : BOOLEAN]
      BY <1>2, <2>1 DEF Block
    <2> QED
      BY <2>2, <2>3 DEF Nets
  <1> QED
    BY <1>1, <1>2, <1>3, <1>4, <1>5

LEMMA Multiples == \A a, b, s \in Nat : a <= b => a * s <= b * s
  OBVIOUS

(* Two networks are disjoint or the smaller one lies in the larger.        *)
LEMMA Nesting ==
    ASSUME NEW m, NEW n, Block(m), Block(n), m.mask <= n.mask
    PROVE  \/ Last(m) < n.first
           \/ Last(n) < m.first
           \/ m.first <= n.first /\ Last(n) <= Last(m)
  <1>1. /\ m.mask \in 0 .. Bits /\ n.mask \in 0 .. Bits
        /\ Size(n.mask) \in Nat /\ 1 <= Size(n.mask)
        /\ Last(n) = n.first + Size(n.mask) - 1 /\ Last(m) = m.first + Size(m.mask) - 1
    BY BlockFacts DEF Block
  <1>2. PICK q \in Nat \ {0} : Size(m.mask) = q * Size(n.mask)
    BY <1>1, SizesDivide
  <1>3. PICK k \in Nat : m.first = k * Size(m.mask)
    BY DEF Block
  <1>4. PICK j \in Nat : n.first = j * Size(n.mask)
    BY DEF Block
  <1> DEFINE s == Size(n.mask)
             u == k * q
  <1>5. s \in Nat /\ u \in Nat
    BY <1>1
  <1>6. m.first = u * s /\ Last(m) = (u + q) * s - 1
    <2>1. k * (q * s) = u * s /\ u * s + q * s = (u + q) * s
      <3> HIDE DEF s
      <3> QED
        BY <1>5
    <2> QED
      BY <1>1, <1>2, <1>3, <2>1
  <1>7. n.first = j * s /\ Last(n) = (j + 1) * s - 1
    BY <1>1, <1>4
  <1> HIDE DEF s, u
  <1>8. CASE j < u
    <2>1. (j + 1) * s <= u * s /\ u * s \in Nat /\ (j + 1) * s \in Nat
      BY <1>5, <1>8, Multiples
    <2> QED
      BY <1>6, <1>7, <2>1
  <1>9. CASE u + q <= j
    <2>1. (u + q) * s <= j * s /\ j * s \in Nat /\ (u + q) * s \in Nat
      BY <1>5, <1>9, Multiples
    <2> QED
      BY <1>6, <1>7, <2>1
  <1>10. CASE u <= j /\ j < u + q
    <2>1. u * s <= j * s /\ (j + 1) * s <= (u + q) * s
      BY <1>5, <1>10, Multiples
    <2>2. (j + 1) * s \in Nat /\ (u + q) * s \in Nat
      BY <1>5
    <2> QED
      BY <1>6, <1>7, <2>1, <2>2
  <1> QED
    BY <1>5, <1>8, <1>9, <1>10

(* Networks of one size are disjoint or the same.                          *)
LEMMA SameSize ==
    ASSUME NEW m, NEW n, Block(m), Block(n), m.mask = n.mask
    PROVE  \/ Last(m) < n.first
           \/ Last(n) < m.first
           \/ m.first = n.first /\ Last(m) = Last(n)
  <1>1. /\ m.mask <= n.mask /\ n.mask <= m.mask /\ m.first \in Nat /\ n.first \in Nat
        /\ Last(m) \in Nat /\ Last(n) \in Nat
    BY BlockFacts
  <1>2. \/ Last(m) < n.first
        \/ Last(n) < m.first
        \/ m.first <= n.first /\ Last(n) <= Last(m)
    BY <1>1, Nesting
  <1>3. \/ Last(n) < m.first
        \/ Last(m) < n.first
        \/ n.first <= m.first /\ Last(m) <= Last(n)
    BY <1>1, Nesting
  <1> QED
    BY <1>1, <1>2, <1>3

(* What contains a network has no longer a mask.                           *)
LEMMA LargerMask ==
    ASSUME NEW m, NEW n, Block(m), Block(n), m.first <= n.first, Last(n) <= Last(m)
    PROVE  m.mask <= n.mask /\ (m.mask = n.mask => m.first = n.first)
  <1>1. /\ m.mask \in 0 .. Bits /\ n.mask \in 0 .. Bits /\ m.first \in Nat /\ n.first \in Nat
        /\ Size(n.mask) \in Nat /\ Size(m.mask) \in Nat
        /\ Last(n) = n.first + Size(n.mask) - 1 /\ Last(m) = m.first + Size(m.mask) - 1
    BY BlockFacts DEF Block
  <1>2. ~ (n.mask < m.mask)
    <2>1. n.mask < m.mask => Size(m.mask) < Size(n.mask)
      BY <1>1, SizesDivide
    <2> QED
      BY <1>1, <2>1
  <1> QED
    BY <1>1, <1>2

(* A network as addIP() stores it.                                         *)
LEMMA NetIsBlock ==
    ASSUME NEW a \in Address, NEW m \in 0 .. Bits, NEW i \in BOOLEAN
    PROVE  /\ Block(Net(a, m, i)) /\ Net(a, m, i).mask = m /\ Net(a, m, i).included = i
           /\ Net(a, m, i).first <= a /\ a <= Last(Net(a, m, i))
  <1> DEFINE s == Size(m)
             n == Net(a, m, i)
  <1>1. Bits \in Nat /\ m \in 0 .. Bits + 1 /\ TwoTo[Bits] \in Nat
    BY SizeFacts, TwoToType
  <1>2. s \in Nat /\ 1 <= s /\ a \in Nat /\ a < TwoTo[Bits]
    BY <1>1, SizeFacts DEF Address
  <1>3. PICK k \in Nat : a = k * s + (a % s)
    BY <1>2, Remainder
  <1>4. a % s \in Nat /\ a % s < s /\ k * s \in Nat
    <2> HIDE DEF s
    <2>1. a % s \in Nat /\ a % s < s
      BY <1>2, Remainder
    <2>2. k * s \in Nat
      BY <1>2
    <2> QED
      BY <2>1, <2>2
  <1>5. PICK q \in Nat \ {0} : Size(0) = q * s
    BY <1>1, SizesDivide
  <1>6. n.first = k * s /\ n.mask = m /\ n.included = i /\ n.first \in Nat
    <2>1. n.first = a - (a % s) /\ n.mask = m /\ n.included = i
      BY DEF Net, getMaskedAddress
    <2> QED
      BY <1>2, <1>3, <1>4, <2>1
  <1>7. Last(n) = k * s + s - 1
    BY <1>2, <1>6 DEF Last
  <1>8. Last(n) < TwoTo[Bits]
    <2> HIDE DEF s, n
    <2>1. TwoTo[Bits] = q * s
      BY <1>5, SizeFacts
    <2>2. k * s < q * s
      BY <1>2, <1>3, <1>4, <2>1
    <2>3. ~ (q <= k)
      BY <1>2, <1>4, <2>2, Multiples
    <2>4. (k + 1) * s <= q * s /\ (k + 1) * s = k * s + s
      BY <1>2, <2>3, Multiples
    <2> QED
      BY <1>1, <1>2, <1>4, <1>7, <2>1, <2>4
  <1>9. n \in [first : Nat, mask : 0 .. Bits, included : BOOLEAN]
    BY <1>6 DEF Net
  <1>10. Block(n)
    BY <1>6, <1>8, <1>9 DEF Block
  <1> QED
    BY <1>2, <1>3, <1>4, <1>6, <1>7, <1>10

(* split().                                                                *)
LEMMA Halves ==
    ASSUME NEW n, Block(n), n.mask < Bits
    PROVE  LET h == FirstHalf(n)
               g == SecondHalf(n)
           IN  /\ Block(h) /\ Block(g)
               /\ h.mask = n.mask + 1 /\ g.mask = n.mask + 1
               /\ h.included = n.included /\ g.included = n.included
               /\ h.first = n.first /\ g.first = Last(h) + 1 /\ Last(g) = Last(n)
  <1> DEFINE h == FirstHalf(n)
             g == SecondHalf(n)
             s == Size(n.mask + 1)
  <1>1. n.mask \in 0 .. Bits /\ n.mask + 1 \in 0 .. Bits /\ n.mask + 1 \in 0 .. Bits + 1 /\ n.included \in BOOLEAN
    BY SizeFacts DEF Block
  <1>2. s \in Nat /\ 1 <= s /\ Size(n.mask) = 2 * s
    BY <1>1, SizeFacts
  <1>3. PICK k \in Nat : n.first = k * Size(n.mask)
    BY DEF Block
  <1>4. n.first = (2 * k) * s /\ n.first + s = (2 * k + 1) * s /\ 2 * k \in Nat /\ 2 * k + 1 \in Nat
    <2> HIDE DEF s
    <2> QED
      BY <1>2, <1>3
  <1>5. /\ n.first \in Nat /\ n.first + s \in Nat
        /\ n.first % s = 0 /\ (n.first + s) % s = 0
    <2> HIDE DEF s
    <2>1. n.first \in Nat /\ n.first + s \in Nat
      BY <1>2, BlockFacts
    <2>2. n.first % s = 0
      BY <1>2, <1>4, <2>1, NoRemainder
    <2>3. (n.first + s) % s = 0
      BY <1>2, <1>4, <2>1, NoRemainder
    <2> QED
      BY <2>1, <2>2, <2>3
  <1>6. h = [first |-> n.first, mask |-> n.mask + 1, included |-> n.included]
    <2>1. n.first - (n.first % s) = n.first
      BY <1>5
    <2> QED
      BY <2>1, Zenon DEF FirstHalf, Net, getMaskedAddress
  <1>7. h.first = n.first /\ h.mask = n.mask + 1 /\ h.included = n.included /\ Last(h) = n.first + s - 1
    BY <1>6 DEF Last
  <1>8. g = [first |-> n.first + s, mask |-> n.mask + 1, included |-> n.included]
    <2>1. Last(h) + 1 = n.first + s
      BY <1>2, <1>5, <1>7
    <2>2. (n.first + s) - ((n.first + s) % s) = n.first + s
      BY <1>5
    <2> QED
      BY <2>1, <2>2, Zenon DEF SecondHalf, Net, getMaskedAddress
  <1>9. g.first = n.first + s /\ g.mask = n.mask + 1 /\ g.included = n.included
        /\ Last(g) = n.first + s + s - 1
    BY <1>8 DEF Last
  <1>10. Last(n) = n.first + s + s - 1 /\ Last(n) < TwoTo[Bits] /\ TwoTo[Bits] \in Nat
    BY <1>1, <1>2, <1>5, BlockFacts, TwoToType, SizeFacts DEF Block
  <1>11. Block(h)
    <2>1. h \in [first : Nat, mask : 0 .. Bits, included : BOOLEAN]
      BY <1>1, <1>5, <1>6
    <2>2. h.first = (2 * k) * Size(h.mask)
      BY <1>4, <1>7
    <2>3. Last(h) < TwoTo[Bits]
      BY <1>2, <1>5, <1>7, <1>10
    <2> QED
      BY <1>4, <2>1, <2>2, <2>3, Zenon DEF Block
  <1>12. Block(g)
    <2>1. g \in [first : Nat, mask : 0 .. Bits, included : BOOLEAN]
      BY <1>1, <1>5, <1>8
    <2>2. g.first = (2 * k + 1) * Size(g.mask)
      BY <1>4, <1>9
    <2>3. Last(g) < TwoTo[Bits]
      BY <1>2, <1>5, <1>9, <1>10
    <2> QED
      BY <1>4, <2>1, <2>2, <2>3, Zenon DEF Block
  <1> QED
    BY <1>2, <1>5, <1>7, <1>9, <1>10, <1>11, <1>12

(* The network of which x is a half.                                       *)
LEMMA Parents ==
    ASSUME NEW x, Block(x), x.mask > 0
    PROVE  /\ Block(Parent(x)) /\ Parent(x).mask = x.mask - 1
           /\ Parent(x).first <= x.first /\ Last(x) <= Last(Parent(x))
  <1>1. x.first \in Nat /\ x.first <= Last(x) /\ Last(x) < TwoTo[Bits] /\ Last(x) \in Nat
        /\ x.mask \in 0 .. Bits /\ x.included \in BOOLEAN /\ TwoTo[Bits] \in Nat /\ Bits \in Nat
    BY BlockFacts, TwoToType, SizeFacts DEF Block
  <1>2. x.first \in Address /\ x.mask - 1 \in 0 .. Bits
    BY <1>1 DEF Address
  <1> DEFINE p == Parent(x)
  <1>3. /\ Block(p) /\ p.mask = x.mask - 1
        /\ p.first <= x.first /\ x.first <= Last(p)
    BY <1>1, <1>2, NetIsBlock DEF Parent
  <1> HIDE DEF p
  <1>4. p.mask <= x.mask /\ Last(p) \in Nat /\ p.first \in Nat
    BY <1>1, <1>3, BlockFacts
  <1>5. \/ Last(p) < x.first
        \/ Last(x) < p.first
        \/ p.first <= x.first /\ Last(x) <= Last(p)
    BY <1>3, <1>4, Nesting
  <1> QED
    BY <1>1, <1>3, <1>4, <1>5 DEF p

(* The parent of a half of n starts where n does.                          *)
LEMMA ParentOfHalf ==
    ASSUME NEW n, Block(n), NEW x, Block(x), x.mask = n.mask + 1,
           n.first <= x.first, Last(x) <= Last(n)
    PROVE  Parent(x).first = n.first /\ Last(Parent(x)) = Last(n)
  <1>1. n.mask \in Nat /\ x.mask > 0 /\ n.first \in Nat /\ Last(n) \in Nat /\ x.first \in Nat /\ Last(x) \in Nat
        /\ x.first <= Last(x)
    BY BlockFacts
  <1> DEFINE p == Parent(x)
  <1>2. Block(p) /\ p.mask = n.mask /\ p.first <= x.first /\ Last(x) <= Last(p)
    BY <1>1, Parents
  <1> HIDE DEF p
  <1>3. p.first \in Nat /\ Last(p) \in Nat
    BY <1>2, BlockFacts
  <1>4. Last(p) < n.first \/ Last(n) < p.first \/ (p.first = n.first /\ Last(p) = Last(n))
    BY <1>2, SameSize
  <1> QED
    BY <1>1, <1>2, <1>3, <1>4 DEF p

-----------------------------------------------------------------------------
(* The networks of the loop: c is the current one, Q the queue.            *)

Distinct(S) == \A m, n \in S : SameNet(m, n) => m = n
NoConflict(S) == \A p, x, y \in S : ~ Clash(p, x, y) /\ ~ Shadow(p, x, y)

Good(c, Q) ==
    /\ Block(c)
    /\ \A n \in Q : Block(n) /\ Before(c, n)
    /\ Distinct(Q)
    /\ NoConflict(Q \cup {c})

LEMMA LeastFacts ==
    ASSUME NEW Q, \A n \in Q : Block(n), Distinct(Q), NEW next \in Least(Q)
    PROVE  next \in Q /\ \A n \in Q : n # next => Before(next, n)
  <1>1. next \in Q /\ \A n \in Q : ~ Before(n, next)
    BY DEF Least
  <1>2. ASSUME NEW n \in Q, n # next PROVE Before(next, n)
    <2>1. ~ (n.first = next.first /\ n.mask = next.mask)
      BY <1>1, <1>2, Zenon DEF Distinct, SameNet
    <2>2. n.first \in Nat /\ n.mask \in Nat /\ next.first \in Nat /\ next.mask \in Nat
      BY <1>1, BlockFacts
    <2>3. ~ Before(n, next)
      BY <1>1
    <2> QED
      BY <2>1, <2>2, <2>3 DEF Before
  <1> QED
    BY <1>1, <1>2

(* The least of the queue becomes the current network.                     *)
LEMMA Polled ==
    ASSUME NEW Q, \A n \in Q : Block(n), Distinct(Q), NoConflict(Q), NEW next \in Least(Q)
    PROVE  Good(next, Q \ {next})
  <1>1. next \in Q /\ \A n \in Q : n # next => Before(next, n)
    BY LeastFacts
  <1>2. (Q \ {next}) \cup {next} = Q
    BY <1>1
  <1>3. Distinct(Q \ {next})
    BY DEF Distinct
  <1> QED
    BY <1>1, <1>2, <1>3 DEF Good

LEMMA NextPolled ==
    ASSUME NEW c, NEW Q, Good(c, Q), NEW next \in Least(Q)
    PROVE  Good(next, Q \ {next}) /\ Good(c, Q \ {next})
  <1>1. /\ \A n \in Q : Block(n)
        /\ Distinct(Q) /\ NoConflict(Q)
    BY DEF Good, NoConflict
  <1>2. Good(next, Q \ {next})
    BY <1>1, Polled
  <1>3. Distinct(Q \ {next}) /\ NoConflict((Q \ {next}) \cup {c})
    BY DEF Good, Distinct, NoConflict
  <1> QED
    BY <1>2, <1>3 DEF Good

(* A conflict in a part of p is one in p.                                  *)
LEMMA LargerConflict ==
    ASSUME NEW p, NEW k, NEW x, NEW y,
           Block(p), Block(k), Block(x), k.included = p.included, p.mask <= k.mask,
           p.first <= k.first, Last(k) <= Last(p),
           Clash(k, x, y) \/ Shadow(k, x, y)
    PROVE  Clash(p, x, y) \/ Shadow(p, x, y)
  <1>1. /\ p.first \in Nat /\ k.first \in Nat /\ x.first \in Nat
        /\ Last(p) \in Nat /\ Last(k) \in Nat /\ Last(x) \in Nat
        /\ p.mask \in Nat /\ k.mask \in Nat /\ x.mask \in Nat
    BY BlockFacts
  <1>2. CASE Clash(k, x, y)
    <2>1. x.mask > 0 /\ containsNet(k, Parent(x))
      BY <1>2 DEF Clash
    <2>2. Parent(x).first \in Nat /\ Last(Parent(x)) \in Nat
      BY <2>1, Parents, BlockFacts
    <2>3. containsNet(p, Parent(x))
      BY <1>1, <2>1, <2>2 DEF containsNet
    <2> QED
      BY <1>2, <2>3, Zenon DEF Clash
  <1>3. CASE Shadow(k, x, y)
    <2>1. containsNet(p, x) /\ p.mask < x.mask
      BY <1>1, <1>3 DEF Shadow, containsNet
    <2> QED
      BY <1>3, <2>1, Zenon DEF Shadow
  <1> QED
    BY <1>2, <1>3

-----------------------------------------------------------------------------
(* The next network is split.                                              *)

SplitsNext(c, Q, next) ==
    /\ Good(c, Q) /\ next \in Least(Q)
    /\ c.first = next.first /\ c.included # next.included

LEMMA SplitNextFacts ==
    ASSUME NEW c, NEW Q, NEW next, SplitsNext(c, Q, next)
    PROVE  /\ next \in Q /\ Block(next) /\ Block(c)
           /\ next.mask < c.mask /\ next.mask < Bits /\ Last(c) <= Last(next)
           /\ \A n \in Q : n # next => Before(next, n)
           /\ \A p \in Q \cup {c} : Block(p) /\ next.first <= p.first
           /\ \A p \in Q \cup {c} : p.mask <= next.mask => p = next \/ next.first < p.first
                                                            \/ p.mask < next.mask
           /\ \A p \in Q \cup {c} : containsNet(p, next) => p.included = next.included
  <1>1. /\ Block(c) /\ \A n \in Q : Block(n) /\ Before(c, n)
        /\ Distinct(Q) /\ NoConflict(Q \cup {c}) /\ next \in Least(Q)
        /\ c.first = next.first /\ c.included # next.included
    BY DEF SplitsNext, Good
  <1>2. next \in Q /\ \A n \in Q : n # next => Before(next, n)
    BY <1>1, LeastFacts
  <1>3. Block(next) /\ next.first \in Nat /\ next.mask \in Nat /\ c.mask \in Nat /\ c.mask <= Bits
        /\ Bits \in Nat /\ c.included \in BOOLEAN /\ next.included \in BOOLEAN
        /\ Last(c) \in Nat /\ Last(next) \in Nat /\ c.first <= Last(c) /\ next.first <= Last(next)
    BY <1>1, <1>2, BlockFacts, SizeFacts
  <1>4. next.mask < c.mask /\ next.mask < Bits
    BY <1>1, <1>2, <1>3 DEF Before
  <1>5. Last(c) <= Last(next)
    <2>1. next.mask <= c.mask
      BY <1>3, <1>4
    <2>2. \/ Last(next) < c.first
          \/ Last(c) < next.first
          \/ next.first <= c.first /\ Last(c) <= Last(next)
      BY <1>1, <1>3, <2>1, Nesting
    <2> QED
      BY <1>1, <1>3, <2>2
  <1>6. ASSUME NEW p \in Q \cup {c} PROVE Block(p) /\ next.first <= p.first /\ p.first \in Nat /\ p.mask \in Nat
    <2>1. Block(p)
      BY <1>1
    <2>2. p.first \in Nat /\ p.mask \in Nat
      BY <2>1, BlockFacts
    <2> QED
      BY <1>1, <1>2, <1>3, <2>1, <2>2 DEF Before
  <1>7. ASSUME NEW p \in Q \cup {c}, p.mask <= next.mask
        PROVE  p = next \/ next.first < p.first \/ p.mask < next.mask
    <2>1. CASE p = c
      BY <1>3, <1>4, <1>7, <2>1
    <2>2. CASE p \in Q /\ p # next
      BY <1>2, <1>3, <1>6, <2>2 DEF Before
    <2> QED
      BY <2>1, <2>2
  <1>8. ASSUME NEW p \in Q \cup {c}, containsNet(p, next), p.included # next.included PROVE FALSE
    <2>1. Block(p) /\ p.first \in Nat /\ p.mask \in Nat /\ p.included \in BOOLEAN
      BY <1>6, BlockFacts
    <2>2. p.mask <= next.mask /\ p.first <= next.first
      BY <1>3, <1>8, <2>1, LargerMask DEF containsNet
    <2>3. p.mask < next.mask
      <3>1. ~ (next.first < p.first)
        BY <1>3, <2>1, <2>2
      <3>2. p # next
        BY <1>8
      <3> QED
        BY <1>7, <2>2, <3>1, <3>2
    <2>4. c.included = p.included
      BY <1>1, <1>3, <1>8, <2>1
    <2>5. Shadow(p, next, c)
      BY <1>1, <1>4, <1>8, <2>3, <2>4 DEF Shadow
    <2> QED
      BY <1>1, <1>2, <2>5 DEF NoConflict
  <1> QED
    BY <1>1, <1>2, <1>3, <1>4, <1>5, <1>6, <1>7, <1>8

(* The halves bring no conflict.                                           *)
LEMMA SplitNextNoConflict ==
    ASSUME NEW c, NEW Q, NEW next, SplitsNext(c, Q, next), NEW T,
           T \subseteq Q \cup {c, FirstHalf(next), SecondHalf(next)}
    PROVE  NoConflict(T)
  <1> DEFINE h == FirstHalf(next)
             g == SecondHalf(next)
             S == Q \cup {c}
  <1>1. /\ next \in Q /\ Block(next) /\ Block(c)
        /\ next.mask < c.mask /\ next.mask < Bits /\ Last(c) <= Last(next)
        /\ \A n \in Q : n # next => Before(next, n)
        /\ \A p \in S : Block(p) /\ next.first <= p.first
        /\ \A p \in S : p.mask <= next.mask => p = next \/ next.first < p.first
                                                         \/ p.mask < next.mask
        /\ \A p \in S : containsNet(p, next) => p.included = next.included
    BY SplitNextFacts
  <1>2. /\ Block(h) /\ Block(g)
        /\ h.mask = next.mask + 1 /\ g.mask = next.mask + 1
        /\ h.included = next.included /\ g.included = next.included
        /\ h.first = next.first /\ g.first = Last(h) + 1 /\ Last(g) = Last(next)
    BY <1>1, Halves
  <1>3. NoConflict(S)
    BY DEF SplitsNext, Good
  <1> HIDE DEF h, g, S
  <1>4. /\ next.first \in Nat /\ next.mask \in Nat /\ Last(next) \in Nat
        /\ h.first \in Nat /\ g.first \in Nat /\ Last(h) \in Nat /\ Last(g) \in Nat
        /\ next.first <= Last(h) /\ next.first < g.first /\ g.first <= Last(next) /\ Last(h) <= Last(next)
        /\ next.included \in BOOLEAN
    BY <1>1, <1>2, BlockFacts
  <1>5. next \in S /\ c \in S
    BY <1>1 DEF S
  \* A network that contains a half is not of the other type, unless it is smaller.
  <1>6. ASSUME NEW k \in {h, g}, NEW p \in S, p.mask <= next.mask, containsNet(p, k)
        PROVE  p.included = next.included
    <2>1. Block(p) /\ Block(k) /\ p.first \in Nat /\ Last(p) \in Nat /\ k.first \in Nat /\ Last(k) \in Nat
      BY <1>1, <1>2, BlockFacts
    <2>2. p.first <= k.first /\ Last(k) <= Last(p) /\ next.first <= k.first /\ k.first <= Last(next) /\ k.first <= Last(k)
      BY <1>2, <1>4, <1>6, <2>1, BlockFacts DEF containsNet
    <2>3. \/ Last(p) < next.first
          \/ Last(next) < p.first
          \/ p.first <= next.first /\ Last(next) <= Last(p)
      BY <1>1, <1>6, <2>1, Nesting
    <2>4. containsNet(p, next)
      BY <1>4, <2>1, <2>2, <2>3 DEF containsNet
    <2> QED
      BY <1>1, <2>4
  <1>7. ASSUME NEW p \in S, NEW y, NEW k \in {h, g}, Shadow(p, k, y) PROVE FALSE
    <2>1. p.included # k.included /\ containsNet(p, k) /\ p.mask < k.mask
      BY <1>7 DEF Shadow
    <2>2. p.mask \in Nat /\ p.mask <= next.mask
      BY <1>1, <1>2, <1>4, <2>1, BlockFacts
    <2> QED
      BY <1>2, <1>6, <2>1, <2>2
  <1>8. ASSUME NEW p \in S, NEW y, Clash(p, g, y) PROVE FALSE
    <2>1. p.included # g.included /\ containsNet(p, Parent(g))
      BY <1>8 DEF Clash
    <2>2. Parent(g).first = next.first /\ Last(Parent(g)) = Last(next)
      BY <1>1, <1>2, <1>4, ParentOfHalf
    <2>3. containsNet(p, next)
      BY <2>1, <2>2 DEF containsNet
    <2> QED
      BY <1>1, <1>2, <2>1, <2>3
  <1>9. ASSUME NEW p, NEW y, Clash(p, h, y) PROVE FALSE
    <2>1. Parent(h).first = next.first
      BY <1>1, <1>2, <1>4, ParentOfHalf
    <2> QED
      BY <1>2, <1>9, <2>1 DEF Clash
  <1>10. ASSUME NEW p \in S, NEW x \in S, Shadow(p, x, h) PROVE FALSE
    <2>1. p.included # x.included /\ h.included = p.included /\ h.first = x.first /\ x.mask < h.mask
          /\ containsNet(p, x) /\ p.mask < x.mask
      BY <1>10 DEF Shadow
    <2>2. x.mask \in Nat /\ x.mask <= next.mask /\ x # next /\ ~ (next.first < x.first)
      <3>1. x.mask \in Nat
        BY <1>1, BlockFacts
      <3>2. x # next
        BY <1>2, <2>1
      <3> QED
        BY <1>2, <1>4, <2>1, <3>1, <3>2
    <2>3. x.mask < next.mask
      BY <1>1, <2>2
    <2>4. Shadow(p, x, next)
      BY <1>2, <2>1, <2>3 DEF Shadow
    <2> QED
      BY <1>3, <1>5, <2>4 DEF NoConflict
  <1>11. ASSUME NEW p \in S, NEW x \in S, Shadow(p, x, g) PROVE FALSE
    <2>1. g.first = x.first /\ x.mask < g.mask
      BY <1>11 DEF Shadow
    <2>2. Block(x) /\ x.mask \in Nat /\ x.mask <= next.mask /\ x.first \in Nat /\ Last(x) \in Nat /\ x.first <= Last(x)
      BY <1>1, <1>2, <1>4, <2>1, BlockFacts
    <2>3. \/ Last(x) < next.first
          \/ Last(next) < x.first
          \/ x.first <= next.first /\ Last(next) <= Last(x)
      BY <1>1, <2>2, Nesting
    <2> QED
      BY <1>4, <2>1, <2>2, <2>3
  <1>12. ASSUME NEW p \in S, NEW x \in S, Clash(p, x, h) PROVE FALSE
    <2>1. x.mask > 0 /\ containsNet(p, Parent(x)) /\ Parent(x).first < h.first
      BY <1>12 DEF Clash
    <2>2. p.first \in Nat /\ Parent(x).first \in Nat /\ next.first <= p.first
      BY <1>1, <2>1, Parents, BlockFacts
    <2> QED
      BY <1>2, <1>4, <2>1, <2>2 DEF containsNet
  <1>13. ASSUME NEW p \in S, NEW x \in S, Clash(p, x, g) PROVE FALSE
    <2> DEFINE q == Parent(x)
    <2>1. /\ p.included # x.included /\ g.included = x.included /\ x.mask > 0
          /\ containsNet(p, q) /\ q.first < g.first /\ g.first <= x.first /\ x.mask < g.mask
      BY <1>13 DEF Clash
    <2>2. Block(x) /\ Block(p) /\ Block(q) /\ q.mask = x.mask - 1 /\ q.first <= x.first /\ Last(x) <= Last(q)
      BY <1>1, <2>1, Parents
    <2> HIDE DEF q
    <2>3. /\ x.mask \in Nat /\ x.mask <= next.mask /\ x.first \in Nat /\ Last(x) \in Nat /\ x.first <= Last(x)
          /\ q.mask \in Nat /\ q.mask <= next.mask /\ q.first \in Nat /\ Last(q) \in Nat
          /\ p.first \in Nat /\ Last(p) \in Nat
      BY <1>2, <1>4, <2>1, <2>2, BlockFacts
    <2>4. \/ Last(x) < next.first
          \/ Last(next) < x.first
          \/ x.first <= next.first /\ Last(next) <= Last(x)
      BY <1>1, <2>2, <2>3, Nesting
    <2>5. \/ Last(q) < next.first
          \/ Last(next) < q.first
          \/ q.first <= next.first /\ Last(next) <= Last(q)
      BY <1>1, <2>2, <2>3, Nesting
    <2>6. q.first <= next.first /\ Last(next) <= Last(q)
      BY <1>4, <2>1, <2>2, <2>3, <2>4, <2>5
    <2>7. containsNet(p, next)
      BY <1>4, <2>1, <2>3, <2>6 DEF containsNet
    <2> QED
      BY <1>1, <1>2, <2>1, <2>7
  <1>14. ASSUME NEW p \in S, NEW x \in S \cup {h, g}, NEW y \in S \cup {h, g},
                Clash(p, x, y) \/ Shadow(p, x, y)
         PROVE  FALSE
    <2>1. x \in S
      BY <1>7, <1>8, <1>9, <1>14
    <2>2. y \in S
      BY <1>10, <1>11, <1>12, <1>13, <1>14, <2>1
    <2> QED
      BY <1>3, <1>14, <2>1, <2>2 DEF NoConflict
  <1>15. ASSUME NEW p \in S \cup {h, g}, NEW x \in S \cup {h, g}, NEW y \in S \cup {h, g},
                Clash(p, x, y) \/ Shadow(p, x, y)
         PROVE  FALSE
    <2>1. CASE p \in S
      BY <1>14, <1>15, <2>1
    <2>2. CASE p \in {h, g}
      <3>1. Block(p) /\ p.included = next.included /\ next.mask <= p.mask
            /\ next.first <= p.first /\ Last(p) <= Last(next)
        BY <1>2, <1>4, <2>2
      <3>2. Block(x)
        BY <1>1, <1>2
      <3>3. Clash(next, x, y) \/ Shadow(next, x, y)
        BY <1>1, <1>15, <3>1, <3>2, LargerConflict
      <3> QED
        BY <1>5, <1>14, <3>3
    <2> QED
      BY <2>1, <2>2
  <1>16. T \subseteq S \cup {h, g}
    BY DEF S, h, g
  <1> QED
    BY <1>15, <1>16 DEF NoConflict

LEMMA TreeAddFacts ==
    ASSUME NEW S, NEW n
    PROVE  /\ S \subseteq TreeAdd(S, n) /\ TreeAdd(S, n) \subseteq S \cup {n}
           /\ \E z \in TreeAdd(S, n) : SameNet(z, n)
           /\ Distinct(S) => Distinct(TreeAdd(S, n))
           /\ ~ Contains(S, n) => TreeAdd(S, n) = S \cup {n}
           /\ Contains(S, n) => TreeAdd(S, n) = S
  <1>1. CASE Contains(S, n)
    <2>1. TreeAdd(S, n) = S
      BY <1>1 DEF TreeAdd
    <2>2. \E z \in S : SameNet(z, n)
      BY <1>1 DEF Contains
    <2> QED
      BY <1>1, <2>1, <2>2
  <1>2. CASE ~ Contains(S, n)
    <2>1. TreeAdd(S, n) = S \cup {n}
      BY <1>2 DEF TreeAdd
    <2>2. ASSUME NEW z \in S PROVE ~ SameNet(z, n) /\ ~ SameNet(n, z)
      BY <1>2 DEF Contains, SameNet
    <2>3. SameNet(n, n)
      BY DEF SameNet
    <2>4. Distinct(S) => Distinct(S \cup {n})
      BY <2>2 DEF Distinct
    <2> QED
      BY <1>2, <2>1, <2>3, <2>4
  <1> QED
    BY <1>1, <1>2

SplitQueue(c, Q, next) ==
    LET rest == TreeAdd(Q \ {next}, SecondHalf(next))
    IN  IF Last(FirstHalf(next)) = Last(c) THEN rest ELSE TreeAdd(rest, FirstHalf(next))

LEMMA SplitNextGood ==
    ASSUME NEW c, NEW Q, NEW next, SplitsNext(c, Q, next)
    PROVE  Good(c, SplitQueue(c, Q, next))
  <1> DEFINE h == FirstHalf(next)
             g == SecondHalf(next)
             rest == TreeAdd(Q \ {next}, g)
             T == SplitQueue(c, Q, next)
  <1>1. /\ next \in Q /\ Block(next) /\ Block(c)
        /\ next.mask < c.mask /\ next.mask < Bits /\ c.first = next.first
    BY SplitNextFacts DEF SplitsNext
  <1>2. /\ Block(h) /\ Block(g)
        /\ h.mask = next.mask + 1 /\ g.mask = next.mask + 1
        /\ h.first = next.first /\ g.first = Last(h) + 1
    BY <1>1, Halves
  <1>3. /\ \A n \in Q : Block(n) /\ Before(c, n)
        /\ Distinct(Q)
    BY DEF SplitsNext, Good
  <1> HIDE DEF h, g
  <1>4. rest \subseteq (Q \ {next}) \cup {g} /\ Distinct(rest)
    <2>1. Distinct(Q \ {next})
      BY <1>3 DEF Distinct
    <2> QED
      BY <2>1, TreeAddFacts
  <1>5. /\ Last(h) = Last(c) => T = rest
        /\ Last(h) # Last(c) => T = TreeAdd(rest, h)
    BY DEF T, SplitQueue, h, g
  <1> HIDE DEF rest, T
  <1>6. Distinct(T) /\ T \subseteq Q \cup {g, h} /\ (h \in T => h \in Q \/ h = g \/ Last(h) # Last(c))
    BY <1>4, <1>5, TreeAddFacts
  <1>7. /\ next.first \in Nat /\ next.mask \in Nat /\ c.mask \in Nat /\ h.first <= Last(h) /\ c.first <= Last(c)
        /\ Last(h) \in Nat /\ Last(c) \in Nat
    BY <1>1, <1>2, BlockFacts
  <1>8. Before(c, g)
    BY <1>1, <1>2, <1>7 DEF Before
  <1>9. ASSUME Last(h) # Last(c) PROVE Before(c, h)
    <2>1. c.mask # h.mask
      BY <1>1, <1>2, <1>7, <1>9, SameSize
    <2> QED
      BY <1>1, <1>2, <1>7, <2>1 DEF Before
  <1>10. \A n \in T : Block(n) /\ Before(c, n)
    BY <1>2, <1>3, <1>6, <1>8, <1>9
  <1>11. NoConflict(T \cup {c})
    <2>1. T \cup {c} \subseteq Q \cup {c, FirstHalf(next), SecondHalf(next)}
      BY <1>6 DEF h, g
    <2> QED
      BY <2>1, SplitNextNoConflict
  <1> QED
    BY <1>1, <1>6, <1>10, <1>11 DEF Good, T

-----------------------------------------------------------------------------
(* What a set of networks decides: its longest prefix, as in Promised.     *)

Decides(S, a) ==
    \E n \in S : /\ Covers(n, a) /\ n.included
                 /\ \A m \in S : Covers(m, a) => m.mask <= n.mask

LEMMA SameCover ==
    ASSUME NEW m, NEW n, Block(m), Block(n), m.mask = n.mask, NEW a \in Nat, Covers(m, a), Covers(n, a)
    PROVE  SameNet(m, n) /\ Last(m) = Last(n)
  <1>1. /\ m.first \in Nat /\ n.first \in Nat /\ Last(m) \in Nat /\ Last(n) \in Nat
        /\ m.first <= a /\ a <= Last(m) /\ n.first <= a /\ a <= Last(n)
    BY BlockFacts DEF Covers
  <1> QED
    BY <1>1, SameSize DEF SameNet

LEMMA LongestExists ==
    ASSUME NEW S, \A n \in S : Block(n), NEW a, NEW e \in S, Covers(e, a)
    PROVE  \E t \in S : Covers(t, a) /\ \A m \in S : Covers(m, a) => m.mask <= t.mask
  <1> DEFINE T == {k \in Nat : \E m \in S : Covers(m, a) /\ k = Bits - m.mask}
  <1>1. \A m \in S : m.mask \in Nat /\ m.mask <= Bits /\ Bits - m.mask \in Nat
    BY BlockFacts, SizeFacts
  <1>2. Bits - e.mask \in T
    BY <1>1
  <1>3. PICK k \in T : \A j \in T : k <= j
    <2>1. T \in SUBSET Nat /\ T # {}
      BY <1>2
    <2> HIDE DEF T
    <2> QED
      BY <2>1, LeastNumber
  <1>4. PICK t \in S : Covers(t, a) /\ k = Bits - t.mask
    OBVIOUS
  <1>5. ASSUME NEW m \in S, Covers(m, a) PROVE m.mask <= t.mask
    <2>1. Bits - m.mask \in T
      BY <1>1, <1>5
    <2>2. k <= Bits - m.mask
      BY <1>3, <2>1
    <2> QED
      BY <1>1, <1>4, <2>2, SizeFacts
  <1> QED
    BY <1>4, <1>5

(* A network d may go where another one, e, covers the address and all     *)
(* between the two in length are of d's type.                              *)
LEMMA Redundant ==
    ASSUME NEW S, NEW d, NEW a, d \notin S, Block(d), \A n \in S : Block(n),
           Covers(d, a) =>
              \E e \in S : /\ Covers(e, a)
                           /\ \A z \in S : Covers(z, a) /\ e.mask <= z.mask /\ z.mask <= d.mask
                                              => z.included = d.included
    PROVE  Decides(S, a) <=> Decides(S \cup {d}, a)
  <1>1. /\ d.mask \in Nat
        /\ \A n \in S : n.mask \in Nat
    BY BlockFacts
  <1>2. CASE ~ Covers(d, a)
    BY <1>2 DEF Decides
  <1>3. CASE Covers(d, a)
    <2>1. PICK e \in S : /\ Covers(e, a)
                         /\ \A z \in S : Covers(z, a) /\ e.mask <= z.mask /\ z.mask <= d.mask
                                              => z.included = d.included
      BY <1>3
    <2>2. ASSUME Decides(S, a) PROVE Decides(S \cup {d}, a)
      <3>1. PICK n \in S : /\ Covers(n, a) /\ n.included
                           /\ \A m \in S : Covers(m, a) => m.mask <= n.mask
        BY <2>2 DEF Decides
      <3>2. CASE d.mask <= n.mask
        BY <3>1, <3>2 DEF Decides
      <3>3. CASE ~ (d.mask <= n.mask)
        <4>1. d.included
          BY <1>1, <2>1, <3>1, <3>3
        <4>2. \A m \in S \cup {d} : Covers(m, a) => m.mask <= d.mask
          BY <1>1, <3>1, <3>3
        <4> QED
          BY <1>3, <4>1, <4>2 DEF Decides
      <3> QED
        BY <3>2, <3>3
    <2>3. ASSUME Decides(S \cup {d}, a) PROVE Decides(S, a)
      <3>1. PICK n \in S \cup {d} : /\ Covers(n, a) /\ n.included
                                    /\ \A m \in S \cup {d} : Covers(m, a) => m.mask <= n.mask
        BY <2>3 DEF Decides
      <3>2. CASE n \in S
        BY <3>1, <3>2 DEF Decides
      <3>3. CASE n = d
        <4>1. PICK t \in S : Covers(t, a) /\ \A m \in S : Covers(m, a) => m.mask <= t.mask
          BY <2>1, LongestExists
        <4>2. t.included
          BY <2>1, <3>1, <3>3, <4>1
        <4> QED
          BY <4>1, <4>2 DEF Decides
      <3> QED
        BY <3>2, <3>3
    <2> QED
      BY <2>2, <2>3
  <1> QED
    BY <1>2, <1>3

(* Splitting the next network changes no decision.                         *)
LEMMA HalvesCover ==
    ASSUME NEW n, Block(n), n.mask < Bits, NEW a \in Nat
    PROVE  /\ Covers(n, a) <=> Covers(FirstHalf(n), a) \/ Covers(SecondHalf(n), a)
           /\ ~ (Covers(FirstHalf(n), a) /\ Covers(SecondHalf(n), a))
  <1> DEFINE h == FirstHalf(n)
             g == SecondHalf(n)
  <1>1. /\ Block(h) /\ Block(g)
        /\ h.first = n.first /\ g.first = Last(h) + 1 /\ Last(g) = Last(n)
    BY Halves
  <1> HIDE DEF h, g
  <1>2. /\ n.first \in Nat /\ Last(n) \in Nat /\ Last(h) \in Nat /\ Last(g) \in Nat
        /\ h.first <= Last(h) /\ g.first <= Last(g)
    BY <1>1, BlockFacts
  <1>3. /\ Covers(n, a) <=> Covers(h, a) \/ Covers(g, a)
        /\ ~ (Covers(h, a) /\ Covers(g, a))
    BY <1>1, <1>2 DEF Covers
  <1> QED
    BY <1>3 DEF h, g

LEMMA NextHalfAdded ==
    ASSUME NEW c, NEW Q, NEW next, SplitsNext(c, Q, next),
           NEW k \in {FirstHalf(next), SecondHalf(next)},
           NEW R, R \subseteq (Q \ {next}) \cup {SecondHalf(next)},
           \A z \in R \cup {c} : ~ SameNet(z, k),
           NEW a \in Nat
    PROVE  Decides(R \cup {c, next}, a) <=> Decides(R \cup {c, next, k}, a)
  <1> DEFINE h == FirstHalf(next)
             g == SecondHalf(next)
             S == R \cup {c, next}
  <1>1. /\ next \in Q /\ Block(next) /\ Block(c)
        /\ next.mask < c.mask /\ next.mask < Bits /\ Distinct(Q) /\ \A n \in Q : Block(n)
    BY SplitNextFacts DEF SplitsNext, Good
  <1>2. /\ Block(h) /\ Block(g)
        /\ h.mask = next.mask + 1 /\ g.mask = next.mask + 1
        /\ h.included = next.included /\ g.included = next.included
    BY <1>1, Halves
  <1>3. Covers(k, a) => Covers(next, a)
    BY <1>1, HalvesCover
  <1>4. k \in {h, g} /\ R \subseteq (Q \ {next}) \cup {g}
    OBVIOUS
  <1> HIDE DEF h, g
  <1>5. Block(k) /\ k.mask = next.mask + 1 /\ k.included = next.included /\ next.mask \in Nat
    BY <1>1, <1>2, <1>4, BlockFacts
  <1>6. \A n \in S : Block(n) /\ n.mask \in Nat
    BY <1>1, <1>2, <1>4, BlockFacts
  <1>7. k \notin S
    <2>1. k # next
      BY <1>5
    <2> QED
      BY <2>1 DEF SameNet
  <1>8. ASSUME Covers(k, a), NEW z \in S, Covers(z, a), next.mask <= z.mask, z.mask <= k.mask
        PROVE  z.included = k.included
    <2>1. CASE z = next
      BY <1>5, <2>1
    <2>2. CASE z # next
      <3>1. z.mask # k.mask
        BY <1>5, <1>6, <1>8, <2>2, SameCover
      <3>2. z.mask = next.mask
        BY <1>5, <1>6, <1>8, <3>1
      <3>3. SameNet(z, next)
        BY <1>1, <1>3, <1>6, <1>8, <3>2, SameCover
      <3>4. z \in Q
        BY <1>1, <1>2, <1>4, <1>5, <2>2, <3>2
      <3> QED
        BY <1>1, <2>2, <3>3, <3>4 DEF Distinct
    <2> QED
      BY <2>1, <2>2
  <1>9. Covers(k, a) =>
           \E e \in S : /\ Covers(e, a)
                        /\ \A z \in S : Covers(z, a) /\ e.mask <= z.mask /\ z.mask <= k.mask
                                           => z.included = k.included
    BY <1>3, <1>8
  <1>10. Decides(S, a) <=> Decides(S \cup {k}, a)
    <2> HIDE DEF S
    <2> QED
      BY <1>5, <1>6, <1>7, <1>9, Redundant
  <1>11. S \cup {k} = R \cup {c, next, k}
    OBVIOUS
  <1> QED
    BY <1>10, <1>11

LEMMA SplitNextDecides ==
    ASSUME NEW c, NEW Q, NEW next, SplitsNext(c, Q, next), NEW a \in Nat
    PROVE  Decides(Q \cup {c}, a) <=> Decides(SplitQueue(c, Q, next) \cup {c}, a)
  <1> DEFINE h == FirstHalf(next)
             g == SecondHalf(next)
             rest == TreeAdd(Q \ {next}, g)
             T == SplitQueue(c, Q, next)
  <1>1. /\ next \in Q /\ Block(next) /\ Block(c) /\ Last(c) <= Last(next)
        /\ next.mask < c.mask /\ next.mask < Bits /\ c.first = next.first
        /\ \A n \in Q : n # next => Before(next, n)
        /\ \A n \in Q : Block(n)
    BY SplitNextFacts DEF SplitsNext, Good
  <1>2. /\ Block(h) /\ Block(g)
        /\ h.mask = next.mask + 1 /\ g.mask = next.mask + 1
        /\ h.first = next.first /\ g.first = Last(h) + 1
    BY <1>1, Halves
  <1>3. Covers(next, a) => Covers(h, a) \/ Covers(g, a)
    BY <1>1, HalvesCover
  <1>4. /\ rest \subseteq (Q \ {next}) \cup {g}
        /\ \E z \in rest : SameNet(z, g)
        /\ Contains(Q \ {next}, g) => rest = Q \ {next}
        /\ ~ Contains(Q \ {next}, g) => rest = (Q \ {next}) \cup {g}
    BY TreeAddFacts
  <1>5. /\ Last(h) = Last(c) => T = rest
        /\ Last(h) # Last(c) => T = TreeAdd(rest, h)
    BY DEF SplitQueue
  <1>6. /\ next.first \in Nat /\ next.mask \in Nat /\ h.first <= Last(h) /\ Last(h) \in Nat /\ Last(c) \in Nat
        /\ c.first <= Last(c)
    BY <1>1, <1>2, BlockFacts
  <1>7. Decides(Q \cup {c}, a) <=> Decides(rest \cup {c, next}, a)
    <2>1. CASE Contains(Q \ {next}, g)
      <3>1. rest \cup {c, next} = Q \cup {c}
        BY <1>1, <1>4, <2>1
      <3> QED
        BY <3>1
    <2>2. CASE ~ Contains(Q \ {next}, g)
      <3>1. \A z \in (Q \ {next}) \cup {c} : ~ SameNet(z, g)
        <4>1. ~ SameNet(c, g)
          BY <1>1, <1>2, <1>6 DEF SameNet
        <4>2. \A z \in Q \ {next} : ~ SameNet(z, g)
          BY <2>2 DEF Contains
        <4> QED
          BY <4>1, <4>2
      <3>2. Decides((Q \ {next}) \cup {c, next}, a) <=> Decides((Q \ {next}) \cup {c, next, g}, a)
        BY <3>1, NextHalfAdded
      <3>3. (Q \ {next}) \cup {c, next} = Q \cup {c} /\ (Q \ {next}) \cup {c, next, g} = rest \cup {c, next}
        <4> HIDE DEF g, rest
        <4> QED
          BY <1>1, <1>4, <2>2
      <3> QED
        BY <3>2, <3>3
    <2> QED
      BY <2>1, <2>2
  <1>8. Decides(rest \cup {c, next}, a) <=> Decides(T \cup {c, next}, a)
    <2>1. CASE Last(h) = Last(c)
      BY <1>5, <2>1
    <2>2. CASE Last(h) # Last(c)
      <3>1. \A z \in rest \cup {c} : ~ SameNet(z, h)
        <4>1. ~ SameNet(c, h)
          BY <1>1, <1>2, <1>6, <2>2, SameSize DEF SameNet
        <4>2. ~ SameNet(g, h)
          BY <1>2, <1>6 DEF SameNet
        <4>3. ASSUME NEW z \in Q \ {next} PROVE ~ SameNet(z, h)
          <5>1. Before(next, z) /\ z.first \in Nat /\ z.mask \in Nat
            BY <1>1, BlockFacts
          <5> QED
            BY <1>2, <1>6, <5>1 DEF Before, SameNet
        <4> QED
          BY <1>4, <4>1, <4>2, <4>3
      <3>2. T = rest \cup {h}
        <4>1. ~ Contains(rest, h)
          BY <3>1 DEF Contains
        <4> QED
          BY <1>5, <2>2, <4>1, TreeAddFacts
      <3>3. Decides(rest \cup {c, next}, a) <=> Decides(rest \cup {c, next, h}, a)
        BY <1>4, <3>1, NextHalfAdded
      <3>4. rest \cup {c, next, h} = T \cup {c, next}
        <4> HIDE DEF h, T, rest
        <4> QED
          BY <3>2
      <3> QED
        BY <3>3, <3>4
    <2> QED
      BY <2>1, <2>2
  <1>9. Decides(T \cup {c}, a) <=> Decides(T \cup {c, next}, a)
    <2> DEFINE S == T \cup {c}
    <2>1. rest \subseteq T /\ T \subseteq (Q \ {next}) \cup {g, h} /\ (Last(h) # Last(c) => \E z \in T : SameNet(z, h))
      BY <1>4, <1>5, TreeAddFacts
    <2>2. next \notin S /\ \A n \in S : Block(n) /\ n.mask \in Nat
      <3>1. next # g /\ next # h /\ next # c
        BY <1>1, <1>2, <1>6
      <3>2. \A n \in S : Block(n)
        BY <1>1, <1>2, <2>1
      <3> QED
        BY <2>1, <3>1, <3>2, BlockFacts
    <2>3. ASSUME Covers(next, a) PROVE \E e \in S : Covers(e, a) /\ e.mask > next.mask
      <3>1. CASE Covers(g, a)
        <4>1. PICK z \in T : SameNet(z, g)
          BY <1>4, <2>1
        <4>2. z.first = g.first /\ z.mask = g.mask /\ Last(z) = Last(g)
          BY <4>1 DEF SameNet, Last
        <4>3. Covers(z, a) /\ z.mask > next.mask
          BY <1>2, <1>6, <3>1, <4>2 DEF Covers
        <4> QED
          BY <4>3
      <3>2. CASE Covers(h, a) /\ Last(h) = Last(c)
        <4>1. Covers(c, a) /\ c.mask > next.mask
          BY <1>1, <1>2, <3>2 DEF Covers
        <4> QED
          BY <4>1
      <3>3. CASE Covers(h, a) /\ Last(h) # Last(c)
        <4>1. PICK z \in T : SameNet(z, h)
          BY <2>1, <3>3
        <4>2. z.first = h.first /\ z.mask = h.mask /\ Last(z) = Last(h)
          BY <4>1 DEF SameNet, Last
        <4>3. Covers(z, a) /\ z.mask > next.mask
          BY <1>2, <1>6, <3>3, <4>2 DEF Covers
        <4> QED
          BY <4>3
      <3> QED
        BY <1>3, <2>3, <3>1, <3>2, <3>3
    <2>4. Covers(next, a) =>
             \E e \in S : /\ Covers(e, a)
                          /\ \A z \in S : Covers(z, a) /\ e.mask <= z.mask /\ z.mask <= next.mask
                                             => z.included = next.included
      <3> HIDE DEF S
      <3> QED
        BY <1>6, <2>2, <2>3
    <2>5. Decides(S, a) <=> Decides(S \cup {next}, a)
      <3> HIDE DEF S
      <3> QED
        BY <1>1, <2>2, <2>4, Redundant
    <2>6. S \cup {next} = T \cup {c, next}
      OBVIOUS
    <2> QED
      BY <2>5, <2>6
  <1> QED
    BY <1>7, <1>8, <1>9

-----------------------------------------------------------------------------
(* The next network lies in the current one.                               *)

Inside(c, Q, next) ==
    /\ Good(c, Q) /\ next \in Least(Q)
    /\ c.first < next.first /\ next.first <= Last(c)

LEMMA InsideFacts ==
    ASSUME NEW c, NEW Q, NEW next, Inside(c, Q, next)
    PROVE  /\ next \in Q /\ Block(next) /\ Block(c)
           /\ c.mask < next.mask /\ c.mask < Bits /\ Last(next) <= Last(c)
           /\ \A n \in Q : n # next => Before(next, n)
           /\ \A n \in Q : Block(n) /\ next.first <= n.first /\ c.first < n.first
  <1>1. /\ Block(c) /\ \A n \in Q : Block(n)
        /\ Distinct(Q) /\ next \in Least(Q)
        /\ c.first < next.first /\ next.first <= Last(c)
    BY DEF Inside, Good
  <1>2. next \in Q /\ \A n \in Q : n # next => Before(next, n)
    BY <1>1, LeastFacts
  <1>3. /\ Block(next) /\ next.first \in Nat /\ next.mask \in Nat /\ c.mask \in Nat /\ next.mask <= Bits
        /\ Bits \in Nat /\ Last(c) \in Nat /\ Last(next) \in Nat /\ c.first \in Nat
        /\ next.first <= Last(next)
    BY <1>1, <1>2, BlockFacts, SizeFacts
  <1>4. c.mask < next.mask /\ Last(next) <= Last(c)
    <2>1. ~ (next.mask <= c.mask)
      <3>1. next.mask <= c.mask =>
               \/ Last(next) < c.first
               \/ Last(c) < next.first
               \/ next.first <= c.first /\ Last(c) <= Last(next)
        BY <1>1, <1>3, Nesting
      <3> QED
        BY <1>1, <1>3, <3>1
    <2>2. \/ Last(c) < next.first
          \/ Last(next) < c.first
          \/ c.first <= next.first /\ Last(next) <= Last(c)
      BY <1>1, <1>3, <2>1, Nesting
    <2> QED
      BY <1>1, <1>3, <2>1, <2>2
  <1>5. ASSUME NEW n \in Q PROVE next.first <= n.first /\ c.first < n.first
    <2>1. n.first \in Nat
      BY <1>1, BlockFacts
    <2> QED
      BY <1>1, <1>2, <1>3, <2>1 DEF Before
  <1>6. c.mask < Bits
    BY <1>3, <1>4
  <1> QED
    BY <1>1, <1>2, <1>3, <1>4, <1>5, <1>6

SplitsCurrent(c, Q, next) == Inside(c, Q, next) /\ c.included # next.included

(* The upper half is in the queue only as it is.                           *)
LEMMA UpperHalfFree ==
    ASSUME NEW c, NEW Q, NEW next, SplitsCurrent(c, Q, next),
           SecondHalf(c).mask # next.mask,
           NEW z \in Q, SameNet(z, SecondHalf(c))
    PROVE  z = SecondHalf(c)
  <1> DEFINE g == SecondHalf(c)
  <1>1. /\ next \in Q /\ Block(next) /\ Block(c) /\ Block(z)
        /\ c.mask < next.mask /\ c.mask < Bits
        /\ \A n \in Q : n # next => Before(next, n)
        /\ c.first < next.first /\ next.first <= z.first /\ c.included # next.included
    BY InsideFacts DEF SplitsCurrent, Inside
  <1>2. /\ Block(g) /\ g.mask = c.mask + 1 /\ g.included = c.included
        /\ g.first = Last(FirstHalf(c)) + 1 /\ Last(g) = Last(c)
        /\ Block(FirstHalf(c)) /\ FirstHalf(c).first = c.first
    BY <1>1, Halves
  <1>3. z.first = g.first /\ z.mask = g.mask /\ Last(z) = Last(g) /\ g.mask # next.mask
    BY DEF SameNet, Last
  <1> HIDE DEF g
  <1>4. /\ c.mask \in Nat /\ next.mask \in Nat /\ c.first \in Nat /\ g.first \in Nat /\ z.first \in Nat
        /\ c.included \in BOOLEAN /\ next.included \in BOOLEAN /\ z.included \in BOOLEAN
        /\ Last(FirstHalf(c)) \in Nat /\ c.first <= Last(FirstHalf(c))
    BY <1>1, <1>2, BlockFacts
  <1>5. CASE z.included = g.included
    <2>1. z \in [first : Nat, mask : 0 .. Bits, included : BOOLEAN]
          /\ g \in [first : Nat, mask : 0 .. Bits, included : BOOLEAN]
      BY <1>1, <1>2 DEF Block
    <2>2. z = g
      BY <1>3, <1>5, <2>1
    <2> QED
      BY <2>2 DEF g
  <1>6. CASE z.included # g.included
    <2>1. Parent(z).first = c.first /\ Last(Parent(z)) = Last(c)
      <3>1. z.mask = c.mask + 1 /\ c.first <= z.first
        BY <1>1, <1>2, <1>3, <1>4
      <3>2. Last(z) <= Last(c)
        BY <1>1, <1>2, <1>3, BlockFacts
      <3> QED
        BY <1>1, <3>1, <3>2, ParentOfHalf
    <2>2. containsNet(c, Parent(z))
      <3>1. Last(c) \in Nat
        BY <1>1, BlockFacts
      <3> QED
        BY <1>4, <2>1, <3>1 DEF containsNet
    <2>3. c.included # z.included /\ next.included = z.included
      BY <1>1, <1>2, <1>4, <1>6
    <2>4. z.mask > 0 /\ z.first # Parent(z).first /\ Parent(z).first < next.first /\ next.first <= z.first
          /\ next.mask > z.mask
      BY <1>1, <1>2, <1>3, <1>4, <2>1
    <2>5. Clash(c, z, next)
      BY <2>2, <2>3, <2>4 DEF Clash
    <2>6. NoConflict(Q \cup {c})
      BY DEF SplitsCurrent, Inside, Good
    <2> QED
      BY <1>1, <2>5, <2>6 DEF NoConflict
  <1> QED
    BY <1>5, <1>6

LEMMA SplitCurrentNoConflict ==
    ASSUME NEW c, NEW Q, NEW next, SplitsCurrent(c, Q, next), NEW T,
           T \subseteq Q \cup {FirstHalf(c), SecondHalf(c)}
    PROVE  NoConflict(T)
  <1> DEFINE h == FirstHalf(c)
             g == SecondHalf(c)
             S == Q \cup {c}
  <1>1. /\ Block(c) /\ c.mask < Bits
        /\ \A n \in Q : Block(n) /\ c.first < n.first
    BY InsideFacts DEF SplitsCurrent
  <1>2. /\ Block(h) /\ Block(g)
        /\ h.mask = c.mask + 1 /\ g.mask = c.mask + 1
        /\ h.included = c.included /\ g.included = c.included
        /\ h.first = c.first /\ g.first = Last(h) + 1 /\ Last(g) = Last(c)
    BY <1>1, Halves
  <1>3. NoConflict(S)
    BY DEF SplitsCurrent, Inside, Good
  <1> HIDE DEF h, g
  <1>4. /\ c.first \in Nat /\ c.mask \in Nat /\ Last(c) \in Nat
        /\ h.first \in Nat /\ g.first \in Nat /\ Last(h) \in Nat /\ Last(g) \in Nat
        /\ c.first <= Last(h) /\ c.first < g.first /\ g.first <= Last(c) /\ Last(h) <= Last(c)
    BY <1>1, <1>2, BlockFacts
  <1>5. \A n \in Q : /\ n.first \in Nat /\ n.mask \in Nat /\ Last(n) \in Nat /\ n.first <= Last(n)
                     /\ n.included \in BOOLEAN /\ n # c
    BY <1>1, <1>4, BlockFacts
  <1> HIDE DEF S
  \* No network of the queue that is not smaller meets the current one.
  <1>6. ASSUME NEW n, Block(n), c.first < n.first, n.mask <= c.mask PROVE Last(c) < n.first
    <2>1. n.first \in Nat /\ Last(n) \in Nat /\ n.first <= Last(n)
      BY <1>6, BlockFacts
    <2>2. \/ Last(n) < c.first
          \/ Last(c) < n.first
          \/ n.first <= c.first /\ Last(c) <= Last(n)
      BY <1>1, <1>6, Nesting
    <2> QED
      BY <1>4, <1>6, <2>1, <2>2
  <1>7. ASSUME NEW p, NEW y \in Q \cup {h, g}, Shadow(p, h, y) PROVE FALSE
    <2>1. y.first = h.first /\ h.mask < y.mask
      BY <1>7 DEF Shadow
    <2>2. y \notin Q
      BY <1>1, <1>2, <1>4, <1>5, <2>1
    <2>3. y # g
      BY <1>2, <1>4, <2>1
    <2>4. y # h
      BY <1>2, <1>4, <2>1
    <2> QED
      BY <2>2, <2>3, <2>4
  <1>8. ASSUME NEW p \in S, NEW y, Shadow(p, g, y) PROVE FALSE
    <2>1. p.included # g.included /\ p.first <= g.first /\ p.mask < g.mask
      BY <1>8 DEF Shadow, containsNet
    <2>2. p \in Q
      BY <1>2, <2>1 DEF S
    <2>3. p.mask <= c.mask /\ Block(p) /\ c.first < p.first
      BY <1>1, <1>2, <1>4, <1>5, <2>1, <2>2
    <2>4. Last(c) < p.first
      BY <1>6, <2>3
    <2> QED
      BY <1>4, <1>5, <2>1, <2>2, <2>4
  <1>9. ASSUME NEW p, NEW y, Clash(p, h, y) PROVE FALSE
    <2>1. Parent(h).first = c.first
      BY <1>1, <1>2, <1>4, ParentOfHalf
    <2> QED
      BY <1>2, <1>9, <2>1 DEF Clash
  <1>10. ASSUME NEW p \in S, NEW y, Clash(p, g, y) PROVE FALSE
    <2>1. Parent(g).first = c.first
      BY <1>1, <1>2, <1>4, ParentOfHalf
    <2>2. p.included # g.included /\ p.first <= c.first
      BY <1>10, <2>1 DEF Clash, containsNet
    <2>3. p \in Q
      BY <1>2, <2>2 DEF S
    <2> QED
      BY <1>1, <1>4, <1>5, <2>2, <2>3
  <1>11. ASSUME NEW p, NEW x \in Q, Shadow(p, x, h) PROVE FALSE
    <2>1. h.first = x.first
      BY <1>11 DEF Shadow
    <2> QED
      BY <1>1, <1>2, <1>4, <1>5, <2>1
  <1>12. ASSUME NEW p, NEW x \in Q, Shadow(p, x, g) PROVE FALSE
    <2>1. g.first = x.first /\ x.mask < g.mask
      BY <1>12 DEF Shadow
    <2>2. x.mask <= c.mask
      BY <1>2, <1>4, <1>5, <2>1
    <2>3. Last(c) < x.first
      BY <1>1, <1>6, <2>2
    <2> QED
      BY <1>4, <2>1, <2>3
  <1>13. ASSUME NEW p \in S, NEW x \in Q, Clash(p, x, h) PROVE FALSE
    <2>1. x.mask > 0 /\ p.first <= Parent(x).first /\ Parent(x).first < h.first
      BY <1>13 DEF Clash, containsNet
    <2>2. Parent(x).first \in Nat
      BY <1>1, <2>1, Parents, BlockFacts
    <2> QED
      BY <1>1, <1>2, <1>4, <1>5, <2>1, <2>2 DEF S
  <1>14. ASSUME NEW p \in S, NEW x \in Q, Clash(p, x, g) PROVE FALSE
    <2> DEFINE q == Parent(x)
    <2>1. /\ x.mask > 0 /\ containsNet(p, q) /\ q.first < g.first /\ g.first <= x.first /\ x.mask < g.mask
      BY <1>14 DEF Clash
    <2>2. Block(x) /\ Block(q) /\ q.mask = x.mask - 1 /\ q.first <= x.first /\ Last(x) <= Last(q)
      BY <1>1, <2>1, Parents
    <2> HIDE DEF q
    <2>3. q.mask \in Nat /\ q.first \in Nat /\ Last(q) \in Nat
      BY <2>2, BlockFacts
    <2>4. x.mask <= c.mask /\ q.mask <= c.mask
      BY <1>2, <1>4, <1>5, <2>1, <2>2, <2>3
    <2>5. Last(c) < x.first
      BY <1>1, <1>6, <2>4
    <2>6. q.first <= c.first
      <3>1. ~ (c.first < q.first)
        <4>1. c.first < q.first => Last(c) < q.first
          BY <1>6, <2>2, <2>4
        <4> QED
          BY <1>4, <2>1, <2>3, <4>1
      <3> QED
        BY <1>4, <2>3, <3>1
    <2>7. p = c
      BY <1>1, <1>4, <1>5, <2>1, <2>3, <2>6 DEF S, containsNet
    <2> QED
      BY <1>4, <1>5, <2>1, <2>2, <2>3, <2>5, <2>7 DEF containsNet
  <1>15. ASSUME NEW p \in S, NEW x \in Q \cup {h, g}, NEW y \in Q \cup {h, g},
                Clash(p, x, y) \/ Shadow(p, x, y)
         PROVE  FALSE
    <2>1. x \in Q
      BY <1>7, <1>8, <1>9, <1>10, <1>15
    <2>2. y \in Q
      BY <1>11, <1>12, <1>13, <1>14, <1>15, <2>1
    <2> QED
      BY <1>3, <1>15, <2>1, <2>2 DEF NoConflict, S
  <1>16. ASSUME NEW p \in Q \cup {h, g}, NEW x \in Q \cup {h, g}, NEW y \in Q \cup {h, g},
                Clash(p, x, y) \/ Shadow(p, x, y)
         PROVE  FALSE
    <2>1. CASE p \in Q
      BY <1>15, <1>16, <2>1 DEF S
    <2>2. CASE p \in {h, g}
      <3>1. Block(p) /\ p.included = c.included /\ c.mask <= p.mask
            /\ c.first <= p.first /\ Last(p) <= Last(c)
        BY <1>2, <1>4, <2>2
      <3>2. Block(x)
        BY <1>1, <1>2
      <3>3. Clash(c, x, y) \/ Shadow(c, x, y)
        BY <1>1, <1>16, <3>1, <3>2, LargerConflict
      <3> QED
        BY <1>15, <3>3 DEF S
    <2> QED
      BY <2>1, <2>2
  <1>17. T \subseteq Q \cup {h, g}
    BY DEF h, g
  <1> QED
    BY <1>16, <1>17 DEF NoConflict

HeadQueue(c, Q, next) ==
    IF SecondHalf(c).mask = next.mask THEN Q ELSE Q \cup {SecondHalf(c)}

LEMMA SplitCurrentGood ==
    ASSUME NEW c, NEW Q, NEW next, SplitsCurrent(c, Q, next)
    PROVE  Good(FirstHalf(c), HeadQueue(c, Q, next))
  <1> DEFINE h == FirstHalf(c)
             g == SecondHalf(c)
             T == HeadQueue(c, Q, next)
  <1>1. /\ Block(c) /\ c.mask < Bits
        /\ \A n \in Q : Block(n) /\ c.first < n.first
    BY InsideFacts DEF SplitsCurrent
  <1>2. /\ Block(h) /\ Block(g)
        /\ h.first = c.first /\ g.first = Last(h) + 1
        /\ h.first <= Last(h) /\ h.first \in Nat /\ Last(h) \in Nat
    BY <1>1, Halves, BlockFacts
  <1>3. Distinct(Q)
    BY DEF SplitsCurrent, Inside, Good
  <1>4. /\ g.mask = next.mask => T = Q
        /\ g.mask # next.mask => T = Q \cup {g}
    BY DEF HeadQueue
  <1>5. g.mask # next.mask => \A z \in Q : SameNet(z, g) => z = g
    BY UpperHalfFree
  <1> HIDE DEF g, h, T
  <1>6. Distinct(T)
    <2>1. CASE g.mask = next.mask
      BY <1>3, <1>4, <2>1
    <2>2. CASE g.mask # next.mask
      <3>1. \A z \in Q : SameNet(z, g) \/ SameNet(g, z) => z = g
        BY <1>5, <2>2 DEF SameNet
      <3> QED
        BY <1>3, <1>4, <2>2, <3>1 DEF Distinct
    <2> QED
      BY <2>1, <2>2
  <1>7. \A n \in T : Block(n) /\ Before(h, n)
    <2>1. Before(h, g)
      BY <1>2 DEF Before
    <2>2. \A n \in Q : Before(h, n)
      BY <1>1, <1>2 DEF Before
    <2> QED
      BY <1>1, <1>2, <1>4, <2>1, <2>2
  <1>8. NoConflict(T \cup {h})
    <2>1. T \cup {h} \subseteq Q \cup {FirstHalf(c), SecondHalf(c)}
      BY <1>4 DEF h, g
    <2> QED
      BY <2>1, SplitCurrentNoConflict
  <1>9. Good(h, T)
    BY <1>2, <1>6, <1>7, <1>8 DEF Good
  <1> QED
    BY <1>9 DEF h, T

LEMMA SplitCurrentDecides ==
    ASSUME NEW c, NEW Q, NEW next, SplitsCurrent(c, Q, next), NEW a \in Nat
    PROVE  Decides(Q \cup {c}, a) <=> Decides(HeadQueue(c, Q, next) \cup {FirstHalf(c)}, a)
  <1> DEFINE h == FirstHalf(c)
             g == SecondHalf(c)
             T == HeadQueue(c, Q, next)
  <1>1. /\ Block(c) /\ c.mask < Bits /\ Block(next) /\ next \in Q
        /\ c.first < next.first /\ Last(next) <= Last(c)
        /\ \A n \in Q : Block(n) /\ c.first < n.first
    BY InsideFacts DEF SplitsCurrent, Inside
  <1>2. /\ Block(h) /\ Block(g)
        /\ h.mask = c.mask + 1 /\ g.mask = c.mask + 1
        /\ h.included = c.included /\ g.included = c.included
        /\ h.first = c.first /\ g.first = Last(h) + 1 /\ Last(g) = Last(c)
    BY <1>1, Halves
  <1>3. /\ Covers(c, a) <=> Covers(h, a) \/ Covers(g, a)
        /\ ~ (Covers(h, a) /\ Covers(g, a))
    BY <1>1, HalvesCover
  <1>4. /\ g.mask = next.mask => T = Q
        /\ g.mask # next.mask => T = Q \cup {g}
    BY DEF HeadQueue
  <1>5. g.mask # next.mask => \A z \in Q : SameNet(z, g) => z = g
    BY UpperHalfFree
  <1> HIDE DEF h, g, T
  <1>6. /\ c.mask \in Nat /\ c.first \in Nat /\ Last(c) \in Nat /\ Last(h) \in Nat /\ h.first <= Last(h)
        /\ \A n \in Q : n.mask \in Nat /\ n.first \in Nat
    BY <1>1, <1>2, BlockFacts
  \* A network of the queue that is as long as the current one does not meet it.
  <1>7. ASSUME NEW z \in Q, Covers(z, a), Covers(c, a) PROVE z.mask # c.mask
    <2>1. z.mask = c.mask => SameNet(z, c)
      BY <1>1, <1>7, SameCover
    <2> QED
      BY <1>1, <1>6, <2>1 DEF SameNet
  <1>8. Decides(Q \cup {c}, a) <=> Decides(T \cup {c}, a)
    <2>1. CASE g \in Q \/ g.mask = next.mask
      <3>1. T = Q
        BY <1>4, <2>1
      <3> QED
        BY <3>1
    <2>2. CASE g \notin Q /\ g.mask # next.mask
      <3> DEFINE S == Q \cup {c}
      <3>1. g \notin S /\ \A n \in S : Block(n) /\ n.mask \in Nat
        BY <1>1, <1>2, <1>6, <2>2
      <3>2. ASSUME Covers(g, a), NEW z \in S, Covers(z, a), c.mask <= z.mask, z.mask <= g.mask
            PROVE  z.included = g.included
        <4>1. CASE z = c
          BY <1>2, <4>1
        <4>2. CASE z \in Q
          <5>1. z.mask = g.mask
            BY <1>2, <1>3, <1>6, <1>7, <3>2, <4>2
          <5>2. SameNet(z, g)
            BY <1>1, <1>2, <3>2, <4>2, <5>1, SameCover
          <5> QED
            BY <1>5, <2>2, <4>2, <5>2
        <4> QED
          BY <4>1, <4>2
      <3>3. Covers(g, a) =>
               \E e \in S : /\ Covers(e, a)
                            /\ \A z \in S : Covers(z, a) /\ e.mask <= z.mask /\ z.mask <= g.mask
                                               => z.included = g.included
        BY <1>3, <3>2
      <3>4. Decides(S, a) <=> Decides(S \cup {g}, a)
        <4> HIDE DEF S
        <4> QED
          BY <1>2, <3>1, <3>3, Redundant
      <3>5. S \cup {g} = T \cup {c}
        BY <1>4, <2>2
      <3> QED
        BY <3>4, <3>5
    <2> QED
      BY <2>1, <2>2
  <1>9. \A n \in T : Block(n) /\ n.mask \in Nat
    BY <1>1, <1>2, <1>4, <1>6, BlockFacts
  <1>10. Decides(T \cup {c}, a) <=> Decides(T \cup {c, h}, a)
    <2> DEFINE S == T \cup {c}
    <2>1. h \notin S /\ \A n \in S : Block(n) /\ n.mask \in Nat
      <3>1. h # c /\ h # g /\ h \notin Q
        BY <1>1, <1>2, <1>6
      <3> QED
        BY <1>1, <1>4, <1>6, <1>9, <3>1
    <2>2. ASSUME Covers(h, a), NEW z \in S, Covers(z, a), c.mask <= z.mask, z.mask <= h.mask
          PROVE  z.included = h.included
      <3>1. CASE z = c
        BY <1>2, <3>1
      <3>2. CASE z \in Q
        <4>1. z.mask = h.mask
          BY <1>2, <1>3, <1>6, <1>7, <2>2, <3>2
        <4>2. SameNet(z, h)
          BY <1>1, <1>2, <2>2, <3>2, <4>1, SameCover
        <4> QED
          BY <1>1, <1>2, <1>6, <3>2, <4>2 DEF SameNet
      <3>3. CASE z = g
        BY <1>3, <2>2, <3>3
      <3> QED
        BY <1>4, <3>1, <3>2, <3>3
    <2>3. Covers(h, a) =>
             \E e \in S : /\ Covers(e, a)
                          /\ \A z \in S : Covers(z, a) /\ e.mask <= z.mask /\ z.mask <= h.mask
                                             => z.included = h.included
      BY <1>3, <2>2
    <2>4. Decides(S, a) <=> Decides(S \cup {h}, a)
      <3> HIDE DEF S
      <3> QED
        BY <1>2, <2>1, <2>3, Redundant
    <2>5. S \cup {h} = T \cup {c, h}
      OBVIOUS
    <2> QED
      BY <2>4, <2>5
  <1>11. Decides(T \cup {h}, a) <=> Decides(T \cup {h, c}, a)
    <2> DEFINE S == T \cup {h}
    <2>1. c \notin S /\ \A n \in S : Block(n) /\ n.mask \in Nat
      <3>1. c # g /\ c # h /\ c \notin Q
        BY <1>1, <1>2, <1>6
      <3> QED
        BY <1>2, <1>4, <1>9, <3>1, BlockFacts
    <2>2. ASSUME Covers(c, a) PROVE \E e \in S : Covers(e, a) /\ e.mask > c.mask
      <3>1. CASE Covers(h, a)
        BY <1>2, <1>6, <3>1
      <3>2. CASE Covers(g, a) /\ g.mask # next.mask
        BY <1>2, <1>4, <1>6, <3>2
      <3>3. CASE Covers(g, a) /\ g.mask = next.mask
        <4>1. Last(next) < g.first \/ Last(g) < next.first \/ (next.first = g.first /\ Last(next) = Last(g))
          BY <1>1, <1>2, <3>3, SameSize
        <4>2. Last(next) < h.first \/ Last(h) < next.first \/ (next.first = h.first /\ Last(next) = Last(h))
          BY <1>1, <1>2, <3>3, SameSize
        <4>3. next.first \in Nat /\ Last(next) \in Nat /\ next.first <= Last(next)
          BY <1>1, BlockFacts
        <4>4. next.first = g.first /\ Last(next) = Last(g)
          BY <1>1, <1>2, <1>6, <4>1, <4>2, <4>3
        <4>5. Covers(next, a) /\ next.mask > c.mask
          BY <1>2, <1>6, <3>3, <4>4 DEF Covers
        <4> QED
          BY <1>1, <1>4, <3>3, <4>5
      <3> QED
        BY <1>3, <2>2, <3>1, <3>2, <3>3
    <2>3. Covers(c, a) =>
             \E e \in S : /\ Covers(e, a)
                          /\ \A z \in S : Covers(z, a) /\ e.mask <= z.mask /\ z.mask <= c.mask
                                             => z.included = c.included
      <3> HIDE DEF S
      <3> QED
        BY <1>6, <2>1, <2>2
    <2>4. Decides(S, a) <=> Decides(S \cup {c}, a)
      <3> HIDE DEF S
      <3> QED
        BY <1>1, <2>1, <2>3, Redundant
    <2>5. S \cup {c} = T \cup {h, c}
      OBVIOUS
    <2> QED
      BY <2>4, <2>5
  <1>12. T \cup {h, c} = T \cup {c, h}
    OBVIOUS
  <1>13. Decides(Q \cup {c}, a) <=> Decides(T \cup {h}, a)
    BY <1>8, <1>10, <1>11, <1>12
  <1> QED
    BY <1>13 DEF T, h

-----------------------------------------------------------------------------
(* Steps that drop a network.                                              *)

LEMMA JoinedDecides ==
    ASSUME NEW c, NEW Q, Good(c, Q), NEW next \in Least(Q),
           c.first = next.first, c.included = next.included, NEW a \in Nat
    PROVE  Decides(Q \cup {c}, a) <=> Decides(Q, a)
  <1>1. Block(c) /\ \A n \in Q : Block(n) /\ Before(c, n)
    BY DEF Good
  <1>2. next \in Q /\ \A n \in Q : n # next => Before(next, n)
    BY <1>1, LeastFacts DEF Good
  <1>3. /\ c.first \in Nat /\ c.mask \in Nat /\ Last(c) \in Nat /\ next.mask \in Nat /\ Last(next) \in Nat
        /\ c.first <= Last(c) /\ next.first <= Last(next)
        /\ \A n \in Q : n.first \in Nat /\ n.mask \in Nat /\ Last(n) \in Nat
    BY <1>1, <1>2, BlockFacts
  <1>4. c \notin Q /\ next.mask < c.mask
    BY <1>1, <1>2, <1>3 DEF Before
  <1>5. Last(c) <= Last(next)
    <2>1. next.mask <= c.mask
      BY <1>3, <1>4
    <2>2. \/ Last(next) < c.first
          \/ Last(c) < next.first
          \/ next.first <= c.first /\ Last(c) <= Last(next)
      BY <1>1, <1>2, <2>1, Nesting
    <2> QED
      BY <1>3, <2>2
  <1>6. ASSUME Covers(c, a), NEW z \in Q, Covers(z, a), next.mask <= z.mask, z.mask <= c.mask
        PROVE  z = next
    <2>1. \/ Last(z) < c.first
          \/ Last(c) < z.first
          \/ z.first <= c.first /\ Last(c) <= Last(z)
      BY <1>1, <1>6, Nesting
    <2>2. z.first <= c.first
      BY <1>3, <1>6, <2>1 DEF Covers
    <2> QED
      BY <1>2, <1>3, <1>6, <2>2 DEF Before
  <1>7. Covers(c, a) => Covers(next, a)
    BY <1>3, <1>5 DEF Covers
  <1>8. Covers(c, a) =>
           \E e \in Q : /\ Covers(e, a)
                        /\ \A z \in Q : Covers(z, a) /\ e.mask <= z.mask /\ z.mask <= c.mask
                                           => z.included = c.included
    BY <1>2, <1>6, <1>7
  <1> QED
    BY <1>1, <1>4, <1>8, Redundant

LEMMA IgnoredDecides ==
    ASSUME NEW c, NEW Q, NEW next, Inside(c, Q, next), c.included = next.included, NEW a \in Nat
    PROVE  Decides(Q \cup {c}, a) <=> Decides((Q \ {next}) \cup {c}, a)
  <1> DEFINE S == (Q \ {next}) \cup {c}
  <1>1. /\ next \in Q /\ Block(next) /\ Block(c)
        /\ c.mask < next.mask /\ Last(next) <= Last(c) /\ c.first < next.first
        /\ \A n \in Q : n # next => Before(next, n)
        /\ \A n \in Q : Block(n) /\ c.first < n.first
    BY InsideFacts DEF Inside
  <1>2. /\ c.first \in Nat /\ c.mask \in Nat /\ Last(c) \in Nat /\ next.mask \in Nat /\ Last(next) \in Nat
        /\ next.first \in Nat /\ next.first <= Last(next)
        /\ \A n \in Q : n.first \in Nat /\ n.mask \in Nat /\ Last(n) \in Nat
    BY <1>1, BlockFacts
  <1>3. next \notin S /\ \A n \in S : Block(n)
    BY <1>1, <1>2
  <1>4. Covers(next, a) => Covers(c, a)
    BY <1>1, <1>2 DEF Covers
  <1>5. ASSUME Covers(next, a), NEW z \in S, Covers(z, a), c.mask <= z.mask, z.mask <= next.mask,
               z.included # next.included
        PROVE  FALSE
    <2>1. z \in Q /\ z # next
      BY <1>5
    <2>2. \/ Last(z) < next.first
          \/ Last(next) < z.first
          \/ z.first <= next.first /\ Last(next) <= Last(z)
      BY <1>1, <1>5, <2>1, Nesting
    <2>3. z.first = next.first /\ z.mask < next.mask
      BY <1>1, <1>2, <1>5, <2>1, <2>2 DEF Covers, Before
    <2>4. \/ Last(c) < z.first
          \/ Last(z) < c.first
          \/ c.first <= z.first /\ Last(z) <= Last(c)
      BY <1>1, <1>5, <2>1, Nesting
    <2>5. c.first <= z.first /\ Last(z) <= Last(c)
      BY <1>2, <1>4, <1>5, <2>1, <2>4 DEF Covers
    <2>6. c.mask < z.mask
      BY <1>1, <1>2, <1>5, <2>1, <2>3, <2>5, LargerMask
    <2>7. Shadow(c, z, next)
      BY <1>5, <2>3, <2>5, <2>6 DEF Shadow, containsNet
    <2>8. NoConflict(Q \cup {c})
      BY DEF Inside, Good
    <2> QED
      BY <1>1, <2>1, <2>7, <2>8 DEF NoConflict
  <1>6. Covers(next, a) =>
           \E e \in S : /\ Covers(e, a)
                        /\ \A z \in S : Covers(z, a) /\ e.mask <= z.mask /\ z.mask <= next.mask
                                           => z.included = next.included
    BY <1>4, <1>5
  <1>7. Decides(S, a) <=> Decides(S \cup {next}, a)
    <2> HIDE DEF S
    <2> QED
      BY <1>1, <1>3, <1>6, Redundant
  <1>8. S \cup {next} = Q \cup {c}
    BY <1>1
  <1> QED
    BY <1>7, <1>8

(* Nothing of the queue meets the current network.                         *)
LEMMA AloneDecides ==
    ASSUME NEW c, NEW Q, Good(c, Q), \A n \in Q : Last(c) < n.first, NEW a \in Nat
    PROVE  /\ (\A n \in Q : a < n.first) => (Decides(Q \cup {c}, a) <=> c.included /\ Covers(c, a))
           /\ Last(c) < a => (Decides(Q \cup {c}, a) <=> Decides(Q, a))
  <1>1. /\ c.first \in Nat /\ c.mask \in Nat /\ Last(c) \in Nat
        /\ \A n \in Q : n.first \in Nat
    BY BlockFacts DEF Good
  <1>2. ASSUME \A n \in Q : a < n.first
        PROVE  Decides(Q \cup {c}, a) <=> c.included /\ Covers(c, a)
    <2>1. \A n \in Q : ~ Covers(n, a)
      BY <1>1, <1>2 DEF Covers
    <2>2. c.mask <= c.mask
      BY <1>1
    <2> QED
      BY <2>1, <2>2 DEF Decides
  <1>3. ASSUME Last(c) < a PROVE Decides(Q \cup {c}, a) <=> Decides(Q, a)
    <2>1. ~ Covers(c, a)
      BY <1>1, <1>3 DEF Covers
    <2> QED
      BY <2>1 DEF Decides
  <1> QED
    BY <1>2, <1>3

-----------------------------------------------------------------------------
(* The loop: R are the routes, D the finished networks.                    *)

Sends(D, a) == \E n \in D : n.included /\ Covers(n, a)
Apart(D) == \A m, n \in D : m # n => Last(m) < n.first \/ Last(n) < m.first

LoopOk(R, c, Q, D) ==
    /\ Good(c, Q)
    /\ \A a \in Address : c.first <= a => (Decides(Q \cup {c}, a) <=> Decides(R, a))
    /\ \A a \in Address : a < c.first => (Sends(D, a) <=> Decides(R, a))
    /\ \A n \in D : Block(n) /\ Last(n) < c.first
    /\ Apart(D)

DoneOk(R, D) == \A a \in Address : Sends(D, a) <=> Decides(R, a)

LEMMA LoopBegins ==
    ASSUME NEW R, \A n \in R : Block(n), Distinct(R), NoConflict(R), NEW c \in Least(R)
    PROVE  LoopOk(R, c, R \ {c}, {})
  <1>1. Good(c, R \ {c})
    BY Polled
  <1>2. c \in R /\ (R \ {c}) \cup {c} = R
    BY DEF Least
  <1>3. ASSUME NEW a \in Address, a < c.first PROVE ~ Decides(R, a)
    <2>1. \A n \in R : c.first <= n.first /\ n.first \in Nat
      BY <1>1, <1>2, BlockFacts DEF Good, Before
    <2>2. a \in Nat
      BY TwoToType, SizeFacts DEF Address
    <2>3. \A n \in R : ~ Covers(n, a)
      BY <1>2, <1>3, <2>1, <2>2 DEF Covers
    <2> QED
      BY <2>3 DEF Decides
  <1>4. \A a \in Address : ~ Sends({}, a)
    BY DEF Sends
  <1> QED
    BY <1>1, <1>2, <1>3, <1>4 DEF LoopOk, Apart

LEMMA CurrentAdded ==
    ASSUME NEW R, NEW c, NEW Q, NEW D, LoopOk(R, c, Q, D)
    PROVE  /\ TreeAdd(D, c) = D \cup {c}
           /\ \A n \in D \cup {c} : Block(n) /\ Last(n) <= Last(c)
           /\ Apart(D \cup {c})
           /\ \A a \in Nat : Covers(c, a) => ~ Sends(D, a)
           /\ \A a \in Nat : Sends(D, a) => a < c.first
  <1>1. Block(c) /\ \A n \in D : Block(n) /\ Last(n) < c.first
    BY DEF LoopOk, Good
  <1>2. /\ c.first \in Nat /\ Last(c) \in Nat /\ c.first <= Last(c)
        /\ \A n \in D : n.first \in Nat /\ Last(n) \in Nat /\ n.first <= Last(n)
    BY <1>1, BlockFacts
  <1>3. TreeAdd(D, c) = D \cup {c}
    <2>1. ~ Contains(D, c)
      BY <1>1, <1>2 DEF Contains, SameNet
    <2> QED
      BY <2>1, TreeAddFacts
  <1>4. Apart(D \cup {c})
    <2>1. Apart(D)
      BY DEF LoopOk
    <2> QED
      BY <1>1, <2>1 DEF Apart
  <1>5. \A a \in Nat : Sends(D, a) => a < c.first
    BY <1>1, <1>2 DEF Sends, Covers
  <1>6. \A a \in Nat : Covers(c, a) => ~ Sends(D, a)
    BY <1>2, <1>5 DEF Covers
  <1>7. \A n \in D \cup {c} : Block(n) /\ Last(n) <= Last(c)
    BY <1>1, <1>2
  <1> QED
    BY <1>3, <1>4, <1>5, <1>6, <1>7

LEMMA LoopEnds ==
    ASSUME NEW R, NEW c, NEW D, LoopOk(R, c, {}, D)
    PROVE  DoneOk(R, TreeAdd(D, c))
  <1>1. /\ TreeAdd(D, c) = D \cup {c}
        /\ \A a \in Nat : Covers(c, a) => ~ Sends(D, a)
        /\ \A a \in Nat : Sends(D, a) => a < c.first
    BY CurrentAdded
  <1>2. Good(c, {}) /\ c.first \in Nat
    BY BlockFacts DEF LoopOk, Good
  <1>3. ASSUME NEW a \in Address PROVE Sends(D \cup {c}, a) <=> Decides(R, a)
    <2>1. a \in Nat
      BY TwoToType, SizeFacts DEF Address
    <2>2. Sends(D \cup {c}, a) <=> Sends(D, a) \/ (c.included /\ Covers(c, a))
      BY DEF Sends
    <2>3. CASE c.first <= a
      <3>1. Decides({} \cup {c}, a) <=> Decides(R, a)
        BY <2>3 DEF LoopOk
      <3>2. Decides({} \cup {c}, a) <=> c.included /\ Covers(c, a)
        BY <1>2, <2>1, AloneDecides
      <3>3. ~ Sends(D, a)
        BY <1>1, <1>2, <2>1, <2>3
      <3> QED
        BY <2>2, <3>1, <3>2, <3>3
    <2>4. CASE a < c.first
      <3>1. ~ Covers(c, a)
        BY <1>2, <2>1, <2>4 DEF Covers
      <3> QED
        BY <2>2, <2>4, <3>1 DEF LoopOk
    <2> QED
      BY <1>2, <2>1, <2>3, <2>4
  <1> QED
    BY <1>1, <1>3 DEF DoneOk

LEMMA LoopAdvances ==
    ASSUME NEW R, NEW c, NEW Q, NEW D, LoopOk(R, c, Q, D),
           NEW next \in Least(Q), Last(c) < next.first
    PROVE  LoopOk(R, next, Q \ {next}, TreeAdd(D, c))
  <1>1. /\ TreeAdd(D, c) = D \cup {c} /\ Apart(D \cup {c})
        /\ \A n \in D \cup {c} : Block(n) /\ Last(n) <= Last(c)
        /\ \A a \in Nat : Sends(D, a) => a < c.first
    BY CurrentAdded
  <1>2. Good(c, Q)
    BY DEF LoopOk
  <1>3. Good(next, Q \ {next})
    BY <1>2, NextPolled
  <1>4. next \in Q /\ \A n \in Q : n # next => Before(next, n)
    BY <1>2, LeastFacts DEF Good
  <1>5. /\ c.first \in Nat /\ Last(c) \in Nat /\ c.first <= Last(c) /\ next.first \in Nat
        /\ \A n \in Q : n.first \in Nat
        /\ \A n \in D \cup {c} : Last(n) \in Nat
    BY <1>1, <1>2, <1>4, BlockFacts DEF Good
  <1>6. \A n \in Q : next.first <= n.first /\ Last(c) < n.first
    BY <1>4, <1>5 DEF Before
  <1>7. \A n \in D \cup {c} : Block(n) /\ Last(n) < next.first
    BY <1>1, <1>5
  <1>8. ASSUME NEW a \in Address, next.first <= a
        PROVE  Decides((Q \ {next}) \cup {next}, a) <=> Decides(R, a)
    <2>1. a \in Nat /\ Last(c) < a /\ c.first <= a
      BY <1>5, <1>8, TwoToType, SizeFacts DEF Address
    <2>2. Decides(Q \cup {c}, a) <=> Decides(R, a)
      BY <2>1 DEF LoopOk
    <2>3. Decides(Q \cup {c}, a) <=> Decides(Q, a)
      BY <1>2, <1>6, <2>1, AloneDecides
    <2>4. (Q \ {next}) \cup {next} = Q
      BY <1>4
    <2> QED
      BY <2>2, <2>3, <2>4
  <1>9. ASSUME NEW a \in Address, a < next.first
        PROVE  Sends(D \cup {c}, a) <=> Decides(R, a)
    <2>1. a \in Nat
      BY TwoToType, SizeFacts DEF Address
    <2>2. Sends(D \cup {c}, a) <=> Sends(D, a) \/ (c.included /\ Covers(c, a))
      BY DEF Sends
    <2>3. CASE c.first <= a
      <3>1. Decides(Q \cup {c}, a) <=> Decides(R, a)
        BY <2>3 DEF LoopOk
      <3>2. \A n \in Q : a < n.first
        BY <1>5, <1>6, <1>9, <2>1
      <3>3. Decides(Q \cup {c}, a) <=> c.included /\ Covers(c, a)
        BY <1>2, <1>6, <2>1, <3>2, AloneDecides
      <3>4. ~ Sends(D, a)
        BY <1>1, <1>5, <2>1, <2>3
      <3> QED
        BY <2>2, <3>1, <3>3, <3>4
    <2>4. CASE a < c.first
      <3>1. ~ Covers(c, a)
        BY <1>5, <2>1, <2>4 DEF Covers
      <3> QED
        BY <2>2, <2>4, <3>1 DEF LoopOk
    <2> QED
      BY <1>5, <2>1, <2>3, <2>4
  <1> QED
    BY <1>1, <1>3, <1>7, <1>8, <1>9 DEF LoopOk

LEMMA LoopKept ==
    ASSUME NEW R, NEW c, NEW Q, NEW D, LoopOk(R, c, Q, D),
           NEW d, NEW T, Good(d, T), d.first = c.first,
           \A a \in Nat : Decides(Q \cup {c}, a) <=> Decides(T \cup {d}, a)
    PROVE  LoopOk(R, d, T, D)
  <1>1. \A a \in Address : a \in Nat
    BY TwoToType, SizeFacts DEF Address
  <1> QED
    BY <1>1 DEF LoopOk

-----------------------------------------------------------------------------
(* The invariant of the specification.  NoConflict(mIpAddresses) is Handled. *)

RouteInv ==
    /\ \A n \in mIpAddresses : Block(n)
    /\ Distinct(mIpAddresses)
    /\ phase = "adding" => ipsDone = {}
    /\ phase = "generating" /\ NoConflict(mIpAddresses)
          => LoopOk(mIpAddresses, currentNet, networks, ipsDone)
    /\ phase = "done" /\ NoConflict(mIpAddresses) => DoneOk(mIpAddresses, ipsDone)

LEMMA RouteInvInit == Init => RouteInv
  BY DEF Init, RouteInv, Distinct

LEMMA RouteInvAddIP ==
    ASSUME RouteInv, NEW a \in Address, NEW m \in 0 .. Bits, NEW include \in BOOLEAN,
           addIP(a, m, include)
    PROVE  RouteInv'
  <1>1. /\ mIpAddresses' = TreeAdd(mIpAddresses, Net(a, m, include))
        /\ phase = "adding" /\ phase' = phase /\ ipsDone' = ipsDone
    BY DEF addIP
  <1>2. Block(Net(a, m, include))
    BY NetIsBlock
  <1>3. \A n \in mIpAddresses' : Block(n)
    BY <1>1, <1>2, TreeAddFacts DEF RouteInv
  <1>4. Distinct(mIpAddresses')
    BY <1>1, TreeAddFacts DEF RouteInv
  <1>5. ipsDone' = {} /\ phase' # "generating" /\ phase' # "done"
    BY <1>1 DEF RouteInv
  <1> QED
    BY <1>3, <1>4, <1>5 DEF RouteInv

LEMMA RouteInvGenerate ==
    ASSUME RouteInv, generateIPList
    PROVE  RouteInv'
  <1>1. mIpAddresses' = mIpAddresses /\ ipsDone' = ipsDone /\ ipsDone = {}
    BY DEF generateIPList, RouteInv
  <1>2. CASE mIpAddresses = {}
    <2>1. phase' = "done"
      BY <1>2 DEF generateIPList
    <2>2. DoneOk({}, {})
      BY DEF DoneOk, Sends, Decides
    <2> QED
      BY <1>1, <1>2, <2>1, <2>2 DEF RouteInv
  <1>3. CASE mIpAddresses # {}
    <2>1. /\ phase' = "generating"
          /\ currentNet' \in Least(mIpAddresses)
          /\ networks' = mIpAddresses \ {currentNet'}
      BY <1>3 DEF generateIPList
    <2>2. NoConflict(mIpAddresses) => LoopOk(mIpAddresses, currentNet', networks', {})
      BY <2>1, LoopBegins DEF RouteInv
    <2> QED
      BY <1>1, <2>1, <2>2 DEF RouteInv
  <1> QED
    BY <1>2, <1>3

LEMMA RouteInvCurrentIsDone ==
    ASSUME RouteInv, phase = "generating", CurrentIsDone
    PROVE  RouteInv'
  <1>1. mIpAddresses' = mIpAddresses /\ ipsDone' = TreeAdd(ipsDone, currentNet)
    BY DEF CurrentIsDone
  <1>2. NoConflict(mIpAddresses) => LoopOk(mIpAddresses, currentNet, networks, ipsDone)
    BY DEF RouteInv
  <1>3. CASE networks = {} /\ phase' = "done"
    <2>1. NoConflict(mIpAddresses) => DoneOk(mIpAddresses, ipsDone')
      BY <1>1, <1>2, <1>3, LoopEnds
    <2> QED
      BY <1>1, <1>3, <2>1 DEF RouteInv
  <1>4. ASSUME NEW next \in Least(networks), Last(currentNet) < next.first,
               currentNet' = next, networks' = networks \ {next}, phase' = phase
        PROVE  RouteInv'
    <2>1. NoConflict(mIpAddresses) => LoopOk(mIpAddresses, currentNet', networks', ipsDone')
      BY <1>1, <1>2, <1>4, LoopAdvances
    <2> QED
      BY <1>1, <1>4, <2>1 DEF RouteInv
  <1> QED
    BY <1>3, <1>4 DEF CurrentIsDone

\* Outside the same base the next network lies in the current one.
LEMMA NextIsInside ==
    ASSUME NEW next \in Least(networks), Good(currentNet, networks),
           Last(currentNet) >= next.first, ~ SameBase(next)
    PROVE  Inside(currentNet, networks, next)
  <1>1. next \in networks /\ Before(currentNet, next) /\ Block(next) /\ Block(currentNet)
    BY DEF Least, Good
  <1>2. /\ currentNet.first \in Nat /\ next.first \in Nat /\ currentNet.mask \in Nat /\ next.mask \in Nat
        /\ Last(currentNet) \in Nat
    BY <1>1, BlockFacts
  <1>3. currentNet.first < next.first /\ next.first <= Last(currentNet)
    BY <1>1, <1>2 DEF Before, SameBase
  <1> QED
    BY <1>3 DEF Inside

LEMMA OverlapLoop ==
    ASSUME NEW R, LoopOk(R, currentNet, networks, ipsDone),
           NEW next \in Least(networks), Last(currentNet) >= next.first,
           CurrentInsideNext(next) \/ NextInsideCurrent(next)
    PROVE  LoopOk(R, currentNet', networks', ipsDone)
  <1>1. Good(currentNet, networks)
    BY DEF LoopOk
  <1>2. next \in networks /\ Good(next, networks \ {next}) /\ Good(currentNet, networks \ {next})
    BY <1>1, NextPolled DEF Least
  <1>3. ASSUME SameBase(next), currentNet.included = next.included,
               currentNet' = next, networks' = networks \ {next}
        PROVE  LoopOk(R, currentNet', networks', ipsDone)
    <2>1. next.first = currentNet.first
      BY <1>3 DEF SameBase
    <2>2. \A a \in Nat : Decides(networks \cup {currentNet}, a) <=> Decides(networks, a)
      BY <1>1, <1>3, <2>1, JoinedDecides
    <2>3. (networks \ {next}) \cup {next} = networks
      BY <1>2
    <2>4. \A a \in Nat : Decides(networks \cup {currentNet}, a)
                            <=> Decides((networks \ {next}) \cup {next}, a)
      BY <2>2, <2>3
    <2>5. LoopOk(R, next, networks \ {next}, ipsDone)
      BY <1>2, <2>1, <2>4, LoopKept
    <2> QED
      BY <1>3, <2>5
  <1>4. ASSUME SameBase(next), currentNet.included # next.included,
               networks' = SplitQueue(currentNet, networks, next), currentNet' = currentNet
        PROVE  LoopOk(R, currentNet', networks', ipsDone)
    <2>1. SplitsNext(currentNet, networks, next)
      BY <1>1, <1>4 DEF SplitsNext, SameBase
    <2>2. Good(currentNet, networks')
      BY <1>4, <2>1, SplitNextGood
    <2>3. \A a \in Nat : Decides(networks \cup {currentNet}, a) <=> Decides(networks' \cup {currentNet}, a)
      BY <1>4, <2>1, SplitNextDecides
    <2>4. LoopOk(R, currentNet, networks', ipsDone)
      BY <2>2, <2>3, LoopKept
    <2> QED
      BY <1>4, <2>4
  <1>5. ASSUME ~ SameBase(next), currentNet.included = next.included,
               networks' = networks \ {next}, currentNet' = currentNet
        PROVE  LoopOk(R, currentNet', networks', ipsDone)
    <2>1. Inside(currentNet, networks, next)
      BY <1>1, <1>5, NextIsInside
    <2>2. \A a \in Nat : Decides(networks \cup {currentNet}, a)
                            <=> Decides((networks \ {next}) \cup {currentNet}, a)
      BY <1>5, <2>1, IgnoredDecides
    <2>3. LoopOk(R, currentNet, networks \ {next}, ipsDone)
      BY <1>2, <2>2, LoopKept
    <2> QED
      BY <1>5, <2>3
  <1>6. ASSUME ~ SameBase(next), currentNet.included # next.included,
               networks' = HeadQueue(currentNet, networks, next), currentNet' = FirstHalf(currentNet)
        PROVE  LoopOk(R, currentNet', networks', ipsDone)
    <2>1. SplitsCurrent(currentNet, networks, next)
      BY <1>1, <1>6, NextIsInside DEF SplitsCurrent
    <2>2. Good(currentNet', networks')
      BY <1>6, <2>1, SplitCurrentGood
    <2>3. \A a \in Nat : Decides(networks \cup {currentNet}, a) <=> Decides(networks' \cup {currentNet'}, a)
      BY <1>6, <2>1, SplitCurrentDecides
    <2>4. currentNet'.first = currentNet.first
      BY <1>6, <2>1, InsideFacts, Halves DEF SplitsCurrent
    <2> QED
      BY <2>2, <2>3, <2>4, LoopKept
  <1>7. CurrentInsideNext(next) =>
           /\ SameBase(next)
           /\ \/ currentNet.included = next.included /\ currentNet' = next /\ networks' = networks \ {next}
              \/ /\ currentNet.included # next.included /\ currentNet' = currentNet
                 /\ networks' = SplitQueue(currentNet, networks, next)
    BY DEF CurrentInsideNext, SplitQueue
  <1>8. NextInsideCurrent(next) =>
           /\ ~ SameBase(next)
           /\ \/ /\ currentNet.included = next.included /\ currentNet' = currentNet
                 /\ networks' = networks \ {next}
              \/ /\ currentNet.included # next.included /\ currentNet' = FirstHalf(currentNet)
                 /\ networks' = HeadQueue(currentNet, networks, next)
    BY DEF NextInsideCurrent, HeadQueue
  <1> QED
    BY <1>3, <1>4, <1>5, <1>6, <1>7, <1>8

LEMMA RouteInvOverlap ==
    ASSUME RouteInv, phase = "generating", Overlap
    PROVE  RouteInv'
  <1>1. mIpAddresses' = mIpAddresses /\ ipsDone' = ipsDone /\ phase' = phase
    BY DEF Overlap
  <1>2. NoConflict(mIpAddresses) => LoopOk(mIpAddresses, currentNet', networks', ipsDone)
    BY OverlapLoop DEF Overlap, RouteInv
  <1> QED
    BY <1>1, <1>2 DEF RouteInv

LEMMA RouteInvStep == RouteInv /\ [Next]_vars => RouteInv'
  <1> SUFFICES ASSUME RouteInv, [Next]_vars PROVE RouteInv'
    OBVIOUS
  <1>1. ASSUME NEW a \in Address, NEW m \in 0 .. Bits, NEW include \in BOOLEAN, addIP(a, m, include)
        PROVE  RouteInv'
    BY <1>1, RouteInvAddIP
  <1>2. CASE generateIPList
    BY <1>2, RouteInvGenerate
  <1>3. CASE Iterate
    BY <1>3, RouteInvCurrentIsDone, RouteInvOverlap DEF Iterate
  <1>4. CASE UNCHANGED vars
    BY <1>4 DEF vars, RouteInv
  <1> QED
    BY <1>1, <1>2, <1>3, <1>4 DEF Next

LEMMA RoutesInvariant == Spec => []RouteInv
  BY RouteInvInit, RouteInvStep, PTL DEF Spec

LEMMA HandledIsNoConflict == Handled => NoConflict(mIpAddresses)
  BY DEF Handled, NoClash, NoConflict

\* Installing getPositiveIPList() sends the same addresses through the VPN as
\* the routes and their exclusions: generateIPList() decides every address as
\* the longest matching route does, for addresses of any width and any number
\* of routes.
THEOREM RoutesArePromised == Spec => []RoutesAsPromised
  <1>1. RouteInv => RoutesAsPromised
    <2> SUFFICES ASSUME RouteInv, phase = "done", Handled, NEW a \in Address
                 PROVE  (\E n \in getPositiveIPList : Covers(n, a)) = Promised(a)
      BY Zenon DEF RoutesAsPromised, AsPromised
    <2>1. Sends(ipsDone, a) <=> Decides(mIpAddresses, a)
      BY HandledIsNoConflict DEF RouteInv, DoneOk
    <2>2. (\E n \in getPositiveIPList : Covers(n, a)) <=> Sends(ipsDone, a)
      BY DEF Sends, getPositiveIPList
    <2>3. Promised(a) <=> Decides(mIpAddresses, a)
      BY DEF Promised, Matching, Decides
    <2>4. ((\E n \in getPositiveIPList : Covers(n, a)) <=> Promised(a))
             => (\E n \in getPositiveIPList : Covers(n, a)) = Promised(a)
      BY DEF Promised
    <2> QED
      BY <2>1, <2>2, <2>3, <2>4, Zenon
  <1> QED
    BY <1>1, RoutesInvariant, PTL

\* During the loop the finished networks are disjoint and end before the
\* current one and all that are queued: no address is decided twice.
THEOREM FinishedIsFinal == Spec => []DoneIsFinal
  <1>1. RouteInv => DoneIsFinal
    <2> SUFFICES ASSUME RouteInv, phase = "generating", Handled
                 PROVE  /\ Apart(ipsDone)
                        /\ \A m \in ipsDone, n \in networks \cup {currentNet} : Last(m) < n.first
      BY DEF DoneIsFinal, Apart
    <2>1. LoopOk(mIpAddresses, currentNet, networks, ipsDone)
      BY HandledIsNoConflict DEF RouteInv
    <2>2. /\ \A n \in networks \cup {currentNet} : n.first \in Nat /\ currentNet.first <= n.first
          /\ \A m \in ipsDone : Last(m) \in Nat /\ Last(m) < currentNet.first
      BY <2>1, BlockFacts DEF LoopOk, Good, Before
    <2>3. \A m \in ipsDone, n \in networks \cup {currentNet} : Last(m) < n.first
      BY <2>2
    <2> QED
      BY <2>1, <2>3 DEF LoopOk
  <1> QED
    BY <1>1, RoutesInvariant, PTL

-----------------------------------------------------------------------------
(* The assertions.                                                         *)

LEMMA UpperHalfIsNext ==
    ASSUME NEW c, NEW Q, NEW next, Inside(c, Q, next), SecondHalf(c).mask = next.mask
    PROVE  SecondHalf(c).first = next.first
  <1> DEFINE h == FirstHalf(c)
             g == SecondHalf(c)
  <1>1. /\ Block(next) /\ Block(c) /\ c.mask < Bits /\ Last(next) <= Last(c)
        /\ c.first < next.first
    BY InsideFacts DEF Inside
  <1>2. /\ Block(h) /\ Block(g) /\ h.mask = next.mask /\ g.mask = next.mask
        /\ h.first = c.first /\ g.first = Last(h) + 1 /\ Last(g) = Last(c)
    BY <1>1, Halves
  <1> HIDE DEF h, g
  <1>3. /\ c.first \in Nat /\ Last(c) \in Nat /\ Last(h) \in Nat
        /\ next.first \in Nat /\ Last(next) \in Nat /\ next.first <= Last(next)
    BY <1>1, <1>2, BlockFacts
  <1>4. Last(next) < g.first \/ Last(g) < next.first \/ next.first = g.first
    BY <1>1, <1>2, SameSize
  <1>5. Last(next) < h.first \/ Last(h) < next.first \/ next.first = h.first
    BY <1>1, <1>2, SameSize
  <1>6. g.first = next.first
    BY <1>1, <1>2, <1>3, <1>4, <1>5
  <1> QED
    BY <1>6 DEF g

\* With no two routes in conflict every assertTrue() of split() and of
\* generateIPList() holds in every iteration.
THEOREM TheAssertionsHold == Spec => []AssertionsHold
  <1>1. RouteInv => AssertionsHold
    <2> SUFFICES ASSUME RouteInv, Handled, phase = "generating", NEW next \in Least(networks),
                        Last(currentNet) >= next.first
                 PROVE  IterationAssertions(next)
      BY DEF AssertionsHold, Assertions, IterationAssertions
    <2>1. Good(currentNet, networks)
      BY HandledIsNoConflict DEF RouteInv, LoopOk
    <2>2. Block(currentNet) /\ next \in networks /\ Block(next)
      BY <2>1 DEF Good, Least
    <2>3. ASSUME ~ SameBase(next)
          PROVE  /\ currentNet.mask < next.mask /\ next.first > currentNet.first
                 /\ Last(currentNet) >= Last(next)
                 /\ SplitAssertion(currentNet)
                 /\ SecondHalf(currentNet).mask = next.mask
                       => SecondHalf(currentNet).first = next.first
      <3>1. Inside(currentNet, networks, next)
        BY <2>1, <2>3, NextIsInside
      <3>2. SplitAssertion(currentNet)
        BY <3>1, InsideFacts, Halves DEF SplitAssertion
      <3>3. /\ Last(currentNet) \in Nat /\ Last(next) \in Nat /\ Last(next) <= Last(currentNet)
            /\ currentNet.mask < next.mask /\ currentNet.first < next.first
        BY <2>2, <3>1, InsideFacts, BlockFacts DEF Inside
      <3> QED
        BY <2>2, <3>1, <3>2, <3>3, UpperHalfIsNext, BlockFacts
    <2>4. ASSUME SameBase(next), currentNet.included # next.included
          PROVE  /\ SplitAssertion(next)
                 /\ Last(FirstHalf(next)) = Last(currentNet)
                       => FirstHalf(next).mask = currentNet.mask
      <3>1. SplitsNext(currentNet, networks, next)
        BY <2>1, <2>4 DEF SplitsNext, SameBase
      <3>2. next.mask < Bits
        BY <3>1, SplitNextFacts
      <3>3. /\ Block(FirstHalf(next)) /\ FirstHalf(next).first = currentNet.first
            /\ SplitAssertion(next)
        BY <2>2, <2>4, <3>2, Halves DEF SplitAssertion, SameBase
      <3>4. ASSUME Last(FirstHalf(next)) = Last(currentNet)
            PROVE  FirstHalf(next).mask = currentNet.mask
        <4> DEFINE h == FirstHalf(next)
        <4>1. Block(h) /\ h.first = currentNet.first /\ Last(h) = Last(currentNet)
          BY <3>3, <3>4
        <4> HIDE DEF h
        <4>2. /\ h.mask \in Nat /\ currentNet.mask \in Nat
              /\ currentNet.first \in Nat /\ Last(currentNet) \in Nat
          BY <2>2, <4>1, BlockFacts
        <4>3. h.mask <= currentNet.mask /\ currentNet.mask <= h.mask
          BY <2>2, <4>1, <4>2, LargerMask
        <4>4. h.mask = currentNet.mask
          BY <4>2, <4>3
        <4> QED
          BY <4>4 DEF h
      <3> QED
        BY <3>3, <3>4
    <2> QED
      BY <2>3, <2>4 DEF IterationAssertions
  <1> QED
    BY <1>1, RoutesInvariant, PTL

-----------------------------------------------------------------------------
(* Types, for every set of routes.  A host route that is split gets one    *)
(* mask bit too many; it is not split again.                               *)

Host(n) == n \in [first : 0 .. TwoTo[Bits], mask : {Bits + 1}, included : BOOLEAN]

(* Of such hosts the queue holds none twice, nor the current one again.    *)
HostsOk(c, Q) ==
    /\ \A n \in Q \cup {c} : Block(n) \/ Host(n)
    /\ \A n \in Q : c.first <= n.first /\ (c.first = n.first => n.mask <= Bits)
    /\ \A m, n \in Q : m.first = n.first /\ Host(m) /\ Host(n) => m = n

TypeInv ==
    /\ TypeOK
    /\ \A n \in mIpAddresses : Block(n)
    /\ phase = "generating" => HostsOk(currentNet, networks)

LEMMA HostFacts ==
    ASSUME NEW n, Host(n)
    PROVE  /\ n.first \in Nat /\ n.mask = Bits + 1 /\ n.included \in BOOLEAN /\ ~ (n.mask <= Bits)
           /\ Last(n) = n.first /\ n \in Nets
  <1>1. /\ n.first \in 0 .. TwoTo[Bits] /\ n.mask = Bits + 1 /\ n.included \in BOOLEAN
        /\ Bits \in Nat /\ TwoTo[Bits] \in Nat
    BY SizeFacts, TwoToType DEF Host
  <1>2. Size(n.mask) = 1
    BY <1>1, SizeFacts
  <1>3. Last(n) = n.first
    BY <1>1, <1>2 DEF Last
  <1>4. n.first % 1 = 0
    BY <1>1
  <1>5. n \in [first : 0 .. TwoTo[Bits], mask : 0 .. Bits + 1, included : BOOLEAN]
    BY <1>1 DEF Host
  <1> QED
    BY <1>1, <1>2, <1>3, <1>4, <1>5 DEF Nets

LEMMA HalvesOfHost ==
    ASSUME NEW n, Block(n), n.mask = Bits
    PROVE  /\ Last(n) = n.first /\ Last(FirstHalf(n)) = n.first
           /\ Host(SecondHalf(n)) /\ SecondHalf(n).first = n.first + 1
  <1>1. /\ n.first \in Nat /\ n.included \in BOOLEAN /\ Bits \in Nat /\ TwoTo[Bits] \in Nat
        /\ Size(Bits) = 1 /\ Size(Bits + 1) = 1
    BY BlockFacts, SizeFacts, TwoToType
  <1>2. Last(n) = n.first /\ n.first < TwoTo[Bits]
    BY <1>1 DEF Last, Block
  <1>3. \A a \in Nat : getMaskedAddress(a, Bits + 1) = a
    BY <1>1 DEF getMaskedAddress
  <1>4. FirstHalf(n) = [first |-> n.first, mask |-> Bits + 1, included |-> n.included]
    BY <1>1, <1>3 DEF FirstHalf, Net
  <1>5. Last(FirstHalf(n)) = n.first
    BY <1>1, <1>4 DEF Last
  <1>6. SecondHalf(n) = [first |-> n.first + 1, mask |-> Bits + 1, included |-> n.included]
    BY <1>1, <1>3, <1>5 DEF SecondHalf, Net
  <1>7. n.first + 1 \in 0 .. TwoTo[Bits]
    BY <1>1, <1>2
  <1>8. Host(SecondHalf(n)) /\ SecondHalf(n).first = n.first + 1
    BY <1>1, <1>6, <1>7 DEF Host
  <1> QED
    BY <1>2, <1>5, <1>8

LEMMA NetFacts ==
    ASSUME NEW n, Block(n) \/ Host(n)
    PROVE  /\ n \in Nets /\ n.first \in Nat /\ n.mask \in Nat /\ Last(n) \in Nat /\ n.first <= Last(n)
           /\ Bits \in Nat /\ (n.mask <= Bits <=> Block(n)) /\ (Host(n) <=> n.mask = Bits + 1)
           /\ n.mask <= Bits + 1 /\ (n.mask >= Bits => Last(n) = n.first)
  <1>1. Bits \in Nat
    BY SizeFacts
  <1>2. CASE Block(n)
    <2>1. /\ n \in Nets /\ n.first \in Nat /\ n.mask \in Nat /\ Last(n) \in Nat /\ n.first <= Last(n)
          /\ n.mask <= Bits
      BY <1>2, BlockFacts
    <2>2. n.mask >= Bits => Last(n) = n.first
      BY <1>1, <1>2, <2>1, HalvesOfHost
    <2>3. ~ Host(n)
      BY <2>1, HostFacts
    <2>4. n.mask <= Bits + 1 /\ n.mask # Bits + 1
      BY <1>1, <2>1
    <2> QED
      BY <1>1, <1>2, <2>1, <2>2, <2>3, <2>4
  <1>3. CASE Host(n)
    <2>1. /\ n.first \in Nat /\ n.mask = Bits + 1 /\ ~ (n.mask <= Bits)
          /\ Last(n) = n.first /\ n \in Nets
      BY <1>3, HostFacts
    <2>2. ~ Block(n)
      BY <2>1, BlockFacts
    <2>3. n.mask \in Nat /\ n.mask <= Bits + 1 /\ n.first <= Last(n)
      BY <1>1, <2>1
    <2> QED
      BY <1>1, <1>3, <2>1, <2>2, <2>3
  <1> QED
    BY <1>2, <1>3

LEMMA HostsPolled ==
    ASSUME NEW Q, \A n \in Q : Block(n) \/ Host(n),
           \A m, n \in Q : m.first = n.first /\ Host(m) /\ Host(n) => m = n,
           NEW next \in Least(Q)
    PROVE  HostsOk(next, Q \ {next})
  <1>1. next \in Q /\ \A n \in Q : ~ Before(n, next)
    BY DEF Least
  <1>2. ASSUME NEW n \in Q \ {next}
        PROVE  next.first <= n.first /\ (next.first = n.first => n.mask <= Bits)
    <2>1. /\ n.first \in Nat /\ n.mask \in Nat /\ next.first \in Nat /\ next.mask \in Nat /\ Bits \in Nat
          /\ n.mask <= Bits + 1 /\ next.mask <= Bits + 1
          /\ (Host(n) <=> n.mask = Bits + 1) /\ (Host(next) <=> next.mask = Bits + 1)
      BY <1>1, NetFacts
    <2>2. ~ Before(n, next)
      BY <1>1
    <2>3. next.first = n.first => ~ (Host(n) /\ Host(next))
      BY <1>1
    <2> QED
      BY <2>1, <2>2, <2>3 DEF Before
  <1>3. \A n \in (Q \ {next}) \cup {next} : Block(n) \/ Host(n)
    BY <1>1
  <1> QED
    BY <1>2, <1>3, Zenon DEF HostsOk

LEMMA HostsSplitNext ==
    ASSUME NEW c, NEW Q, HostsOk(c, Q), NEW next \in Q, c.first = next.first, c.mask >= next.mask
    PROVE  HostsOk(c, SplitQueue(c, Q, next))
  <1> DEFINE h == FirstHalf(next)
             g == SecondHalf(next)
             rest == TreeAdd(Q \ {next}, g)
             T == SplitQueue(c, Q, next)
  <1>1. /\ \A n \in Q \cup {c} : Block(n) \/ Host(n)
        /\ \A n \in Q : c.first <= n.first /\ (c.first = n.first => n.mask <= Bits)
        /\ \A m, n \in Q : m.first = n.first /\ Host(m) /\ Host(n) => m = n
    BY DEF HostsOk
  <1>2. /\ Block(next) /\ next.first \in Nat /\ next.mask \in Nat /\ next.mask <= Bits /\ Bits \in Nat
        /\ c.mask \in Nat /\ (c.mask >= Bits => Last(c) = c.first)
    BY <1>1, NetFacts
  <1>3. /\ Last(h) = Last(c) => T = rest
        /\ Last(h) # Last(c) => T = TreeAdd(rest, h)
    BY DEF SplitQueue
  <1>4. /\ rest \subseteq (Q \ {next}) \cup {g}
        /\ TreeAdd(rest, h) \subseteq rest \cup {h}
        /\ Contains(Q \ {next}, g) => rest = Q \ {next}
    <2> HIDE DEF h, g
    <2>1. /\ rest \subseteq (Q \ {next}) \cup {g}
          /\ Contains(Q \ {next}, g) => rest = Q \ {next}
      BY TreeAddFacts
    <2>2. TreeAdd(rest, h) \subseteq rest \cup {h}
      <3> HIDE DEF rest
      <3> QED
        BY TreeAddFacts
    <2> QED
      BY <2>1, <2>2
  <1>5. CASE next.mask < Bits
    <2>1. /\ Block(h) /\ Block(g) /\ h.first = c.first /\ g.first = Last(h) + 1
      BY <1>2, <1>5, Halves
    <2>2. h.mask <= Bits /\ c.first <= h.first /\ c.first < g.first
      BY <1>2, <2>1, BlockFacts
    <2>3. ~ Host(h) /\ ~ Host(g)
      BY <2>1, NetFacts, HostFacts
    <2> HIDE DEF h, g, rest, T
    <2>4. T \subseteq Q \cup {h, g}
      BY <1>3, <1>4
    <2>5. \A n \in T \cup {c} : Block(n) \/ Host(n)
      BY <1>1, <2>1, <2>4
    <2>6. \A n \in T : c.first <= n.first /\ (c.first = n.first => n.mask <= Bits)
      <3>1. c.first \in Nat /\ g.first \in Nat
        BY <1>2, <2>1, BlockFacts
      <3>2. c.first <= g.first /\ c.first # g.first
        BY <2>2, <3>1
      <3> QED
        BY <1>1, <2>2, <2>4, <3>2
    <2>7. \A m, n \in T : m.first = n.first /\ Host(m) /\ Host(n) => m = n
      BY <1>1, <2>3, <2>4, Zenon
    <2>8. HostsOk(c, T)
      BY <2>5, <2>6, <2>7 DEF HostsOk
    <2> QED
      BY <2>8 DEF T
  <1>6. CASE next.mask = Bits
    <2>1. Last(h) = next.first /\ Host(g) /\ g.first = next.first + 1
      BY <1>2, <1>6, HalvesOfHost
    <2>2. T = rest
      BY <1>2, <1>3, <1>6, <2>1
    <2>3. c.first <= g.first /\ c.first # g.first
      BY <1>2, <2>1
    <2> HIDE DEF h, g, rest, T
    <2>4. \A n \in T \cup {c} : Block(n) \/ Host(n)
      BY <1>1, <1>4, <2>1, <2>2
    <2>5. \A n \in T : c.first <= n.first /\ (c.first = n.first => n.mask <= Bits)
      BY <1>1, <1>4, <2>2, <2>3
    <2>6. ASSUME NEW z \in Q \ {next}, Host(z), z.first = g.first PROVE g \in T => z = g
      <3>1. z.mask = g.mask
        BY <2>1, <2>6, HostFacts
      <3>2. Contains(Q \ {next}, g)
        BY <2>6, <3>1 DEF Contains, SameNet
      <3>3. g \in T => g \in Q
        BY <1>4, <2>2, <3>2
      <3> QED
        BY <1>1, <2>1, <2>6, <3>3
    <2>7. \A m, n \in T : m.first = n.first /\ Host(m) /\ Host(n) => m = n
      <3>1. T \subseteq (Q \ {next}) \cup {g}
        BY <1>4, <2>2
      <3> QED
        BY <1>1, <2>6, <3>1, Zenon
    <2>8. HostsOk(c, T)
      BY <2>4, <2>5, <2>7 DEF HostsOk
    <2> QED
      BY <2>8 DEF T
  <1> QED
    BY <1>2, <1>5, <1>6

LEMMA HostsSplitCurrent ==
    ASSUME NEW c, NEW Q, HostsOk(c, Q), NEW next \in Q, Last(c) >= next.first,
           ~ (c.first = next.first /\ c.mask >= next.mask)
    PROVE  HostsOk(FirstHalf(c), HeadQueue(c, Q, next))
  <1> DEFINE h == FirstHalf(c)
             g == SecondHalf(c)
             T == HeadQueue(c, Q, next)
  <1>1. /\ \A n \in Q \cup {c} : Block(n) \/ Host(n)
        /\ \A n \in Q : c.first <= n.first /\ (c.first = n.first => n.mask <= Bits)
        /\ \A m, n \in Q : m.first = n.first /\ Host(m) /\ Host(n) => m = n
    BY DEF HostsOk
  <1>2. /\ c.first \in Nat /\ c.mask \in Nat /\ Bits \in Nat /\ (c.mask <= Bits => Block(c))
        /\ (c.mask >= Bits => Last(c) = c.first)
        /\ next.first \in Nat /\ next.mask \in Nat
    BY <1>1, NetFacts
  <1>3. c.mask < Bits /\ Block(c)
    <2>1. ~ (c.mask >= Bits)
      BY <1>1, <1>2
    <2> QED
      BY <1>2, <2>1
  <1>4. /\ Block(h) /\ Block(g) /\ h.first = c.first /\ g.first = Last(h) + 1
        /\ h.first <= Last(h) /\ Last(h) \in Nat
    BY <1>3, Halves, BlockFacts
  <1>5. c.first <= g.first /\ c.first # g.first /\ ~ Host(g)
    BY <1>2, <1>4, NetFacts, HostFacts
  <1>6. T \subseteq Q \cup {g}
    BY DEF HeadQueue
  <1> HIDE DEF h, g, T
  <1>7. \A n \in T \cup {h} : Block(n) \/ Host(n)
    BY <1>1, <1>4, <1>6
  <1>8. \A n \in T : h.first <= n.first /\ (h.first = n.first => n.mask <= Bits)
    BY <1>1, <1>4, <1>5, <1>6
  <1>9. \A m, n \in T : m.first = n.first /\ Host(m) /\ Host(n) => m = n
    BY <1>1, <1>5, <1>6, Zenon
  <1>10. HostsOk(h, T)
    BY <1>7, <1>8, <1>9 DEF HostsOk
  <1> QED
    BY <1>10 DEF h, T

LEMMA HostsShrink ==
    ASSUME NEW c, NEW Q, HostsOk(c, Q), NEW T, T \subseteq Q
    PROVE  HostsOk(c, T)
  BY Zenon DEF HostsOk

LEMMA HostsOverlap ==
    ASSUME HostsOk(currentNet, networks), Overlap
    PROVE  HostsOk(currentNet', networks')
  <1>1. PICK next \in Least(networks) :
           /\ Last(currentNet) >= next.first
           /\ CurrentInsideNext(next) \/ NextInsideCurrent(next)
    BY DEF Overlap
  <1>2. next \in networks /\ HostsOk(next, networks \ {next}) /\ HostsOk(currentNet, networks \ {next})
    <2>1. next \in networks
      BY DEF Least
    <2>2. HostsOk(next, networks \ {next})
      BY HostsPolled DEF HostsOk
    <2>3. HostsOk(currentNet, networks \ {next})
      BY HostsShrink
    <2> QED
      BY <2>1, <2>2, <2>3
  <1>3. SplitQueue(currentNet, networks, next)
           = LET rest == TreeAdd(networks \ {next}, SecondHalf(next))
             IN  IF Last(FirstHalf(next)) = Last(currentNet)
                 THEN rest ELSE TreeAdd(rest, FirstHalf(next))
    BY DEF SplitQueue
  <1>4. CASE CurrentInsideNext(next)
    <2>1. currentNet.first = next.first /\ currentNet.mask >= next.mask
      BY <1>4 DEF CurrentInsideNext, SameBase
    <2>2. CASE currentNet' = next /\ networks' = networks \ {next}
      BY <1>2, <2>2
    <2>3. CASE currentNet' = currentNet /\ networks' = SplitQueue(currentNet, networks, next)
      BY <1>2, <2>1, <2>3, HostsSplitNext
    <2> QED
      BY <1>3, <1>4, <2>2, <2>3 DEF CurrentInsideNext
  <1>5. CASE NextInsideCurrent(next)
    <2>1. ~ (currentNet.first = next.first /\ currentNet.mask >= next.mask)
      BY <1>5 DEF NextInsideCurrent, SameBase
    <2>2. CASE currentNet' = currentNet /\ networks' = networks \ {next}
      BY <1>2, <2>2
    <2>3. CASE currentNet' = FirstHalf(currentNet) /\ networks' = HeadQueue(currentNet, networks, next)
      BY <1>1, <1>2, <2>1, <2>3, HostsSplitCurrent
    <2> QED
      BY <1>5, <2>2, <2>3 DEF NextInsideCurrent, HeadQueue
  <1> QED
    BY <1>1, <1>4, <1>5

LEMMA TypeInvInit == Init => TypeInv
  BY DEF Init, TypeInv, TypeOK

LEMMA TypeInvStep == TypeInv /\ [Next]_vars => TypeInv'
  <1> SUFFICES ASSUME TypeInv, [Next]_vars PROVE TypeInv'
    OBVIOUS
  <1>1. ASSUME NEW a \in Address, NEW m \in 0 .. Bits, NEW include \in BOOLEAN, addIP(a, m, include)
        PROVE  TypeInv'
    <2>1. /\ mIpAddresses' = TreeAdd(mIpAddresses, Net(a, m, include)) /\ phase = "adding"
          /\ phase' = phase /\ networks' = networks /\ currentNet' = currentNet /\ ipsDone' = ipsDone
      BY <1>1 DEF addIP
    <2>2. Block(Net(a, m, include)) /\ Net(a, m, include) \in Nets
      BY NetIsBlock, BlockFacts
    <2>3. mIpAddresses' \subseteq mIpAddresses \cup {Net(a, m, include)}
      BY <2>1, TreeAddFacts
    <2>4. mIpAddresses' \subseteq Nets /\ \A n \in mIpAddresses' : Block(n)
      BY <2>2, <2>3 DEF TypeInv, TypeOK
    <2> QED
      BY <2>1, <2>4 DEF TypeInv, TypeOK
  <1>2. CASE generateIPList
    <2>1. mIpAddresses' = mIpAddresses /\ ipsDone' = ipsDone
      BY <1>2 DEF generateIPList
    <2>2. CASE mIpAddresses = {}
      <3>1. phase' = "done" /\ networks' = networks /\ currentNet' = currentNet
        BY <1>2, <2>2 DEF generateIPList
      <3> QED
        BY <2>1, <3>1 DEF TypeInv, TypeOK
    <2>3. CASE mIpAddresses # {}
      <3>1. /\ phase' = "generating" /\ currentNet' \in Least(mIpAddresses)
            /\ networks' = mIpAddresses \ {currentNet'}
        BY <1>2, <2>3 DEF generateIPList
      <3>2. \A n \in mIpAddresses : Block(n) /\ ~ Host(n)
        BY NetFacts, HostFacts DEF TypeInv
      <3>3. HostsOk(currentNet', networks')
        BY <3>1, <3>2, HostsPolled
      <3>4. currentNet' \in Nets /\ networks' \subseteq Nets
        BY <3>1 DEF TypeInv, TypeOK, Least
      <3> QED
        BY <2>1, <3>1, <3>3, <3>4 DEF TypeInv, TypeOK
    <2> QED
      BY <2>2, <2>3
  <1>3. CASE Iterate
    <2>1. phase = "generating" /\ HostsOk(currentNet, networks) /\ mIpAddresses' = mIpAddresses
      BY <1>3 DEF Iterate, TypeInv, CurrentIsDone, Overlap
    <2>2. currentNet \in Nets
      BY <2>1, NetFacts DEF HostsOk
    <2>3. CASE CurrentIsDone
      <3>1. ipsDone' \subseteq Nets
        BY <2>2, <2>3, TreeAddFacts DEF CurrentIsDone, TypeInv, TypeOK
      <3>2. CASE phase' = "done" /\ currentNet' = currentNet /\ networks' = networks
        BY <2>1, <3>1, <3>2 DEF TypeInv, TypeOK
      <3>3. ASSUME NEW next \in Least(networks), currentNet' = next,
                   networks' = networks \ {next}, phase' = phase
            PROVE  TypeInv'
        <4>1. HostsOk(next, networks \ {next})
          BY <2>1, HostsPolled DEF HostsOk
        <4>2. next \in Nets /\ networks \ {next} \subseteq Nets
          BY DEF TypeInv, TypeOK, Least
        <4> QED
          BY <2>1, <3>1, <3>3, <4>1, <4>2 DEF TypeInv, TypeOK
      <3> QED
        BY <2>3, <3>2, <3>3 DEF CurrentIsDone
    <2>4. CASE Overlap
      <3>1. HostsOk(currentNet', networks')
        BY <2>1, <2>4, HostsOverlap
      <3>2. phase' = phase /\ ipsDone' = ipsDone
        BY <2>4 DEF Overlap
      <3>3. currentNet' \in Nets /\ networks' \subseteq Nets
        BY <3>1, NetFacts DEF HostsOk
      <3> QED
        BY <2>1, <3>1, <3>2, <3>3 DEF TypeInv, TypeOK
    <2> QED
      BY <1>3, <2>3, <2>4 DEF Iterate
  <1>4. CASE UNCHANGED vars
    BY <1>4 DEF vars, TypeInv, TypeOK
  <1> QED
    BY <1>1, <1>2, <1>3, <1>4 DEF Next

\* All networks of NetworkSpace start at a multiple of their size within the
\* address space, for any routes; no split goes beyond one mask bit too many.
THEOREM NetworksAreAligned == Spec => []TypeOK
  <1>1. TypeInv => TypeOK
    BY DEF TypeInv
  <1> QED
    BY <1>1, TypeInvInit, TypeInvStep, PTL DEF Spec
===============================================================================
