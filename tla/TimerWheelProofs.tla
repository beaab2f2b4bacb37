--------------------------- MODULE TimerWheelProofs ---------------------------
(***************************************************************************)
(* Proofs about TimerWheel, for any number of entries, buckets and wheels  *)
(* and any delays: type correctness, entries are released at their tick,   *)
(* and the destructor leaves none behind.                                  *)
(***************************************************************************)
EXTENDS TimerWheel, FiniteSetTheorems, SequenceTheorems, TLAPS

-----------------------------------------------------------------------------
(* Induction, with sets in place of predicates. *)

LEMMA LeastNumber ==
  ASSUME NEW S \in SUBSET Nat, S # {}
  PROVE  \E m \in S : \A n \in S : m <= n
<1> DEFINE Less == OpToRel(<, Nat)
<1>1. IsWellFoundedOn(Less, Nat)
  BY NatLessThanWellFounded, Zenon
<1>2. PICK m \in S : \A y \in S : <<y, m>> \notin Less
  <2> HIDE DEF Less
  <2> QED BY <1>1, WFMin
<1>3. ASSUME NEW n \in S, ~(m <= n) PROVE FALSE
  <2>1. <<n, m>> \in Less
    BY <1>3 DEF OpToRel
  <2> QED BY <1>2, <2>1
<1> QED BY <1>3

LEMMA SetInduction ==
  ASSUME NEW S \in SUBSET Nat, 0 \in S, \A n \in S : n + 1 \in S
  PROVE  S = Nat
<1> SUFFICES ASSUME Nat \ S # {} PROVE FALSE
  OBVIOUS
<1>1. PICK m \in Nat \ S : \A n \in Nat \ S : m <= n
  BY LeastNumber
<1>2. m - 1 \in Nat /\ m - 1 \in S
  BY <1>1
<1>3. (m - 1) + 1 \in S
  BY <1>2
<1> QED BY <1>1, <1>3

(* g begins with c and goes on by step, up to n. *)
Follows(g, n, c, step) == g[0] = c /\ \A i \in 0..(n - 1) : g[i + 1] = step[i][g[i]]

(* What is defined by recursion exists. *)
LEMMA RecursionUpTo ==
  ASSUME NEW T, NEW c \in T, NEW step \in [Nat -> [T -> T]]
  PROVE  \A n \in Nat : \E g \in [0..n -> T] : Follows(g, n, c, step)
<1> DEFINE S == {n \in Nat : \E g \in [0..n -> T] : Follows(g, n, c, step)}
<1>1. 0 \in S
  <2>1. [i \in 0..0 |-> c] \in [0..0 -> T] /\ Follows([i \in 0..0 |-> c], 0, c, step)
    BY DEF Follows
  <2> QED BY <2>1
<1>2. ASSUME NEW n \in S PROVE n + 1 \in S
  <2>1. PICK g \in [0..n -> T] : Follows(g, n, c, step)
    OBVIOUS
  <2>2. PICK h : h = [i \in 0..(n + 1) |-> IF i = n + 1 THEN step[n][g[n]] ELSE g[i]]
    OBVIOUS
  <2>3. step[n] \in [T -> T] /\ g[n] \in T /\ n \in 0..n
    OBVIOUS
  <2>4. step[n][g[n]] \in T
    BY <2>3
  <2>5. h \in [0..(n + 1) -> T]
    BY <2>2, <2>4
  <2>6. h[n + 1] = step[n][g[n]] /\ \A i \in 0..n : h[i] = g[i]
    BY <2>2
  <2>7. ASSUME NEW i \in 0..n PROVE h[i + 1] = step[i][h[i]]
    <3>1. CASE i = n
      BY <2>3, <2>6, <3>1
    <3>2. CASE i # n
      <4>1. i \in 0..(n - 1) /\ i + 1 \in 0..n
        BY <3>2
      <4> QED BY <2>1, <2>6, <4>1 DEF Follows
    <3> QED BY <3>1, <3>2
  <2>8. h[0] = c
    BY <2>1, <2>6 DEF Follows
  <2>9. (n + 1) - 1 = n
    OBVIOUS
  <2>10. Follows(h, n + 1, c, step)
    BY <2>7, <2>8, <2>9 DEF Follows
  <2> QED BY <2>5, <2>10
<1>3. S = Nat
  <2> HIDE DEF S
  <2>1. S \in SUBSET Nat
    BY DEF S
  <2> QED BY <1>1, <1>2, <2>1, SetInduction
<1> QED BY <1>3

GoesOn(f, c, step) == f[0] = c /\ \A n \in Nat : f[n + 1] = step[n][f[n]]

LEMMA Recursion ==
  ASSUME NEW T, NEW c \in T, NEW step \in [Nat -> [T -> T]]
  PROVE  \E f \in [Nat -> T] : GoesOn(f, c, step)
<1> DEFINE G(n) == CHOOSE g \in [0..n -> T] : Follows(g, n, c, step)
           S == {m \in Nat : \A n \in Nat : n >= m => G(n)[m] = G(m)[m]}
           f == [n \in Nat |-> G(n)[n]]
<1>1. ASSUME NEW n \in Nat
      PROVE  /\ G(n) \in [0..n -> T] /\ G(n)[0] = c
             /\ \A i \in 0..(n - 1) : G(n)[i + 1] = step[i][G(n)[i]]
  <2>1. \E g \in [0..n -> T] : Follows(g, n, c, step)
    BY RecursionUpTo
  <2>2. G(n) \in [0..n -> T] /\ Follows(G(n), n, c, step)
    BY <2>1
  <2> HIDE DEF G
  <2> QED BY <2>2 DEF Follows
<1> HIDE DEF G
<1>2. 0 \in S
  BY <1>1
<1>3. ASSUME NEW m \in S PROVE m + 1 \in S
  <2>1. ASSUME NEW n \in Nat, n >= m + 1 PROVE G(n)[m + 1] = G(m + 1)[m + 1]
    <3>1. m \in 0..(n - 1) /\ m \in 0..((m + 1) - 1) /\ n >= m /\ m + 1 >= m /\ m + 1 \in Nat
      BY <2>1
    <3>2. G(n)[m] = G(m)[m] /\ G(m + 1)[m] = G(m)[m]
      BY <3>1
    <3>3. G(n)[m + 1] = step[m][G(n)[m]] /\ G(m + 1)[m + 1] = step[m][G(m + 1)[m]]
      BY <1>1, <3>1
    <3> QED BY <3>2, <3>3
  <2> QED BY <2>1
<1>4. S = Nat
  <2> HIDE DEF S
  <2>1. S \in SUBSET Nat
    BY DEF S
  <2> QED BY <1>2, <1>3, <2>1, SetInduction
<1>5. f \in [Nat -> T]
  <2>1. ASSUME NEW n \in Nat PROVE G(n)[n] \in T
    <3>1. n \in 0..n
      OBVIOUS
    <3> QED BY <1>1, <3>1
  <2> QED BY <2>1
<1>6. f[0] = c
  BY <1>1
<1>7. ASSUME NEW n \in Nat PROVE f[n + 1] = step[n][f[n]]
  <2>1. n \in 0..((n + 1) - 1) /\ n + 1 \in Nat /\ n + 1 >= n
    OBVIOUS
  <2>2. G(n + 1)[n + 1] = step[n][G(n + 1)[n]]
    BY <1>1, <2>1
  <2>3. G(n + 1)[n] = G(n)[n]
    BY <1>4, <2>1
  <2> QED BY <2>1, <2>2, <2>3
<1> HIDE DEF f
<1> QED BY <1>5, <1>6, <1>7 DEF GoesOn

-----------------------------------------------------------------------------
(* Division. *)

LEMMA Divided ==
  ASSUME NEW a \in Int, NEW d \in Nat \ {0}
  PROVE  /\ a \div d \in Int /\ a % d \in 0..(d - 1)
         /\ a = d * (a \div d) + (a % d)
OBVIOUS

LEMMA DivisionIsUnique ==
  ASSUME NEW d \in Nat \ {0}, NEW q \in Int, NEW r \in 0..(d - 1),
         NEW p \in Int, NEW s \in 0..(d - 1), d * q + r = d * p + s
  PROVE  q = p /\ r = s
<1>1. CASE q > p
  <2>1. PICK k \in Nat : q = p + 1 + k
    <3>1. q - p - 1 \in Nat /\ q = p + 1 + (q - p - 1)
      BY <1>1
    <3> QED BY <3>1
  <2>2. d * q = d * p + d + d * k
    BY <2>1
  <2>3. d * k >= 0 /\ d * k \in Int /\ d * p \in Int
    OBVIOUS
  <2> QED BY <2>2, <2>3
<1>2. CASE p > q
  <2>1. PICK k \in Nat : p = q + 1 + k
    <3>1. p - q - 1 \in Nat /\ p = q + 1 + (p - q - 1)
      BY <1>2
    <3> QED BY <3>1
  <2>2. d * p = d * q + d + d * k
    BY <2>1
  <2>3. d * k >= 0 /\ d * k \in Int /\ d * q \in Int
    OBVIOUS
  <2> QED BY <2>2, <2>3
<1>3. CASE p = q
  BY <1>3
<1> QED BY <1>1, <1>2, <1>3

LEMMA Quotient ==
  ASSUME NEW d \in Nat \ {0}, NEW q \in Int, NEW r \in 0..(d - 1)
  PROVE  (d * q + r) \div d = q /\ (d * q + r) % d = r
<1>1. PICK a \in Int : a = d * q + r
  OBVIOUS
<1>2. /\ a \div d \in Int /\ a % d \in 0..(d - 1)
      /\ a = d * (a \div d) + (a % d)
  BY <1>1, Divided
<1>3. a \div d = q /\ a % d = r
  BY <1>1, <1>2, DivisionIsUnique
<1> QED BY <1>1, <1>3

LEMMA NextDigit ==
  ASSUME NEW a \in Nat, NEW m \in Nat \ {0}, NEW b \in Nat \ {0}
  PROVE  a % (b * m) = m * ((a \div m) % b) + (a % m)
<1>1. PICK q \in Int, r \in 0..(m - 1) : q = a \div m /\ r = a % m /\ a = m * q + r
  <2>1. /\ a \div m \in Int /\ a % m \in 0..(m - 1)
        /\ a = m * (a \div m) + (a % m)
    BY Divided
  <2> QED BY <2>1
<1>2. PICK p \in Int, s \in 0..(b - 1) : p = q \div b /\ s = q % b /\ q = b * p + s
  <2>1. /\ q \div b \in Int /\ q % b \in 0..(b - 1)
        /\ q = b * (q \div b) + (q % b)
    BY Divided
  <2> QED BY <2>1
<1>3. b * m \in Nat \ {0}
  OBVIOUS
<1>4. m * s + r \in 0..(b * m - 1)
  <2>1. PICK k \in Nat : b = s + 1 + k
    <3>1. b - s - 1 \in Nat /\ b = s + 1 + (b - s - 1)
      OBVIOUS
    <3> QED BY <3>1
  <2>2. b * m = m * s + m + k * m /\ k * m \in Nat /\ m * s \in Nat
    BY <2>1
  <2> QED BY <2>2
<1>5. a = (b * m) * p + (m * s + r)
  <2>1. m * (b * p + s) = (b * m) * p + m * s
    OBVIOUS
  <2>2. m * q \in Int /\ (b * m) * p \in Int /\ m * s \in Int
    OBVIOUS
  <2>3. m * q = m * (b * p + s)
    BY <1>2
  <2> QED BY <1>1, <2>1, <2>2, <2>3
<1>6. a % (b * m) = m * s + r
  BY <1>3, <1>4, <1>5, Quotient
<1> QED BY <1>1, <1>2, <1>6

-----------------------------------------------------------------------------
(* The powers of bucketNum_. *)

LEMMA PowerIs ==
  /\ Power[0] = 1
  /\ \A n \in Nat : Power[n] \in Nat \ {0} /\ Power[n + 1] = BucketNum * Power[n]
<1> DEFINE step == [n \in Nat |-> [x \in Nat |-> BucketNum * x]]
           Unfolds(g) == g = [n \in Nat |-> IF n = 0 THEN 1 ELSE BucketNum * g[n - 1]]
<1>1. step \in [Nat -> [Nat -> Nat]]
  BY WheelAssumption
<1>2. PICK f \in [Nat -> Nat] : GoesOn(f, 1, step)
  <2>1. 1 \in Nat
    OBVIOUS
  <2> HIDE DEF step
  <2> QED BY <1>1, <2>1, Recursion
<1>3. f[0] = 1 /\ \A n \in Nat : f[n + 1] = BucketNum * f[n]
  BY <1>2 DEF GoesOn
<1>4. Unfolds(f)
  <2>1. ASSUME NEW n \in Nat PROVE f[n] = IF n = 0 THEN 1 ELSE BucketNum * f[n - 1]
    <3>1. CASE n = 0
      BY <1>3, <3>1
    <3>2. CASE n # 0
      <4>1. n - 1 \in Nat /\ (n - 1) + 1 = n
        BY <3>2
      <4>2. f[(n - 1) + 1] = BucketNum * f[n - 1]
        BY <1>3, <4>1
      <4> QED BY <3>2, <4>1, <4>2
    <3> QED BY <3>1, <3>2
  <2>2. f = [n \in Nat |-> f[n]]
    BY <1>2
  <2> QED BY <2>1, <2>2
<1>5. Unfolds(Power)
  <2>1. Power = CHOOSE g : Unfolds(g)
    BY Zenon DEF Power
  <2> HIDE DEF Unfolds
  <2> QED BY <1>4, <2>1
<1>6. Power[0] = 1
  BY <1>5
<1>7. ASSUME NEW n \in Nat PROVE Power[n + 1] = BucketNum * Power[n]
  <2>1. n + 1 \in Nat /\ n + 1 # 0 /\ (n + 1) - 1 = n
    OBVIOUS
  <2>2. Power[n + 1] = BucketNum * Power[(n + 1) - 1]
    BY <1>5, <2>1
  <2> QED BY <2>1, <2>2
<1>8. \A n \in Nat : Power[n] \in Nat \ {0}
  <2> DEFINE S == {n \in Nat : Power[n] \in Nat \ {0}}
  <2>1. 0 \in S
    BY <1>6
  <2>2. ASSUME NEW n \in S PROVE n + 1 \in S
    BY <1>7, WheelAssumption
  <2>3. S \in SUBSET Nat
    OBVIOUS
  <2> HIDE DEF S
  <2>4. S = Nat
    BY <2>1, <2>2, <2>3, SetInduction
  <2> QED BY <2>4 DEF S
<1> QED BY <1>6, <1>7, <1>8

LEMMA PowerGrows == \A n \in Nat : Power[n] > n
<1> DEFINE S == {n \in Nat : Power[n] > n}
<1>1. 0 \in S
  BY PowerIs
<1>2. ASSUME NEW n \in S PROVE n + 1 \in S
  <2>1. PICK p \in Nat : p = Power[n] /\ p > n
    BY PowerIs
  <2>2. BucketNum * p >= 2 * p
    <3>1. PICK k \in Nat : BucketNum = 2 + k
      <4>1. BucketNum - 2 \in Nat /\ BucketNum = 2 + (BucketNum - 2)
        BY WheelAssumption
      <4> QED BY <4>1
    <3>2. BucketNum * p = 2 * p + k * p /\ k * p \in Nat
      BY <3>1
    <3> QED BY <3>2
  <2>3. Power[n + 1] = BucketNum * p
    BY <2>1, PowerIs
  <2>4. BucketNum * p \in Nat
    BY WheelAssumption
  <2> QED BY <2>1, <2>2, <2>3, <2>4
<1>3. S \in SUBSET Nat
  OBVIOUS
<1> HIDE DEF S
<1>4. S = Nat
  BY <1>1, <1>2, <1>3, SetInduction
<1> QED BY <1>4 DEF S

LEMMA PowerDivides ==
  ASSUME NEW m \in Nat
  PROVE  \A n \in Nat : \E q \in Nat \ {0} : Power[m + n] = Power[m] * q
<1> DEFINE S == {n \in Nat : \E q \in Nat \ {0} : Power[m + n] = Power[m] * q}
<1>1. 0 \in S
  <2>1. Power[m + 0] = Power[m] * 1
    BY PowerIs
  <2> QED BY <2>1
<1>2. ASSUME NEW n \in S PROVE n + 1 \in S
  <2>1. PICK q \in Nat \ {0} : Power[m + n] = Power[m] * q
    OBVIOUS
  <2>2. m + (n + 1) = (m + n) + 1 /\ m + n \in Nat
    OBVIOUS
  <2>3. Power[m + (n + 1)] = BucketNum * (Power[m] * q)
    BY <2>1, <2>2, PowerIs
  <2>4. Power[m] \in Nat /\ BucketNum \in Nat \ {0}
    BY PowerIs, WheelAssumption
  <2>5. BucketNum * (Power[m] * q) = Power[m] * (BucketNum * q) /\ BucketNum * q \in Nat \ {0}
    BY <2>4
  <2> QED BY <2>3, <2>5
<1>3. S \in SUBSET Nat
  OBVIOUS
<1> HIDE DEF S
<1>4. S = Nat
  BY <1>1, <1>2, <1>3, SetInduction
<1> QED BY <1>4 DEF S

(* The constructor's loop ends, with a wheel or more. *)
LEMMA SomeWheels == WheelsNum \in Nat \ {0}
<1> DEFINE Enough == {w \in Nat : MaxTicks <= Power[w]}
           Fits(w) == /\ MaxTicks <= Power[w]
                      /\ \A v \in 1..(w - 1) : MaxTicks > Power[v]
<1>1. MaxTicks \in Enough
  BY PowerGrows, PowerIs, WheelAssumption
<1>2. PICK w \in Enough : \A v \in Enough : w <= v
  <2>1. Enough \in SUBSET Nat /\ Enough # {}
    BY <1>1
  <2> HIDE DEF Enough
  <2> QED BY <2>1, LeastNumber
<1>3. w # 0
  BY PowerIs, WheelAssumption
<1>4. w \in 1..MaxTicks
  BY <1>1, <1>2, <1>3, WheelAssumption
<1>5. ASSUME NEW v \in 1..(w - 1) PROVE MaxTicks > Power[v]
  <2>1. v \in Nat /\ v < w
    BY <1>4
  <2>2. v \notin Enough
    BY <1>2, <2>1
  <2> QED BY <2>1, <2>2, PowerIs, WheelAssumption
<1>6. Fits(w)
  BY <1>5
<1>7. WheelsNum = CHOOSE u \in 1..MaxTicks : Fits(u)
  BY DEF WheelsNum
<1> HIDE DEF Fits
<1>8. WheelsNum \in 1..MaxTicks
  BY <1>4, <1>6, <1>7
<1> QED BY <1>8, WheelAssumption

-----------------------------------------------------------------------------
(* How long a reference is on its way. *)

(* From wheel k, or its DelayEntry's destructor, to the wheel below: the    *)
(* bucket there has to come to the front.                                  *)
Leg(way, k) == IF k \in DOMAIN way THEN (way[k] + 1) * Power[k - 1] ELSE 0

(* From the wheel with the given number to the end. *)
Journey(way) ==
  LET ticks[k \in Nat] == IF k = 0 THEN 0 ELSE ticks[k - 1] + Leg(way, k)
  IN  ticks

Way(i) == [1..i -> 0..(BucketNum - 1)]

LEMMA LegTypes ==
  ASSUME NEW i \in Nat, NEW way \in Way(i), NEW k \in Nat \ {0}
  PROVE  Leg(way, k) \in Nat
<1>1. CASE k \in DOMAIN way
  <2>1. way[k] \in Nat
    BY <1>1 DEF Way
  <2>2. k - 1 \in Nat /\ Power[k - 1] \in Nat
    BY PowerIs
  <2>3. (way[k] + 1) * Power[k - 1] \in Nat
    BY <2>1, <2>2
  <2> QED BY <1>1, <2>3 DEF Leg
<1>2. CASE k \notin DOMAIN way
  BY <1>2 DEF Leg
<1> QED BY <1>1, <1>2

LEMMA JourneyIs ==
  ASSUME NEW i \in Nat, NEW way \in Way(i)
  PROVE  /\ Journey(way)[0] = 0
         /\ \A n \in Nat : /\ Journey(way)[n] \in Nat
                           /\ Journey(way)[n + 1] = Journey(way)[n] + Leg(way, n + 1)
<1> DEFINE step == [n \in Nat |-> [x \in Nat |-> x + Leg(way, n + 1)]]
           Unfolds(g) == g = [n \in Nat |-> IF n = 0 THEN 0 ELSE g[n - 1] + Leg(way, n)]
<1>1. step \in [Nat -> [Nat -> Nat]]
  <2>1. ASSUME NEW n \in Nat, NEW x \in Nat PROVE x + Leg(way, n + 1) \in Nat
    <3>1. n + 1 \in Nat \ {0}
      OBVIOUS
    <3>2. Leg(way, n + 1) \in Nat
      BY <3>1, LegTypes
    <3> QED BY <3>2
  <2> QED BY <2>1
<1>2. PICK f \in [Nat -> Nat] : GoesOn(f, 0, step)
  <2>1. 0 \in Nat
    OBVIOUS
  <2> HIDE DEF step
  <2> QED BY <1>1, <2>1, Recursion
<1>3. f[0] = 0 /\ \A n \in Nat : f[n + 1] = f[n] + Leg(way, n + 1)
  BY <1>2 DEF GoesOn
<1>4. Unfolds(f)
  <2>1. ASSUME NEW n \in Nat PROVE f[n] = IF n = 0 THEN 0 ELSE f[n - 1] + Leg(way, n)
    <3>1. CASE n = 0
      BY <1>3, <3>1
    <3>2. CASE n # 0
      <4>1. n - 1 \in Nat /\ (n - 1) + 1 = n
        BY <3>2
      <4>2. f[(n - 1) + 1] = f[n - 1] + Leg(way, (n - 1) + 1)
        BY <1>3, <4>1
      <4> QED BY <3>2, <4>1, <4>2
    <3> QED BY <3>1, <3>2
  <2>2. f = [n \in Nat |-> f[n]]
    BY <1>2
  <2> QED BY <2>1, <2>2
<1>5. Unfolds(Journey(way))
  <2>1. Journey(way) = CHOOSE g : Unfolds(g)
    BY Zenon DEF Journey
  <2> HIDE DEF Unfolds
  <2> QED BY <1>4, <2>1
<1> DEFINE J == Journey(way)
<1>6. J[0] = 0
  BY <1>5
<1>7. ASSUME NEW n \in Nat PROVE J[n + 1] = J[n] + Leg(way, n + 1)
  <2>1. n + 1 \in Nat /\ n + 1 # 0 /\ (n + 1) - 1 = n
    OBVIOUS
  <2>2. J[n + 1] = J[(n + 1) - 1] + Leg(way, n + 1)
    BY <1>5, <2>1
  <2> QED BY <2>1, <2>2
<1>8. \A n \in Nat : J[n] \in Nat
  <2> DEFINE S == {n \in Nat : J[n] \in Nat}
  <2>1. 0 \in S
    BY <1>6
  <2>2. ASSUME NEW n \in S PROVE n + 1 \in S
    <3>1. n + 1 \in Nat \ {0}
      OBVIOUS
    <3>2. Leg(way, n + 1) \in Nat
      BY <3>1, LegTypes
    <3>3. J[n] \in Nat /\ J[n + 1] = J[n] + Leg(way, n + 1)
      BY <1>7
    <3> HIDE DEF J
    <3> QED BY <3>1, <3>2, <3>3
  <2>3. S \in SUBSET Nat
    OBVIOUS
  <2> HIDE DEF S
  <2>4. S = Nat
    BY <2>1, <2>2, <2>3, SetInduction
  <2> QED BY <2>4 DEF S
<1> QED BY <1>6, <1>7, <1>8

(* The way's first legs are all that counts below. *)
LEMMA SameJourney ==
  ASSUME NEW i \in Nat, NEW way \in Way(i), NEW j \in Nat, NEW other \in Way(j), i <= j,
         \A k \in 1..i : way[k] = other[k]
  PROVE  Journey(way)[i] = Journey(other)[i]
<1> DEFINE S == {n \in Nat : n <= i => Journey(way)[n] = Journey(other)[n]}
<1>1. 0 \in S
  BY JourneyIs
<1>2. ASSUME NEW n \in S PROVE n + 1 \in S
  <2>1. ASSUME n + 1 <= i PROVE Journey(way)[n + 1] = Journey(other)[n + 1]
    <3>1. n + 1 \in 1..i /\ n + 1 \in 1..j /\ n <= i
      BY <2>1
    <3>2. Leg(way, n + 1) = Leg(other, n + 1)
      BY <3>1 DEF Leg, Way
    <3>3. Journey(way)[n] = Journey(other)[n]
      BY <3>1
    <3>4. Journey(way)[n + 1] = Journey(way)[n] + Leg(way, n + 1)
      BY JourneyIs
    <3>5. Journey(other)[n + 1] = Journey(other)[n] + Leg(other, n + 1)
      BY JourneyIs
    <3> QED BY <3>2, <3>3, <3>4, <3>5
  <2> QED BY <2>1
<1>3. S \in SUBSET Nat
  OBVIOUS
<1> HIDE DEF S
<1>4. S = Nat
  BY <1>1, <1>2, <1>3, SetInduction
<1>5. i \in S
  BY <1>4
<1> QED BY <1>5 DEF S

-----------------------------------------------------------------------------
(* Where insertEntryInLoop puts an entry. *)

LEMMA DigitTypes ==
  ASSUME tickCounter \in Nat, NEW i \in Nat
  PROVE  /\ Digit(i) \in 0..(BucketNum - 1)
         /\ tickCounter % Power[i] \in 0..(Power[i] - 1)
         /\ tickCounter % Power[i + 1] = (Power[i] * Digit(i)) + (tickCounter % Power[i])
<1>1. Power[i] \in Nat \ {0} /\ Power[i + 1] = BucketNum * Power[i] /\ BucketNum \in Nat \ {0}
  BY PowerIs, WheelAssumption
<1>2. tickCounter \div Power[i] \in Int /\ tickCounter % Power[i] \in 0..(Power[i] - 1)
  <2>1. tickCounter \in Int
    OBVIOUS
  <2> QED BY <1>1, <2>1, Divided
<1>3. Digit(i) \in 0..(BucketNum - 1)
  BY <1>1, <1>2, Divided DEF Digit
<1>4. tickCounter % (BucketNum * Power[i])
        = (Power[i] * ((tickCounter \div Power[i]) % BucketNum)) + (tickCounter % Power[i])
  BY <1>1, NextDigit
<1> QED BY <1>1, <1>2, <1>3, <1>4 DEF Digit

LEMMA IndexIs ==
  ASSUME tickCounter \in Nat, NEW delay \in Nat
  PROVE  /\ IndexIn(delay)[0] = delay + 1
         /\ \A i \in Wheel : /\ IndexIn(delay)[i] \in Int
                             /\ i + 1 \in Wheel =>
                                  IndexIn(delay)[i + 1]
                                    = (IndexIn(delay)[i] + Digit(i) - 1) \div BucketNum
<1> DEFINE step == [n \in Nat |-> [x \in Int |-> (x + Digit(n) - 1) \div BucketNum]]
           Unfolds(g) ==
             g = [i \in Wheel |->
                    IF i = 0 THEN delay + 1 ELSE (g[i - 1] + Digit(i - 1) - 1) \div BucketNum]
<1>0. Wheel \subseteq Nat /\ 0 \in Wheel /\ \A i \in Wheel : i # 0 => i - 1 \in Wheel
  BY SomeWheels DEF Wheel
<1>1. step \in [Nat -> [Int -> Int]]
  <2>1. ASSUME NEW n \in Nat, NEW x \in Int PROVE (x + Digit(n) - 1) \div BucketNum \in Int
    <3>1. Digit(n) \in Int
      BY DigitTypes, WheelAssumption
    <3>2. x + Digit(n) - 1 \in Int /\ BucketNum \in Nat \ {0}
      BY <3>1, WheelAssumption
    <3> QED BY <3>2, Divided
  <2> QED BY <2>1
<1>2. PICK f \in [Nat -> Int] : GoesOn(f, delay + 1, step)
  <2>1. delay + 1 \in Int
    OBVIOUS
  <2> HIDE DEF step
  <2> QED BY <1>1, <2>1, Recursion
<1>3. f[0] = delay + 1 /\ \A n \in Nat : f[n + 1] = (f[n] + Digit(n) - 1) \div BucketNum
  BY <1>2 DEF GoesOn
<1> DEFINE part == [i \in Wheel |-> f[i]]
<1>4. Unfolds(part)
  <2>1. ASSUME NEW i \in Wheel
        PROVE  part[i] = IF i = 0 THEN delay + 1
                                  ELSE (part[i - 1] + Digit(i - 1) - 1) \div BucketNum
    <3>1. CASE i = 0
      BY <1>3, <3>1
    <3>2. CASE i # 0
      <4>1. i - 1 \in Nat /\ (i - 1) + 1 = i /\ i - 1 \in Wheel
        BY <1>0, <3>2
      <4>2. f[(i - 1) + 1] = (f[i - 1] + Digit(i - 1) - 1) \div BucketNum
        BY <1>3, <4>1
      <4>3. part[i] = f[i] /\ part[i - 1] = f[i - 1]
        BY <4>1
      <4> QED BY <3>2, <4>1, <4>2, <4>3
    <3> QED BY <3>1, <3>2
  <2>2. part = [i \in Wheel |-> part[i]]
    OBVIOUS
  <2> HIDE DEF part
  <2> QED BY <2>1, <2>2
<1>5. Unfolds(IndexIn(delay))
  <2>1. IndexIn(delay) = CHOOSE g : Unfolds(g)
    BY Zenon DEF IndexIn
  <2> HIDE DEF Unfolds, part
  <2> QED BY <1>4, <2>1
<1> DEFINE index == IndexIn(delay)
<1>6. index[0] = delay + 1
  BY <1>0, <1>5
<1>7. ASSUME NEW i \in Wheel, i + 1 \in Wheel
      PROVE  index[i + 1] = (index[i] + Digit(i) - 1) \div BucketNum
  <2>1. i + 1 # 0 /\ (i + 1) - 1 = i
    BY <1>0
  <2>2. index[i + 1] = (index[(i + 1) - 1] + Digit((i + 1) - 1) - 1) \div BucketNum
    BY <1>5, <1>7, <2>1
  <2> QED BY <2>1, <2>2
<1>8. \A i \in Wheel : index[i] \in Int
  <2> DEFINE S == {n \in Nat : n \in Wheel => index[n] \in Int}
  <2>1. 0 \in S
    BY <1>6
  <2>2. ASSUME NEW n \in S PROVE n + 1 \in S
    <3>1. ASSUME n + 1 \in Wheel PROVE index[n + 1] \in Int
      <4>1. n \in Wheel
        BY <3>1, <1>0
      <4>2. index[n] \in Int /\ Digit(n) \in Int
        BY <4>1, DigitTypes, WheelAssumption
      <4>3. index[n] + Digit(n) - 1 \in Int /\ BucketNum \in Nat \ {0}
        BY <4>2, WheelAssumption
      <4>4. (index[n] + Digit(n) - 1) \div BucketNum \in Int
        BY <4>3, Divided
      <4> QED BY <1>7, <3>1, <4>1, <4>4
    <3> QED BY <3>1
  <2>3. S \in SUBSET Nat
    OBVIOUS
  <2> HIDE DEF S
  <2>4. S = Nat
    BY <2>1, <2>2, <2>3, SetInduction
  <2> QED BY <1>0, <2>4 DEF S
<1> QED BY <1>6, <1>7, <1>8

LEMMA WayTypes ==
  ASSUME tickCounter \in Nat, NEW delay \in Nat, NEW i \in Wheel
  PROVE  WayFor(i, delay) \in Way(i)
<1>1. ASSUME NEW k \in 1..i
      PROVE  (IndexIn(delay)[k - 1] + Digit(k - 1) - 1) % BucketNum \in 0..(BucketNum - 1)
  <2>1. k - 1 \in Wheel /\ k - 1 \in Nat
    BY SomeWheels DEF Wheel
  <2>2. IndexIn(delay)[k - 1] \in Int /\ Digit(k - 1) \in Int
    BY <2>1, IndexIs, DigitTypes, WheelAssumption
  <2>3. IndexIn(delay)[k - 1] + Digit(k - 1) - 1 \in Int /\ BucketNum \in Nat \ {0}
    BY <2>2, WheelAssumption
  <2> QED BY <2>3, Divided
<1> QED BY <1>1 DEF WayFor, Way

LEMMA BucketTypes ==
  ASSUME tickCounter \in Nat, NEW delay \in Nat, NEW i \in Wheel, GoesTo(i, delay)
  PROVE  BucketFor(i, delay) \in 1..BucketNum
<1>1. IndexIn(delay)[i] \in Int /\ BucketNum \in Nat \ {0} /\ i \in Nat
  BY IndexIs, WheelAssumption, SomeWheels DEF Wheel
<1>2. IndexIn(delay)[i] >= 1
  <2>1. CASE i = 0
    BY <2>1, IndexIs
  <2>2. CASE i # 0
    <3>1. i - 1 \in Wheel /\ i - 1 \in 0..(i - 1) /\ (i - 1) + 1 = i /\ i - 1 \in Nat
      BY <2>2, SomeWheels DEF Wheel
    <3>2. PICK n \in Int : n = IndexIn(delay)[i - 1] /\ n > BucketNum
      BY <3>1, IndexIs DEF GoesTo
    <3>3. PICK d \in Nat : d = Digit(i - 1)
      BY <3>1, DigitTypes, WheelAssumption
    <3>4. IndexIn(delay)[i] = (n + d - 1) \div BucketNum
      BY <3>1, <3>2, <3>3, IndexIs
    <3>5. PICK q \in Int, r \in 0..(BucketNum - 1) :
            q = (n + d - 1) \div BucketNum /\ n + d - 1 = BucketNum * q + r
      <4>1. n + d - 1 \in Int
        OBVIOUS
      <4>2. /\ (n + d - 1) \div BucketNum \in Int /\ (n + d - 1) % BucketNum \in 0..(BucketNum - 1)
            /\ n + d - 1 = BucketNum * ((n + d - 1) \div BucketNum) + ((n + d - 1) % BucketNum)
        BY <1>1, <4>1, Divided
      <4> QED BY <4>2
    <3>6. ASSUME q <= 0 PROVE FALSE
      <4>1. PICK m \in Nat : q = -m
        <5>1. -q \in Nat /\ q = -(-q)
          BY <3>6
        <5> QED BY <5>1
      <4>2. BucketNum * q = -(BucketNum * m) /\ BucketNum * m \in Nat
        BY <1>1, <4>1
      <4> QED BY <1>1, <3>2, <3>5, <4>2
    <3> QED BY <3>4, <3>5, <3>6
  <2> QED BY <2>1, <2>2
<1> QED BY <1>1, <1>2 DEF BucketFor

(* What index and way of an entry say together: its delay, and a tick.      *)
LEMMA IndexAndWay ==
  ASSUME tickCounter \in Nat, NEW delay \in Nat, NEW i \in Wheel
  PROVE  (IndexIn(delay)[i] * Power[i]) - (tickCounter % Power[i])
           + Journey(WayFor(i, delay))[i] = delay + 1
<1> DEFINE way == WayFor(i, delay)
           index == IndexIn(delay)
           Right(k) == (index[k] * Power[k]) - (tickCounter % Power[k]) + Journey(way)[k]
                         = delay + 1
           S == {k \in Nat : k <= i => Right(k)}
<1>0. i \in Nat /\ way \in Way(i) /\ BucketNum \in Nat \ {0}
        /\ \A k \in Nat : k <= i => k \in Wheel
  BY WayTypes, WheelAssumption, SomeWheels DEF Wheel
<1> HIDE DEF way
<1>1. 0 \in S
  <2>1. Power[0] = 1 /\ index[0] = delay + 1 /\ Journey(way)[0] = 0
    BY <1>0, PowerIs, IndexIs, JourneyIs
  <2>2. tickCounter % Power[0] = 0
    <3>1. tickCounter % Power[0] \in 0..(Power[0] - 1)
      BY DigitTypes
    <3> QED BY <2>1, <3>1
  <2>3. Right(0)
    BY <2>1, <2>2
  <2> QED BY <2>3
<1>2. ASSUME NEW k \in S PROVE k + 1 \in S
  <2>1. ASSUME k + 1 <= i PROVE Right(k + 1)
    <3>1. k \in Wheel /\ k + 1 \in Wheel /\ k + 1 \in 1..i /\ (k + 1) - 1 = k /\ k <= i
      BY <1>0, <2>1
    <3>2. PICK n \in Int : n = index[k]
      BY <3>1, IndexIs
    <3>3. PICK d \in Nat, p \in Nat, t \in Nat :
            d = Digit(k) /\ p = Power[k] /\ t = tickCounter % Power[k]
      <4>1. Digit(k) \in Nat /\ Power[k] \in Nat
        BY DigitTypes, PowerIs, WheelAssumption
      <4>2. tickCounter % Power[k] \in Nat
        BY <4>1, DigitTypes
      <4> QED BY <4>1, <4>2
    <3>4. PICK j \in Nat : j = Journey(way)[k]
      BY <1>0, JourneyIs
    <3>5. n + d - 1 \in Int
      OBVIOUS
    <3>6. PICK q \in Int, r \in 0..(BucketNum - 1) :
            /\ q = (n + d - 1) \div BucketNum /\ r = (n + d - 1) % BucketNum
            /\ n + d - 1 = BucketNum * q + r
      <4>1. /\ (n + d - 1) \div BucketNum \in Int /\ (n + d - 1) % BucketNum \in 0..(BucketNum - 1)
            /\ n + d - 1 = BucketNum * ((n + d - 1) \div BucketNum) + ((n + d - 1) % BucketNum)
        BY <1>0, <3>5, Divided
      <4> QED BY <4>1
    <3>7. index[k + 1] = q
      BY <3>1, <3>2, <3>3, <3>6, IndexIs
    <3>8. way[k + 1] = r
      BY <3>1, <3>2, <3>3, <3>6 DEF way, WayFor
    <3>9. Leg(way, k + 1) = (r + 1) * p
      BY <1>0, <3>1, <3>3, <3>8 DEF Leg, Way
    <3>10. Journey(way)[k + 1] = j + ((r + 1) * p)
      BY <1>0, <3>4, <3>9, JourneyIs
    <3>11. Power[k + 1] = BucketNum * p
      BY <3>3, PowerIs
    <3>12. tickCounter % Power[k + 1] = (p * d) + t
      BY <3>3, DigitTypes
    <3>13. (n * p) - t + j = delay + 1
      BY <3>1, <3>2, <3>3, <3>4
    <3>14. (q * (BucketNum * p)) + (r * p) = ((n + d) - 1) * p
      <4>1. (BucketNum * q + r) * p = (q * (BucketNum * p)) + (r * p)
        BY <1>0
      <4> QED BY <3>6, <4>1
    <3>15. ((n + d) - 1) * p = (n * p) + (p * d) - p /\ (r + 1) * p = (r * p) + p
      BY <1>0
    <3>16. /\ q * (BucketNum * p) \in Int /\ r * p \in Int /\ n * p \in Int /\ p * d \in Int
      BY <1>0
    <3>17. (q * (BucketNum * p)) - ((p * d) + t) + (j + ((r + 1) * p)) = delay + 1
      BY <3>13, <3>14, <3>15, <3>16
    <3> QED BY <3>7, <3>10, <3>11, <3>12, <3>17
  <2> QED BY <2>1
<1>3. S \in SUBSET Nat
  OBVIOUS
<1>4. S = Nat
  <2> HIDE DEF S
  <2> QED BY <1>1, <1>2, <1>3, SetInduction
<1> QED BY <1>0, <1>4 DEF way

-----------------------------------------------------------------------------
(* Types.  A reference in a wheel has as many buckets to go on to as there  *)
(* are wheels below.                                                       *)

Ref(i) == [id : Entry, way : Way(i)]

Filled(ws) ==
  /\ ws = [i \in Wheel |-> ws[i]]
  /\ \A i \in Wheel : ws[i] \in [1..BucketNum -> SUBSET Ref(i)]

Placed == Filled(wheels) /\ dying \subseteq Ref(at)

LEMMA RefIsReference == ASSUME NEW i \in Wheel PROVE Ref(i) \subseteq Reference
BY DEF Ref, Reference, Way

LEMMA FilledTypes ==
  ASSUME NEW ws, Filled(ws)
  PROVE  ws \in [Wheel -> [1..BucketNum -> SUBSET Reference]]
<1>1. ASSUME NEW i \in Wheel PROVE ws[i] \in [1..BucketNum -> SUBSET Reference]
  <2>1. ws[i] \in [1..BucketNum -> SUBSET Ref(i)]
    BY DEF Filled
  <2> QED BY <2>1, RefIsReference
<1> QED BY <1>1 DEF Filled

LEMMA PutFills ==
  ASSUME NEW i \in Wheel, NEW bucket \in 1..BucketNum, NEW r \in Ref(i), Filled(wheels),
         Put(i, bucket, r)
  PROVE  /\ Filled(wheels')
         /\ wheels' = [wheels EXCEPT ![i][bucket] = wheels[i][bucket] \union {r}]
         /\ \A k \in Wheel, j \in 1..BucketNum :
              wheels'[k][j] = IF k = i /\ j = bucket THEN wheels[k][j] \union {r}
                                                    ELSE wheels[k][j]
<1>1. wheels = [k \in Wheel |-> wheels[k]] /\ wheels[i] \in [1..BucketNum -> SUBSET Ref(i)]
  BY DEF Filled
<1>2. PICK b : b = [wheels[i] EXCEPT ![bucket] = wheels[i][bucket] \union {r}]
  OBVIOUS
<1>3. b \in [1..BucketNum -> SUBSET Ref(i)]
  BY <1>1, <1>2
<1>4. wheels' = [wheels EXCEPT ![i] = b]
  BY <1>2 DEF Put
<1>5. wheels' = [k \in Wheel |-> IF k = i THEN b ELSE wheels[k]]
  BY <1>1, <1>4
<1>6. Filled(wheels')
  BY <1>3, <1>5 DEF Filled
<1>7. wheels' = [wheels EXCEPT ![i][bucket] = wheels[i][bucket] \union {r}]
  BY DEF Put
<1>8. ASSUME NEW k \in Wheel, NEW j \in 1..BucketNum
      PROVE  wheels'[k][j] = IF k = i /\ j = bucket THEN wheels[k][j] \union {r}
                                                   ELSE wheels[k][j]
  BY <1>1, <1>2, <1>5
<1> QED BY <1>6, <1>7, <1>8

(* A deque that turned: the first bucket went, an empty one came.          *)
Deque(n, X, s) == s \in [1..n -> SUBSET X]
TurnOf(n, s, t) == \A j \in 1..n : t[j] = IF j = n THEN {} ELSE s[j + 1]

LEMMA TurnedDeque ==
  ASSUME NEW n \in Nat \ {0}, NEW X, NEW s, Deque(n, X, s)
  PROVE  Deque(n, X, Append(Tail(s), {})) /\ TurnOf(n, s, Append(Tail(s), {}))
<1> PICK t : t = Append(Tail(s), {})
  OBVIOUS
<1>1. s \in Seq(SUBSET X) /\ Len(s) = n /\ s # <<>>
  BY DEF Deque
<1>2. /\ Tail(s) \in Seq(SUBSET X) /\ Len(Tail(s)) = n - 1
      /\ \A j \in 1..(n - 1) : Tail(s)[j] = s[j + 1]
  BY <1>1
<1>3. PICK u \in Seq(SUBSET X) : u = Tail(s)
  BY <1>2
<1>4. PICK e \in SUBSET X : e = {}
  OBVIOUS
<1>5. /\ t \in Seq(SUBSET X) /\ Len(t) = n
      /\ \A j \in 1..(n - 1) : t[j] = u[j]
      /\ t[n] = e
  BY <1>2, <1>3, <1>4
<1>6. t \in [1..n -> SUBSET X]
  BY <1>5, LenProperties
<1>7. \A j \in 1..n : j # n => j \in 1..(n - 1)
  OBVIOUS
<1>8. Deque(n, X, t) /\ TurnOf(n, s, t)
  BY <1>2, <1>3, <1>4, <1>5, <1>6, <1>7 DEF Deque, TurnOf
<1> QED BY <1>8

LEMMA TurnedFills ==
  ASSUME NEW i \in Wheel, Filled(wheels)
  PROVE  /\ Filled(Turned(i))
         /\ \A k \in Wheel : k # i => Turned(i)[k] = wheels[k]
         /\ \A j \in 1..BucketNum :
              Turned(i)[i][j] = IF j = BucketNum THEN {} ELSE wheels[i][j + 1]
<1>1. wheels = [k \in Wheel |-> wheels[k]] /\ wheels[i] \in [1..BucketNum -> SUBSET Ref(i)]
  BY DEF Filled
<1>2. PICK b : b = Append(Tail(wheels[i]), {})
  OBVIOUS
<1>3. BucketNum \in Nat \ {0}
  BY WheelAssumption
<1>4. /\ b \in [1..BucketNum -> SUBSET Ref(i)]
      /\ \A j \in 1..BucketNum : b[j] = IF j = BucketNum THEN {} ELSE wheels[i][j + 1]
  <2>1. Deque(BucketNum, Ref(i), wheels[i])
    BY <1>1 DEF Deque
  <2>2. Deque(BucketNum, Ref(i), b) /\ TurnOf(BucketNum, wheels[i], b)
    BY <1>2, <1>3, <2>1, TurnedDeque
  <2> QED BY <2>2 DEF Deque, TurnOf
<1>5. Turned(i) = [k \in Wheel |-> IF k = i THEN b ELSE wheels[k]]
  BY <1>1, <1>2 DEF Turned
<1> QED BY <1>4, <1>5 DEF Filled

LEMMA PopFrontFills ==
  ASSUME NEW i \in Wheel, NEW ws, Filled(ws), PopFront(i, ws)
  PROVE  /\ Filled(wheels') /\ at' = i /\ dying' = ws[i][1] /\ dying' \subseteq Ref(i)
         /\ wheels'[i][1] = {}
         /\ \A k \in Wheel, j \in 1..BucketNum :
              ~(k = i /\ j = 1) => wheels'[k][j] = ws[k][j]
<1>1. ws = [k \in Wheel |-> ws[k]] /\ ws[i] \in [1..BucketNum -> SUBSET Ref(i)]
  BY DEF Filled
<1>2. 1 \in 1..BucketNum
  BY WheelAssumption
<1>3. PICK b : b = [ws[i] EXCEPT ![1] = {}]
  OBVIOUS
<1>4. b \in [1..BucketNum -> SUBSET Ref(i)] /\ b[1] = {}
        /\ \A j \in 1..BucketNum : j # 1 => b[j] = ws[i][j]
  BY <1>1, <1>2, <1>3
<1>5. wheels' = [k \in Wheel |-> IF k = i THEN b ELSE ws[k]] /\ at' = i /\ dying' = ws[i][1]
  BY <1>1, <1>3 DEF PopFront
<1>6. dying' \subseteq Ref(i)
  BY <1>1, <1>2, <1>5
<1> QED BY <1>4, <1>5, <1>6 DEF Filled

LEMMA LastAndFront ==
  ASSUME NEW n \in Nat \ {0}, NEW X, NEW s \in [1..n -> X]
  PROVE  /\ Last(s) = s[n] /\ s[n] \in X
         /\ Front(s) \in [1..(n - 1) -> X]
         /\ \A k \in 1..(n - 1) : Front(s)[k] = s[k]
<1>1. s \in Seq(X) /\ Len(s) = n /\ n \in 1..n
  OBVIOUS
<1>2. Last(s) = s[n] /\ Front(s) = SubSeq(s, 1, n - 1)
  BY <1>1 DEF Last, Front
<1>3. PICK t : t = SubSeq(s, 1, n - 1)
  OBVIOUS
<1>4. t \in Seq(X) /\ Len(t) = n - 1 /\ \A k \in 1..(n - 1) : t[k] = s[k]
  <2>1. \A k \in 1..(n - 1) : s[k] \in X
    BY <1>1
  <2>2. /\ SubSeq(s, 1, n - 1) \in Seq(X)
        /\ Len(SubSeq(s, 1, n - 1)) = IF 1 <= n - 1 THEN (n - 1) - 1 + 1 ELSE 0
        /\ \A k \in 1..((n - 1) - 1 + 1) : SubSeq(s, 1, n - 1)[k] = s[1 + k - 1]
    <3>1. 1 \in Int /\ n - 1 \in Int
      OBVIOUS
    <3> QED BY <2>1, <3>1, SubSeqProperties
  <2>3. Len(t) = n - 1
    BY <1>3, <2>2
  <2> QED BY <1>3, <2>2, <2>3
<1>5. t \in [1..(n - 1) -> X]
  BY <1>4, LenProperties
<1> QED BY <1>1, <1>2, <1>3, <1>4, <1>5

LEMMA WayParts ==
  ASSUME NEW i \in Nat \ {0}, NEW way \in Way(i)
  PROVE  /\ Last(way) = way[i] /\ way[i] \in 0..(BucketNum - 1)
         /\ Front(way) \in Way(i - 1)
         /\ \A k \in 1..(i - 1) : Front(way)[k] = way[k]
<1>1. PICK X : X = 0..(BucketNum - 1)
  OBVIOUS
<1>2. way \in [1..i -> X]
  BY <1>1 DEF Way
<1>3. /\ Last(way) = way[i] /\ way[i] \in X
      /\ Front(way) \in [1..(i - 1) -> X]
      /\ \A k \in 1..(i - 1) : Front(way)[k] = way[k]
  BY <1>2, LastAndFront
<1> QED BY <1>1, <1>3 DEF Way

(* The reference that insertEntryInLoop puts in a bucket. *)
LEMMA InsertPuts ==
  ASSUME TypeOK, Placed, NEW i \in Wheel, NEW e \in Entry, NEW delay \in 0..MaxDelay,
         InsertEntryInLoop(i, e, delay)
  PROVE  /\ [id |-> e, way |-> WayFor(i, delay)] \in Ref(i)
         /\ BucketFor(i, delay) \in 1..BucketNum
         /\ Put(i, BucketFor(i, delay), [id |-> e, way |-> WayFor(i, delay)])
         /\ Filled(wheels')
<1>1. tickCounter \in Nat /\ delay \in Nat
  BY WheelAssumption, PowerIs, SomeWheels DEF TypeOK, Span
<1>2. WayFor(i, delay) \in Way(i) /\ BucketFor(i, delay) \in 1..BucketNum
  BY <1>1, WayTypes, BucketTypes DEF InsertEntryInLoop
<1>3. [id |-> e, way |-> WayFor(i, delay)] \in Ref(i)
  BY <1>2 DEF Ref
<1>4. Put(i, BucketFor(i, delay), [id |-> e, way |-> WayFor(i, delay)])
  BY DEF InsertEntryInLoop
<1> QED BY <1>2, <1>3, <1>4, PutFills DEF Placed

(* The one that a DelayEntry's destructor puts in the wheel below. *)
LEMMA DelayEntryPuts ==
  ASSUME TypeOK, Placed, NEW r \in dying, DestroyDelayEntry(r)
  PROVE  /\ at - 1 \in Wheel /\ at \in Nat \ {0} /\ (at - 1) + 1 = at
         /\ [id |-> r.id, way |-> Front(r.way)] \in Ref(at - 1)
         /\ Last(r.way) + 1 \in 1..BucketNum
         /\ Put(at - 1, Last(r.way) + 1, [id |-> r.id, way |-> Front(r.way)])
         /\ Filled(wheels')
<1>1. at - 1 \in Wheel /\ at \in Nat \ {0} /\ (at - 1) + 1 = at
  <2>1. at # 0 /\ at \in Wheel
    BY DEF DestroyDelayEntry, TypeOK
  <2> QED BY <2>1, SomeWheels DEF Wheel
<1>2. r.id \in Entry /\ r.way \in Way(at) /\ r = [id |-> r.id, way |-> r.way]
  BY DEF Placed, Ref
<1>3. Last(r.way) \in 0..(BucketNum - 1) /\ Front(r.way) \in Way(at - 1)
  BY <1>1, <1>2, WayParts
<1>4. [id |-> r.id, way |-> Front(r.way)] \in Ref(at - 1) /\ Last(r.way) + 1 \in 1..BucketNum
  BY <1>2, <1>3, WheelAssumption DEF Ref
<1>5. [r EXCEPT !.way = Front(@)] = [id |-> r.id, way |-> Front(r.way)]
  BY <1>2
<1>6. Put(at - 1, Last(r.way) + 1, [id |-> r.id, way |-> Front(r.way)])
  BY <1>5 DEF DestroyDelayEntry
<1> QED BY <1>1, <1>4, <1>6, PutFills DEF Placed

-----------------------------------------------------------------------------
(* Type correctness.  The types say nothing of the lengths of the ways, on  *)
(* which the buckets that a DelayEntry's destructor goes to depend: Placed  *)
(* is the strengthening.                                                   *)

LEMMA SpanIs ==
  /\ Span \in Nat \ {0} /\ CutShort \in Nat \ {0}
  /\ Span = BucketNum * Power[WheelsNum - 1]
<1>1. PICK p \in Nat \ {0} : p = Power[WheelsNum - 1]
  BY SomeWheels, PowerIs
<1>2. Span = BucketNum * p
  <2>1. WheelsNum - 1 \in Nat /\ (WheelsNum - 1) + 1 = WheelsNum
    BY SomeWheels
  <2>2. Power[(WheelsNum - 1) + 1] = BucketNum * Power[WheelsNum - 1]
    BY <2>1, PowerIs
  <2> QED BY <1>1, <2>1, <2>2 DEF Span
<1>3. BucketNum * p - p \in Nat /\ BucketNum * p \in Nat \ {0}
  <2>1. PICK k \in Nat : BucketNum = 1 + k
    <3>1. BucketNum - 1 \in Nat /\ BucketNum = 1 + (BucketNum - 1)
      BY WheelAssumption
    <3> QED BY <3>1
  <2>2. BucketNum * p = p + k * p /\ k * p \in Nat
    BY <2>1
  <2> QED BY <2>2
<1> QED BY <1>1, <1>2, <1>3 DEF CutShort

LEMMA PromiseTypes ==
  ASSUME earliest \in [Entry -> Nat], latest \in [Entry -> Nat],
         NEW e \in Entry, NEW delay \in Nat, NEW soonest \in Nat, Promise(e, delay, soonest)
  PROVE  earliest' \in [Entry -> Nat] /\ latest' \in [Entry -> Nat]
BY DEF Promise, Later

LEMMA TickedTypes ==
  ASSUME NEW left \in [Entry -> Nat]
  PROVE  Ticked(left) \in [Entry -> Nat]
BY DEF Ticked

Types == TypeOK /\ Placed

(* What is left to show of the types after a step. *)
LEMMA TypesFrom ==
  ASSUME Filled(wheels'), tickCounter' \in 0..(Span - 1), pc' \in {"idle", "tick", "clear", "gone"},
         at' \in Wheel, dying' \subseteq Ref(at'), undefined' \in BOOLEAN,
         earliest' \in [Entry -> Nat], latest' \in [Entry -> Nat]
  PROVE  Types'
<1>1. wheels' \in [Wheel -> [1..BucketNum -> SUBSET Reference]]
  BY FilledTypes
<1>2. dying' \subseteq Reference
  BY RefIsReference
<1>3. TypeOK'
  BY <1>1, <1>2 DEF TypeOK
<1>4. Placed'
  BY DEF Placed, Filled
<1> QED BY <1>3, <1>4 DEF Types

LEMMA TypesInitially == Init => Types
<1> SUFFICES ASSUME Init PROVE Types
  OBVIOUS
<1>1. Filled(wheels)
  BY DEF Init, Filled
<1>2. wheels \in [Wheel -> [1..BucketNum -> SUBSET Reference]]
  BY <1>1, FilledTypes
<1>3. tickCounter \in 0..(Span - 1)
  BY SpanIs DEF Init
<1>4. at \in Wheel
  BY SomeWheels DEF Init, Wheel
<1>5. TypeOK
  BY <1>2, <1>3, <1>4 DEF Init, TypeOK
<1> QED BY <1>1, <1>5 DEF Init, Types, Placed

LEMMA TickKeepsTypes == Types /\ Tick => Types'
<1> SUFFICES ASSUME Types, Tick PROVE Types'
  OBVIOUS
<1>1. 0 \in Wheel /\ Filled(wheels)
  BY SomeWheels DEF Wheel, Types, Placed
<1>2. Filled(wheels') /\ at' = 0 /\ dying' \subseteq Ref(0)
  BY <1>1, PopFrontFills DEF Tick
<1>3. tickCounter' \in 0..(Span - 1)
  <2>1. tickCounter + 1 \in Int /\ Span \in Nat \ {0}
    BY SpanIs DEF Types, TypeOK
  <2>2. (tickCounter + 1) % Span \in 0..(Span - 1)
    BY <2>1, Divided
  <2> QED BY <2>2 DEF Tick
<1>4. earliest' \in [Entry -> Nat] /\ latest' \in [Entry -> Nat]
  BY TickedTypes DEF Tick, Types, TypeOK
<1>5. pc' = "tick" /\ undefined' \in BOOLEAN
  BY DEF Tick, Types, TypeOK
<1> QED BY <1>1, <1>2, <1>3, <1>4, <1>5, TypesFrom

LEMMA PopFrontReturnsKeepsTypes == Types /\ PopFrontReturns => Types'
<1> SUFFICES ASSUME Types, PopFrontReturns PROVE Types'
  OBVIOUS
<1>1. at \in Wheel /\ Filled(wheels) /\ dying = {}
  BY DEF Types, Placed, TypeOK, PopFrontReturns
<1>2. Filled(Turned(at))
  BY <1>1, TurnedFills
<1>3. /\ tickCounter' \in 0..(Span - 1) /\ undefined' \in BOOLEAN
      /\ earliest' \in [Entry -> Nat] /\ latest' \in [Entry -> Nat]
  BY DEF PopFrontReturns, historyVars, Types, TypeOK
<1>4. CASE at + 1 \in Wheel /\ tickCounter % Power[at + 1] = 0
  <2>1. PopFront(at + 1, Turned(at)) /\ pc' = "tick"
    BY <1>4 DEF PopFrontReturns
  <2>2. Filled(wheels') /\ at' = at + 1 /\ dying' \subseteq Ref(at + 1)
    BY <1>2, <1>4, <2>1, PopFrontFills
  <2> QED BY <1>3, <1>4, <2>1, <2>2, TypesFrom
<1>5. CASE ~(at + 1 \in Wheel /\ tickCounter % Power[at + 1] = 0)
  <2>1. wheels' = Turned(at) /\ pc' = "idle" /\ at' = at /\ dying' = dying
    BY <1>5 DEF PopFrontReturns
  <2>2. Filled(wheels')
    BY <1>2, <2>1
  <2>3. dying' \subseteq Ref(at')
    BY <1>1, <2>1
  <2> QED BY <1>1, <1>3, <2>1, <2>2, <2>3, TypesFrom
<1> QED BY <1>4, <1>5

LEMMA ClearKeepsTypes ==
  ASSUME Types, NEW i \in Wheel, Clear(i)
  PROVE  Types'
<1>1. Filled(wheels)
  BY DEF Types, Placed
<1>2. /\ wheels' = [wheels EXCEPT ![i] = [j \in 1..BucketNum |-> {}]]
      /\ at' = i /\ dying' = Contents(i) /\ pc' = "clear"
      /\ UNCHANGED <<tickCounter, undefined, earliest, latest>>
  BY DEF Clear, historyVars
<1>3. Filled(wheels')
  BY <1>1, <1>2 DEF Filled
<1>4. dying' \subseteq Ref(at')
  BY <1>1, <1>2 DEF Filled, Contents
<1>5. /\ tickCounter' \in 0..(Span - 1) /\ undefined' \in BOOLEAN
      /\ earliest' \in [Entry -> Nat] /\ latest' \in [Entry -> Nat]
  BY <1>2 DEF Types, TypeOK
<1> QED BY <1>2, <1>3, <1>4, <1>5, TypesFrom

LEMMA DestructorKeepsTypes == Types /\ (Destroy \/ ClearReturns) => Types'
<1> SUFFICES ASSUME Types, Destroy \/ ClearReturns PROVE Types'
  OBVIOUS
<1>1. \A k \in 1..WheelsNum : ClearOrder[k] \in Wheel
  BY SomeWheels DEF ClearOrder, Wheel
<1>2. CASE Destroy
  <2>1. 1 \in 1..WheelsNum
    BY SomeWheels
  <2> QED BY <1>1, <1>2, <2>1, ClearKeepsTypes DEF Destroy
<1>3. CASE ClearReturns
  <2>1. PICK k \in 1..WheelsNum :
          \/ k < WheelsNum /\ Clear(ClearOrder[k + 1])
          \/ /\ k = WheelsNum /\ pc' = "gone"
             /\ UNCHANGED <<wheels, tickCounter, at, dying, undefined, historyVars>>
    BY <1>3 DEF ClearReturns
  <2>2. CASE k < WheelsNum /\ Clear(ClearOrder[k + 1])
    <3>1. k + 1 \in 1..WheelsNum
      BY <2>2, SomeWheels
    <3> QED BY <1>1, <2>2, <3>1, ClearKeepsTypes
  <2>3. CASE pc' = "gone" /\ UNCHANGED <<wheels, tickCounter, at, dying, undefined, historyVars>>
    <3>1. UNCHANGED <<wheels, tickCounter, at, dying, undefined, earliest, latest>>
      BY <2>3 DEF historyVars
    <3>2. Filled(wheels') /\ dying' \subseteq Ref(at')
      BY <3>1 DEF Types, Placed
    <3> QED BY <2>3, <3>1, <3>2, TypesFrom DEF Types, TypeOK
  <2> QED BY <2>1, <2>2, <2>3
<1> QED BY <1>2, <1>3

LEMMA InsertEntryKeepsTypes ==
  ASSUME Types, NEW e \in Entry, NEW delay \in 0..MaxDelay, InsertEntry(e, delay)
  PROVE  Types'
<1>1. PICK i \in Wheel : InsertEntryInLoop(i, e, delay)
  BY DEF InsertEntry
<1>2. Filled(wheels')
  BY <1>1, InsertPuts DEF Types
<1>3. earliest' \in [Entry -> Nat] /\ latest' \in [Entry -> Nat]
  <2>1. PICK n \in Nat : Promise(e, delay, n)
    <3>1. (IF Spanned(delay) THEN delay + 1 ELSE CutShort) \in Nat
      BY SpanIs, WheelAssumption
    <3> QED BY <3>1 DEF InsertEntry
  <2> QED BY <2>1, PromiseTypes, WheelAssumption DEF Types, TypeOK
<1>4. UNCHANGED <<tickCounter, pc, at, dying, undefined>>
  BY DEF InsertEntry
<1>5. dying' \subseteq Ref(at')
  BY <1>4 DEF Types, Placed
<1> QED BY <1>2, <1>3, <1>4, <1>5, TypesFrom DEF Types, TypeOK

LEMMA DestroyKeepsTypes ==
  ASSUME Types, NEW r \in dying,
         DestroyDelayEntry(r) \/ DestroyReference(r) \/ DestroyEntryInsertsLate(r)
  PROVE  Types'
<1>1. /\ dying' = dying \ {r} /\ undefined' \in {undefined, TRUE}
      /\ UNCHANGED <<tickCounter, pc, at, earliest, latest>>
  BY DEF DestroyDelayEntry, DestroyReference, DestroyEntryInsertsLate, historyVars
<1>2. Filled(wheels')
  <2>1. CASE DestroyDelayEntry(r)
    BY <2>1, DelayEntryPuts DEF Types
  <2>2. CASE DestroyReference(r) \/ DestroyEntryInsertsLate(r)
    <3>1. wheels' = wheels
      BY <2>2 DEF DestroyReference, DestroyEntryInsertsLate
    <3> QED BY <3>1 DEF Types, Placed
  <2> QED BY <2>1, <2>2
<1>3. dying' \subseteq Ref(at')
  BY <1>1 DEF Types, Placed
<1> QED BY <1>1, <1>2, <1>3, TypesFrom DEF Types, TypeOK

LEMMA DestroyEntryInsertsKeepsTypes ==
  ASSUME Types, NEW r \in dying, NEW e \in Entry, NEW delay \in 0..MaxDelay,
         DestroyEntryInserts(r, e, delay)
  PROVE  Types'
<1>1. PICK i \in Wheel :
        /\ InsertEntryInLoop(i, e, delay)
        /\ undefined' = (i = 0 /\ BucketFor(i, delay) = 1)
        /\ Promise(e, delay, IF ~Spanned(delay) \/ (i > 0 /\ Digit(0) = 0) THEN 0 ELSE delay)
  BY DEF DestroyEntryInserts
<1>2. Filled(wheels')
  BY <1>1, InsertPuts DEF Types
<1>3. earliest' \in [Entry -> Nat] /\ latest' \in [Entry -> Nat]
  <2>1. PICK n \in Nat : Promise(e, delay, n)
    <3>1. (IF ~Spanned(delay) \/ (i > 0 /\ Digit(0) = 0) THEN 0 ELSE delay) \in Nat
      BY WheelAssumption
    <3> QED BY <1>1, <3>1
  <2> QED BY <2>1, PromiseTypes, WheelAssumption DEF Types, TypeOK
<1>4. UNCHANGED <<tickCounter, pc, at>> /\ dying' = dying \ {r}
  BY DEF DestroyEntryInserts
<1>5. dying' \subseteq Ref(at') /\ undefined' \in BOOLEAN
  BY <1>1, <1>4 DEF Types, Placed
<1> QED BY <1>2, <1>3, <1>4, <1>5, TypesFrom DEF Types, TypeOK

LEMMA TypesInductive == Types /\ [Next]_vars => Types'
<1> SUFFICES ASSUME Types, [Next]_vars PROVE Types'
  OBVIOUS
<1>1. CASE UNCHANGED vars
  BY <1>1 DEF Types, TypeOK, Placed, vars, wheelVars, historyVars
<1> QED BY <1>1, TickKeepsTypes, PopFrontReturnsKeepsTypes, DestructorKeepsTypes,
           InsertEntryKeepsTypes, DestroyKeepsTypes, DestroyEntryInsertsKeepsTypes DEF Next

(* The buckets hold references to entries and the ways those are on; what   *)
(* a bucket lets go has a bucket to go on to.                              *)
THEOREM TypeCorrect == Spec => []TypeOK
<1>1. Types => TypeOK
  BY DEF Types
<1> QED BY TypesInitially, TypesInductive, <1>1, PTL DEF Spec

-----------------------------------------------------------------------------
(* When what is in the wheels is due. *)

(* The ticks until bucket j of wheel i is destroyed.  In a tick, a wheel that *)
(* is yet to turn is a bucket nearer already.                              *)
TicksTo(i, j) ==
  IF pc = "tick" /\ i >= at /\ tickCounter % Power[i] = 0
    THEN (j - 1) * Power[i]
    ELSE (j * Power[i]) - (tickCounter % Power[i])

(* A reference to e goes in n ticks. *)
DueDying(e, n) == \E r \in dying : r.id = e /\ n = Journey(r.way)[at]
DueIn(i, j, e, n) == \E r \in wheels[i][j] : r.id = e /\ n = TicksTo(i, j) + Journey(r.way)[i]
IsDue(e, n) == DueDying(e, n) \/ \E i \in Wheel, j \in 1..BucketNum : DueIn(i, j, e, n)

(* The wheel that turns is one whose turn it is, and its first bucket is    *)
(* not touched.                                                            *)
Turning ==
  /\ pc = "idle" => dying = {}
  /\ pc = "tick" => tickCounter % Power[at] = 0 /\ (wheels[at][1] = {} \/ undefined)

OnTime ==
  /\ \A e \in Entry, n \in Nat : IsDue(e, n) => n <= latest[e]
  /\ \A e \in Entry : earliest[e] > 0 => \E n \in Nat : IsDue(e, n) /\ n >= earliest[e]

InTime == pc \in {"idle", "tick"} /\ ~undefined => OnTime

LEMMA WayIn ==
  ASSUME Types, NEW i \in Wheel, NEW j \in 1..BucketNum, NEW r \in wheels[i][j]
  PROVE  /\ r.id \in Entry /\ r.way \in Way(i)
         /\ Journey(r.way)[i] \in Nat /\ Journey(r.way)[0] = 0
<1>1. r \in Ref(i) /\ i \in Nat
  <2>1. wheels[i] \in [1..BucketNum -> SUBSET Ref(i)]
    BY DEF Types, Placed, Filled
  <2>2. wheels[i][j] \subseteq Ref(i)
    BY <2>1
  <2> QED BY <2>2, SomeWheels DEF Wheel
<1>2. r.id \in Entry /\ r.way \in Way(i)
  BY <1>1 DEF Ref
<1> QED BY <1>1, <1>2, JourneyIs

LEMMA WayDying ==
  ASSUME Types, NEW r \in dying
  PROVE  /\ r.id \in Entry /\ r.way \in Way(at) /\ at \in Nat
         /\ Journey(r.way)[at] \in Nat /\ Journey(r.way)[0] = 0
<1>1. r \in Ref(at) /\ at \in Nat
  BY SomeWheels DEF Types, TypeOK, Placed, Wheel
<1>2. r.id \in Entry /\ r.way \in Way(at)
  BY <1>1 DEF Ref
<1> QED BY <1>1, <1>2, JourneyIs

LEMMA CounterTypes ==
  ASSUME Types, NEW i \in Wheel
  PROVE  /\ tickCounter \in Nat /\ i \in Nat /\ Power[i] \in Nat \ {0}
         /\ tickCounter % Power[i] \in 0..(Power[i] - 1)
<1>1. tickCounter \in Nat /\ i \in Nat /\ Power[i] \in Nat \ {0}
  BY SomeWheels, SpanIs, PowerIs DEF Types, TypeOK, Wheel
<1> QED BY <1>1, DigitTypes

LEMMA TicksToTypes ==
  ASSUME Types, NEW i \in Wheel, NEW j \in 1..BucketNum
  PROVE  TicksTo(i, j) \in Nat /\ (pc = "idle" => TicksTo(i, j) >= 1)
<1>1. PICK p \in Nat \ {0}, t \in Nat : p = Power[i] /\ t = tickCounter % Power[i] /\ t < p
  BY CounterTypes
<1>2. PICK k \in Nat : j = k + 1
  <2>1. j - 1 \in Nat /\ j = (j - 1) + 1
    BY WheelAssumption
  <2> QED BY <2>1
<1>3. j * p = k * p + p /\ k * p \in Nat /\ (j - 1) * p = k * p
  BY <1>2
<1>4. (j * p) - t \in Nat /\ (j * p) - t >= 1
  BY <1>1, <1>3
<1> QED BY <1>1, <1>3, <1>4 DEF TicksTo

(* The lower digits of a number with a zero remainder are zero. *)
LEMMA LowerRemainder ==
  ASSUME tickCounter \in Nat, NEW i \in Nat, tickCounter % Power[i + 1] = 0
  PROVE  tickCounter % Power[i] = 0 /\ Digit(i) = 0
<1>1. PICK p \in Nat \ {0}, d \in Nat, t \in Nat :
        p = Power[i] /\ d = Digit(i) /\ t = tickCounter % Power[i]
  <2>1. Power[i] \in Nat \ {0} /\ Digit(i) \in Nat
    BY PowerIs, DigitTypes, WheelAssumption
  <2>2. tickCounter % Power[i] \in Nat
    BY <2>1, DigitTypes
  <2> QED BY <2>1, <2>2
<1>2. (p * d) + t = 0 /\ p * d \in Nat
  <2>1. tickCounter % Power[i + 1] = (Power[i] * Digit(i)) + (tickCounter % Power[i])
    BY DigitTypes
  <2>2. (p * d) + t = 0
    BY <1>1, <2>1
  <2> QED BY <2>2
<1>3. t = 0 /\ p * d = 0
  BY <1>2
<1>4. ASSUME d # 0 PROVE FALSE
  <2>1. PICK k \in Nat : d = k + 1
    <3>1. d - 1 \in Nat /\ d = (d - 1) + 1
      BY <1>4
    <3> QED BY <3>1
  <2>2. p * d = p * k + p /\ p * k \in Nat
    BY <2>1
  <2> QED BY <1>3, <2>2
<1> QED BY <1>1, <1>3, <1>4

LEMMA HigherRemainders ==
  ASSUME tickCounter \in Nat, NEW m \in Nat, tickCounter % Power[m] # 0
  PROVE  \A n \in Nat : n >= m => tickCounter % Power[n] # 0
<1> DEFINE S == {n \in Nat : n >= m => tickCounter % Power[n] # 0}
<1>1. 0 \in S
  OBVIOUS
<1>2. ASSUME NEW n \in S PROVE n + 1 \in S
  <2>1. CASE n >= m
    BY <2>1, LowerRemainder
  <2>2. CASE ~(n >= m)
    BY <2>2
  <2> QED BY <2>1, <2>2
<1>3. S \in SUBSET Nat
  OBVIOUS
<1> HIDE DEF S
<1>4. S = Nat
  BY <1>1, <1>2, <1>3, SetInduction
<1> QED BY <1>4 DEF S

LEMMA NextRemainder ==
  ASSUME NEW c \in 0..(Span - 1), NEW i \in Wheel
  PROVE  ((c + 1) % Span) % Power[i]
           = IF c % Power[i] = Power[i] - 1 THEN 0 ELSE (c % Power[i]) + 1
<1>1. i \in Nat /\ WheelsNum - i \in Nat /\ i + (WheelsNum - i) = WheelsNum /\ c \in Nat
  BY SomeWheels, SpanIs DEF Wheel
<1>2. PICK p \in Nat \ {0}, q \in Nat \ {0} : p = Power[i] /\ Span = p * q
  <2>1. PICK q \in Nat \ {0} : Power[i + (WheelsNum - i)] = Power[i] * q
    BY <1>1, PowerDivides
  <2> QED BY <1>1, <2>1, PowerIs DEF Span
<1>3. PICK k \in Int, r \in 0..(p - 1) : r = c % p /\ c = p * k + r
  <2>1. /\ c \div p \in Int /\ c % p \in 0..(p - 1)
        /\ c = p * (c \div p) + (c % p)
    BY <1>1, Divided
  <2> QED BY <2>1
<1>4. CASE c + 1 # Span
  <2>1. c + 1 \in 0..(Span - 1)
    BY <1>4, SpanIs
  <2>2. (c + 1) % Span = c + 1
    <3>1. PICK s \in 0..(Span - 1) : s = c + 1
      BY <2>1
    <3>2. (Span * 0 + s) % Span = s
      BY SpanIs, Quotient
    <3>3. Span * 0 + s = s
      BY SpanIs
    <3> QED BY <3>1, <3>2, <3>3
  <2>3. CASE r = p - 1
    <3>1. 0 \in 0..(p - 1) /\ k + 1 \in Int
      OBVIOUS
    <3>2. (p * (k + 1) + 0) % p = 0
      BY <3>1, Quotient
    <3>3. p * (k + 1) + 0 = c + 1
      <4>1. p * (k + 1) = p * k + p /\ p * k \in Int
        OBVIOUS
      <4> QED BY <1>3, <2>3, <4>1
    <3> QED BY <1>2, <1>3, <2>2, <2>3, <3>2, <3>3
  <2>4. CASE r # p - 1
    <3>1. r + 1 \in 0..(p - 1)
      BY <2>4
    <3>2. (p * k + (r + 1)) % p = r + 1
      BY <3>1, Quotient
    <3>3. p * k + (r + 1) = c + 1
      <4>1. p * k \in Int
        OBVIOUS
      <4> QED BY <1>3, <4>1
    <3> QED BY <1>2, <1>3, <2>2, <2>4, <3>2, <3>3
  <2> QED BY <2>3, <2>4
<1>5. CASE c + 1 = Span
  <2>1. (c + 1) % Span = 0
    <3>1. 0 \in 0..(Span - 1) /\ 1 \in Int
      BY SpanIs
    <3>2. (Span * 1 + 0) % Span = 0
      BY <3>1, SpanIs, Quotient
    <3>3. Span * 1 + 0 = c + 1
      BY <1>5, SpanIs
    <3> QED BY <3>2, <3>3
  <2>2. 0 % p = 0
    <3>1. 0 \in 0..(p - 1) /\ 0 \in Int
      OBVIOUS
    <3>2. (p * 0 + 0) % p = 0
      BY <3>1, Quotient
    <3> QED BY <3>2
  <2>3. c = p * (q - 1) + (p - 1)
    <3>1. p * (q - 1) = p * q - p /\ p * q \in Int
      OBVIOUS
    <3> QED BY <1>2, <1>5, <3>1
  <2>4. c % p = p - 1
    <3>1. p - 1 \in 0..(p - 1) /\ q - 1 \in Int
      OBVIOUS
    <3>2. (p * (q - 1) + (p - 1)) % p = p - 1
      BY <3>1, Quotient
    <3> QED BY <2>3, <3>2
  <2> QED BY <1>2, <2>1, <2>2, <2>4
<1> QED BY <1>4, <1>5

-----------------------------------------------------------------------------
(* What a tick does to what is due.  All of it comes a tick nearer; the     *)
(* turns and the destructors of DelayEntries in the callback change        *)
(* nothing about when it is.                                               *)

LEMMA TickDues ==
  ASSUME Types, Turning, Tick, NEW e \in Entry, NEW n \in Nat
  PROVE  /\ IsDue(e, n)' => IsDue(e, n + 1)
         /\ IsDue(e, n) => n >= 1 /\ IsDue(e, n - 1)'
<1>1. 0 \in Wheel /\ 1 \in 1..BucketNum /\ Filled(wheels) /\ Power[0] = 1
  BY SomeWheels, WheelAssumption, PowerIs DEF Wheel, Types, Placed
<1>2. /\ pc = "idle" /\ dying = {} /\ pc' = "tick" /\ at' = 0 /\ dying' = wheels[0][1]
      /\ wheels'[0][1] = {}
      /\ \A i \in Wheel, j \in 1..BucketNum : ~(i = 0 /\ j = 1) => wheels'[i][j] = wheels[i][j]
  BY <1>1, PopFrontFills DEF Tick, Turning
<1>3. ASSUME NEW i \in Wheel, NEW j \in 1..BucketNum
      PROVE  TicksTo(i, j) = TicksTo(i, j)' + 1 /\ TicksTo(i, j)' \in Nat
  <2>1. PICK p \in Nat \ {0}, t \in Nat : p = Power[i] /\ t = tickCounter % Power[i] /\ i \in Nat
    BY CounterTypes
  <2>2. tickCounter' % Power[i] = IF t = p - 1 THEN 0 ELSE t + 1
    <3>1. tickCounter \in 0..(Span - 1)
      BY DEF Types, TypeOK
    <3>2. tickCounter' = (tickCounter + 1) % Span
      BY DEF Tick
    <3> QED BY <2>1, <3>1, <3>2, NextRemainder
  <2>3. TicksTo(i, j) = (j * p) - t /\ TicksTo(i, j) \in Nat /\ TicksTo(i, j) >= 1
    BY <1>2, <2>1, TicksToTypes DEF TicksTo
  <2>4. j * p \in Int /\ (j - 1) * p = (j * p) - p
    BY WheelAssumption
  <2>5. i >= at'
    BY <1>2, <2>1
  <2>6. TicksTo(i, j)' = IF tickCounter' % p = 0 THEN (j - 1) * p
                                                ELSE (j * p) - (tickCounter' % p)
    BY <1>2, <2>1, <2>5 DEF TicksTo
  <2>7. CASE t = p - 1
    <3>1. TicksTo(i, j)' = (j - 1) * p
      BY <2>1, <2>2, <2>6, <2>7
    <3> QED BY <2>3, <2>4, <2>7, <3>1
  <2>8. CASE t # p - 1
    <3>1. TicksTo(i, j)' = (j * p) - (t + 1)
      BY <2>1, <2>2, <2>6, <2>8
    <3> QED BY <2>3, <2>4, <3>1
  <2> QED BY <2>7, <2>8
<1>4. TicksTo(0, 1) = 1
  <2>1. tickCounter % Power[0] = 0
    BY <1>1, CounterTypes
  <2> QED BY <1>1, <1>2, <2>1 DEF TicksTo
<1>5. ASSUME IsDue(e, n)' PROVE IsDue(e, n + 1)
  <2>1. CASE DueDying(e, n)'
    <3>1. PICK r \in wheels[0][1] : r.id = e /\ n = Journey(r.way)[0]
      BY <1>2, <2>1 DEF DueDying
    <3>2. Journey(r.way)[0] = 0
      BY <1>1, WayIn
    <3>3. DueIn(0, 1, e, n + 1)
      BY <1>4, <3>1, <3>2 DEF DueIn
    <3> QED BY <1>1, <3>3 DEF IsDue
  <2>2. ASSUME NEW i \in Wheel, NEW j \in 1..BucketNum, DueIn(i, j, e, n)' PROVE IsDue(e, n + 1)
    <3>1. PICK r \in wheels'[i][j] : r.id = e /\ n = TicksTo(i, j)' + Journey(r.way)[i]
      BY <2>2 DEF DueIn
    <3>2. r \in wheels[i][j]
      BY <1>2
    <3>3. Journey(r.way)[i] \in Nat
      BY <3>2, WayIn
    <3>4. n + 1 = TicksTo(i, j) + Journey(r.way)[i]
      BY <1>3, <3>1, <3>3
    <3>5. DueIn(i, j, e, n + 1)
      BY <3>1, <3>2, <3>4 DEF DueIn
    <3> QED BY <3>5 DEF IsDue
  <2> QED BY <1>5, <2>1, <2>2 DEF IsDue
<1>6. ASSUME IsDue(e, n) PROVE n >= 1 /\ IsDue(e, n - 1)'
  <2>1. PICK i \in Wheel, j \in 1..BucketNum : DueIn(i, j, e, n)
    BY <1>2, <1>6 DEF IsDue, DueDying
  <2>2. PICK r \in wheels[i][j] : r.id = e /\ n = TicksTo(i, j) + Journey(r.way)[i]
    BY <2>1 DEF DueIn
  <2>3. Journey(r.way)[i] \in Nat /\ Journey(r.way)[0] = 0
    BY WayIn
  <2>4. n >= 1 /\ n - 1 = TicksTo(i, j)' + Journey(r.way)[i]
    BY <1>3, <2>2, <2>3
  <2>5. CASE i = 0 /\ j = 1
    <3>1. n - 1 = Journey(r.way)[0] /\ r \in dying'
      BY <1>2, <1>4, <2>2, <2>3, <2>5
    <3>2. DueDying(e, n - 1)'
      BY <1>2, <2>2, <3>1 DEF DueDying
    <3> QED BY <2>4, <3>2 DEF IsDue
  <2>6. CASE ~(i = 0 /\ j = 1)
    <3>1. r \in wheels'[i][j]
      BY <1>2, <2>6
    <3>2. DueIn(i, j, e, n - 1)'
      BY <2>2, <2>4, <3>1 DEF DueIn
    <3> QED BY <2>4, <3>2 DEF IsDue
  <2> QED BY <2>5, <2>6
<1> QED BY <1>5, <1>6

LEMMA TickKeepsTime ==
  ASSUME Types, Turning, InTime, Tick
  PROVE  Turning' /\ InTime'
<1>1. /\ pc = "idle" /\ pc' = "tick" /\ at' = 0 /\ wheels'[0][1] = {} /\ 0 \in Wheel
      /\ UNCHANGED undefined
  BY PopFrontFills, SomeWheels DEF Tick, Wheel, Types, Placed
<1>2. Turning'
  <2>1. tickCounter' \in Nat
    BY SpanIs, TickKeepsTypes DEF Types, TypeOK
  <2>2. tickCounter' % Power[0] = 0
    <3>1. PICK p \in Nat \ {0}, c \in Int : p = Power[0] /\ p = 1 /\ c = tickCounter'
      BY <2>1, PowerIs
    <3>2. PICK r \in 0..(p - 1) : r = c % p
      BY Divided
    <3>3. r = 0
      BY <3>1
    <3> QED BY <3>1, <3>2, <3>3
  <2> QED BY <1>1, <2>2 DEF Turning
<1>3. ASSUME ~undefined' PROVE OnTime'
  <2>1. OnTime
    BY <1>1, <1>3 DEF InTime
  <2>2. /\ earliest \in [Entry -> Nat] /\ latest \in [Entry -> Nat]
        /\ earliest' = Ticked(earliest) /\ latest' = Ticked(latest)
    BY DEF Types, TypeOK, Tick
  <2>3. ASSUME NEW e \in Entry, NEW n \in Nat, IsDue(e, n)' PROVE n <= latest'[e]
    <3>1. IsDue(e, n + 1) /\ n + 1 \in Nat
      BY <2>3, TickDues
    <3>2. n + 1 <= latest[e]
      BY <2>1, <3>1 DEF OnTime
    <3> QED BY <2>2, <3>2 DEF Ticked
  <2>4. ASSUME NEW e \in Entry, earliest'[e] > 0
        PROVE  \E n \in Nat : IsDue(e, n)' /\ n >= earliest'[e]
    <3>1. earliest[e] > 0 /\ earliest'[e] = earliest[e] - 1
      BY <2>2, <2>4 DEF Ticked
    <3>2. PICK n \in Nat : IsDue(e, n) /\ n >= earliest[e]
      BY <2>1, <3>1 DEF OnTime
    <3>3. n - 1 \in Nat /\ IsDue(e, n - 1)'
      BY <3>2, TickDues
    <3> QED BY <2>2, <3>1, <3>2, <3>3
  <2> QED BY <2>3, <2>4 DEF OnTime
<1> QED BY <1>2, <1>3 DEF InTime

(* Dues that stay what they are. *)
LEMMA SameDues ==
  ASSUME InTime, pc \in {"idle", "tick"}, UNCHANGED <<undefined, earliest, latest>>,
         \A e \in Entry, n \in Nat : IsDue(e, n)' <=> IsDue(e, n)
  PROVE  InTime'
<1>1. ASSUME ~undefined' PROVE OnTime'
  BY <1>1 DEF InTime, OnTime
<1> QED BY <1>1 DEF InTime

(* A bucket that moves a place towards the front as its wheel turns. *)
LEMMA PopFrontReturnsKeepsTime ==
  ASSUME Types, Turning, InTime, ~undefined, PopFrontReturns
  PROVE  Turning' /\ InTime'
<1> PICK a \in Wheel : a = at
  BY DEF Types, TypeOK
<1>1. /\ pc = "tick" /\ dying = {} /\ at = a /\ a \in Nat /\ Filled(wheels)
      /\ tickCounter % Power[a] = 0 /\ wheels[a][1] = {}
      /\ UNCHANGED <<tickCounter, undefined, earliest, latest>>
  BY SomeWheels DEF Types, TypeOK, Placed, PopFrontReturns, Turning, historyVars, Wheel
<1>2. /\ Filled(Turned(a))
      /\ \A k \in Wheel : k # a => Turned(a)[k] = wheels[k]
      /\ \A j \in 1..BucketNum :
           Turned(a)[a][j] = IF j = BucketNum THEN {} ELSE wheels[a][j + 1]
  BY <1>1, TurnedFills
<1>3. ASSUME NEW e \in Entry, NEW n \in Nat, NEW j \in 1..BucketNum, DueIn(a, j, e, n)
      PROVE  j - 1 \in 1..BucketNum /\ j # 1 /\ Turned(a)[a][j - 1] = wheels[a][j]
  <2>1. j # 1
    BY <1>1, <1>3 DEF DueIn
  <2>2. j - 1 \in 1..BucketNum /\ j - 1 # BucketNum /\ (j - 1) + 1 = j
    BY <2>1, WheelAssumption
  <2> QED BY <1>2, <2>1, <2>2
<1>4. ASSUME NEW j \in 1..BucketNum, NEW r \in Turned(a)[a][j]
      PROVE  j + 1 \in 1..BucketNum /\ r \in wheels[a][j + 1]
  <2>1. j # BucketNum
    BY <1>2
  <2> QED BY <1>2, <2>1, WheelAssumption
<1>5. ASSUME NEW j \in 1..BucketNum
      PROVE  TicksTo(a, j) = (j - 1) * Power[a]
  BY <1>1 DEF TicksTo
<1>6. CASE a + 1 \in Wheel /\ tickCounter % Power[a + 1] = 0
  <2>1. /\ pc' = "tick" /\ at' = a + 1
        /\ wheels'[a + 1][1] = {} /\ dying' = wheels[a + 1][1]
        /\ \A k \in Wheel, j \in 1..BucketNum :
             ~(k = a + 1 /\ j = 1) => wheels'[k][j] = Turned(a)[k][j]
    <3>1. PopFront(a + 1, Turned(a)) /\ pc' = pc
      BY <1>6 DEF PopFrontReturns
    <3>2. Turned(a)[a + 1] = wheels[a + 1]
      BY <1>1, <1>2, <1>6
    <3> QED BY <1>1, <1>2, <1>6, <3>1, <3>2, PopFrontFills
  <2>2. Turning'
    BY <1>1, <1>6, <2>1 DEF Turning
  <2>3. ASSUME NEW k \in Wheel, NEW j \in 1..BucketNum, k # a
        PROVE  TicksTo(k, j)' = TicksTo(k, j)
    <3>1. k \in Nat /\ (k >= a <=> k >= a + 1)
      BY <1>1, <2>3, SomeWheels DEF Wheel
    <3> QED BY <1>1, <2>1, <3>1 DEF TicksTo
  <2>4. ASSUME NEW j \in 1..BucketNum PROVE TicksTo(a, j)' = j * Power[a]
    <3>1. ~(a >= a + 1)
      BY <1>1
    <3>2. Power[a] \in Nat
      BY <1>1, PowerIs
    <3>3. j * Power[a] \in Int
      BY <3>2, WheelAssumption
    <3> QED BY <1>1, <2>1, <3>1, <3>3 DEF TicksTo
  <2>5. TicksTo(a + 1, 1) = 0
    <3>1. a + 1 >= a /\ Power[a + 1] \in Nat
      BY <1>1, PowerIs
    <3> QED BY <1>1, <1>6, <3>1 DEF TicksTo
  <2>6. ASSUME NEW e \in Entry, NEW n \in Nat, IsDue(e, n) PROVE IsDue(e, n)'
    <3>1. PICK k \in Wheel, j \in 1..BucketNum : DueIn(k, j, e, n)
      BY <1>1, <2>6 DEF IsDue, DueDying
    <3>2. PICK r \in wheels[k][j] : r.id = e /\ n = TicksTo(k, j) + Journey(r.way)[k]
      BY <3>1 DEF DueIn
    <3>3. CASE k = a
      <4>1. j - 1 \in 1..BucketNum /\ r \in Turned(a)[a][j - 1]
        BY <1>3, <3>1, <3>2, <3>3
      <4>2. r \in wheels'[a][j - 1]
        BY <1>1, <2>1, <4>1
      <4>3. TicksTo(a, j - 1)' = TicksTo(a, j)
        BY <1>5, <2>4, <4>1
      <4>4. DueIn(a, j - 1, e, n)'
        BY <3>2, <3>3, <4>2, <4>3 DEF DueIn
      <4> QED BY <1>1, <4>1, <4>4 DEF IsDue
    <3>4. CASE k = a + 1 /\ j = 1
      <4>1. Journey(r.way)[k] \in Nat
        BY WayIn
      <4>2. n = Journey(r.way)[a + 1] /\ r \in dying'
        BY <2>1, <2>5, <3>2, <3>4, <4>1
      <4>3. DueDying(e, n)'
        BY <2>1, <3>2, <4>2 DEF DueDying
      <4> QED BY <4>3 DEF IsDue
    <3>5. CASE k # a /\ ~(k = a + 1 /\ j = 1)
      <4>1. r \in wheels'[k][j]
        BY <1>2, <2>1, <3>5
      <4>2. DueIn(k, j, e, n)'
        BY <2>3, <3>2, <3>5, <4>1 DEF DueIn
      <4> QED BY <4>2 DEF IsDue
    <3> QED BY <3>3, <3>4, <3>5
  <2>7. ASSUME NEW e \in Entry, NEW n \in Nat, IsDue(e, n)' PROVE IsDue(e, n)
    <3>1. CASE DueDying(e, n)'
      <4>1. PICK r \in wheels[a + 1][1] : r.id = e /\ n = Journey(r.way)[a + 1]
        BY <2>1, <3>1 DEF DueDying
      <4>2. 1 \in 1..BucketNum
        BY WheelAssumption
      <4>3. Journey(r.way)[a + 1] \in Nat
        BY <1>6, <4>2, WayIn
      <4>4. n = TicksTo(a + 1, 1) + Journey(r.way)[a + 1]
        BY <2>5, <4>1, <4>3
      <4>5. DueIn(a + 1, 1, e, n)
        BY <4>1, <4>4 DEF DueIn
      <4> QED BY <1>6, <4>2, <4>5 DEF IsDue
    <3>2. ASSUME NEW k \in Wheel, NEW j \in 1..BucketNum, DueIn(k, j, e, n)' PROVE IsDue(e, n)
      <4>1. PICK r \in wheels'[k][j] : r.id = e /\ n = TicksTo(k, j)' + Journey(r.way)[k]
        BY <3>2 DEF DueIn
      <4>2. ~(k = a + 1 /\ j = 1) /\ r \in Turned(a)[k][j]
        BY <2>1, <4>1
      <4>3. CASE k = a
        <5>1. j + 1 \in 1..BucketNum /\ r \in wheels[a][j + 1]
          BY <1>4, <4>2, <4>3
        <5>2. TicksTo(a, j + 1) = TicksTo(a, j)'
          <6>1. (j + 1) - 1 = j
            OBVIOUS
          <6> QED BY <1>5, <2>4, <5>1, <6>1
        <5>3. DueIn(a, j + 1, e, n)
          BY <4>1, <4>3, <5>1, <5>2 DEF DueIn
        <5> QED BY <1>1, <5>1, <5>3 DEF IsDue
      <4>4. CASE k # a
        <5>1. r \in wheels[k][j] /\ TicksTo(k, j)' = TicksTo(k, j)
          BY <1>2, <2>3, <4>2, <4>4
        <5>2. DueIn(k, j, e, n)
          BY <4>1, <5>1 DEF DueIn
        <5> QED BY <5>2 DEF IsDue
      <4> QED BY <4>3, <4>4
    <3> QED BY <2>7, <3>1, <3>2 DEF IsDue
  <2> QED BY <1>1, <2>2, <2>6, <2>7, SameDues
<1>7. CASE ~(a + 1 \in Wheel /\ tickCounter % Power[a + 1] = 0)
  <2>1. wheels' = Turned(a) /\ pc' = "idle" /\ UNCHANGED <<at, dying>>
    BY <1>7 DEF PopFrontReturns
  <2>2. Turning'
    BY <1>1, <2>1 DEF Turning
  <2>3. ASSUME NEW k \in Wheel, NEW j \in 1..BucketNum
        PROVE  TicksTo(k, j)' = (j * Power[k]) - (tickCounter % Power[k])
    BY <1>1, <2>1 DEF TicksTo
  <2>4. ASSUME NEW k \in Wheel, NEW j \in 1..BucketNum, k # a
        PROVE  TicksTo(k, j)' = TicksTo(k, j)
    <3>1. ASSUME k >= a PROVE tickCounter % Power[k] # 0
      <4>1. k \in Nat /\ k >= a + 1 /\ a + 1 \in Nat /\ a + 1 \in Wheel
        BY <1>1, <2>4, <3>1, SomeWheels DEF Wheel
      <4>2. tickCounter % Power[a + 1] # 0 /\ tickCounter \in Nat
        BY <1>7, <4>1, CounterTypes
      <4> QED BY <4>1, <4>2, HigherRemainders
    <3>2. TicksTo(k, j) = (j * Power[k]) - (tickCounter % Power[k])
      BY <3>1 DEF TicksTo
    <3> QED BY <2>3, <3>2
  <2>5. ASSUME NEW j \in 1..BucketNum PROVE TicksTo(a, j)' = j * Power[a]
    <3>1. Power[a] \in Nat
      BY <1>1, PowerIs
    <3>2. j * Power[a] \in Int
      BY <3>1, WheelAssumption
    <3> QED BY <1>1, <2>3, <3>2
  <2>6. ASSUME NEW e \in Entry, NEW n \in Nat, IsDue(e, n) PROVE IsDue(e, n)'
    <3>1. PICK k \in Wheel, j \in 1..BucketNum : DueIn(k, j, e, n)
      BY <1>1, <2>6 DEF IsDue, DueDying
    <3>2. PICK r \in wheels[k][j] : r.id = e /\ n = TicksTo(k, j) + Journey(r.way)[k]
      BY <3>1 DEF DueIn
    <3>3. CASE k = a
      <4>1. j - 1 \in 1..BucketNum /\ r \in wheels'[a][j - 1]
        BY <1>3, <2>1, <3>1, <3>2, <3>3
      <4>2. TicksTo(a, j - 1)' = TicksTo(a, j)
        BY <1>5, <2>5, <4>1
      <4>3. DueIn(a, j - 1, e, n)'
        BY <3>2, <3>3, <4>1, <4>2 DEF DueIn
      <4> QED BY <1>1, <4>1, <4>3 DEF IsDue
    <3>4. CASE k # a
      <4>1. r \in wheels'[k][j] /\ TicksTo(k, j)' = TicksTo(k, j)
        BY <1>2, <2>1, <2>4, <3>4
      <4>2. DueIn(k, j, e, n)'
        BY <3>2, <4>1 DEF DueIn
      <4> QED BY <4>2 DEF IsDue
    <3> QED BY <3>3, <3>4
  <2>7. ASSUME NEW e \in Entry, NEW n \in Nat, IsDue(e, n)' PROVE IsDue(e, n)
    <3>1. PICK k \in Wheel, j \in 1..BucketNum : DueIn(k, j, e, n)'
      BY <1>1, <2>1, <2>7 DEF IsDue, DueDying
    <3>2. PICK r \in wheels'[k][j] : r.id = e /\ n = TicksTo(k, j)' + Journey(r.way)[k]
      BY <3>1 DEF DueIn
    <3>3. CASE k = a
      <4>1. j + 1 \in 1..BucketNum /\ r \in wheels[a][j + 1]
        BY <1>4, <2>1, <3>2, <3>3
      <4>2. TicksTo(a, j + 1) = TicksTo(a, j)'
        <5>1. (j + 1) - 1 = j
          OBVIOUS
        <5> QED BY <1>5, <2>5, <4>1, <5>1
      <4>3. DueIn(a, j + 1, e, n)
        BY <3>2, <3>3, <4>1, <4>2 DEF DueIn
      <4> QED BY <1>1, <4>1, <4>3 DEF IsDue
    <3>4. CASE k # a
      <4>1. r \in wheels[k][j] /\ TicksTo(k, j)' = TicksTo(k, j)
        BY <1>2, <2>1, <2>4, <3>2, <3>4
      <4>2. DueIn(k, j, e, n)
        BY <3>2, <4>1 DEF DueIn
      <4> QED BY <4>2 DEF IsDue
    <3> QED BY <3>3, <3>4
  <2> QED BY <1>1, <2>2, <2>6, <2>7, SameDues
<1> QED BY <1>6, <1>7

LEMMA PutDues ==
  ASSUME Types, NEW i \in Wheel, NEW b \in 1..BucketNum, NEW q \in Ref(i), Put(i, b, q),
         UNCHANGED <<tickCounter, pc, at>>, NEW e \in Entry, NEW n \in Nat
  PROVE  (\E k \in Wheel, j \in 1..BucketNum : DueIn(k, j, e, n)')
           <=> \/ \E k \in Wheel, j \in 1..BucketNum : DueIn(k, j, e, n)
               \/ q.id = e /\ n = TicksTo(i, b) + Journey(q.way)[i]
<1>1. \A k \in Wheel, j \in 1..BucketNum :
        wheels'[k][j] = IF k = i /\ j = b THEN wheels[k][j] \union {q} ELSE wheels[k][j]
  BY PutFills DEF Types, Placed
<1>2. ASSUME NEW k \in Wheel, NEW j \in 1..BucketNum
      PROVE  TicksTo(k, j)' = TicksTo(k, j)
  BY DEF TicksTo
<1>3. ASSUME NEW k \in Wheel, NEW j \in 1..BucketNum, DueIn(k, j, e, n)
      PROVE  DueIn(k, j, e, n)'
  <2>1. PICK r \in wheels[k][j] : r.id = e /\ n = TicksTo(k, j) + Journey(r.way)[k]
    BY <1>3 DEF DueIn
  <2>2. r \in wheels'[k][j]
    BY <1>1
  <2> QED BY <1>2, <2>1, <2>2 DEF DueIn
<1>4. ASSUME q.id = e, n = TicksTo(i, b) + Journey(q.way)[i]
      PROVE  DueIn(i, b, e, n)'
  <2>1. q \in wheels'[i][b]
    BY <1>1
  <2> QED BY <1>2, <1>4, <2>1 DEF DueIn
<1>5. ASSUME NEW k \in Wheel, NEW j \in 1..BucketNum, DueIn(k, j, e, n)'
      PROVE  DueIn(k, j, e, n) \/ (q.id = e /\ n = TicksTo(i, b) + Journey(q.way)[i])
  <2>1. PICK r \in wheels'[k][j] : r.id = e /\ n = TicksTo(k, j) + Journey(r.way)[k]
    BY <1>2, <1>5 DEF DueIn
  <2>2. CASE r \in wheels[k][j]
    BY <2>1, <2>2 DEF DueIn
  <2>3. CASE r \notin wheels[k][j]
    <3>1. k = i /\ j = b /\ r = q
      BY <1>1, <2>3
    <3> QED BY <2>1, <3>1
  <2> QED BY <2>2, <2>3
<1> QED BY <1>3, <1>4, <1>5

(* The bucket below is to come to the front when the way says. *)
LEMMA DestroyDelayEntryKeepsTime ==
  ASSUME Types, Turning, InTime, ~undefined, NEW r \in dying, DestroyDelayEntry(r)
  PROVE  Turning' /\ InTime'
<1> DEFINE q == [id |-> r.id, way |-> Front(r.way)]
           b == Last(r.way) + 1
<1> PICK a \in Wheel : a = at
  BY DEF Types, TypeOK
<1>1. /\ dying' = dying \ {r} /\ pc # "idle" /\ a = at
      /\ UNCHANGED <<tickCounter, pc, at, undefined, earliest, latest>>
  BY DEF DestroyDelayEntry, historyVars, Turning
<1>2. /\ a - 1 \in Wheel /\ a \in Nat \ {0} /\ (a - 1) + 1 = a /\ a - 1 \in Nat
      /\ q \in Ref(a - 1) /\ b \in 1..BucketNum /\ Put(a - 1, b, q)
  BY DelayEntryPuts, SomeWheels DEF Types, Wheel
<1>3. wheels'[a][1] = wheels[a][1]
  <2> HIDE DEF q, b
  <2>1. a # a - 1 /\ 1 \in 1..BucketNum /\ Filled(wheels)
    BY <1>2, WheelAssumption DEF Types, Placed
  <2>2. \A k \in Wheel, j \in 1..BucketNum :
          wheels'[k][j] = IF k = a - 1 /\ j = b THEN wheels[k][j] \union {q} ELSE wheels[k][j]
    <3>1. PICK i \in Wheel : i = a - 1
      BY <1>2
    <3>2. q \in Ref(i) /\ b \in 1..BucketNum /\ Put(i, b, q)
      BY <1>2, <3>1
    <3>3. \A k \in Wheel, j \in 1..BucketNum :
            wheels'[k][j] = IF k = i /\ j = b THEN wheels[k][j] \union {q} ELSE wheels[k][j]
      BY <2>1, <3>2, PutFills
    <3> QED BY <3>1, <3>3
  <2> QED BY <1>2, <2>1, <2>2
<1>4. Turning'
  BY <1>1, <1>3 DEF Turning
<1>5. CASE pc # "tick"
  BY <1>1, <1>4, <1>5 DEF InTime
<1>6. CASE pc = "tick"
  <2>1. /\ r.id \in Entry /\ r.way \in Way(a) /\ Journey(r.way)[a] \in Nat
    BY <1>1, WayDying
  <2>2. TicksTo(a - 1, b) + Journey(q.way)[a - 1] = Journey(r.way)[a]
    <3>1. tickCounter % Power[a] = 0 /\ tickCounter \in Nat
      BY <1>1, <1>6, CounterTypes DEF Turning
    <3>2. tickCounter % Power[a - 1] = 0
      BY <1>2, <3>1, LowerRemainder
    <3>3. TicksTo(a - 1, b) = b * Power[a - 1]
      <4>1. ~(a - 1 >= a) /\ b \in Nat /\ Power[a - 1] \in Nat
        BY <1>2, PowerIs, WheelAssumption
      <4>2. b * Power[a - 1] \in Int
        BY <4>1
      <4> HIDE DEF b
      <4> QED BY <1>1, <3>2, <4>1, <4>2 DEF TicksTo
    <3>4. /\ Last(r.way) = r.way[a] /\ q.way \in Way(a - 1)
          /\ \A k \in 1..(a - 1) : q.way[k] = r.way[k]
      BY <1>2, <2>1, WayParts
    <3>5. Leg(r.way, a) = b * Power[a - 1]
      <4>1. a \in DOMAIN r.way
        BY <1>2, <2>1 DEF Way
      <4> QED BY <3>4, <4>1 DEF Leg
    <3>6. Journey(q.way)[a - 1] = Journey(r.way)[a - 1]
      <4>1. a - 1 <= a
        BY <1>2
      <4> HIDE DEF q
      <4> QED BY <1>2, <2>1, <3>4, <4>1, SameJourney
    <3>7. Journey(r.way)[a] = Journey(r.way)[a - 1] + Leg(r.way, a)
      BY <1>2, <2>1, JourneyIs
    <3>8. Journey(r.way)[a - 1] \in Nat
      BY <1>2, <2>1, JourneyIs
    <3>9. Leg(r.way, a) \in Nat
      BY <1>2, <2>1, LegTypes
    <3> HIDE DEF q, b
    <3> QED BY <3>3, <3>5, <3>6, <3>7, <3>8, <3>9
  <2>3. q.id = r.id
    OBVIOUS
  <2> HIDE DEF q, b
  <2>4. ASSUME NEW e \in Entry, NEW n \in Nat PROVE IsDue(e, n)' <=> IsDue(e, n)
    <3>1. (\E k \in Wheel, j \in 1..BucketNum : DueIn(k, j, e, n)')
            <=> \/ \E k \in Wheel, j \in 1..BucketNum : DueIn(k, j, e, n)
                \/ r.id = e /\ n = Journey(r.way)[a]
      <4>1. (\E k \in Wheel, j \in 1..BucketNum : DueIn(k, j, e, n)')
              <=> \/ \E k \in Wheel, j \in 1..BucketNum : DueIn(k, j, e, n)
                  \/ q.id = e /\ n = TicksTo(a - 1, b) + Journey(q.way)[a - 1]
        BY <1>1, <1>2, PutDues
      <4> QED BY <2>2, <2>3, <4>1
    <3>2. DueDying(e, n) <=> DueDying(e, n)' \/ (r.id = e /\ n = Journey(r.way)[a])
      BY <1>1 DEF DueDying
    <3> QED BY <3>1, <3>2 DEF IsDue
  <2> QED BY <1>1, <1>4, <1>6, <2>4, SameDues
<1> QED BY <1>4, <1>5, <1>6

(* What goes for good was due. *)
LEMMA DueNow ==
  ASSUME Types, at = 0, NEW e \in Entry, NEW n \in Nat, DueDying(e, n)
  PROVE  n = 0
BY WayDying DEF DueDying

LEMMA DestroyReferenceKeepsTime ==
  ASSUME Types, Turning, InTime, NEW r \in dying, DestroyReference(r)
  PROVE  Turning' /\ InTime'
<1>1. /\ at = 0 /\ dying' = dying \ {r} /\ pc # "idle"
      /\ UNCHANGED <<wheels, tickCounter, pc, at, undefined, earliest, latest>>
  BY DEF DestroyReference, historyVars, Turning
<1>2. Turning'
  BY <1>1 DEF Turning
<1>3. ASSUME pc = "tick", ~undefined PROVE OnTime'
  <2>1. OnTime /\ earliest \in [Entry -> Nat]
    BY <1>3 DEF InTime, Types, TypeOK
  <2>2. ASSUME NEW i \in Wheel, NEW j \in 1..BucketNum, NEW e \in Entry, NEW n \in Nat
        PROVE  DueIn(i, j, e, n)' <=> DueIn(i, j, e, n)
    BY <1>1 DEF DueIn, TicksTo
  <2>3. ASSUME NEW e \in Entry, NEW n \in Nat, IsDue(e, n)' PROVE IsDue(e, n)
    BY <1>1, <2>2, <2>3 DEF IsDue, DueDying
  <2>4. ASSUME NEW e \in Entry, NEW n \in Nat, IsDue(e, n), n >= 1 PROVE IsDue(e, n)'
    <3>1. ~DueDying(e, n)
      BY <1>1, <2>4, DueNow
    <3> QED BY <2>2, <2>4, <3>1 DEF IsDue
  <2>5. ASSUME NEW e \in Entry, earliest[e] > 0
        PROVE  \E n \in Nat : IsDue(e, n)' /\ n >= earliest[e]
    <3>1. PICK n \in Nat : IsDue(e, n) /\ n >= earliest[e]
      BY <2>1, <2>5 DEF OnTime
    <3> QED BY <2>1, <2>4, <2>5, <3>1
  <2> QED BY <1>1, <2>1, <2>3, <2>5 DEF OnTime
<1> QED BY <1>1, <1>2, <1>3 DEF InTime

-----------------------------------------------------------------------------
(* When what is inserted is due. *)

LEMMA JourneyTakes ==
  ASSUME NEW i \in Nat \ {0}, NEW way \in Way(i)
  PROVE  Journey(way)[i] >= 1
<1>1. i - 1 \in Nat /\ (i - 1) + 1 = i
  OBVIOUS
<1>2. Journey(way)[i] = Journey(way)[i - 1] + Leg(way, i) /\ Journey(way)[i - 1] \in Nat
  BY <1>1, JourneyIs
<1>3. PICK m \in Nat \ {0}, p \in Nat \ {0} : Leg(way, i) = m * p
  <2>1. i \in DOMAIN way /\ way[i] \in 0..(BucketNum - 1)
    BY DEF Way
  <2>2. way[i] + 1 \in Nat \ {0} /\ Power[i - 1] \in Nat \ {0}
    BY <1>1, <2>1, PowerIs, WheelAssumption
  <2> QED BY <2>1, <2>2 DEF Leg
<1>4. m * p >= 1
  <2>1. PICK k \in Nat : m = k + 1
    <3>1. m - 1 \in Nat /\ m = (m - 1) + 1
      OBVIOUS
    <3> QED BY <3>1
  <2>2. m * p = k * p + p /\ k * p \in Nat
    BY <2>1
  <2> QED BY <2>2
<1>5. m * p \in Nat
  OBVIOUS
<1> QED BY <1>2, <1>3, <1>4, <1>5

(* Outside of a tick. *)
DueAt(i, delay) ==
  (BucketFor(i, delay) * Power[i]) - (tickCounter % Power[i]) + Journey(WayFor(i, delay))[i]

LEMMA InsertedDue ==
  ASSUME Types, NEW i \in Wheel, NEW delay \in Nat, GoesTo(i, delay)
  PROVE  /\ DueAt(i, delay) \in Nat /\ DueAt(i, delay) <= delay + 1
         /\ DueAt(i, delay) >= IF Spanned(delay) THEN delay + 1 ELSE CutShort
<1>1. PICK p \in Nat \ {0}, t \in Nat : p = Power[i] /\ t = tickCounter % Power[i] /\ t < p
  BY CounterTypes
<1>2. tickCounter \in Nat /\ i \in Nat /\ WayFor(i, delay) \in Way(i)
  BY CounterTypes, WayTypes
<1>3. PICK m \in Nat : m = Journey(WayFor(i, delay))[i]
  BY <1>2, JourneyIs
<1>4. PICK x \in Int : x = IndexIn(delay)[i]
  BY <1>2, IndexIs
<1>5. (x * p) - t + m = delay + 1
  BY <1>1, <1>2, <1>3, <1>4, IndexAndWay
<1>6. PICK last \in Nat \ {0} : /\ last = Power[WheelsNum - 1] /\ CutShort = Span - last + 1
                                /\ Span = BucketNum * last /\ Span \in Nat
  <2>1. Power[WheelsNum - 1] \in Nat \ {0}
    BY SomeWheels, PowerIs
  <2> QED BY <2>1, SpanIs DEF CutShort
<1>7. CASE x <= BucketNum
  <2>1. DueAt(i, delay) = delay + 1
    BY <1>1, <1>3, <1>4, <1>5, <1>7 DEF DueAt, BucketFor
  <2>2. ASSUME ~Spanned(delay) PROVE delay + 1 >= CutShort
    BY <1>6, <2>2 DEF Spanned
  <2>3. delay + 1 \in Nat /\ delay + 1 <= delay + 1 /\ delay + 1 >= delay + 1
    OBVIOUS
  <2>4. CASE Spanned(delay)
    BY <2>1, <2>3, <2>4
  <2>5. CASE ~Spanned(delay)
    BY <2>1, <2>2, <2>3, <2>5
  <2> QED BY <2>4, <2>5
<1>8. CASE ~(x <= BucketNum)
  <2>1. i = WheelsNum - 1 /\ p = last
    BY <1>1, <1>4, <1>6, <1>8 DEF GoesTo
  <2>2. DueAt(i, delay) = Span - t + m
    BY <1>1, <1>3, <1>4, <1>6, <1>8, <2>1 DEF DueAt, BucketFor
  <2>3. PICK k \in Nat : x = BucketNum + 1 + k
    <3>1. x - BucketNum - 1 \in Nat /\ x = BucketNum + 1 + (x - BucketNum - 1)
      BY <1>8, WheelAssumption
    <3> QED BY <3>1
  <2>4. x * p = Span + p + k * p /\ k * p \in Nat
    <3>1. (BucketNum + 1 + k) * p = BucketNum * p + p + k * p
      BY WheelAssumption
    <3> QED BY <1>6, <2>1, <2>3, <3>1
  <2>5. delay >= Span + m
    BY <1>1, <1>5, <1>6, <2>4
  <2>6. ASSUME Spanned(delay) PROVE FALSE
    <3>1. delay = Span /\ WheelsNum > 1
      BY <1>6, <2>5, <2>6 DEF Spanned
    <3>2. i \in Nat \ {0}
      BY <1>2, <2>1, <3>1, SomeWheels
    <3>3. m >= 1
      BY <1>2, <1>3, <3>2, JourneyTakes
    <3> QED BY <1>6, <2>5, <3>1, <3>3
  <2>7. DueAt(i, delay) \in Nat /\ DueAt(i, delay) <= delay + 1 /\ DueAt(i, delay) >= CutShort
    <3>1. Span >= last
      BY <1>6, SpanIs DEF CutShort
    <3> QED BY <1>1, <1>6, <2>1, <2>2, <2>5, <3>1
  <2> QED BY <2>6, <2>7
<1> QED BY <1>7, <1>8

(* One more that is due as was promised. *)
LEMMA PromiseKept ==
  ASSUME OnTime, earliest \in [Entry -> Nat], latest \in [Entry -> Nat],
         NEW e \in Entry, NEW delay \in Nat, NEW soonest \in Nat, Promise(e, delay, soonest),
         NEW due \in Nat, soonest <= due, due <= delay + 1, IsDue(e, due)',
         \A f \in Entry, n \in Nat : IsDue(f, n)' => IsDue(f, n) \/ (f = e /\ n = due),
         \A f \in Entry, n \in Nat : IsDue(f, n) /\ n >= 1 => IsDue(f, n)'
  PROVE  OnTime'
<1>1. /\ \A f \in Entry : f # e => earliest'[f] = earliest[f] /\ latest'[f] = latest[f]
      /\ earliest'[e] = Later(earliest[e], soonest)
      /\ latest'[e] = Later(latest[e], delay + 1)
  BY DEF Promise
<1>2. ASSUME NEW f \in Entry, NEW n \in Nat, IsDue(f, n)' PROVE n <= latest'[f]
  <2>1. latest'[f] >= latest[f] /\ latest'[e] >= delay + 1
    BY <1>1 DEF Later
  <2>2. CASE IsDue(f, n)
    <3>1. n <= latest[f]
      BY <2>2 DEF OnTime
    <3>2. latest[f] \in Nat /\ latest'[f] \in Nat
      BY <1>1 DEF Later
    <3> QED BY <2>1, <3>1, <3>2
  <2>3. CASE f = e /\ n = due
    <3>1. latest'[e] \in Nat
      BY <1>1 DEF Later
    <3> QED BY <2>1, <2>3, <3>1
  <2> QED BY <1>2, <2>2, <2>3
<1>3. ASSUME NEW f \in Entry, earliest'[f] > 0
      PROVE  \E n \in Nat : IsDue(f, n)' /\ n >= earliest'[f]
  <2>1. CASE earliest'[f] = earliest[f]
    <3>1. PICK n \in Nat : IsDue(f, n) /\ n >= earliest[f]
      BY <1>3, <2>1 DEF OnTime
    <3>2. n >= 1
      BY <1>3, <2>1, <3>1
    <3> QED BY <2>1, <3>1, <3>2
  <2>2. CASE earliest'[f] # earliest[f]
    <3>1. f = e /\ earliest'[f] = soonest
      BY <1>1, <2>2 DEF Later
    <3> QED BY <3>1
  <2> QED BY <2>1, <2>2
<1> QED BY <1>2, <1>3 DEF OnTime

LEMMA InsertEntryKeepsTime ==
  ASSUME Types, Turning, InTime, ~undefined, NEW e \in Entry, NEW delay \in 0..MaxDelay,
         InsertEntry(e, delay)
  PROVE  Turning' /\ InTime'
<1>1. /\ pc = "idle" /\ dying = {} /\ delay \in Nat
      /\ UNCHANGED <<tickCounter, pc, at, dying, undefined>>
  BY WheelAssumption DEF InsertEntry, Turning
<1>2. PICK soonest : /\ soonest = (IF Spanned(delay) THEN delay + 1 ELSE CutShort)
                     /\ Promise(e, delay, soonest)
  BY DEF InsertEntry
<1>3. PICK i \in Wheel : InsertEntryInLoop(i, e, delay)
  BY DEF InsertEntry
<1>4. PICK q \in Ref(i), b \in 1..BucketNum :
        /\ q.id = e /\ q.way = WayFor(i, delay) /\ b = BucketFor(i, delay) /\ Put(i, b, q)
  BY <1>3, InsertPuts DEF Types
<1>5. /\ DueAt(i, delay) \in Nat /\ soonest <= DueAt(i, delay) /\ DueAt(i, delay) <= delay + 1
  <2>1. /\ DueAt(i, delay) \in Nat /\ DueAt(i, delay) <= delay + 1
        /\ DueAt(i, delay) >= IF Spanned(delay) THEN delay + 1 ELSE CutShort
    BY <1>1, <1>3, InsertedDue DEF InsertEntryInLoop
  <2>2. soonest \in Nat
    BY <1>1, <1>2, SpanIs
  <2> QED BY <1>2, <2>1, <2>2
<1>6. TicksTo(i, b) + Journey(q.way)[i] = DueAt(i, delay)
  BY <1>1, <1>4 DEF TicksTo, DueAt
<1>7. ASSUME NEW f \in Entry, NEW n \in Nat
      PROVE  IsDue(f, n)' <=> IsDue(f, n) \/ (f = e /\ n = DueAt(i, delay))
  <2>1. (\E k \in Wheel, j \in 1..BucketNum : DueIn(k, j, f, n)')
          <=> \/ \E k \in Wheel, j \in 1..BucketNum : DueIn(k, j, f, n)
              \/ q.id = f /\ n = TicksTo(i, b) + Journey(q.way)[i]
    BY <1>1, <1>4, PutDues
  <2>2. DueDying(f, n)' <=> DueDying(f, n)
    BY <1>1 DEF DueDying
  <2> QED BY <1>4, <1>6, <2>1, <2>2 DEF IsDue
<1>8. OnTime'
  <2>1. PICK due \in Nat : due = DueAt(i, delay)
    BY <1>5
  <2>2. OnTime /\ earliest \in [Entry -> Nat] /\ latest \in [Entry -> Nat]
    BY <1>1 DEF InTime, Types, TypeOK
  <2>3. soonest \in Nat /\ soonest <= due /\ due <= delay + 1
    BY <1>1, <1>2, <1>5, <2>1, SpanIs
  <2>4. \A f \in Entry, n \in Nat : IsDue(f, n)' <=> IsDue(f, n) \/ (f = e /\ n = due)
    BY <1>7, <2>1
  <2> QED BY <1>1, <1>2, <2>2, <2>3, <2>4, PromiseKept
<1> QED BY <1>1, <1>8 DEF Turning, InTime

LEMMA DestroyEntryInsertsKeepsTime ==
  ASSUME Types, Turning, InTime, ~undefined, NEW r \in dying, NEW e \in Entry,
         NEW delay \in 0..MaxDelay, DestroyEntryInserts(r, e, delay)
  PROVE  Turning' /\ InTime'
<1>1. /\ pc = "tick" /\ at = 0 /\ dying' = dying \ {r} /\ delay \in Nat
      /\ UNCHANGED <<tickCounter, pc, at>>
  BY WheelAssumption DEF DestroyEntryInserts
<1>2. PICK i \in Wheel :
        /\ InsertEntryInLoop(i, e, delay)
        /\ undefined' = (i = 0 /\ BucketFor(i, delay) = 1)
        /\ Promise(e, delay, IF ~Spanned(delay) \/ (i > 0 /\ Digit(0) = 0) THEN 0 ELSE delay)
  BY DEF DestroyEntryInserts
<1>3. PICK q \in Ref(i), b \in 1..BucketNum :
        /\ q.id = e /\ q.way = WayFor(i, delay) /\ b = BucketFor(i, delay) /\ Put(i, b, q)
  BY <1>2, InsertPuts DEF Types
<1>4. Turning'
  <2>1. 0 \in Wheel /\ 1 \in 1..BucketNum /\ Filled(wheels)
    BY SomeWheels, WheelAssumption DEF Wheel, Types, Placed
  <2>2. ASSUME ~undefined' PROVE wheels'[0][1] = wheels[0][1]
    <3>1. ~(0 = i /\ 1 = b)
      BY <1>2, <1>3, <2>2
    <3>2. \A k \in Wheel, j \in 1..BucketNum :
            wheels'[k][j] = IF k = i /\ j = b THEN wheels[k][j] \union {q} ELSE wheels[k][j]
      BY <1>3, <2>1, PutFills
    <3> QED BY <2>1, <3>1, <3>2
  <2> QED BY <1>1, <2>2 DEF Turning
<1>5. PICK due \in Nat : due = TicksTo(i, b) + Journey(q.way)[i]
  <2>1. i \in Nat /\ q.way \in Way(i)
    BY SomeWheels DEF Wheel, Ref
  <2>2. Journey(q.way)[i] \in Nat
    BY <2>1, JourneyIs
  <2> QED BY <2>2, TicksToTypes
<1>6. PICK p \in Nat \ {0}, t \in Nat, m \in Nat :
        /\ p = Power[i] /\ t = tickCounter % Power[i] /\ t < p /\ m = Journey(q.way)[i]
        /\ i \in Nat /\ tickCounter \in Nat
  <2>1. i \in Nat /\ q.way \in Way(i)
    BY SomeWheels DEF Wheel, Ref
  <2>2. Journey(q.way)[i] \in Nat
    BY <2>1, JourneyIs
  <2> QED BY <2>2, CounterTypes
<1>7. /\ DueAt(i, delay) = (b * p) - t + m /\ DueAt(i, delay) \in Nat
      /\ DueAt(i, delay) <= delay + 1
      /\ Spanned(delay) => DueAt(i, delay) = delay + 1
  <2>1. DueAt(i, delay) = (b * p) - t + m
    BY <1>3, <1>6 DEF DueAt
  <2>2. /\ DueAt(i, delay) \in Nat /\ DueAt(i, delay) <= delay + 1
        /\ DueAt(i, delay) >= IF Spanned(delay) THEN delay + 1 ELSE CutShort
    BY <1>1, <1>2, InsertedDue DEF InsertEntryInLoop
  <2>3. ASSUME Spanned(delay) PROVE DueAt(i, delay) = delay + 1
    <3>1. DueAt(i, delay) >= delay + 1
      BY <2>2, <2>3
    <3> QED BY <1>1, <2>2, <3>1
  <2> QED BY <2>1, <2>2, <2>3
<1>8. /\ t = 0 => due = DueAt(i, delay) - p
      /\ t # 0 => due = DueAt(i, delay)
  <2>1. i >= at
    BY <1>1, <1>6
  <2>2. TicksTo(i, b) = IF t = 0 THEN (b - 1) * p ELSE (b * p) - t
    BY <1>1, <1>6, <2>1 DEF TicksTo
  <2>3. (b - 1) * p = (b * p) - p /\ b * p \in Int
    BY WheelAssumption
  <2> QED BY <1>5, <1>6, <1>7, <2>2, <2>3
<1>9. due <= delay + 1
  BY <1>1, <1>6, <1>7, <1>8
<1>10. ASSUME Spanned(delay), i = 0 \/ Digit(0) # 0 PROVE delay <= due
  <2>1. CASE i = 0
    <3>1. p = 1 /\ t = 0
      BY <1>6, <2>1, PowerIs
    <3> QED BY <1>1, <1>7, <1>8, <1>10, <3>1
  <2>2. CASE i # 0
    <3>1. tickCounter % Power[0 + 1] # 0
      BY <1>6, <1>10, <2>2, LowerRemainder
    <3>2. tickCounter % Power[1] # 0 /\ i >= 1
      BY <1>6, <2>2, <3>1
    <3>3. t # 0
      BY <1>6, <3>2, HigherRemainders
    <3> QED BY <1>1, <1>7, <1>8, <1>10, <3>3
  <2> QED BY <2>1, <2>2
<1>11. PICK soonest \in Nat : soonest <= due /\ Promise(e, delay, soonest)
  <2>1. CASE ~Spanned(delay) \/ (i > 0 /\ Digit(0) = 0)
    BY <1>2, <2>1
  <2>2. CASE ~(~Spanned(delay) \/ (i > 0 /\ Digit(0) = 0))
    <3>1. i = 0 \/ Digit(0) # 0
      BY <1>6, <2>2
    <3> QED BY <1>1, <1>2, <1>10, <2>2, <3>1
  <2> QED BY <2>1, <2>2
<1>12. ASSUME NEW f \in Entry, NEW n \in Nat
       PROVE  /\ IsDue(f, n)' => IsDue(f, n) \/ (f = e /\ n = due)
              /\ IsDue(f, n) /\ n >= 1 => IsDue(f, n)'
              /\ f = e /\ n = due => IsDue(f, n)'
  <2>1. (\E k \in Wheel, j \in 1..BucketNum : DueIn(k, j, f, n)')
          <=> \/ \E k \in Wheel, j \in 1..BucketNum : DueIn(k, j, f, n)
              \/ q.id = f /\ n = TicksTo(i, b) + Journey(q.way)[i]
    BY <1>1, <1>3, PutDues
  <2>2. DueDying(f, n)' => DueDying(f, n)
    BY <1>1 DEF DueDying
  <2>3. DueDying(f, n) => n = 0
    BY <1>1, DueNow
  <2> QED BY <1>3, <1>5, <2>1, <2>2, <2>3 DEF IsDue
<1>13. OnTime'
  <2>1. OnTime /\ earliest \in [Entry -> Nat] /\ latest \in [Entry -> Nat]
    BY <1>1 DEF InTime, Types, TypeOK
  <2>2. /\ IsDue(e, due)'
        /\ \A f \in Entry, n \in Nat : IsDue(f, n)' => IsDue(f, n) \/ (f = e /\ n = due)
        /\ \A f \in Entry, n \in Nat : IsDue(f, n) /\ n >= 1 => IsDue(f, n)'
    BY <1>12
  <2> QED BY <1>1, <1>9, <1>11, <2>1, <2>2, PromiseKept
<1> QED BY <1>4, <1>13 DEF InTime

LEMMA TimeInitially == Init => Turning /\ InTime
BY DEF Init, Turning, InTime, OnTime, IsDue, DueDying, DueIn

LEMMA TimeInductive == Types /\ Turning /\ InTime /\ [Next]_vars => Turning' /\ InTime'
<1> SUFFICES ASSUME Types, Turning, InTime, [Next]_vars
             PROVE  Turning' /\ InTime'
  OBVIOUS
<1>1. CASE UNCHANGED vars
  <2>1. UNCHANGED <<wheels, tickCounter, pc, at, dying, undefined, earliest, latest>>
    BY <1>1 DEF vars, wheelVars, historyVars
  <2> QED BY <2>1 DEF Turning, InTime, OnTime, IsDue, DueDying, DueIn, TicksTo
<1>2. CASE Destroy \/ ClearReturns
  <2>1. pc' \in {"clear", "gone"}
    BY <1>2 DEF Destroy, ClearReturns, Clear
  <2> QED BY <2>1 DEF Turning, InTime
<1>3. ASSUME NEW r \in dying, DestroyEntryInsertsLate(r) PROVE Turning' /\ InTime'
  <2>1. pc' = "clear"
    BY <1>3 DEF DestroyEntryInsertsLate
  <2> QED BY <2>1 DEF Turning, InTime
<1>4. CASE Next
  <2>1. ~undefined
    BY <1>4 DEF Next
  <2> QED BY <1>2, <1>3, <1>4, <2>1, TickKeepsTime, PopFrontReturnsKeepsTime,
             InsertEntryKeepsTime, DestroyDelayEntryKeepsTime, DestroyReferenceKeepsTime,
             DestroyEntryInsertsKeepsTime DEF Next
<1> QED BY <1>1, <1>4

(* Between two ticks, what is alive has a reference that is yet to be due,  *)
(* and what must live has one.                                             *)
LEMMA TimeSuffices == Types /\ Turning /\ InTime => ReleasedOnTime
<1> SUFFICES ASSUME Types, Turning, InTime, pc = "idle", ~undefined, NEW e \in Entry
             PROVE  IF Alive(e) THEN latest[e] > 0 ELSE earliest[e] = 0
  BY DEF ReleasedOnTime
<1>1. OnTime /\ dying = {} /\ earliest[e] \in Nat /\ latest[e] \in Nat
  BY DEF InTime, Turning, Types, TypeOK
<1>2. CASE Alive(e)
  <2>1. PICK r \in References : r.id = e
    BY <1>2 DEF Alive, CopiesOf
  <2>2. PICK i \in Wheel, j \in 1..BucketNum : r \in wheels[i][j]
    BY <1>1 DEF References, Contents
  <2>3. TicksTo(i, j) \in Nat /\ TicksTo(i, j) >= 1 /\ Journey(r.way)[i] \in Nat
    BY <2>2, TicksToTypes, WayIn
  <2>4. PICK n \in Nat : n = TicksTo(i, j) + Journey(r.way)[i] /\ n >= 1
    BY <2>3
  <2>5. IsDue(e, n)
    BY <2>1, <2>2, <2>4 DEF IsDue, DueIn
  <2>6. n <= latest[e]
    BY <1>1, <2>5 DEF OnTime
  <2> QED BY <1>1, <1>2, <2>4, <2>6
<1>3. CASE ~Alive(e)
  <2>1. ASSUME NEW n \in Nat, IsDue(e, n) PROVE FALSE
    <3>1. PICK i \in Wheel, j \in 1..BucketNum : DueIn(i, j, e, n)
      BY <1>1, <2>1 DEF IsDue, DueDying
    <3>2. PICK r \in wheels[i][j] : r.id = e
      BY <3>1 DEF DueIn
    <3>3. r \in References
      BY DEF References, Contents
    <3> QED BY <1>3, <3>2, <3>3 DEF Alive, CopiesOf
  <2>2. ~(earliest[e] > 0)
    BY <1>1, <2>1 DEF OnTime
  <2> QED BY <1>1, <1>3, <2>2
<1> QED BY <1>2, <1>3

(* An entry is destroyed in the tick after the longest of its delays, in    *)
(* whatever wheels its references were put and however those stood          *)
(* (timer_wheel.cpp:85-115).                                               *)
THEOREM ReleasedInTime == Spec => []ReleasedOnTime
BY TypesInitially, TypesInductive, TimeInitially, TimeInductive, TimeSuffices, PTL DEF Spec

-----------------------------------------------------------------------------
(* The destructor. *)

(* The wheels that were cleared stay empty, since a DelayEntry inserts into *)
(* the wheel below its own, which is cleared after it.                     *)
ClearedStayEmpty ==
  /\ wheels = [i \in Wheel |-> wheels[i]]
  /\ at \in Wheel
  /\ pc = "clear" => \A i \in Wheel : i >= at => Contents(i) = {}
  /\ pc = "gone" => dying = {} /\ \A i \in Wheel : Contents(i) = {}

LEMMA Initially == Init => ClearedStayEmpty
BY SomeWheels DEF Init, ClearedStayEmpty, Wheel

(* A wheel other than i keeps its contents. *)
LEMMA OthersKept ==
  ASSUME NEW i \in Wheel, NEW k \in Wheel, k # i, NEW ws,
         wheels = [n \in Wheel |-> wheels[n]],
         wheels' = [wheels EXCEPT ![i] = ws]
  PROVE  Contents(k)' = Contents(k)
<1>1. wheels'[k] = wheels[k]
  OBVIOUS
<1> QED BY <1>1 DEF Contents

LEMMA PutKeepsShape ==
  ASSUME NEW i \in Wheel, NEW bucket, NEW r,
         wheels = [n \in Wheel |-> wheels[n]],
         Put(i, bucket, r)
  PROVE  /\ wheels' = [n \in Wheel |-> wheels'[n]]
         /\ wheels' = [wheels EXCEPT ![i] = [wheels[i] EXCEPT ![bucket] = @ \union {r}]]
BY DEF Put

(* pop_front and the turn before it happen in the callback of the timer. *)
LEMMA PopFrontKeepsShape ==
  ASSUME NEW i \in Wheel, NEW ws, ws = [n \in Wheel |-> ws[n]], PopFront(i, ws)
  PROVE  wheels' = [n \in Wheel |-> wheels'[n]] /\ at' \in Wheel
BY DEF PopFront

LEMMA ClearEmpties ==
  ASSUME NEW i \in Wheel, ClearedStayEmpty, Clear(i),
         \A k \in Wheel : k > i => Contents(k) = {}
  PROVE  ClearedStayEmpty'
<1>1. /\ wheels' = [wheels EXCEPT ![i] = [j \in 1..BucketNum |-> {}]]
      /\ at' = i /\ pc' = "clear"
  BY DEF Clear
<1>2. wheels = [n \in Wheel |-> wheels[n]]
  BY DEF ClearedStayEmpty
<1>3. Contents(i)' = {}
  <2>1. wheels'[i] = [j \in 1..BucketNum |-> {}]
    BY <1>1, <1>2
  <2> QED BY <2>1 DEF Contents
<1>4. ASSUME NEW k \in Wheel, k >= i PROVE Contents(k)' = {}
  <2>1. CASE k = i
    BY <2>1, <1>3
  <2>2. CASE k # i
    <3>1. k > i
      BY <1>4, <2>2, SomeWheels DEF Wheel
    <3> QED BY <3>1, <2>2, <1>1, <1>2, OthersKept
  <2> QED BY <2>1, <2>2
<1>5. wheels' = [n \in Wheel |-> wheels'[n]]
  BY <1>1, <1>2
<1> QED BY <1>1, <1>4, <1>5 DEF ClearedStayEmpty

LEMMA Inductive == ClearedStayEmpty /\ [Next]_vars => ClearedStayEmpty'
<1> SUFFICES ASSUME ClearedStayEmpty, [Next]_vars
             PROVE  ClearedStayEmpty'
  OBVIOUS
<1>1. wheels = [n \in Wheel |-> wheels[n]] /\ at \in Wheel
  BY DEF ClearedStayEmpty
<1>2. 0 \in Wheel
  BY SomeWheels DEF Wheel
<1>3. CASE Tick
  <2>1. pc' = "tick" /\ PopFront(0, wheels)
    BY <1>3 DEF Tick
  <2> QED BY <2>1, <1>1, <1>2, PopFrontKeepsShape DEF ClearedStayEmpty
<1>4. CASE PopFrontReturns
  <2>1. Turned(at) = [n \in Wheel |-> Turned(at)[n]]
    BY <1>1 DEF Turned
  <2>2. pc' \in {"tick", "idle"}
    BY <1>4 DEF PopFrontReturns
  <2>3. CASE at + 1 \in Wheel /\ tickCounter % Power[at + 1] = 0
    <3>1. PopFront(at + 1, Turned(at))
      BY <1>4, <2>3 DEF PopFrontReturns
    <3> QED BY <3>1, <2>1, <2>2, <2>3, PopFrontKeepsShape DEF ClearedStayEmpty
  <2>4. CASE ~(at + 1 \in Wheel /\ tickCounter % Power[at + 1] = 0)
    <3>1. wheels' = Turned(at) /\ at' = at
      BY <1>4, <2>4 DEF PopFrontReturns
    <3> QED BY <3>1, <2>1, <2>2, <1>1 DEF ClearedStayEmpty
  <2> QED BY <2>3, <2>4
<1>5. CASE Destroy
  <2>1. ClearOrder[1] = WheelsNum - 1
    BY SomeWheels DEF ClearOrder
  <2>2. WheelsNum - 1 \in Wheel /\ \A k \in Wheel : ~(k > WheelsNum - 1)
    BY SomeWheels DEF Wheel
  <2>3. Clear(WheelsNum - 1)
    BY <1>5, <2>1 DEF Destroy
  <2> QED BY <2>2, <2>3, ClearEmpties
<1>6. CASE ClearReturns
  <2>1. PICK n \in 1..WheelsNum :
          /\ at = ClearOrder[n]
          /\ \/ n < WheelsNum /\ Clear(ClearOrder[n + 1])
             \/ /\ n = WheelsNum /\ pc' = "gone"
                /\ UNCHANGED <<wheels, tickCounter, at, dying, undefined, historyVars>>
    BY <1>6 DEF ClearReturns
  <2>2. pc = "clear" /\ dying = {}
    BY <1>6 DEF ClearReturns
  <2>3. at = WheelsNum - n
    BY <2>1 DEF ClearOrder
  <2>4. CASE n < WheelsNum
    <3>1. ClearOrder[n + 1] = at - 1 /\ at - 1 \in Wheel
      BY <2>3, <2>4, SomeWheels DEF ClearOrder, Wheel
    <3>2. Clear(at - 1)
      BY <2>1, <2>4, <3>1
    <3>3. ASSUME NEW k \in Wheel, k > at - 1 PROVE Contents(k) = {}
      <4>1. k >= at
        BY <3>3, <1>1, SomeWheels DEF Wheel
      <4> QED BY <4>1, <2>2 DEF ClearedStayEmpty
    <3> QED BY <3>1, <3>2, <3>3, ClearEmpties
  <2>5. CASE ~(n < WheelsNum)
    <3>1. n = WheelsNum /\ pc' = "gone" /\ UNCHANGED <<wheels, at, dying>>
      BY <2>1, <2>5
    <3>2. at = 0
      BY <2>3, <3>1, SomeWheels
    <3>3. \A k \in Wheel : k >= at
      BY <3>2, SomeWheels DEF Wheel
    <3> QED BY <1>1, <2>2, <3>1, <3>3 DEF ClearedStayEmpty, Contents
  <2> QED BY <2>4, <2>5
<1>7. CASE \E e \in Entry, delay \in 0..MaxDelay : InsertEntry(e, delay)
  <2>1. PICK e \in Entry, delay \in 0..MaxDelay : InsertEntry(e, delay)
    BY <1>7
  <2>2. pc = "idle" /\ pc' = pc /\ at' = at
    BY <2>1 DEF InsertEntry
  <2>3. PICK i \in Wheel : InsertEntryInLoop(i, e, delay)
    BY <2>1 DEF InsertEntry
  <2>4. wheels' = [n \in Wheel |-> wheels'[n]]
    BY <2>3, <1>1, PutKeepsShape DEF InsertEntryInLoop
  <2> QED BY <1>1, <2>2, <2>4 DEF ClearedStayEmpty
<1>8. ASSUME NEW r \in dying, DestroyDelayEntry(r) PROVE ClearedStayEmpty'
  <2>1. pc # "gone" /\ pc' = pc /\ at' = at
    BY <1>8 DEF DestroyDelayEntry, ClearedStayEmpty
  <2>2. at - 1 \in Wheel
    BY <1>8, <1>1, SomeWheels DEF DestroyDelayEntry, Wheel
  <2>3. PICK ws : wheels' = [wheels EXCEPT ![at - 1] = ws]
    BY <1>8, <1>1, <2>2, PutKeepsShape DEF DestroyDelayEntry
  <2>4. wheels' = [n \in Wheel |-> wheels'[n]]
    BY <1>1, <2>3
  <2>5. ASSUME pc = "clear", NEW k \in Wheel, k >= at PROVE Contents(k)' = {}
    <3>1. k # at - 1
      BY <2>5, <1>1, SomeWheels DEF Wheel
    <3>2. Contents(k)' = Contents(k)
      BY <3>1, <2>2, <2>3, <1>1, OthersKept
    <3> QED BY <3>2, <2>5 DEF ClearedStayEmpty
  <2> QED BY <1>1, <2>1, <2>4, <2>5 DEF ClearedStayEmpty
<1>9. ASSUME NEW r \in dying, DestroyReference(r) \/ DestroyEntryInsertsLate(r)
      PROVE  ClearedStayEmpty'
  <2>1. pc # "gone" /\ UNCHANGED <<wheels, pc, at>>
    BY <1>9 DEF DestroyReference, DestroyEntryInsertsLate, ClearedStayEmpty
  <2> QED BY <2>1 DEF ClearedStayEmpty, Contents
<1>10. ASSUME NEW r \in dying, NEW e \in Entry, NEW delay \in 0..MaxDelay,
              DestroyEntryInserts(r, e, delay)
       PROVE  ClearedStayEmpty'
  <2>1. pc = "tick" /\ pc' = pc /\ at' = at
    BY <1>10 DEF DestroyEntryInserts
  <2>2. PICK i \in Wheel : InsertEntryInLoop(i, e, delay)
    BY <1>10 DEF DestroyEntryInserts
  <2>3. wheels' = [n \in Wheel |-> wheels'[n]]
    BY <2>2, <1>1, PutKeepsShape DEF InsertEntryInLoop
  <2> QED BY <1>1, <2>1, <2>3 DEF ClearedStayEmpty
<1>11. CASE UNCHANGED vars
  BY <1>11 DEF ClearedStayEmpty, Contents, vars, wheelVars
<1> QED BY <1>3, <1>4, <1>5, <1>6, <1>7, <1>8, <1>9, <1>10, <1>11 DEF Next

(* The destructor destroys every entry, unless one of theirs inserts an     *)
(* entry meanwhile, which is undefined (timer_wheel.cpp:55-64).             *)
THEOREM DestructorReleasesAll == Spec => []NoneOutlivesWheels
<1>1. ClearedStayEmpty => NoneOutlivesWheels
  BY DEF ClearedStayEmpty, NoneOutlivesWheels, Alive, CopiesOf, References
<1> QED BY Initially, Inductive, <1>1, PTL DEF Spec
================================================================================
