----------------------------- MODULE TextProofs -----------------------------
(***************************************************************************)
(* What the functions of StringCodec and FileText do with every input, and *)
(* so what holds of every input the application of MCTexts builds.         *)
(*                                                                         *)
(* The functions are recursive over the positions of a text.  A CHOOSE of  *)
(* a recursive function is one only where such a function exists: that is  *)
(* Recursion, proved once.  What it computes is then proved by induction   *)
(* over the numbers, which follows from their being well founded:          *)
(* Induction, on sets of numbers rather than on operators.                 *)
(*                                                                         *)
(* Texts: where each string starts in the joined text (Layout), so that    *)
(* Find, from there, comes to the separator after it (PiecesOfJoin).       *)
(* Sizes: what each unit leaves is less than the unit (Amounts), and what  *)
(* is printed of each adds up (PartsOfSize).                               *)
(***************************************************************************)
EXTENDS MCTexts, WellFoundedInduction, SequenceTheorems, FiniteSetTheorems, TLAPS

-----------------------------------------------------------------------------
(* Numbers *)

\* A set of numbers that is not empty has a least one.
LEMMA LeastNumber ==
  ASSUME NEW S \in SUBSET Nat, S # {}
  PROVE  \E m \in S : \A k \in S : m <= k
  <1> DEFINE R == OpToRel(<, Nat)
  <1>1. IsWellFoundedOn(R, Nat)
    BY NatLessThanWellFounded
  <1>2. \A k, m \in Nat : k < m => <<k, m>> \in R
    BY DEF OpToRel
  <1> HIDE DEF R
  <1>3. PICK m \in S : \A k \in S : <<k, m>> \notin R
    BY <1>1, WFMin
  <1>4. ASSUME NEW k \in S  PROVE m <= k
    <2>1. k \in Nat /\ m \in Nat
      OBVIOUS
    <2>2. ~ (k < m)
      BY <2>1, <1>2, <1>3
    <2> QED  BY <2>1, <2>2
  <1> QED  BY <1>4

\* A set of numbers that holds 0, and with each number the next, holds them all.
LEMMA Induction ==
  ASSUME NEW S, 0 \in S, \A n \in Nat : n \in S => n + 1 \in S
  PROVE  Nat \subseteq S
  <1> SUFFICES ASSUME Nat \ S # {}  PROVE FALSE
    OBVIOUS
  <1>1. PICK m \in Nat \ S : \A k \in Nat \ S : m <= k
    BY LeastNumber
  <1>2. m # 0 /\ m - 1 \in Nat /\ m - 1 \in S
    BY <1>1
  <1> QED  BY <1>1, <1>2

-----------------------------------------------------------------------------
(* Sizes *)

\* The units are the first powers of the kilobyte.
LEMMA Units ==
  /\ unit[0] = 1 /\ unit[1] = KILOBYTE
  /\ unit[2] = KILOBYTE * KILOBYTE /\ unit[3] = KILOBYTE * (KILOBYTE * KILOBYTE)
  <1> DEFINE D(g) == [u \in 0 .. 3 |-> IF u = 0 THEN 1 ELSE KILOBYTE * g[u - 1]]
             g0 == [u \in 0 .. 3 |->
                      IF u = 0 THEN 1 ELSE IF u = 1 THEN KILOBYTE
                      ELSE IF u = 2 THEN KILOBYTE * KILOBYTE
                      ELSE KILOBYTE * (KILOBYTE * KILOBYTE)]
  <1>1. KILOBYTE \in Nat
    BY KilobyteAssumption
  <1>2. g0 = D(g0)
    BY <1>1
  <1>3. unit = D(unit)
    <2>1. unit = CHOOSE g : g = D(g)
      BY DEF unit
    <2> HIDE DEF D, g0
    <2> QED  BY <1>2, <2>1
  <1>4. \A u \in 0 .. 3 : unit[u] = IF u = 0 THEN 1 ELSE KILOBYTE * unit[u - 1]
    BY <1>3
  <1>5. unit[0] = 1 /\ unit[1] = KILOBYTE * unit[0] /\ unit[2] = KILOBYTE * unit[1]
        /\ unit[3] = KILOBYTE * unit[2]
    BY <1>4
  <1> QED  BY <1>1, <1>5

\* What \div and % are.
LEMMA Division ==
  ASSUME NEW n \in Nat, NEW d \in Nat \ {0}
  PROVE  /\ n \div d \in Nat /\ n % d \in Nat /\ n % d < d
         /\ n = ((n \div d) * d) + (n % d)
  OBVIOUS

\* The remainder of a number is the one smaller than the divisor.
LEMMA Remainder ==
  ASSUME NEW d \in Nat \ {0}, NEW q \in Nat, NEW r \in Nat, r < d
  PROVE  (q * d + r) % d = r
  OBVIOUS

\* A product of numbers is a number.
LEMMA ProductOfNats ==
  ASSUME NEW x \in Nat, NEW y \in Nat
  PROVE  x * y \in Nat /\ (x = 0 => x * y = 0)
  OBVIOUS

\* A multiple of the divisor does not change the remainder.
LEMMA RemainderOf ==
  ASSUME NEW d \in Nat \ {0}, NEW q \in Nat, NEW n \in Nat
  PROVE  (q * d + n) % d = n % d
  <1> DEFINE a == n \div d
             r == n % d
  <1>1. a \in Nat /\ r \in Nat /\ r < d /\ n = a * d + r
    BY Division
  <1> HIDE DEF a, r
  <1>2. q * d + n = (q + a) * d + r
    BY <1>1
  <1>3. ((q + a) * d + r) % d = r
    BY <1>1, Remainder
  <1> QED  BY <1>2, <1>3 DEF r

\* An int holds a number that is not too large.
LEMMA IntHolds ==
  ASSUME NEW n \in Nat, n <= INT_MAX
  PROVE  AsInt(n) = n
  <1> DEFINE m == INT_MAX + 1
             d == 2 * m
             r == n + m
  <1>1. m \in Nat /\ m > n
    BY IntAssumption
  <1>2. AsInt(n) = (r % d) - m
    <2>1. n + INT_MAX + 1 = r
      BY IntAssumption
    <2> QED  BY <2>1 DEF AsInt
  <1> HIDE DEF m
  <1>3. d \in Nat \ {0} /\ r \in Nat /\ r < d /\ 0 \in Nat
    BY <1>1
  <1>4. 0 * d + r = r
    BY <1>3
  <1>5. (0 * d + r) % d = r
    <2> HIDE DEF d, r
    <2> QED  BY <1>3, Remainder
  <1>6. r - m = n
    BY <1>1
  <1> HIDE DEF d, r
  <1> QED  BY <1>2, <1>4, <1>5, <1>6

\* A quotient is no larger than what is divided.
LEMMA SmallQuotient ==
  ASSUME NEW n \in Nat, NEW d \in Nat \ {0}
  PROVE  n \div d <= n
  <1> DEFINE q == n \div d
             r == n % d
  <1>1. q \in Nat /\ r \in Nat /\ n = (q * d) + r
    BY Division
  <1> HIDE DEF q, r
  <1>2. q <= q * d /\ q * d \in Nat
    <2>1. PICK e \in Nat : d = e + 1
      <3>1. d - 1 \in Nat /\ d = (d - 1) + 1
        OBVIOUS
      <3> QED  BY <3>1
    <2>2. q * d = (q * e) + q
      BY <1>1, <2>1
    <2>3. q * e \in Nat
      BY <1>1, ProductOfNats
    <2> DEFINE p == q * e
    <2> HIDE DEF p
    <2>4. q * d = p + q /\ p \in Nat
      BY <2>2, <2>3 DEF p
    <2> QED  BY <1>1, <2>4
  <1> DEFINE p == q * d
  <1>3. p \in Nat /\ q <= p /\ n = p + r
    BY <1>1, <1>2
  <1> HIDE DEF p
  <1>4. q <= n
    BY <1>1, <1>3
  <1> QED  BY <1>4 DEF q

\* What pretty_size does for the unit u when n is left.
Left(l, u, cut) ==
    IF l.rest > u /\ ~ (cut /\ l.written)
    THEN [rest |-> l.rest % u, written |-> TRUE]
    ELSE l

\* The amounts that are printed, one unit after the other.
LEMMA Amounts ==
  ASSUME NEW n \in Nat, NEW cut \in BOOLEAN
  PROVE  LET l4 == [rest |-> n, written |-> FALSE]
             l3 == Left(l4, unit[3], cut)
             l2 == Left(l3, unit[2], cut)
             l1 == Left(l2, unit[1], cut)
             l0 == Left(l1, unit[0], cut)
             a  == pretty_size(n, cut) IN
         /\ a[3] = IF l3 = l4 THEN 0 ELSE AsInt(l4.rest \div unit[3])
         /\ a[2] = IF l2 = l3 THEN 0 ELSE AsInt(l3.rest \div unit[2])
         /\ a[1] = IF l1 = l2 THEN 0 ELSE AsInt(l2.rest \div unit[1])
         /\ a[0] = IF l0 = l1 THEN 0 ELSE AsInt(l1.rest \div unit[0])
  <1> DEFINE l4 == [rest |-> n, written |-> FALSE]
             l3 == Left(l4, unit[3], cut)
             l2 == Left(l3, unit[2], cut)
             l1 == Left(l2, unit[1], cut)
             l0 == Left(l1, unit[0], cut)
             D(g) == [i \in 0 .. 4 |->
                        IF i = 4 THEN [rest |-> n, written |-> FALSE]
                        ELSE Left(g[i + 1], unit[i], cut)]
             g0 == [i \in 0 .. 4 |-> IF i = 4 THEN l4 ELSE IF i = 3 THEN l3
                                     ELSE IF i = 2 THEN l2 ELSE IF i = 1 THEN l1 ELSE l0]
             left == CHOOSE g : g = D(g)
  <1>1. g0 = D(g0)
    <2> HIDE DEF l3, l2, l1, l0
    <2>1. l3 = Left(l4, unit[3], cut) /\ l2 = Left(l3, unit[2], cut)
          /\ l1 = Left(l2, unit[1], cut) /\ l0 = Left(l1, unit[0], cut)
      BY DEF l3, l2, l1, l0
    <2>2. \A i \in 0 .. 4 : g0[i] = D(g0)[i]
      BY <2>1
    <2> QED  BY <2>2
  <1>2. left = D(left)
    <2> HIDE DEF D, g0
    <2> QED  BY <1>1
  <1>3. pretty_size(n, cut) = [i \in 0 .. 3 |-> IF left[i] = left[i + 1] THEN 0
                                               ELSE AsInt(left[i + 1].rest \div unit[i])]
    BY DEF pretty_size, Left
  <1> HIDE DEF left
  <1>4. left[4] = l4
    BY <1>2, 4 \in 0 .. 4
  <1>5. \A i \in 0 .. 3 : left[i] = Left(left[i + 1], unit[i], cut)
    <2> TAKE i \in 0 .. 3
    <2>1. i \in 0 .. 4 /\ i # 4
      OBVIOUS
    <2> QED  BY <1>2, <2>1
  <1>6. left[3] = l3
    BY <1>4, <1>5
  <1>7. left[2] = l2
    BY <1>5, <1>6
  <1>8. left[1] = l1
    BY <1>5, <1>7
  <1>9. left[0] = l0
    BY <1>5, <1>8
  <1> HIDE DEF l4, l3, l2, l1, l0
  <1>10. \A i \in 0 .. 3 : pretty_size(n, cut)[i] = IF left[i] = left[i + 1] THEN 0
                                                   ELSE AsInt(left[i + 1].rest \div unit[i])
    BY <1>3
  <1> QED  BY <1>4, <1>6, <1>7, <1>8, <1>9, <1>10 DEF l4, l3, l2, l1, l0

\* What one unit takes away.
LEMMA LeftStep ==
  ASSUME NEW l \in [rest : Nat, written : BOOLEAN], NEW u \in Nat \ {0}, NEW cut \in BOOLEAN
  PROVE  LET m == Left(l, u, cut)
             a == IF m = l THEN 0 ELSE l.rest \div u IN
         /\ m \in [rest : Nat, written : BOOLEAN]
         /\ a \in Nat
         /\ l.rest = (a * u) + m.rest
         /\ ~ (cut /\ l.written) => m.rest <= u
         /\ l.written => m.written
         /\ cut /\ l.written => m = l
         /\ a # 0 => m.written /\ m.rest < u
         /\ l.rest <= u \/ (l.rest > u /\ ~ (cut /\ l.written) => m.rest < u)
  <1> DEFINE m == Left(l, u, cut)
             a == IF m = l THEN 0 ELSE l.rest \div u
  <1>1. CASE l.rest > u /\ ~ (cut /\ l.written)
    <2>1. m = [rest |-> l.rest % u, written |-> TRUE]
      BY <1>1 DEF Left
    <2>2. /\ l.rest \div u \in Nat /\ l.rest % u \in Nat /\ l.rest % u < u
          /\ l.rest = ((l.rest \div u) * u) + (l.rest % u)
      BY Division
    <2>3. m # l
      BY <1>1, <2>1, <2>2
    <2> QED  BY <1>1, <2>1, <2>2, <2>3
  <1>2. CASE ~ (l.rest > u /\ ~ (cut /\ l.written))
    <2>1. m = l
      BY <1>2 DEF Left
    <2>2. a = 0 /\ a * u = 0
      BY <2>1
    <2> QED  BY <1>2, <2>1, <2>2
  <1> QED  BY <1>1, <1>2

\* What is left before and after each unit is printed.
Parts(n, cut, a, r3, r2, r1, r0) ==
    /\ \A i \in 0 .. 3 : a[i] \in Nat
    /\ n = a[3] * unit[3] + r3 /\ r3 = a[2] * unit[2] + r2
    /\ r2 = a[1] * unit[1] + r1 /\ r1 = a[0] + r0
    /\ ~ cut => r1 <= KILOBYTE /\ r0 = IF r1 = 1 THEN 1 ELSE 0
    /\ cut => /\ a[3] # 0 => a[2] = 0 /\ a[1] = 0 /\ a[0] = 0 /\ r3 < unit[3]
              /\ a[2] # 0 => a[3] = 0 /\ a[1] = 0 /\ a[0] = 0 /\ r2 < unit[2]
              /\ a[1] # 0 => a[3] = 0 /\ a[2] = 0 /\ a[0] = 0 /\ r1 < unit[1]
              /\ a[0] # 0 => a[3] = 0 /\ a[2] = 0 /\ a[1] = 0 /\ r0 < unit[0]

\* Cut short, only one unit is printed.
LEMMA PartsOfSize ==
  ASSUME NEW n \in Nat, NEW cut \in BOOLEAN, n \div unit[3] <= INT_MAX
  PROVE  \E r3, r2, r1, r0 \in Nat : Parts(n, cut, pretty_size(n, cut), r3, r2, r1, r0)
  <1> DEFINE T  == [rest : Nat, written : BOOLEAN]
             l4 == [rest |-> n, written |-> FALSE]
             l3 == Left(l4, unit[3], cut)
             l2 == Left(l3, unit[2], cut)
             l1 == Left(l2, unit[1], cut)
             l0 == Left(l1, unit[0], cut)
             a3 == IF l3 = l4 THEN 0 ELSE l4.rest \div unit[3]
             a2 == IF l2 = l3 THEN 0 ELSE l3.rest \div unit[2]
             a1 == IF l1 = l2 THEN 0 ELSE l2.rest \div unit[1]
             a0 == IF l0 = l1 THEN 0 ELSE l1.rest \div unit[0]
             a  == pretty_size(n, cut)
  <1>1. /\ unit[0] = 1 /\ unit[1] = KILOBYTE
        /\ unit[0] \in Nat \ {0} /\ unit[1] \in Nat \ {0}
        /\ unit[2] \in Nat \ {0} /\ unit[3] \in Nat \ {0}
    BY KilobyteAssumption, Units
  <1>2. /\ a[3] = IF l3 = l4 THEN 0 ELSE AsInt(l4.rest \div unit[3])
        /\ a[2] = IF l2 = l3 THEN 0 ELSE AsInt(l3.rest \div unit[2])
        /\ a[1] = IF l1 = l2 THEN 0 ELSE AsInt(l2.rest \div unit[1])
        /\ a[0] = IF l0 = l1 THEN 0 ELSE AsInt(l1.rest \div unit[0])
    BY Amounts
  <1>units. /\ unit[3] <= INT_MAX /\ unit[2] <= INT_MAX /\ unit[1] <= INT_MAX
         /\ INT_MAX \in Nat
    <2> DEFINE K == KILOBYTE
               k == K * K
    <2>1. K \in Nat /\ K > 1 /\ INT_MAX \in Nat /\ K * k <= INT_MAX
      BY KilobyteAssumption, IntAssumption
    <2>2. unit[1] = K /\ unit[2] = k /\ unit[3] = K * k
      BY Units
    <2> HIDE DEF K
    <2>3. k \in Nat /\ K <= k
      BY <2>1
    <2> HIDE DEF k
    <2>4. K * k \in Nat /\ k <= K * k
      BY <2>1, <2>3
    <2> QED  BY <2>1, <2>2, <2>3, <2>4
  <1>3. l4 \in T /\ l4.rest = n /\ ~ l4.written
    OBVIOUS
  <1> HIDE DEF l4
  <1>4. /\ l3 \in T /\ a3 \in Nat /\ n = (a3 * unit[3]) + l3.rest
        /\ a3 # 0 => l3.written /\ l3.rest < unit[3]
        /\ l3.rest <= unit[3]
    <2>1. l4 \in [rest : Nat, written : BOOLEAN]
      BY <1>3
    <2> QED  BY <1>1, <1>3, <2>1, LeftStep
  <1>5. /\ l2 \in T /\ a2 \in Nat /\ l3.rest = (a2 * unit[2]) + l2.rest
        /\ cut /\ l3.written => l2 = l3
        /\ a2 # 0 => l2.written /\ l2.rest < unit[2]
        /\ ~ (cut /\ l3.written) => l2.rest <= unit[2]
        /\ l3.written => l2.written
    <2> HIDE DEF l3
    <2>1. l3 \in [rest : Nat, written : BOOLEAN]
      BY <1>4
    <2> QED  BY <1>1, <2>1, LeftStep
  <1>6. /\ l1 \in T /\ a1 \in Nat /\ l2.rest = (a1 * unit[1]) + l1.rest
        /\ ~ (cut /\ l2.written) => l1.rest <= unit[1]
        /\ l2.written => l1.written
        /\ cut /\ l2.written => l1 = l2
        /\ a1 # 0 => l1.written /\ l1.rest < unit[1]
    <2> HIDE DEF l2
    <2>1. l2 \in [rest : Nat, written : BOOLEAN]
      BY <1>5
    <2> QED  BY <1>1, <2>1, LeftStep
  <1>7. /\ l0 \in T /\ a0 \in Nat /\ l1.rest = (a0 * unit[0]) + l0.rest
        /\ cut /\ l1.written => l0 = l1
        /\ a0 # 0 => l0.written /\ l0.rest < unit[0]
        /\ ~ cut => /\ l0.rest <= unit[0]
                    /\ l1.rest <= unit[0] \/ l0.rest < unit[0]
        /\ l1.rest <= unit[0] => l0 = l1
    <2> HIDE DEF l1
    <2>1. l1 \in [rest : Nat, written : BOOLEAN] /\ l1.rest \in Nat
      BY <1>6
    <2>2. l1.rest <= unit[0] => l0 = l1
      BY <1>1, <2>1 DEF Left
    <2> QED  BY <1>1, <2>1, <2>2, LeftStep
  <1>fits. a[3] = a3 /\ a[2] = a2 /\ a[1] = a1 /\ a[0] = a0
    <2> HIDE DEF a, l3, l2, l1, l0
    <2>1. a[3] = a3
      <3>1. l4.rest \div unit[3] \in Nat
        BY <1>1, <1>3, Division
      <3> QED  BY <1>2, <1>3, <3>1, IntHolds
    <2>2. a[2] = a2
      <3>1. l3.rest \in Nat /\ l3.rest <= INT_MAX
        BY <1>1, <1>4, <1>units
      <3>2. l3.rest \div unit[2] \in Nat /\ l3.rest \div unit[2] <= l3.rest
        BY <1>1, <3>1, Division, SmallQuotient
      <3>3. l3.rest \div unit[2] <= INT_MAX
        BY <1>units, <3>1, <3>2
      <3> QED  BY <1>2, <3>2, <3>3, IntHolds
    <2>3. a[1] = a1
      <3>1. l1 # l2 => l2.rest \in Nat /\ l2.rest <= INT_MAX
        BY <1>1, <1>5, <1>6, <1>units
      <3>2. l1 # l2 => l2.rest \div unit[1] \in Nat /\ l2.rest \div unit[1] <= l2.rest
        BY <1>1, <3>1, Division, SmallQuotient
      <3>3. l1 # l2 => l2.rest \div unit[1] <= INT_MAX
        BY <1>units, <3>1, <3>2
      <3> QED  BY <1>2, <3>2, <3>3, IntHolds
    <2>4. a[0] = a0
      <3>1. l0 # l1 => l1.rest \in Nat /\ l1.rest <= INT_MAX
        BY <1>1, <1>6, <1>7, <1>units
      <3>2. l0 # l1 => l1.rest \div unit[0] \in Nat /\ l1.rest \div unit[0] <= l1.rest
        BY <1>1, <3>1, Division, SmallQuotient
      <3>3. l0 # l1 => l1.rest \div unit[0] <= INT_MAX
        BY <1>units, <3>1, <3>2
      <3> QED  BY <1>2, <3>2, <3>3, IntHolds
    <2> QED  BY <2>1, <2>2, <2>3, <2>4
  <1>8. cut /\ a3 # 0 => a2 = 0 /\ a1 = 0 /\ a0 = 0
    <2> HIDE DEF l3, l2, l1, l0
    <2> QED  BY <1>4, <1>5, <1>6, <1>7
  <1>9. cut /\ a2 # 0 => a1 = 0 /\ a0 = 0
    <2> HIDE DEF l3, l2, l1, l0
    <2> QED  BY <1>5, <1>6, <1>7
  <1>10. cut /\ a1 # 0 => a0 = 0
    <2> HIDE DEF l2, l1, l0
    <2> QED  BY <1>6, <1>7
  <1> HIDE DEF a, a0, a1, a2, a3, l3, l2, l1, l0
  <1>11. l3.rest \in Nat /\ l2.rest \in Nat /\ l1.rest \in Nat /\ l0.rest \in Nat
    BY <1>4, <1>5, <1>6, <1>7
  <1>12. a0 * unit[0] = a0
    BY <1>1, <1>7
  <1>13. ~ cut => l0.rest = IF l1.rest = 1 THEN 1 ELSE 0
    BY <1>1, <1>7, <1>11
  <1>14. \A i \in 0 .. 3 : a[i] \in Nat
    <2> TAKE i \in 0 .. 3
    <2>1. i = 0 \/ i = 1 \/ i = 2 \/ i = 3
      OBVIOUS
    <2> QED  BY <1>fits, <1>4, <1>5, <1>6, <1>7, <2>1
  <1> HIDE DEF T
  <1>15. Parts(n, cut, a, l3.rest, l2.rest, l1.rest, l0.rest)
    BY <1>1, <1>fits, <1>4, <1>5, <1>6, <1>7, <1>8, <1>9, <1>10, <1>12, <1>13, <1>14 DEF Parts
  <1> QED  BY <1>11, <1>15 DEF a

\* The number q * d, without its arithmetic.
Times(q, d) == q * d

\* It is the same with a multiple of the divisor more.
LEMMA SameRemainder ==
  \A d, q, n, m \in Nat : d > 1 /\ m = Times(q, d) + n => m % d = n % d
  <1> SUFFICES ASSUME NEW d \in Nat, NEW q \in Nat, NEW n \in Nat, NEW m \in Nat, d > 1,
                      m = Times(q, d) + n
               PROVE  m % d = n % d
    OBVIOUS
  <1>1. d \in Nat \ {0} /\ m = q * d + n
    BY DEF Times
  <1>2. (q * d + n) % d = n % d
    BY <1>1, RemainderOf
  <1> QED  BY <1>1, <1>2, Zenon

\* The amounts printed of any size, but for one whose gigabytes do not fit an int, add
\* up to it, but for one byte above whole kilobytes; and cut short they leave out less
\* than the unit of the only one (File::pretty_size).
THEOREM AllSizesAddUp == \A n \in Nat : SizeAddsUp(n)
  <1> SUFFICES ASSUME NEW n \in Nat, n \div unit[3] <= INT_MAX
               PROVE  /\ Total(pretty_size(n, FALSE)) = IF n % KILOBYTE = 1 THEN n - 1 ELSE n
                      /\ \A i \in 0 .. 3 :
                           pretty_size(n, TRUE)[i] # 0 =>
                               n - Total(pretty_size(n, TRUE)) \in 0 .. unit[i] - 1
    BY DEF SizeAddsUp
  <1> DEFINE K == KILOBYTE
             a == pretty_size(n, FALSE)
             c == pretty_size(n, TRUE)
  <1>1. K \in Nat /\ K > 1
    BY KilobyteAssumption
  <1>2. /\ unit[0] = 1 /\ unit[1] = K /\ unit[2] = K * K /\ unit[3] = K * (K * K)
        /\ unit[2] \in Nat /\ unit[3] \in Nat
    <2>1. K * K \in Nat /\ K * (K * K) \in Nat
      BY <1>1
    <2> QED  BY <2>1, Units
  <1>3. Total(a) = IF n % K = 1 THEN n - 1 ELSE n
    <2>1. PICK r3, r2, r1, r0 \in Nat : Parts(n, FALSE, a, r3, r2, r1, r0)
      BY PartsOfSize
    <2> HIDE DEF a
    <2>2. /\ a[0] \in Nat /\ a[1] \in Nat /\ a[2] \in Nat /\ a[3] \in Nat
          /\ n = a[3] * unit[3] + r3 /\ r3 = a[2] * unit[2] + r2
          /\ r2 = a[1] * unit[1] + r1 /\ r1 = a[0] + r0
          /\ r1 <= K /\ r0 = IF r1 = 1 THEN 1 ELSE 0
      BY <2>1 DEF Parts
    <2> HIDE DEF K
    <2>3. n % K = r1 % K
      <3> DEFINE q3 == a[3] * (K * K)
                 q2 == a[2] * K
                 q1 == a[1]
      <3>2. K * K \in Nat
        BY <1>1, ProductOfNats
      <3>3. q3 \in Nat /\ q2 \in Nat /\ q1 \in Nat
        BY <1>1, <2>2, <3>2, ProductOfNats
      <3>4. /\ a[3] * unit[3] = Times(q3, K) /\ a[2] * unit[2] = Times(q2, K)
            /\ a[1] * unit[1] = Times(q1, K)
        BY <1>1, <1>2, <2>2 DEF Times
      <3> HIDE DEF q3, q2, q1
      <3>5. n = Times(q3, K) + r3 /\ r3 = Times(q2, K) + r2 /\ r2 = Times(q1, K) + r1
        BY <2>2, <3>4, Zenon
      <3>6. r3 \in Nat /\ r2 \in Nat /\ r1 \in Nat
        OBVIOUS
      <3>7. n % K = r3 % K
        BY <1>1, <3>3, <3>5, <3>6, SameRemainder
      <3>8. r3 % K = r2 % K
        BY <1>1, <3>3, <3>5, <3>6, SameRemainder
      <3>9. r2 % K = r1 % K
        BY <1>1, <3>3, <3>5, <3>6, SameRemainder
      <3> QED  BY <3>7, <3>8, <3>9
    <2> DEFINE p == a[1] * K
               q == a[2] * (K * K)
               r == a[3] * (K * (K * K))
    <2>4. p \in Nat /\ q \in Nat /\ r \in Nat
      BY <1>1, <1>2, <2>2, ProductOfNats
    <2>5. Total(a) = a[0] + p + q + r
      BY <1>2 DEF Total
    <2>6. n = r + r3 /\ r3 = q + r2 /\ r2 = p + r1
      BY <1>2, <2>2
    <2>7. r1 % K = 1 <=> r1 = 1
      BY <1>1, <2>2
    <2> HIDE DEF p, q, r
    <2>8. Total(a) = n - r0
      BY <2>2, <2>4, <2>5, <2>6
    <2>9. n % K = 1 <=> r1 = 1
      BY <2>3, <2>7
    <2> QED  BY <2>2, <2>8, <2>9
  <1>4. ASSUME NEW i \in 0 .. 3, c[i] # 0
        PROVE  n - Total(c) \in 0 .. unit[i] - 1
    <2>1. PICK r3, r2, r1, r0 \in Nat : Parts(n, TRUE, c, r3, r2, r1, r0)
      BY PartsOfSize
    <2> HIDE DEF c
    <2>2. /\ c[0] \in Nat /\ c[1] \in Nat /\ c[2] \in Nat /\ c[3] \in Nat
          /\ n = c[3] * unit[3] + r3 /\ r3 = c[2] * unit[2] + r2
          /\ r2 = c[1] * unit[1] + r1 /\ r1 = c[0] + r0
          /\ c[3] # 0 => c[2] = 0 /\ c[1] = 0 /\ c[0] = 0 /\ r3 < unit[3]
          /\ c[2] # 0 => c[3] = 0 /\ c[1] = 0 /\ c[0] = 0 /\ r2 < unit[2]
          /\ c[1] # 0 => c[3] = 0 /\ c[2] = 0 /\ c[0] = 0 /\ r1 < unit[1]
          /\ c[0] # 0 => c[3] = 0 /\ c[2] = 0 /\ c[1] = 0 /\ r0 < unit[0]
      BY <2>1 DEF Parts
    <2> DEFINE p1 == c[1] * unit[1]
               p2 == c[2] * unit[2]
               p3 == c[3] * unit[3]
    <2>3. /\ unit[0] \in Nat /\ unit[1] \in Nat /\ unit[2] \in Nat /\ unit[3] \in Nat
      BY <1>1, <1>2
    <2>4. /\ p1 \in Nat /\ (c[1] = 0 => p1 = 0)
          /\ p2 \in Nat /\ (c[2] = 0 => p2 = 0)
          /\ p3 \in Nat /\ (c[3] = 0 => p3 = 0)
      BY <2>2, <2>3, ProductOfNats
    <2>5. Total(c) = c[0] + p1 + p2 + p3
      BY DEF Total
    <2>6. n = p3 + r3 /\ r3 = p2 + r2 /\ r2 = p1 + r1
      BY <2>2
    <2> HIDE DEF p1, p2, p3
    <2>7. n - Total(c) = r0
      BY <2>2, <2>4, <2>5, <2>6
    <2>8. r0 < unit[i]
      <3>1. i = 0 \/ i = 1 \/ i = 2 \/ i = 3
        OBVIOUS
      <3>2. r3 \in Nat /\ r2 \in Nat /\ r1 \in Nat /\ r0 \in Nat
        OBVIOUS
      <3>3. CASE c[3] # 0
        <4>1. i = 3
          BY <1>4, <2>2, <3>1, <3>3
        <4> QED  BY <2>2, <2>4, <2>6, <3>3, <4>1
      <3>4. CASE c[2] # 0
        <4>1. i = 2
          BY <1>4, <2>2, <3>1, <3>4
        <4> QED  BY <2>2, <2>4, <2>6, <3>4, <4>1
      <3>5. CASE c[1] # 0
        <4>1. i = 1
          BY <1>4, <2>2, <3>1, <3>5
        <4> QED  BY <2>2, <2>4, <2>6, <3>5, <4>1
      <3>6. CASE c[0] # 0
        <4>1. i = 0
          BY <1>4, <2>2, <3>1, <3>6
        <4> QED  BY <2>2, <2>4, <2>6, <3>6, <4>1
      <3> QED  BY <1>4, <3>1, <3>3, <3>4, <3>5, <3>6
    <2>9. unit[i] \in Nat
      <3>1. i = 0 \/ i = 1 \/ i = 2 \/ i = 3
        OBVIOUS
      <3> QED  BY <2>3, <3>1
    <2> QED  BY <2>7, <2>8, <2>9
  <1> QED  BY <1>3, <1>4

-----------------------------------------------------------------------------
(* Recursive functions *)

\* Each place of E leads by j to a place of D of a lower rank r.
Falls(D, V, E, b, j, F, M, r) ==
    /\ E \in SUBSET D /\ b \in [D -> V] /\ M \in Nat
    /\ j \in [E -> D] /\ F \in [E -> [V -> V]] /\ r \in [D -> 0 .. M]
    /\ \A d \in E : r[j[d]] < r[d]

\* A function follows, at the places E, from its value at that place, and is b
\* elsewhere.
Follows(D, V, E, b, j, F) ==
    \E g \in [D -> V] : \A d \in D : g[d] = IF d \in E THEN F[d][g[j[d]]] ELSE b[d]

\* Such a function exists.
LEMMA Recursion ==
  \A D, V, E, b, j, F, M, r : Falls(D, V, E, b, j, F, M, r) => Follows(D, V, E, b, j, F)
  <1> SUFFICES ASSUME NEW D, NEW V, NEW E, NEW b, NEW j, NEW F, NEW M, NEW r,
                      Falls(D, V, E, b, j, F, M, r)
               PROVE  Follows(D, V, E, b, j, F)
    OBVIOUS
  <1> USE DEF Falls, Follows
  <1> DEFINE Body(g, d) == IF d \in E THEN F[d][g[j[d]]] ELSE b[d]
             S == {k \in Nat : \E g \in [D -> V] : \A d \in D : r[d] < k => g[d] = Body(g, d)}
  <1>1. 0 \in S
    <2>1. b \in [D -> V]
      OBVIOUS
    <2>2. \A d \in D : ~ (r[d] < 0)
      OBVIOUS
    <2> QED  BY <2>1, <2>2
  <1>2. ASSUME NEW k \in Nat, k \in S  PROVE k + 1 \in S
    <2>1. PICK g \in [D -> V] : \A d \in D : r[d] < k => g[d] = Body(g, d)
      BY <1>2
    <2> DEFINE h == [d \in D |-> IF r[d] = k THEN Body(g, d) ELSE g[d]]
    <2>2. \A d \in D : Body(g, d) \in V
      OBVIOUS
    <2>3. h \in [D -> V]
      BY <2>2
    <2>4. \A d \in D : r[d] \in Nat
      OBVIOUS
    <2>5. ASSUME NEW d \in D, r[d] < k + 1  PROVE h[d] = Body(h, d)
      <3>1. h[d] = Body(g, d)
        <4> HIDE DEF Body
        <4> QED  BY <2>1, <2>4, <2>5
      <3>2. d \in E => h[j[d]] = g[j[d]]
        <4>1. d \in E => j[d] \in D /\ r[j[d]] < k
          BY <2>4, <2>5
        <4> HIDE DEF Body
        <4> QED  BY <2>4, <4>1
      <3> HIDE DEF h
      <3> QED  BY <3>1, <3>2
    <2> HIDE DEF h, Body
    <2> QED  BY <2>3, <2>5
  <1> HIDE DEF S
  <1>3. M + 1 \in S
    BY <1>1, <1>2, Induction
  <1>4. PICK g \in [D -> V] : \A d \in D : r[d] < M + 1 => g[d] = Body(g, d)
    BY <1>3 DEF S
  <1>5. \A d \in D : r[d] < M + 1
    OBVIOUS
  <1> QED  BY <1>4, <1>5

-----------------------------------------------------------------------------
(* Lists of strings *)

\* What Find finds is there.
LEMMA FindWorks ==
  ASSUME NEW t, Len(t) \in Nat, NEW c, NEW s \in Nat, s <= Len(t) + 1
  PROVE  /\ Find(t, c, s) \in s .. Len(t) + 1
         /\ Find(t, c, s) <= Len(t) => t[Find(t, c, s)] = c
         /\ \A i \in s .. Find(t, c, s) - 1 : t[i] # c
  <1> DEFINE L == Len(t)
             S == {e \in s .. L + 1 : e <= L => t[e] = c}
             P(e) == /\ e <= Len(t) => t[e] = c
                     /\ \A i \in s .. e - 1 : t[i] # c
  <1>1. L + 1 \in S /\ S \in SUBSET Nat
    OBVIOUS
  <1>2. PICK e \in S : \A k \in S : e <= k
    <2> HIDE DEF S
    <2> QED  BY <1>1, LeastNumber
  <1>3. ASSUME NEW i \in s .. e - 1  PROVE t[i] # c
    <2>1. i \in s .. L + 1 /\ ~ (e <= i)
      BY <1>1
    <2> QED  BY <1>2, <2>1
  <1>4. e \in s .. Len(t) + 1 /\ P(e)
    BY <1>3
  <1>5. Find(t, c, s) = CHOOSE x \in s .. Len(t) + 1 : P(x)
    BY DEF Find
  <1> HIDE DEF P
  <1>6. Find(t, c, s) \in s .. Len(t) + 1 /\ P(Find(t, c, s))
    BY <1>4, <1>5
  <1> QED  BY <1>6 DEF P

\* There is only one such place.
LEMMA FindIs ==
  ASSUME NEW t, Len(t) \in Nat, NEW c, NEW s \in Nat, NEW e \in s .. Len(t) + 1,
         e <= Len(t) => t[e] = c, \A i \in s .. e - 1 : t[i] # c
  PROVE  Find(t, c, s) = e
  <1> DEFINE f == Find(t, c, s)
  <1>1. /\ f \in s .. Len(t) + 1
        /\ f <= Len(t) => t[f] = c
        /\ \A i \in s .. f - 1 : t[i] # c
    BY FindWorks
  <1> HIDE DEF f
  <1>2. ~ (f < e)
    <2> SUFFICES ASSUME f < e  PROVE FALSE
      OBVIOUS
    <2>1. f \in s .. e - 1 /\ f <= Len(t)
      BY <1>1
    <2> QED  BY <1>1, <2>1
  <1>3. ~ (e < f)
    <2> SUFFICES ASSUME e < f  PROVE FALSE
      OBVIOUS
    <2>1. e \in s .. f - 1 /\ e <= Len(t)
      BY <1>1
    <2> QED  BY <1>1, <2>1
  <1>4. f = e
    BY <1>1, <1>2, <1>3
  <1> QED  BY <1>4 DEF f

\* How Join writes the strings one after the other.
LEMMA Joining ==
  ASSUME NEW T, NEW v \in Seq(Seq(T)), NEW sep \in T
  PROVE  \E u \in [0 .. Len(v) -> Seq(T)] :
            /\ u[0] = <<>>
            /\ \A n \in 1 .. Len(v) :
                  u[n] = u[n - 1] \o (IF n = 1 THEN <<>> ELSE <<sep>>) \o v[n]
            /\ Join(v, sep) = u[Len(v)]
  <1> DEFINE L == Len(v)
             W(n) == IF n = 1 THEN <<>> ELSE <<sep>>
             U(g) == [n \in 0 .. L |-> IF n = 0 THEN <<>> ELSE g[n - 1] \o W(n) \o v[n]]
             upto == CHOOSE g : g = U(g)
             j == [n \in 1 .. L |-> n - 1]
             F == [n \in 1 .. L |-> [x \in Seq(T) |-> x \o W(n) \o v[n]]]
             b == [d \in 0 .. L |-> <<>>]
             r == [n \in 0 .. L |-> n]
  <1>1. L \in Nat /\ \A n \in 1 .. L : v[n] \in Seq(T)
    BY ElementOfSeq, LenProperties
  <1>2. \A n \in 1 .. L : W(n) \in Seq(T)
    OBVIOUS
  <1>3. \A n \in 1 .. L : \A x \in Seq(T) : x \o W(n) \o v[n] \in Seq(T)
    <2> TAKE n \in 1 .. L
    <2> TAKE x \in Seq(T)
    <2> HIDE DEF W
    <2>1. x \o W(n) \in Seq(T)
      BY <1>2, ConcatProperties
    <2> QED  BY <1>1, <2>1, ConcatProperties
  <1> HIDE DEF W, L
  <1>4. F \in [1 .. L -> [Seq(T) -> Seq(T)]]
    BY <1>3
  <1>5. \E g \in [0 .. L -> Seq(T)] :
            \A n \in 0 .. L : g[n] = IF n \in 1 .. L THEN F[n][g[j[n]]] ELSE b[n]
    <2> DEFINE D == 0 .. L
    <2>1. 1 .. L \in SUBSET D
      BY <1>1
    <2>2. j \in [1 .. L -> D] /\ r \in [D -> 0 .. L] /\ F \in [1 .. L -> [Seq(T) -> Seq(T)]]
      BY <1>1, <1>4, <2>1
    <2>3. \A n \in 1 .. L : r[j[n]] < r[n]
      BY <1>1, <2>1
    <2>4. b \in [D -> Seq(T)] /\ L \in Nat
      BY <1>1
    <2> HIDE DEF F, b, j, r, D
    <2>5. Falls(D, Seq(T), 1 .. L, b, j, F, L, r)
      BY <2>1, <2>2, <2>3, <2>4 DEF Falls
    <2>6. Follows(D, Seq(T), 1 .. L, b, j, F)
      BY <2>5, Recursion
    <2> QED  BY <2>6 DEF Follows, D
  <1>6. PICK g \in [0 .. L -> Seq(T)] :
            \A n \in 0 .. L : g[n] = IF n \in 1 .. L THEN F[n][g[j[n]]] ELSE b[n]
    BY <1>5
  <1>7. ASSUME NEW n \in 1 .. L
        PROVE  F[n][g[j[n]]] = g[n - 1] \o W(n) \o v[n]
    <2>1. j[n] = n - 1 /\ g[n - 1] \in Seq(T)
      BY <1>1
    <2> QED  BY <2>1
  <1>8. g = U(g)
    <2>1. \A n \in 0 .. L : g[n] = IF n = 0 THEN <<>> ELSE g[n - 1] \o W(n) \o v[n]
      <3> TAKE n \in 0 .. L
      <3> HIDE DEF F, j
      <3>1. n # 0 <=> n \in 1 .. L
        BY <1>1
      <3> QED  BY <1>6, <1>7, <3>1
    <2> QED  BY <2>1
  <1>9. upto = U(upto)
    <2> HIDE DEF U
    <2> QED  BY <1>8
  <1>10. Join(v, sep) = upto[L]
    BY DEF Join, W, L
  <1> HIDE DEF upto, F, j, r
  <1>11. /\ upto[0] = <<>>
         /\ \A n \in 1 .. L : upto[n] = upto[n - 1] \o W(n) \o v[n]
    <2>1. 0 \in 0 .. L
      BY <1>1
    <2>2. \A n \in 1 .. L : n \in 0 .. L /\ n # 0
      BY <1>1
    <2>3. upto = [n \in 0 .. L |-> IF n = 0 THEN <<>> ELSE upto[n - 1] \o W(n) \o v[n]]
      BY <1>9
    <2> QED  BY <2>1, <2>2, <2>3
  <1>12. \A n \in 0 .. L : upto[n] \in Seq(T)
    <2> DEFINE S == {n \in Nat : n <= L => upto[n] \in Seq(T)}
    <2>1. 0 \in S
      BY <1>11, EmptySeq
    <2>2. ASSUME NEW n \in Nat, n \in S  PROVE n + 1 \in S
      <3> SUFFICES ASSUME n + 1 <= L  PROVE upto[n + 1] \in Seq(T)
        OBVIOUS
      <3>1. upto[n] \in Seq(T) /\ n + 1 \in 1 .. L /\ (n + 1) - 1 = n
        BY <1>1, <2>2
      <3>2. upto[n + 1] = upto[n] \o W(n + 1) \o v[n + 1]
        BY <1>11, <3>1
      <3> QED  BY <1>3, <3>1, <3>2
    <2> HIDE DEF S
    <2>3. Nat \subseteq S
      BY <2>1, <2>2, Induction
    <2> QED  BY <1>1, <2>3 DEF S
  <1>13. upto \in [0 .. L -> Seq(T)]
    BY <1>9, <1>12
  <1> QED  BY <1>10, <1>11, <1>13 DEF W, L

\* st[n] is where the string v[n] starts in the text that Join writes, and the last of
\* st where a string after its end would.
Starts(v, sep, t, st) ==
    /\ st \in [1 .. Len(v) + 1 -> Nat]
    /\ st[1] = 1
    /\ \A n \in 1 .. Len(v) :
          /\ st[n + 1] = st[n] + Len(v[n]) + 1
          /\ st[n + 1] <= Len(t) + 2
          /\ \A i \in 1 .. Len(v[n]) : t[st[n] + i - 1] = v[n][i]
          /\ st[n + 1] - 1 = Len(t) + 1 \/ t[st[n + 1] - 1] = sep
    /\ v # <<>> => st[Len(v) + 1] = Len(t) + 2

\* Three sequences one after the other.
LEMMA ThreeParts ==
  ASSUME NEW T, NEW x \in Seq(T), NEW y \in Seq(T), NEW z \in Seq(T),
         NEW s, s = x \o y \o z
  PROVE  /\ Len(x) \in Nat /\ Len(y) \in Nat /\ Len(z) \in Nat
         /\ s \in Seq(T)
         /\ Len(s) = Len(x) + Len(y) + Len(z)
         /\ \A i \in 1 .. Len(x) : s[i] = x[i]
         /\ \A i \in 1 .. Len(y) : s[Len(x) + i] = y[i]
         /\ \A i \in 1 .. Len(z) : s[Len(x) + Len(y) + i] = z[i]
  <1> DEFINE p == x \o y
  <1>0. s = p \o z
    OBVIOUS
  <1>1. Len(x) \in Nat /\ Len(y) \in Nat /\ Len(z) \in Nat
    BY LenProperties
  <1>2. /\ p \in Seq(T) /\ Len(p) = Len(x) + Len(y)
        /\ \A i \in 1 .. Len(x) + Len(y) : p[i] = IF i <= Len(x) THEN x[i] ELSE y[i - Len(x)]
    BY ConcatProperties
  <1> HIDE DEF p
  <1>3. /\ s \in Seq(T) /\ Len(s) = Len(p) + Len(z)
        /\ \A i \in 1 .. Len(p) + Len(z) : s[i] = IF i <= Len(p) THEN p[i] ELSE z[i - Len(p)]
    <2>1. p \in Seq(T)
      BY <1>2
    <2> QED  BY <1>0, <2>1, ConcatProperties
  <1>4. ASSUME NEW i \in 1 .. Len(x)  PROVE s[i] = x[i]
    <2>1. i \in 1 .. Len(p) + Len(z) /\ i <= Len(p) /\ i \in 1 .. Len(x) + Len(y) /\ i <= Len(x)
      BY <1>1, <1>2
    <2> QED  BY <1>2, <1>3, <2>1
  <1>5. ASSUME NEW i \in 1 .. Len(y)  PROVE s[Len(x) + i] = y[i]
    <2>1. /\ Len(x) + i \in 1 .. Len(p) + Len(z) /\ Len(x) + i <= Len(p)
          /\ Len(x) + i \in 1 .. Len(x) + Len(y) /\ ~ (Len(x) + i <= Len(x))
          /\ (Len(x) + i) - Len(x) = i
      BY <1>1, <1>2
    <2>2. s[Len(x) + i] = p[Len(x) + i]
      BY <1>3, <2>1
    <2> QED  BY <1>2, <2>1, <2>2
  <1>6. ASSUME NEW i \in 1 .. Len(z)  PROVE s[Len(x) + Len(y) + i] = z[i]
    <2>1. /\ Len(p) + i \in 1 .. Len(p) + Len(z) /\ ~ (Len(p) + i <= Len(p))
          /\ (Len(p) + i) - Len(p) = i /\ Len(p) + i = Len(x) + Len(y) + i
      BY <1>1, <1>2
    <2>2. s[Len(p) + i] = z[i]
      BY <1>3, <2>1
    <2> QED  BY <2>1, <2>2
  <1>7. Len(s) = Len(x) + Len(y) + Len(z)
    BY <1>2, <1>3
  <1> QED  BY <1>1, <1>3, <1>4, <1>5, <1>6, <1>7

\* Of every text that Join writes it is known where each string starts.
LEMMA Layout ==
  ASSUME NEW T, NEW v \in Seq(Seq(T)), NEW sep \in T
  PROVE  /\ Join(v, sep) \in Seq(T)
         /\ v = <<>> => Join(v, sep) = <<>>
         /\ \E st : Starts(v, sep, Join(v, sep), st)
  <1> DEFINE L == Len(v)
             t == Join(v, sep)
             W(n) == IF n = 1 THEN <<>> ELSE <<sep>>
  <1>1. PICK u \in [0 .. L -> Seq(T)] :
            /\ u[0] = <<>>
            /\ \A n \in 1 .. L : u[n] = u[n - 1] \o W(n) \o v[n]
            /\ t = u[L]
    BY Joining
  <1>2. /\ L \in Nat /\ (v = <<>> <=> L = 0)
        /\ \A n \in 1 .. L : v[n] \in Seq(T) /\ Len(v[n]) \in Nat
    BY ElementOfSeq, LenProperties, EmptySeq
  <1> DEFINE len == [n \in 0 .. L |-> Len(u[n])]
  <1>3. /\ len \in [0 .. L -> Nat] /\ len[0] = 0
        /\ \A n \in 0 .. L : u[n] \in Seq(T) /\ len[n] = Len(u[n])
    <2>1. \A n \in 0 .. L : u[n] \in Seq(T) /\ Len(u[n]) \in Nat
      BY <1>1, LenProperties
    <2> QED  BY <1>1, <1>2, <2>1
  <1> HIDE DEF L, t, len
  <1>4. ASSUME NEW n \in 1 .. L
        PROVE  LET w == IF n = 1 THEN 0 ELSE 1 IN
               /\ n - 1 \in 0 .. L /\ n \in 0 .. L
               /\ len[n] = len[n - 1] + w + Len(v[n])
               /\ \A i \in 1 .. len[n - 1] : u[n][i] = u[n - 1][i]
               /\ n # 1 => u[n][len[n - 1] + 1] = sep
               /\ \A i \in 1 .. Len(v[n]) : u[n][len[n - 1] + w + i] = v[n][i]
    <2>1. n - 1 \in 0 .. L /\ n \in 0 .. L
      BY <1>2
    <2> DEFINE x == u[n - 1]
               y == W(n)
               z == v[n]
               w == IF n = 1 THEN 0 ELSE 1
    <2>2. x \in Seq(T) /\ z \in Seq(T) /\ len[n - 1] = Len(x) /\ len[n] = Len(u[n])
      BY <1>2, <1>3, <2>1
    <2>3. y \in Seq(T) /\ Len(y) = w /\ (n # 1 => Len(y) = 1 /\ y[1] = sep)
      OBVIOUS
    <2>4. u[n] = x \o y \o z
      BY <1>1
    <2> HIDE DEF x, y, z
    <2>5. /\ Len(x) \in Nat /\ Len(z) \in Nat
          /\ Len(u[n]) = Len(x) + Len(y) + Len(z)
          /\ \A i \in 1 .. Len(x) : u[n][i] = x[i]
          /\ \A i \in 1 .. Len(y) : u[n][Len(x) + i] = y[i]
          /\ \A i \in 1 .. Len(z) : u[n][Len(x) + Len(y) + i] = z[i]
      <3>1. x \in Seq(T) /\ y \in Seq(T) /\ z \in Seq(T) /\ u[n] = x \o y \o z
        BY <2>2, <2>3, <2>4
      <3> DEFINE s == u[n]
      <3>2. s = x \o y \o z
        BY <3>1
      <3> HIDE DEF s
      <3>3. /\ Len(x) \in Nat /\ Len(z) \in Nat
            /\ Len(s) = Len(x) + Len(y) + Len(z)
            /\ \A i \in 1 .. Len(x) : s[i] = x[i]
            /\ \A i \in 1 .. Len(y) : s[Len(x) + i] = y[i]
            /\ \A i \in 1 .. Len(z) : s[Len(x) + Len(y) + i] = z[i]
        BY <3>1, <3>2, ThreeParts
      <3> QED  BY <3>3 DEF s
    <2>6. n # 1 => u[n][Len(x) + 1] = sep
      BY <2>3, <2>5
    <2> HIDE DEF w
    <2>7. /\ len[n] = len[n - 1] + w + Len(z)
          /\ \A i \in 1 .. len[n - 1] : u[n][i] = x[i]
          /\ n # 1 => u[n][len[n - 1] + 1] = sep
          /\ \A i \in 1 .. Len(z) : u[n][len[n - 1] + w + i] = z[i]
      BY <2>2, <2>3, <2>5, <2>6
    <2> QED  BY <2>1, <2>7 DEF x, z, w
  <1>5. ASSUME NEW n \in 0 .. L
        PROVE  len[n] <= len[L] /\ \A i \in 1 .. len[n] : u[L][i] = u[n][i]
    <2> DEFINE S == {m \in Nat : n + m <= L => /\ len[n] <= len[n + m]
                                               /\ \A i \in 1 .. len[n] : u[n + m][i] = u[n][i]}
    <2>1. 0 \in S
      BY <1>2, <1>3
    <2>2. ASSUME NEW m \in Nat, m \in S  PROVE m + 1 \in S
      <3> SUFFICES ASSUME n + (m + 1) <= L
                   PROVE  /\ len[n] <= len[n + (m + 1)]
                          /\ \A i \in 1 .. len[n] : u[n + (m + 1)][i] = u[n][i]
        OBVIOUS
      <3> DEFINE k == n + (m + 1)
      <3>1. /\ k \in 1 .. L /\ k - 1 = n + m
            /\ len[n] <= len[n + m] /\ \A i \in 1 .. len[n] : u[n + m][i] = u[n][i]
        BY <1>2, <2>2
      <3> HIDE DEF k
      <3>2. /\ len[k - 1] <= len[k]
            /\ \A i \in 1 .. len[k - 1] : u[k][i] = u[k - 1][i]
            /\ len[n] \in Nat /\ len[k - 1] \in Nat /\ len[k] \in Nat
        <4>1. k - 1 \in 0 .. L /\ k \in 0 .. L
          BY <1>4, <3>1
        <4>2. len[n] \in Nat /\ len[k - 1] \in Nat /\ len[k] \in Nat /\ Len(v[k]) \in Nat
          BY <1>2, <1>3, <3>1, <4>1
        <4> DEFINE w == IF k = 1 THEN 0 ELSE 1
        <4>3. len[k] = len[k - 1] + w + Len(v[k]) /\ w \in {0, 1}
          BY <1>4, <3>1
        <4> HIDE DEF w
        <4>4. len[k - 1] <= len[k]
          BY <4>2, <4>3
        <4> QED  BY <1>4, <3>1, <4>2, <4>4
      <3>3. len[n] <= len[k] /\ \A i \in 1 .. len[n] : u[k][i] = u[n][i]
        BY <3>1, <3>2
      <3> QED  BY <3>3 DEF k
    <2> HIDE DEF S
    <2>3. Nat \subseteq S
      BY <2>1, <2>2, Induction
    <2>4. L - n \in S /\ L - n \in Nat /\ n + (L - n) = L
      BY <1>2, <2>3
    <2> QED  BY <2>4 DEF S
  <1>6. /\ t = u[L] /\ t \in Seq(T) /\ Len(t) = len[L] /\ len[L] \in Nat
    BY <1>1, <1>2, <1>3
  <1> DEFINE st == [n \in 1 .. L + 1 |-> IF n = 1 THEN 1 ELSE len[n - 1] + 2]
  <1>7. st \in [1 .. L + 1 -> Nat] /\ st[1] = 1
    <2>1. ASSUME NEW n \in 1 .. L + 1
          PROVE  (IF n = 1 THEN 1 ELSE len[n - 1] + 2) \in Nat
      <3>1. n # 1 => n - 1 \in 0 .. L
        BY <1>2
      <3> QED  BY <1>3, <3>1
    <2>2. 1 \in 1 .. L + 1
      BY <1>2
    <2> QED  BY <2>1, <2>2
  <1>8. ASSUME NEW n \in 1 .. L
        PROVE  /\ st[n + 1] = st[n] + Len(v[n]) + 1
               /\ st[n + 1] <= Len(t) + 2
               /\ \A i \in 1 .. Len(v[n]) : t[st[n] + i - 1] = v[n][i]
               /\ st[n + 1] - 1 = Len(t) + 1 \/ t[st[n + 1] - 1] = sep
    <2> DEFINE w == IF n = 1 THEN 0 ELSE 1
    <2>1. /\ n + 1 \in 1 .. L + 1 /\ n \in 1 .. L + 1 /\ (n + 1) - 1 = n /\ n + 1 # 1
          /\ n \in 0 .. L /\ n - 1 \in 0 .. L
      BY <1>2
    <2>2. st[n + 1] = len[n] + 2 /\ st[n] = len[n - 1] + w + 1
      BY <1>3, <2>1
    <2>3. /\ len[n] = len[n - 1] + w + Len(v[n])
          /\ \A i \in 1 .. Len(v[n]) : u[n][len[n - 1] + w + i] = v[n][i]
      BY <1>4
    <2>4. /\ len[n] \in Nat /\ len[n - 1] \in Nat /\ Len(v[n]) \in Nat /\ w \in {0, 1}
      BY <1>2, <1>3, <2>1
    <2>5. len[n] <= Len(t) /\ \A i \in 1 .. len[n] : t[i] = u[n][i]
      BY <1>5, <1>6, <2>1
    <2> HIDE DEF st, w
    <2>6. ASSUME NEW i \in 1 .. Len(v[n])  PROVE t[st[n] + i - 1] = v[n][i]
      <3>1. len[n - 1] + w + i \in 1 .. len[n] /\ st[n] + i - 1 = len[n - 1] + w + i
        <4>1. st[n] = len[n - 1] + w + 1 /\ len[n] = len[n - 1] + w + Len(v[n])
          BY <2>2, <2>3
        <4> DEFINE a == len[n - 1]
                   l == Len(v[n])
        <4>2. /\ i \in 1 .. l /\ w \in Nat /\ a \in Nat /\ l \in Nat
              /\ st[n] = a + w + 1 /\ len[n] = a + w + l
          BY <2>4, <4>1
        <4> HIDE DEF a, l
        <4>3. a + w + i \in 1 .. len[n] /\ st[n] + i - 1 = a + w + i
          BY <4>2
        <4> QED  BY <4>3 DEF a
      <3> QED  BY <2>3, <2>5, <3>1
    <2>7. st[n + 1] - 1 = Len(t) + 1 \/ t[st[n + 1] - 1] = sep
      <3>1. CASE n = L
        BY <1>6, <2>2, <2>4, <3>1
      <3>2. CASE n # L
        <4>1. n + 1 \in 1 .. L /\ n + 1 # 1 /\ (n + 1) - 1 = n /\ n + 1 \in 0 .. L
          BY <1>2, <3>2
        <4>2. u[n + 1][len[n] + 1] = sep /\ len[n + 1] = len[n] + 1 + Len(v[n + 1])
          BY <1>4, <4>1
        <4>3. Len(v[n + 1]) \in Nat
          BY <1>2, <4>1
        <4>4. len[n] + 1 \in 1 .. len[n + 1]
          BY <2>4, <4>2, <4>3
        <4>5. t[len[n] + 1] = sep
          BY <1>5, <1>6, <4>1, <4>2, <4>4
        <4> QED  BY <2>2, <2>4, <4>5
      <3> QED  BY <3>1, <3>2
    <2>8. st[n + 1] = st[n] + Len(v[n]) + 1 /\ st[n + 1] <= Len(t) + 2
      <3>1. st[n] = len[n - 1] + w + 1 /\ len[n] = len[n - 1] + w + Len(v[n])
        BY <2>2, <2>3
      <3> DEFINE a == len[n - 1]
                 l == Len(v[n])
                 b == len[n]
      <3>2. /\ w \in Nat /\ Len(t) \in Nat /\ a \in Nat /\ l \in Nat /\ b \in Nat /\ b <= Len(t)
            /\ st[n] = a + w + 1 /\ b = a + w + l /\ st[n + 1] = b + 2
        BY <1>6, <2>2, <2>4, <2>5, <3>1
      <3> HIDE DEF a, l, b
      <3>3. st[n + 1] = st[n] + l + 1 /\ st[n + 1] <= Len(t) + 2
        BY <3>2
      <3> QED  BY <3>3 DEF l
    <2> QED  BY <2>6, <2>7, <2>8
  <1>9. v # <<>> => st[L + 1] = Len(t) + 2
    BY <1>2, <1>6
  <1> HIDE DEF st
  <1>10. Starts(v, sep, t, st)
    BY <1>7, <1>8, <1>9 DEF Starts, L
  <1>11. v = <<>> => t = <<>>
    BY <1>1, <1>2, <1>6
  <1> QED  BY <1>6, <1>10, <1>11 DEF t

\* How Pieces takes a text apart.
LEMMA Splitting ==
  ASSUME NEW T, NEW t \in Seq(T), NEW sep
  PROVE  \E f : /\ Pieces(t, sep) = f[1]
                /\ \A s \in 1 .. Len(t) + 2 :
                      f[s] = IF s > Len(t) THEN <<>>
                             ELSE (IF Find(t, sep, s) = s THEN <<>>
                                   ELSE <<SubSeq(t, s, Find(t, sep, s) - 1)>>)
                                  \o f[Find(t, sep, s) + 1]
  <1> DEFINE L == Len(t)
             D == 1 .. L + 2
             E == 1 .. L
             Q == Seq(Seq(T))
             W(s) == IF Find(t, sep, s) = s THEN <<>> ELSE <<SubSeq(t, s, Find(t, sep, s) - 1)>>
             U(g) == [s \in D |-> IF s > L THEN <<>> ELSE W(s) \o g[Find(t, sep, s) + 1]]
             from == CHOOSE g : g = U(g)
             j == [s \in E |-> Find(t, sep, s) + 1]
             F == [s \in E |-> [x \in Q |-> W(s) \o x]]
             b == [d \in D |-> <<>>]
             r == [s \in D |-> L + 2 - s]
  <1>1. L \in Nat
    BY LenProperties
  <1>2. ASSUME NEW s \in E
        PROVE  /\ s \in Nat /\ s <= L
               /\ Find(t, sep, s) \in s .. L + 1
               /\ W(s) \in Q
    <2>1. s \in Nat /\ s >= 1 /\ s <= L
      BY <1>1
    <2>2. Find(t, sep, s) \in s .. L + 1
      BY <1>1, <2>1, FindWorks
    <2>3. ASSUME Find(t, sep, s) # s  PROVE SubSeq(t, s, Find(t, sep, s) - 1) \in Seq(T)
      <3> DEFINE e == Find(t, sep, s) - 1
      <3>1. e \in Int /\ e <= L /\ s \in Int
        BY <1>1, <2>1, <2>2
      <3> HIDE DEF e
      <3>2. SubSeq(t, s, e) \in Seq(T)
        <4>1. \A i \in s .. e : i \in 1 .. Len(t)
          BY <1>1, <2>1, <3>1
        <4> QED  BY <2>1, <3>1, <4>1, SubSeqProperties
      <3> QED  BY <3>2 DEF e
    <2> QED  BY <2>1, <2>2, <2>3
  <1> HIDE DEF W, L
  <1>3. \E g \in [D -> Q] : \A s \in D : g[s] = IF s \in E THEN F[s][g[j[s]]] ELSE b[s]
    <2>1. E \in SUBSET D /\ b \in [D -> Q] /\ L + 2 \in Nat
      BY <1>1
    <2>2. j \in [E -> D] /\ \A s \in E : j[s] > s
      <3>1. ASSUME NEW s \in E  PROVE Find(t, sep, s) + 1 \in D /\ Find(t, sep, s) + 1 > s
        BY <1>1, <1>2
      <3> QED  BY <3>1
    <2>3. F \in [E -> [Q -> Q]]
      <3>1. ASSUME NEW s \in E, NEW x \in Q  PROVE W(s) \o x \in Q
        BY <1>2, ConcatProperties
      <3> QED  BY <3>1
    <2>4. r \in [D -> 0 .. L + 2] /\ \A s \in E : r[j[s]] < r[s]
      BY <1>1, <2>2
    <2> HIDE DEF D, E, Q, b, j, F, r
    <2>5. Falls(D, Q, E, b, j, F, L + 2, r)
      BY <2>1, <2>2, <2>3, <2>4 DEF Falls
    <2>6. Follows(D, Q, E, b, j, F)
      BY <2>5, Recursion
    <2> QED  BY <2>6 DEF Follows
  <1>4. PICK g \in [D -> Q] : \A s \in D : g[s] = IF s \in E THEN F[s][g[j[s]]] ELSE b[s]
    BY <1>3
  <1>5. g = U(g)
    <2>1. ASSUME NEW s \in E  PROVE F[s][g[j[s]]] = W(s) \o g[Find(t, sep, s) + 1]
      <3>1. j[s] = Find(t, sep, s) + 1 /\ Find(t, sep, s) + 1 \in D
        BY <1>1, <1>2
      <3>2. g[Find(t, sep, s) + 1] \in Q
        BY <3>1
      <3> QED  BY <3>1, <3>2
    <2>2. \A s \in D : g[s] = IF s > L THEN <<>> ELSE W(s) \o g[Find(t, sep, s) + 1]
      <3> TAKE s \in D
      <3> HIDE DEF F, j
      <3>1. s \in E <=> ~ (s > L)
        BY <1>1
      <3> HIDE DEF E
      <3> QED  BY <1>4, <2>1, <3>1
    <2> QED  BY <2>2
  <1>6. from = U(from)
    <2> HIDE DEF U
    <2> QED  BY <1>5
  <1>7. Pieces(t, sep) = from[1]
    BY DEF Pieces, W, L
  <1> HIDE DEF from
  <1>8. \A s \in D : from[s] = IF s > L THEN <<>> ELSE W(s) \o from[Find(t, sep, s) + 1]
    BY <1>6
  <1> QED  BY <1>7, <1>8 DEF W, L

\* How NonEmpty leaves out what is empty.
LEMMA Filtering ==
  ASSUME NEW T, NEW v \in Seq(Seq(T))
  PROVE  \E f : /\ NonEmpty(v) = f[1]
                /\ \A n \in 1 .. Len(v) + 1 :
                      f[n] = IF n > Len(v) THEN <<>>
                             ELSE (IF v[n] = <<>> THEN <<>> ELSE <<v[n]>>) \o f[n + 1]
  <1> DEFINE L == Len(v)
             D == 1 .. L + 1
             E == 1 .. L
             Q == Seq(Seq(T))
             W(n) == IF v[n] = <<>> THEN <<>> ELSE <<v[n]>>
             U(g) == [n \in D |-> IF n > L THEN <<>> ELSE W(n) \o g[n + 1]]
             from == CHOOSE g : g = U(g)
             j == [n \in E |-> n + 1]
             F == [n \in E |-> [x \in Q |-> W(n) \o x]]
             b == [d \in D |-> <<>>]
             r == [n \in D |-> L + 1 - n]
  <1>1. L \in Nat
    BY LenProperties
  <1>2. ASSUME NEW n \in E  PROVE n \in 1 .. L /\ n + 1 \in D /\ W(n) \in Q
    <2>1. n \in 1 .. L
      BY <1>1
    <2>2. v[n] \in Seq(T)
      BY <2>1, ElementOfSeq
    <2> QED  BY <1>1, <2>1, <2>2
  <1> HIDE DEF W, L
  <1>3. \E g \in [D -> Q] : \A n \in D : g[n] = IF n \in E THEN F[n][g[j[n]]] ELSE b[n]
    <2>1. E \in SUBSET D /\ b \in [D -> Q] /\ L + 1 \in Nat
      BY <1>1
    <2>2. j \in [E -> D] /\ \A n \in E : j[n] = n + 1
      BY <1>2
    <2>3. F \in [E -> [Q -> Q]]
      <3>1. ASSUME NEW n \in E, NEW x \in Q  PROVE W(n) \o x \in Q
        BY <1>2, ConcatProperties
      <3> QED  BY <3>1
    <2>4. r \in [D -> 0 .. L + 1] /\ \A n \in E : r[j[n]] < r[n]
      BY <1>1, <2>2
    <2> HIDE DEF D, E, Q, b, j, F, r
    <2>5. Falls(D, Q, E, b, j, F, L + 1, r)
      BY <2>1, <2>2, <2>3, <2>4 DEF Falls
    <2>6. Follows(D, Q, E, b, j, F)
      BY <2>5, Recursion
    <2> QED  BY <2>6 DEF Follows
  <1>4. PICK g \in [D -> Q] : \A n \in D : g[n] = IF n \in E THEN F[n][g[j[n]]] ELSE b[n]
    BY <1>3
  <1>5. g = U(g)
    <2>1. ASSUME NEW n \in E  PROVE F[n][g[j[n]]] = W(n) \o g[n + 1]
      <3>1. j[n] = n + 1 /\ g[n + 1] \in Q
        BY <1>2
      <3> QED  BY <3>1
    <2>2. \A n \in D : g[n] = IF n > L THEN <<>> ELSE W(n) \o g[n + 1]
      <3> TAKE n \in D
      <3> HIDE DEF F, j
      <3>1. n \in E <=> ~ (n > L)
        BY <1>1
      <3> HIDE DEF E
      <3> QED  BY <1>4, <2>1, <3>1
    <2> QED  BY <2>2
  <1>6. from = U(from)
    <2> HIDE DEF U
    <2> QED  BY <1>5
  <1>7. NonEmpty(v) = from[1]
    BY DEF NonEmpty, W, L
  <1> HIDE DEF from
  <1>8. \A n \in D : from[n] = IF n > L THEN <<>> ELSE W(n) \o from[n + 1]
    BY <1>6
  <1> QED  BY <1>7, <1>8 DEF W, L

\* The pieces of what Join writes are the strings that are not empty.
LEMMA PiecesOfJoin ==
  ASSUME NEW T, NEW v \in Seq(Seq(T)), NEW sep \in T,
         \A n \in 1 .. Len(v) : ~ Has(v[n], sep)
  PROVE  Pieces(Join(v, sep), sep) = NonEmpty(v)
  <1> DEFINE L == Len(v)
             t == Join(v, sep)
             W(n) == IF v[n] = <<>> THEN <<>> ELSE <<v[n]>>
             X(s) == IF Find(t, sep, s) = s THEN <<>> ELSE <<SubSeq(t, s, Find(t, sep, s) - 1)>>
  <1>1. /\ t \in Seq(T) /\ (v = <<>> => t = <<>>)
        /\ \E st : Starts(v, sep, t, st)
    BY Layout
  <1>2. PICK f : /\ Pieces(t, sep) = f[1]
                 /\ \A s \in 1 .. Len(t) + 2 :
                       f[s] = IF s > Len(t) THEN <<>> ELSE X(s) \o f[Find(t, sep, s) + 1]
    BY <1>1, Splitting
  <1>3. PICK g : /\ NonEmpty(v) = g[1]
                 /\ \A n \in 1 .. L + 1 : g[n] = IF n > L THEN <<>> ELSE W(n) \o g[n + 1]
    BY Filtering
  <1> HIDE DEF t
  <1>4. PICK st : Starts(v, sep, t, st)
    BY <1>1
  <1>5. /\ L \in Nat /\ Len(t) \in Nat /\ (v = <<>> <=> L = 0) /\ (t = <<>> => Len(t) = 0)
        /\ \A n \in 1 .. L : v[n] \in Seq(T) /\ Len(v[n]) \in Nat /\ (v[n] = <<>> <=> Len(v[n]) = 0)
    BY <1>1, ElementOfSeq, LenProperties, EmptySeq
  <1>6. ASSUME NEW n \in 1 .. L, st[n] \in 1 .. Len(t)
        PROVE  Find(t, sep, st[n]) = st[n + 1] - 1 /\ X(st[n]) = W(n)
    <2> DEFINE s == st[n]
               e == st[n + 1] - 1
               l == Len(v[n])
    <2>1. /\ s \in 1 .. Len(t) /\ l \in Nat /\ e = s + l /\ e <= Len(t) + 1
          /\ \A i \in 1 .. l : t[s + i - 1] = v[n][i]
          /\ e = Len(t) + 1 \/ t[e] = sep
      <3>1. /\ st[n + 1] = s + l + 1 /\ st[n + 1] <= Len(t) + 2
            /\ \A i \in 1 .. l : t[s + i - 1] = v[n][i]
            /\ e = Len(t) + 1 \/ t[e] = sep
        BY <1>4 DEF Starts
      <3>2. s \in 1 .. Len(t) /\ l \in Nat
        BY <1>5, <1>6
      <3> HIDE DEF s, l
      <3>3. e = s + l /\ e <= Len(t) + 1
        BY <1>5, <3>1, <3>2
      <3> QED  BY <3>1, <3>2, <3>3
    <2> HIDE DEF s, e
    <2>2. ASSUME NEW i \in s .. e - 1  PROVE t[i] # sep
      <3>1. i - s + 1 \in 1 .. l /\ s + (i - s + 1) - 1 = i
        <4> HIDE DEF l
        <4> QED  BY <2>1
      <3>2. t[i] = v[n][i - s + 1]
        BY <2>1, <3>1
      <3> QED  BY <3>1, <3>2 DEF Has
    <2>3. Find(t, sep, s) = e
      <3>1. e \in s .. Len(t) + 1 /\ s \in Nat /\ (e <= Len(t) => t[e] = sep)
        <4> HIDE DEF l
        <4> QED  BY <1>5, <2>1
      <3> QED  BY <1>5, <2>2, <3>1, FindIs
    <2>4. CASE l = 0
      <3>1. e = s /\ v[n] = <<>>
        BY <1>5, <2>1, <2>4
      <3> QED  BY <2>3, <3>1 DEF s, e
    <2>5. CASE l # 0
      <3>1. e # s /\ v[n] # <<>> /\ e - 1 \in Nat /\ s \in Nat
        BY <1>5, <2>1, <2>5
      <3>2. SubSeq(t, s, e - 1) = v[n]
        <4> DEFINE z == SubSeq(t, s, e - 1)
        <4>1. /\ s \in Int /\ e - 1 \in Int /\ (\A i \in s .. e - 1 : i \in 1 .. Len(t))
              /\ s <= e - 1 /\ e - 1 - s + 1 = l
          <5> HIDE DEF l
          <5> QED  BY <1>5, <2>1, <2>5
        <4>2. /\ z \in Seq(T)
              /\ Len(z) = l
              /\ \A i \in 1 .. e - 1 - s + 1 : z[i] = t[s + i - 1]
          BY <1>1, <4>1, SubSeqProperties
        <4> HIDE DEF z
        <4>3. \A i \in 1 .. l : z[i] = v[n][i]
          BY <2>1, <4>1, <4>2
        <4> QED  BY <1>5, <4>2, <4>3, SeqEqual DEF z
      <3> QED  BY <2>3, <3>1, <3>2 DEF s, e
    <2> QED  BY <2>4, <2>5, <2>1
  <1>7. ASSUME NEW n \in 1 .. L, f[st[n + 1]] = g[n + 1]
        PROVE  f[st[n]] = g[n]
    <2>0. /\ \A m \in 1 .. L : st[m] \in Nat /\ Len(v[m]) \in Nat
          /\ Len(v[n]) \in Nat
      <3>1. \A m \in 1 .. L : m \in 1 .. Len(v) + 1
        BY <1>5
      <3>2. \A m \in 1 .. L : st[m] \in Nat
        BY <1>4, <3>1 DEF Starts
      <3> QED  BY <1>5, <3>2
    <2>1. st[n] \in 1 .. Len(t) + 1 /\ st[n + 1] = st[n] + Len(v[n]) + 1 /\ st[n + 1] <= Len(t) + 2
      <3>1. n = 1 => st[n] >= 1
        BY <1>4 DEF Starts
      <3>2. n # 1 => st[n] >= 1
        <4>1. n # 1 => n - 1 \in 1 .. L /\ (n - 1) + 1 = n
          BY <1>5
        <4>2. n # 1 => st[n] = st[n - 1] + Len(v[n - 1]) + 1
          BY <1>4, <4>1 DEF Starts
        <4>3. n # 1 => st[n - 1] \in Nat /\ Len(v[n - 1]) \in Nat
          BY <2>0, <4>1
        <4> QED  BY <4>2, <4>3
      <3>3. st[n] \in Nat /\ Len(v[n]) \in Nat
        BY <2>0
      <3>4. st[n + 1] = st[n] + Len(v[n]) + 1 /\ st[n + 1] <= Len(t) + 2
        BY <1>4 DEF Starts
      <3> QED  BY <1>5, <3>1, <3>2, <3>3, <3>4
    <2>2. g[n] = W(n) \o g[n + 1]
      <3>1. n \in 1 .. L + 1 /\ ~ (n > L)
        BY <1>5
      <3> QED  BY <1>3, <3>1
    <2>3. CASE st[n] \in 1 .. Len(t)
      <3>1. Find(t, sep, st[n]) = st[n + 1] - 1 /\ X(st[n]) = W(n)
        BY <1>6, <2>3
      <3>2. f[st[n]] = X(st[n]) \o f[Find(t, sep, st[n]) + 1]
        <4>1. st[n] \in 1 .. Len(t) + 2 /\ ~ (st[n] > Len(t))
          BY <1>5, <2>3
        <4> HIDE DEF X
        <4> QED  BY <1>2, <4>1
      <3>3. (st[n + 1] - 1) + 1 = st[n + 1]
        BY <1>5, <2>1
      <3> QED  BY <1>7, <2>2, <3>1, <3>2, <3>3
    <2>4. CASE st[n] = Len(t) + 1
      <3>1. Len(v[n]) = 0 /\ st[n + 1] = Len(t) + 2
        <4> DEFINE l == Len(v[n])
        <4>1. st[n + 1] = st[n] + l + 1 /\ st[n + 1] <= Len(t) + 2 /\ l \in Nat
          BY <2>0, <2>1
        <4> HIDE DEF l
        <4>2. l = 0 /\ st[n + 1] = Len(t) + 2
          BY <1>5, <2>4, <4>1
        <4> QED  BY <4>2 DEF l
      <3>2. v[n] = <<>>
        BY <1>5, <3>1
      <3>3. f[Len(t) + 1] = <<>> /\ f[Len(t) + 2] = <<>>
        <4>1. /\ Len(t) + 1 \in 1 .. Len(t) + 2 /\ Len(t) + 1 > Len(t)
              /\ Len(t) + 2 \in 1 .. Len(t) + 2 /\ Len(t) + 2 > Len(t)
          BY <1>5
        <4> HIDE DEF X
        <4> QED  BY <1>2, <4>1
      <3>4. <<>> \o <<>> = <<>>
        OBVIOUS
      <3> QED  BY <1>7, <2>2, <2>4, <3>1, <3>2, <3>3, <3>4
    <2> QED  BY <1>5, <2>1, <2>3, <2>4
  <1> HIDE DEF W, X, L
  <1>8. f[st[L + 1]] = g[L + 1]
    <2>1. g[L + 1] = <<>>
      <3>1. L + 1 \in 1 .. L + 1 /\ L + 1 > L
        BY <1>5
      <3> QED  BY <1>3, <3>1
    <2>2. st[L + 1] \in 1 .. Len(t) + 2 /\ st[L + 1] > Len(t)
      <3>1. CASE v = <<>>
        BY <1>1, <1>4, <1>5, <3>1 DEF Starts
      <3>2. CASE v # <<>>
        BY <1>4, <1>5, <3>2 DEF Starts, L
      <3> QED  BY <3>1, <3>2
    <2> QED  BY <1>2, <2>1, <2>2
  <1>9. f[st[1]] = g[1]
    <2> DEFINE S == {k \in Nat : k <= L => f[st[L + 1 - k]] = g[L + 1 - k]}
    <2>1. 0 \in S
      <3>1. L + 1 - 0 = L + 1
        BY <1>5
      <3> QED  BY <1>8, <3>1
    <2>2. ASSUME NEW k \in Nat, k \in S  PROVE k + 1 \in S
      <3> SUFFICES ASSUME k + 1 <= L  PROVE f[st[L + 1 - (k + 1)]] = g[L + 1 - (k + 1)]
        OBVIOUS
      <3>1. L + 1 - (k + 1) \in 1 .. L /\ (L + 1 - (k + 1)) + 1 = L + 1 - k /\ k <= L
        BY <1>5
      <3>2. f[st[L + 1 - k]] = g[L + 1 - k]
        BY <2>2, <3>1
      <3> QED  BY <1>7, <3>1, <3>2
    <2> HIDE DEF S
    <2>3. L \in S
      BY <1>5, <2>1, <2>2, Induction
    <2>4. L + 1 - L = 1 /\ L <= L
      BY <1>5
    <2> QED  BY <2>3, <2>4 DEF S
  <1>10. st[1] = 1
    BY <1>4 DEF Starts
  <1> QED  BY <1>2, <1>3, <1>9, <1>10 DEF t

\* Every list of strings without the separators, of whatever length and characters,
\* is read back as it was written, without the empty strings (insert and get_vector
\* of StringMemoryArea, write_to and parse_path_list of Path).
THEOREM AllVectorsReadBack ==
  ASSUME NEW S, NEW v \in Seq(Seq(S))
  PROVE  VectorReadsBack(v)
  <1> DEFINE T == S \cup {STRING_SEPARATOR, PATH_SEPARATOR}
  <1>1. v \in Seq(Seq(T))
    <2>1. S \subseteq T
      OBVIOUS
    <2> HIDE DEF T
    <2>2. Seq(S) \subseteq Seq(T)
      BY <2>1, SeqMonotonic
    <2> QED  BY <2>2, SeqMonotonic
  <1>2. STRING_SEPARATOR \in T /\ PATH_SEPARATOR \in T
    OBVIOUS
  <1> HIDE DEF T
  <1> QED
    BY <1>1, <1>2, PiecesOfJoin
    DEF VectorReadsBack, insert_vector, get_vector, write_to, parse_path_list, FilesOf

\* A list without an empty string stays as it is.
LEMMA NonEmptyAll ==
  ASSUME NEW T, NEW v \in Seq(Seq(T)), \A n \in 1 .. Len(v) : v[n] # <<>>
  PROVE  NonEmpty(v) = v
  <1> DEFINE L == Len(v)
  <1>1. L \in Nat /\ \A n \in 1 .. L : v[n] \in Seq(T)
    BY LenProperties, ElementOfSeq
  <1>2. PICK g : /\ NonEmpty(v) = g[1]
                 /\ \A n \in 1 .. L + 1 :
                       g[n] = IF n > L THEN <<>>
                              ELSE (IF v[n] = <<>> THEN <<>> ELSE <<v[n]>>) \o g[n + 1]
    BY Filtering
  <1> HIDE DEF L
  <1>3. g[L + 1] = SubSeq(v, L + 1, L)
    <2>1. g[L + 1] = <<>>
      <3>1. L + 1 \in 1 .. L + 1 /\ L + 1 > L
        BY <1>1
      <3> QED  BY <1>2, <3>1 DEF L
    <2>2. SubSeq(v, L + 1, L) = <<>>
      BY <1>1, SubSeqEmpty
    <2> QED  BY <2>1, <2>2
  <1>4. ASSUME NEW n \in 1 .. L, g[n + 1] = SubSeq(v, n + 1, L)  PROVE g[n] = SubSeq(v, n, L)
    <2>1. g[n] = <<v[n]>> \o g[n + 1]
      <3>1. n \in 1 .. L + 1 /\ ~ (n > L)
        BY <1>1
      <3>2. v[n] # <<>>
        BY DEF L
      <3>3. g[n] = IF n > L THEN <<>>
                   ELSE (IF v[n] = <<>> THEN <<>> ELSE <<v[n]>>) \o g[n + 1]
        BY <1>2, <3>1
      <3> QED  BY <3>1, <3>2, <3>3
    <2>2. /\ n \in 1 .. Len(v) + 1 /\ n \in n - 1 .. Len(v) /\ L \in n .. Len(v)
      BY <1>1 DEF L
    <2>3. SubSeq(v, n, n) \o SubSeq(v, n + 1, L) = SubSeq(v, n, L)
      BY <2>2, ConcatAdjacentSubSeq
    <2>4. SubSeq(v, n, n) = <<v[n]>>
      <3> DEFINE z == SubSeq(v, n, n)
      <3>1. n \in Int /\ \A i \in n .. n : v[i] \in Seq(T)
        BY <1>1
      <3>2. z \in Seq(Seq(T)) /\ Len(z) = 1 /\ z[1] = v[n]
        <4>1. /\ z \in Seq(Seq(T))
              /\ Len(z) = IF n <= n THEN n - n + 1 ELSE 0
              /\ \A i \in 1 .. n - n + 1 : z[i] = v[n + i - 1]
          BY ONLY <3>1, SubSeqProperties
        <4>2. n <= n /\ n - n + 1 = 1 /\ n + 1 - 1 = n
          BY <1>1
        <4> HIDE DEF z
        <4> QED  BY ONLY <4>1, <4>2
      <3> HIDE DEF z
      <3>3. <<v[n]>> \in Seq(Seq(T)) /\ Len(<<v[n]>>) = 1 /\ <<v[n]>>[1] = v[n]
        BY <1>1
      <3>4. z = <<v[n]>>
        BY <3>2, <3>3, SeqEqual
      <3> QED  BY <3>4 DEF z
    <2> QED  BY <1>4, <2>1, <2>3, <2>4
  <1>5. g[1] = SubSeq(v, 1, L)
    <2> DEFINE S == {k \in Nat : k <= L => g[L + 1 - k] = SubSeq(v, L + 1 - k, L)}
    <2>1. 0 \in S
      <3>1. L + 1 - 0 = L + 1
        BY <1>1
      <3> QED  BY <1>3, <3>1
    <2>2. ASSUME NEW k \in Nat, k \in S  PROVE k + 1 \in S
      <3> SUFFICES ASSUME k + 1 <= L
                   PROVE  g[L + 1 - (k + 1)] = SubSeq(v, L + 1 - (k + 1), L)
        OBVIOUS
      <3>1. L + 1 - (k + 1) \in 1 .. L /\ (L + 1 - (k + 1)) + 1 = L + 1 - k /\ k <= L
        BY <1>1
      <3>2. g[L + 1 - k] = SubSeq(v, L + 1 - k, L)
        BY <2>2, <3>1
      <3> QED  BY <1>4, <3>1, <3>2
    <2> HIDE DEF S
    <2>3. L \in S
      BY <1>1, <2>1, <2>2, Induction
    <2>4. L + 1 - L = 1 /\ L <= L
      BY <1>1
    <2> QED  BY <2>3, <2>4 DEF S
  <1>6. SubSeq(v, 1, L) = v
    BY SubSeqFull DEF L
  <1> QED  BY <1>2, <1>5, <1>6

\* The keys are each there once.
LEMMA Keys ==
  ASSUME NEW K, IsFiniteSet(K)
  PROVE  /\ SetToSeq(K) \in Seq(K)
         /\ \A k \in K : \E i \in 1 .. Len(SetToSeq(K)) : SetToSeq(K)[i] = k
  <1> DEFINE N == Cardinality(K)
             P(f) == f \in [1 .. N -> K] /\ IsInjective(f)
             keys == SetToSeq(K)
  <1>1. N \in Nat /\ ExistsBijection(1 .. N, K)
    BY FS_CardinalityType
  <1>2. PICK b \in [1 .. N -> K] : \A i, j \in 1 .. N : b[i] = b[j] => i = j
    BY <1>1 DEF ExistsBijection, Bijection, Injection, IsInjective
  <1>3. IsInjective(b)
    BY <1>2 DEF IsInjective
  <1>4. keys = CHOOSE f \in [1 .. N -> K] : IsInjective(f)
    BY DEF SetToSeq
  <1>5. keys \in [1 .. N -> K] /\ IsInjective(keys)
    <2> HIDE DEF keys
    <2> QED  BY <1>2, <1>3, <1>4
  <1> HIDE DEF keys, N
  <1>6. keys \in Injection(1 .. N, K)
    BY <1>5 DEF Injection, IsInjective
  <1>7. IsFiniteSet(1 .. N) /\ Cardinality(1 .. N) = Cardinality(K)
    <2>1. 1 \in Int /\ N \in Int /\ (IF 1 > N THEN 0 ELSE N - 1 + 1) = N
      BY <1>1
    <2>2. IsFiniteSet(1 .. N) /\ Cardinality(1 .. N) = IF 1 > N THEN 0 ELSE N - 1 + 1
      BY <2>1, FS_Interval
    <2> QED  BY <2>1, <2>2 DEF N
  <1>8. keys \in Surjection(1 .. N, K)
    BY <1>6, <1>7, FS_Injection
  <1>9. keys \in Seq(K) /\ Len(keys) = N
    BY <1>1, <1>5, SeqDef
  <1> QED  BY <1>8, <1>9 DEF Surjection, keys

\* What one entry is read as.
LEMMA EntryIsRead ==
  ASSUME NEW T, NEW k \in Seq(T), NEW v \in Seq(T), STRING_SEPARATOR \in T,
         ~ Has(k, STRING_SEPARATOR), NEW m
  PROVE  WithEntry(m, Pair(k, v)) = With(m, k, v)
  <1> DEFINE e == Pair(k, v)
             y == <<STRING_SEPARATOR>>
  <1>1. y \in Seq(T) /\ Len(y) = 1 /\ y[1] = STRING_SEPARATOR
    OBVIOUS
  <1>2. e = k \o y \o v
    BY DEF Pair
  <1> HIDE DEF e, y
  <1>3. /\ Len(k) \in Nat /\ Len(y) \in Nat /\ Len(v) \in Nat
        /\ e \in Seq(T)
        /\ Len(e) = Len(k) + Len(y) + Len(v)
        /\ \A i \in 1 .. Len(k) : e[i] = k[i]
        /\ \A i \in 1 .. Len(y) : e[Len(k) + i] = y[i]
        /\ \A i \in 1 .. Len(v) : e[Len(k) + Len(y) + i] = v[i]
    <2>1. k \in Seq(T) /\ y \in Seq(T) /\ v \in Seq(T) /\ e = k \o y \o v
      BY <1>1, <1>2
    <2> QED  BY <2>1, ThreeParts
  <1> DEFINE l == Len(k)
             p == Find(e, STRING_SEPARATOR, 1)
  <1>4. p = l + 1
    <2>1. Len(e) \in Nat /\ 1 \in Nat /\ l + 1 \in 1 .. Len(e) + 1
      BY <1>1, <1>3
    <2>2. e[l + 1] = STRING_SEPARATOR
      BY <1>1, <1>3
    <2>3. \A i \in 1 .. (l + 1) - 1 : e[i] # STRING_SEPARATOR
      BY <1>3 DEF Has
    <2> QED  BY <2>1, <2>2, <2>3, FindIs
  <1>5. SubSeq(e, 1, l) = k
    <2> DEFINE z == SubSeq(e, 1, l)
    <2>1. l \in Int /\ 1 \in Int /\ \A i \in 1 .. l : e[i] \in T
      <3>1. \A i \in 1 .. l : i \in 1 .. Len(e)
        BY <1>1, <1>3
      <3> QED  BY <1>3, <3>1, ElementOfSeq
    <2>2. /\ z \in Seq(T) /\ Len(z) = IF 1 <= l THEN l - 1 + 1 ELSE 0
          /\ \A i \in 1 .. l - 1 + 1 : z[i] = e[1 + i - 1]
      BY <2>1, SubSeqProperties
    <2> HIDE DEF z
    <2>3. Len(z) = Len(k)
      BY <1>3, <2>2
    <2>4. \A i \in 1 .. Len(z) : z[i] = k[i]
      <3> TAKE i \in 1 .. Len(z)
      <3>1. i \in 1 .. l - 1 + 1 /\ 1 + i - 1 = i /\ i \in 1 .. Len(k)
        BY <1>3, <2>3
      <3> QED  BY <1>3, <2>2, <3>1
    <2>5. z = k
      BY <2>2, <2>3, <2>4, SeqEqual
    <2> QED  BY <2>5 DEF z
  <1>6. SubSeq(e, l + 2, Len(e)) = v
    <2> DEFINE z == SubSeq(e, l + 2, Len(e))
               q == Len(v)
    <2>1. l + 2 \in Int /\ Len(e) \in Int /\ \A i \in l + 2 .. Len(e) : e[i] \in T
      <3>1. \A i \in l + 2 .. Len(e) : i \in 1 .. Len(e)
        BY <1>1, <1>3
      <3> QED  BY <1>1, <1>3, <3>1, ElementOfSeq
    <2>2. /\ z \in Seq(T) /\ Len(z) = IF l + 2 <= Len(e) THEN Len(e) - (l + 2) + 1 ELSE 0
          /\ \A i \in 1 .. Len(e) - (l + 2) + 1 : z[i] = e[(l + 2) + i - 1]
      BY <2>1, SubSeqProperties
    <2>3. Len(e) = l + 1 + q /\ q \in Nat /\ l \in Nat
      BY <1>1, <1>3
    <2> HIDE DEF z, q
    <2>4. Len(z) = q
      BY <2>2, <2>3
    <2>5. \A i \in 1 .. Len(z) : z[i] = v[i]
      <3> TAKE i \in 1 .. Len(z)
      <3>1. /\ i \in 1 .. Len(e) - (l + 2) + 1 /\ (l + 2) + i - 1 = l + 1 + i /\ i \in 1 .. q
        BY <2>3, <2>4
      <3>2. e[l + 1 + i] = v[i]
        BY <1>1, <1>3, <3>1 DEF q
      <3> QED  BY <2>2, <3>1, <3>2
    <2>6. z = v
      BY <2>2, <2>4, <2>5, SeqEqual DEF q
    <2> QED  BY <2>6 DEF z
  <1>7. ~ (p > Len(e)) /\ p - 1 = l /\ p + 1 = l + 2
    <2>1. l \in Nat /\ Len(v) \in Nat /\ Len(e) = l + 1 + Len(v)
      BY <1>1, <1>3
    <2> QED  BY <1>4, <2>1
  <1>8. WithEntry(m, e) = IF p > Len(e) THEN m
                          ELSE With(m, SubSeq(e, 1, p - 1), SubSeq(e, p + 1, Len(e)))
    BY DEF WithEntry
  <1> HIDE DEF p, l
  <1> QED  BY <1>5, <1>6, <1>7, <1>8 DEF e, l

\* Every finite map of strings without the separators is read back as it was written,
\* empty keys and values too, in whatever order its entries are written (insert and
\* get_map of StringMemoryArea).
THEOREM AllMapsReadBack ==
  ASSUME NEW S, NEW K \in SUBSET Seq(S), IsFiniteSet(K), NEW m \in [K -> Seq(S)]
  PROVE  MapReadsBack(m)
  <1> DEFINE T == S \cup {STRING_SEPARATOR, MAP_ENTRY_SEPARATOR}
             keys == SetToSeq(K)
             N == Len(keys)
             entries == [i \in 1 .. N |-> Pair(keys[i], m[keys[i]])]
             text == Join(entries, MAP_ENTRY_SEPARATOR)
  <1> SUFFICES ASSUME \A key \in K : /\ ~ Has(key, STRING_SEPARATOR)
                                     /\ ~ Has(key, MAP_ENTRY_SEPARATOR)
                                     /\ ~ Has(m[key], MAP_ENTRY_SEPARATOR)
               PROVE  get_map(insert_map(m)) = m
    BY DEF MapReadsBack
  <1>1. /\ keys \in Seq(K) /\ N \in Nat
        /\ \A i \in 1 .. N : keys[i] \in K
        /\ \A k \in K : \E i \in 1 .. N : keys[i] = k
    <2>1. keys \in Seq(K) /\ \A k \in K : \E i \in 1 .. N : keys[i] = k
      BY Keys
    <2> QED  BY <2>1, LenProperties, ElementOfSeq
  <1>2. /\ STRING_SEPARATOR \in T /\ MAP_ENTRY_SEPARATOR \in T
        /\ \A k \in K : k \in Seq(T) /\ m[k] \in Seq(T)
    <2>1. S \subseteq T
      OBVIOUS
    <2>2. Seq(S) \subseteq Seq(T)
      <3> HIDE DEF T
      <3> QED  BY <2>1, SeqMonotonic
    <2> QED  BY <2>2
  <1>3. insert_map(m) = text
    BY DEF insert_map
  <1> HIDE DEF T, keys, N
  <1>4. ASSUME NEW i \in 1 .. N
        PROVE  /\ entries[i] = Pair(keys[i], m[keys[i]])
               /\ entries[i] \in Seq(T) /\ entries[i] # <<>>
               /\ ~ Has(entries[i], MAP_ENTRY_SEPARATOR)
    <2> DEFINE k == keys[i]
               v == m[keys[i]]
               y == <<STRING_SEPARATOR>>
               e == k \o y \o v
    <2>1. entries[i] = e
      BY DEF Pair
    <2>2. /\ k \in Seq(T) /\ v \in Seq(T) /\ y \in Seq(T)
          /\ Len(y) = 1 /\ y[1] = STRING_SEPARATOR
          /\ ~ Has(k, MAP_ENTRY_SEPARATOR) /\ ~ Has(v, MAP_ENTRY_SEPARATOR)
      BY <1>1, <1>2
    <2>3. entries[i] = Pair(k, v)
      OBVIOUS
    <2> HIDE DEF k, v, y, entries
    <2>4. e = k \o y \o v
      OBVIOUS
    <2> HIDE DEF e
    <2>5. /\ Len(k) \in Nat /\ Len(y) \in Nat /\ Len(v) \in Nat
          /\ e \in Seq(T)
          /\ Len(e) = Len(k) + Len(y) + Len(v)
          /\ \A n \in 1 .. Len(k) : e[n] = k[n]
          /\ \A n \in 1 .. Len(y) : e[Len(k) + n] = y[n]
          /\ \A n \in 1 .. Len(v) : e[Len(k) + Len(y) + n] = v[n]
      <3>1. k \in Seq(T) /\ y \in Seq(T) /\ v \in Seq(T) /\ e = k \o y \o v
        BY <2>2, <2>4
      <3> QED  BY <3>1, ThreeParts
    <2>6. e # <<>>
      <3>1. Len(e) # 0
        BY <2>2, <2>5
      <3> QED  BY <3>1, EmptySeq
    <2>7. ASSUME NEW n \in 1 .. Len(e)  PROVE e[n] # MAP_ENTRY_SEPARATOR
      <3>1. CASE n <= Len(k)
        <4>1. n \in 1 .. Len(k)
          BY <2>5, <3>1
        <4> QED  BY <2>2, <2>5, <4>1 DEF Has
      <3>2. CASE n = Len(k) + 1
        BY <2>2, <2>5, <3>2, SeparatorsAssumption
      <3>3. CASE n > Len(k) + 1
        <4> DEFINE h == n - Len(k) - 1
        <4>1. h \in 1 .. Len(v) /\ n = Len(k) + Len(y) + h
          BY <2>2, <2>5, <3>3
        <4> HIDE DEF h
        <4>2. e[n] = v[h]
          BY <2>5, <4>1
        <4> QED  BY <2>2, <4>1, <4>2 DEF Has
      <3> QED  BY <2>5, <3>1, <3>2, <3>3
    <2>8. ~ Has(e, MAP_ENTRY_SEPARATOR)
      BY <2>7 DEF Has
    <2> QED  BY <2>1, <2>3, <2>5, <2>6, <2>8 DEF k, v
  <1>5. entries \in Seq(Seq(T)) /\ Len(entries) = N
    <2>1. entries \in [1 .. N -> Seq(T)]
      BY <1>4
    <2> HIDE DEF entries
    <2> QED  BY <1>1, <2>1, SeqDef
  <1> HIDE DEF entries
  <1>6. Pieces(text, MAP_ENTRY_SEPARATOR) = entries
    <2>1. \A n \in 1 .. Len(entries) : ~ Has(entries[n], MAP_ENTRY_SEPARATOR) /\ entries[n] # <<>>
      BY <1>4, <1>5
    <2>2. Pieces(text, MAP_ENTRY_SEPARATOR) = NonEmpty(entries)
      BY <1>2, <1>5, <2>1, PiecesOfJoin
    <2>3. NonEmpty(entries) = entries
      BY <1>5, <2>1, NonEmptyAll
    <2> QED  BY <2>2, <2>3
  <1> HIDE DEF text
  <1> DEFINE U(g) == [n \in 0 .. N |-> IF n = 0 THEN <<>> ELSE WithEntry(g[n - 1], entries[n])]
             upto == CHOOSE g : g = U(g)
             Done(n) == {keys[i] : i \in 1 .. n}
             h == [n \in 0 .. N |-> [k \in Done(n) |-> m[k]]]
  <1>7. get_map(insert_map(m)) = upto[N]
    BY <1>3, <1>5, <1>6 DEF get_map
  <1>8. h[0] = <<>>
    <2>1. 0 \in 0 .. N /\ Done(0) = {}
      BY <1>1
    <2>2. h[0] = [k \in {} |-> m[k]]
      BY <2>1
    <2> QED  BY <2>2
  <1>9. ASSUME NEW n \in 1 .. N  PROVE WithEntry(h[n - 1], entries[n]) = h[n]
    <2> DEFINE k == keys[n]
               v == m[keys[n]]
               x == h[n - 1]
    <2>1. k \in K /\ k \in Seq(T) /\ v \in Seq(T) /\ ~ Has(k, STRING_SEPARATOR)
      BY <1>1, <1>2
    <2>2. entries[n] = Pair(k, v)
      BY <1>4
    <2>3. n - 1 \in 0 .. N /\ n \in 0 .. N /\ Done(n) = Done(n - 1) \cup {k}
      <3>1. 1 .. n = (1 .. n - 1) \cup {n}
        BY <1>1
      <3> QED  BY <1>1, <3>1
    <2>4. x = [z \in Done(n - 1) |-> m[z]] /\ h[n] = [z \in Done(n) |-> m[z]] /\ v = m[k]
      BY <2>3
    <2>5. WithEntry(x, Pair(k, v)) = With(x, k, v)
      <3> HIDE DEF k, v, x
      <3> QED  BY <1>2, <2>1, EntryIsRead
    <2>6. With(x, k, v) = h[n]
      <3> HIDE DEF k, v, x, h, Done
      <3>1. DOMAIN x = Done(n - 1) /\ \A z \in Done(n - 1) : x[z] = m[z]
        BY <2>4
      <3> QED  BY <2>3, <2>4, <3>1 DEF With
    <2> QED  BY <2>2, <2>5, <2>6
  <1> HIDE DEF h
  <1>10. h = U(h)
    <2>1. \A n \in 0 .. N : h[n] = IF n = 0 THEN <<>> ELSE WithEntry(h[n - 1], entries[n])
      <3> TAKE n \in 0 .. N
      <3>1. n # 0 => n \in 1 .. N
        BY <1>1
      <3> QED  BY <1>8, <1>9, <3>1
    <2>2. h = [n \in 0 .. N |-> h[n]]
      BY DEF h
    <2> QED  BY <2>1, <2>2
  <1>11. upto = U(upto)
    <2> HIDE DEF U
    <2> QED  BY <1>10
  <1> HIDE DEF upto
  <1>12. upto[N] = h[N]
    <2> DEFINE X == {n \in Nat : n <= N => upto[n] = h[n]}
    <2>1. 0 \in X
      <3>1. 0 \in 0 .. N
        BY <1>1
      <3>2. upto[0] = <<>>
        BY <1>11, <3>1
      <3> QED  BY <1>8, <3>2
    <2>2. ASSUME NEW n \in Nat, n \in X  PROVE n + 1 \in X
      <3> SUFFICES ASSUME n + 1 <= N  PROVE upto[n + 1] = h[n + 1]
        OBVIOUS
      <3>1. n + 1 \in 1 .. N /\ n + 1 \in 0 .. N /\ n + 1 # 0 /\ (n + 1) - 1 = n /\ upto[n] = h[n]
        <4>1. n <= N
          BY <1>1
        <4> QED  BY <1>1, <2>2, <4>1
      <3>2. upto[n + 1] = WithEntry(upto[n], entries[n + 1])
        <4>1. upto[n + 1] = WithEntry(upto[(n + 1) - 1], entries[n + 1])
          BY <1>11, <3>1
        <4> QED  BY <3>1, <4>1
      <3>3. WithEntry(h[n], entries[n + 1]) = h[n + 1]
        BY <1>9, <3>1
      <3> QED  BY <3>1, <3>2, <3>3
    <2> HIDE DEF X
    <2>3. N \in X
      BY <1>1, <2>1, <2>2, Induction
    <2> QED  BY <1>1, <2>3 DEF X
  <1>13. h[N] = m
    <2>1. N \in 0 .. N /\ Done(N) = K
      BY <1>1
    <2>2. h[N] = [k \in K |-> m[k]]
      BY <2>1 DEF h
    <2> QED  BY <2>2
  <1> QED  BY <1>7, <1>12, <1>13

-----------------------------------------------------------------------------
(* Names of files *)

\* The first place of a character, and 0 if there is none.
LEMMA FirstIs ==
  ASSUME NEW t, Len(t) \in Nat, NEW c, NEW p \in 1 .. Len(t), t[p] = c,
         \A i \in 1 .. p - 1 : t[i] # c
  PROVE  FindFirst(t, c) = p
  <1> DEFINE I == {i \in 1 .. Len(t) : t[i] = c}
             f == CHOOSE x \in I : \A y \in I : x =< y
  <1>1. p \in I /\ I \in SUBSET Nat
    OBVIOUS
  <1>2. \A i \in I : p <= i
    OBVIOUS
  <1>3. FindFirst(t, c) = f
    <2>1. I # {}
      BY <1>1
    <2> QED  BY <2>1 DEF FindFirst, SelectInSeq, Min
  <1> HIDE DEF I
  <1>4. f \in I /\ \A y \in I : f <= y
    BY <1>1, <1>2
  <1>5. f <= p /\ p <= f /\ f \in Nat /\ p \in Nat
    BY <1>1, <1>2, <1>4
  <1> HIDE DEF f
  <1> QED  BY <1>3, <1>5

\* What FindFirst finds is there.
LEMMA FirstWorks ==
  ASSUME NEW t, Len(t) \in Nat, NEW c
  PROVE  /\ FindFirst(t, c) \in 0 .. Len(t)
         /\ FindFirst(t, c) # 0 => t[FindFirst(t, c)] = c
  <1> DEFINE I == {i \in 1 .. Len(t) : t[i] = c}
             f == CHOOSE x \in I : \A y \in I : x =< y
  <1>1. CASE I = {}
    BY <1>1 DEF FindFirst, SelectInSeq
  <1>2. CASE I # {}
    <2>1. FindFirst(t, c) = f
      BY <1>2 DEF FindFirst, SelectInSeq, Min
    <2>2. I \in SUBSET Nat
      OBVIOUS
    <2>3. PICK x \in I : \A y \in I : x <= y
      <3> HIDE DEF I
      <3> QED  BY <1>2, <2>2, LeastNumber
    <2>4. f \in I
      <3> HIDE DEF I
      <3> QED  BY <2>3
    <2> HIDE DEF f
    <2> QED  BY <2>1, <2>4
  <1> QED  BY <1>1, <1>2

\* The last place of a character of which there is one.
LEMMA LastWorks ==
  ASSUME NEW t, Len(t) \in Nat, NEW c, NEW p \in 1 .. Len(t), t[p] = c
  PROVE  /\ FindLast(t, c) \in 1 .. Len(t)
         /\ t[FindLast(t, c)] = c
         /\ \A i \in FindLast(t, c) + 1 .. Len(t) : t[i] # c
  <1> DEFINE L == Len(t)
             I == {i \in 1 .. L : t[i] = c}
             J == {L - i : i \in I}
             f == CHOOSE x \in I : \A y \in I : x >= y
  <1>1. FindLast(t, c) = f
    <2>1. p \in I
      OBVIOUS
    <2>2. I # {}
      BY <2>1
    <2> QED  BY <2>2 DEF FindLast, SelectLastInSeq, Max
  <1>2. \E x \in I : \A y \in I : x >= y
    <2>1. J \in SUBSET Nat /\ J # {}
      <3>1. L - p \in J
        OBVIOUS
      <3> QED  BY <3>1
    <2>2. PICK k \in J : \A j \in J : k <= j
      <3> HIDE DEF J
      <3> QED  BY <2>1, LeastNumber
    <2>3. PICK x \in I : k = L - x
      OBVIOUS
    <2>4. ASSUME NEW y \in I  PROVE x >= y
      <3>1. L - y \in J
        OBVIOUS
      <3>2. L - x <= L - y
        BY <2>2, <2>3, <3>1
      <3>3. x \in Nat /\ y \in Nat /\ L \in Nat
        OBVIOUS
      <3> HIDE DEF I, J, L
      <3> QED  BY <3>2, <3>3
    <2> QED  BY <2>4
  <1>3. f \in I /\ \A y \in I : f >= y
    <2> HIDE DEF I
    <2> QED  BY <1>2
  <1> HIDE DEF f
  <1>4. ASSUME NEW i \in f + 1 .. L  PROVE t[i] # c
    <2> SUFFICES ASSUME t[i] = c  PROVE FALSE
      OBVIOUS
    <2>1. f \in Nat
      BY <1>3
    <2>2. i \in I /\ ~ (f >= i)
      BY <2>1
    <2> QED  BY <1>3, <2>2
  <1> QED  BY <1>1, <1>3, <1>4

\* A piece of a sequence.
LEMMA Piece ==
  ASSUME NEW T, NEW t \in Seq(T), NEW a \in Nat, NEW b \in Nat, 1 <= a, a <= b + 1, b <= Len(t)
  PROVE  /\ SubSeq(t, a, b) \in Seq(T)
         /\ Len(SubSeq(t, a, b)) = b - a + 1
         /\ \A i \in 1 .. b - a + 1 : SubSeq(t, a, b)[i] = t[a + i - 1]
  <1>1. /\ a \in Int /\ b \in Int /\ \A i \in a .. b : t[i] \in T
    <2>1. \A i \in a .. b : i \in 1 .. Len(t)
      BY LenProperties
    <2> QED  BY <2>1, ElementOfSeq
  <1>2. /\ SubSeq(t, a, b) \in Seq(T)
        /\ Len(SubSeq(t, a, b)) = IF a <= b THEN b - a + 1 ELSE 0
        /\ \A i \in 1 .. b - a + 1 : SubSeq(t, a, b)[i] = t[a + i - 1]
    BY <1>1, SubSeqProperties
  <1>3. (IF a <= b THEN b - a + 1 ELSE 0) = b - a + 1
    OBVIOUS
  <1> QED  BY <1>2, <1>3

\* The slashes of a path are finitely many.
LEMMA FiniteSlashes ==
  ASSUME NEW t, Len(t) \in Nat
  PROVE  /\ IsFiniteSet({i \in 2 .. Len(t) : t[i] = "/"})
         /\ Slashes(t) \in Nat
  <1> DEFINE A == {i \in 2 .. Len(t) : t[i] = "/"}
  <1>1. A \in SUBSET (2 .. Len(t)) /\ IsFiniteSet(2 .. Len(t))
    <2>1. 2 \in Int /\ Len(t) \in Int
      OBVIOUS
    <2> QED  BY <2>1, FS_Interval
  <1>2. IsFiniteSet(A)
    <2> HIDE DEF A
    <2> QED  BY <1>1, FS_Subset
  <1>3. Cardinality(A) \in Nat
    <2> HIDE DEF A
    <2> QED  BY <1>2, FS_CardinalityType
  <1> QED  BY <1>2, <1>3 DEF Slashes

\* How depth passes over the protocols.
LEMMA Depths ==
  ASSUME NEW T, NEW t \in Seq(T)
  PROVE  \E f : /\ depth(t) = f[0]
                /\ \A n \in 0 .. Len(t) :
                      LET rest == After(t, n) IN
                      f[n] = IF rest # <<>> /\ rest[1] = "/" THEN Slashes(rest)
                             ELSE IF protocol(rest) = FILE_PROTOCOL
                                  THEN f[n + FindFirst(rest, ":")]
                             ELSE -1
  <1> DEFINE L == Len(t)
             D == 0 .. L
             Ends(n) == After(t, n) # <<>> /\ After(t, n)[1] = "/"
             Goes(n) == ~ Ends(n) /\ protocol(After(t, n)) = FILE_PROTOCOL
             At(n) == IF Ends(n) THEN Slashes(After(t, n)) ELSE -1
             V == {At(n) : n \in D}
             E == {n \in D : Goes(n)}
             U(g) == [n \in D |-> IF Ends(n) THEN Slashes(After(t, n))
                                  ELSE IF protocol(After(t, n)) = FILE_PROTOCOL
                                       THEN g[n + FindFirst(After(t, n), ":")]
                                  ELSE -1]
             from == CHOOSE g : g = U(g)
             j == [n \in E |-> n + FindFirst(After(t, n), ":")]
             F == [n \in E |-> [x \in V |-> x]]
             b == [n \in D |-> At(n)]
             r == [n \in D |-> L - n]
  <1>1. L \in Nat
    BY LenProperties
  <1>2. ASSUME NEW n \in E
        PROVE  n \in Nat /\ n + FindFirst(After(t, n), ":") \in D /\ n + FindFirst(After(t, n), ":") > n
    <2> DEFINE rest == After(t, n)
               k == FindFirst(rest, ":")
    <2>1. n \in Nat /\ n <= L
      BY <1>1
    <2>2. Len(rest) = L - n
      <3>1. /\ n + 1 \in Nat /\ L \in Nat /\ 1 <= n + 1 /\ n + 1 <= L + 1 /\ L <= Len(t)
            /\ L - (n + 1) + 1 = L - n
        BY <1>1, <2>1
      <3>2. Len(SubSeq(t, n + 1, L)) = L - (n + 1) + 1
        <4> HIDE DEF L
        <4> QED  BY <3>1, Piece
      <3> QED  BY <3>1, <3>2 DEF After
    <2>3. protocol(rest) = FILE_PROTOCOL
      OBVIOUS
    <2> HIDE DEF rest
    <2>4. k \in 0 .. L - n
      <3>1. Len(rest) \in Nat
        BY <1>1, <2>1, <2>2
      <3> QED  BY <2>2, <3>1, FirstWorks
    <2>5. k # 0
      BY <2>3, ProtocolAssumption DEF protocol
    <2> HIDE DEF k
    <2>6. n + k \in D /\ n + k > n
      BY <1>1, <2>1, <2>4, <2>5
    <2> QED  BY <2>1, <2>6 DEF k, rest
  <1> HIDE DEF L
  <1>3. \E g \in [D -> V] : \A n \in D : g[n] = IF n \in E THEN F[n][g[j[n]]] ELSE b[n]
    <2>1. E \in SUBSET D /\ b \in [D -> V]
      OBVIOUS
    <2>2. j \in [E -> D] /\ \A n \in E : j[n] > n
      BY <1>2
    <2>3. F \in [E -> [V -> V]]
      OBVIOUS
    <2>4. r \in [D -> 0 .. L] /\ \A n \in E : r[j[n]] < r[n]
      <3>1. \A n \in E : n \in D /\ j[n] \in D
        BY <2>2
      <3> HIDE DEF j, E
      <3> QED  BY <1>1, <2>2, <3>1
    <2> HIDE DEF D, E, V, b, j, F, r
    <2>5. Falls(D, V, E, b, j, F, L, r)
      BY <1>1, <2>1, <2>2, <2>3, <2>4 DEF Falls
    <2>6. Follows(D, V, E, b, j, F)
      BY <2>5, Recursion
    <2> QED  BY <2>6 DEF Follows
  <1>4. PICK g \in [D -> V] : \A n \in D : g[n] = IF n \in E THEN F[n][g[j[n]]] ELSE b[n]
    BY <1>3
  <1>5. g = U(g)
    <2>1. ASSUME NEW n \in E  PROVE F[n][g[j[n]]] = g[n + FindFirst(After(t, n), ":")]
      <3>1. j[n] = n + FindFirst(After(t, n), ":") /\ j[n] \in D
        BY <1>2
      <3>2. g[j[n]] \in V
        BY <3>1
      <3> HIDE DEF j, V, D, E
      <3> QED  BY <3>1, <3>2
    <2>2. ASSUME NEW n \in D
          PROVE  g[n] = IF Ends(n) THEN Slashes(After(t, n))
                        ELSE IF protocol(After(t, n)) = FILE_PROTOCOL
                             THEN g[n + FindFirst(After(t, n), ":")]
                        ELSE -1
      <3>1. n \in E <=> Goes(n)
        OBVIOUS
      <3>2. b[n] = At(n)
        OBVIOUS
      <3> HIDE DEF E, F, j, b, D, V, Ends
      <3> QED  BY <1>4, <2>1, <3>1, <3>2
    <2> HIDE DEF Ends, V
    <2> QED  BY <2>2
  <1>6. from = U(from)
    <2> HIDE DEF U
    <2> QED  BY <1>5
  <1>7. depth(t) = from[0]
    BY DEF depth, L
  <1> HIDE DEF from
  <1>8. \A n \in D : from[n] = IF Ends(n) THEN Slashes(After(t, n))
                               ELSE IF protocol(After(t, n)) = FILE_PROTOCOL
                                    THEN from[n + FindFirst(After(t, n), ":")]
                               ELSE -1
    <2> HIDE DEF Ends
    <2> QED  BY <1>6
  <1> QED  BY <1>7, <1>8 DEF L

\* Of a path it is the number of its slashes.
LEMMA DepthOfPath ==
  ASSUME NEW T, NEW t \in Seq(T), Len(t) >= 1, t[1] = "/"
  PROVE  depth(t) = Slashes(t)
  <1>1. PICK f : /\ depth(t) = f[0]
                 /\ \A n \in 0 .. Len(t) :
                      LET rest == After(t, n) IN
                      f[n] = IF rest # <<>> /\ rest[1] = "/" THEN Slashes(rest)
                             ELSE IF protocol(rest) = FILE_PROTOCOL
                                  THEN f[n + FindFirst(rest, ":")]
                             ELSE -1
    BY Depths
  <1>2. Len(t) \in Nat /\ 0 \in 0 .. Len(t) /\ t # <<>>
    BY LenProperties, EmptySeq
  <1>3. After(t, 0) = t
    BY <1>2, SubSeqFull DEF After
  <1> QED  BY <1>1, <1>2, <1>3

\* What lies in a directory is one slash deeper.
LEMMA OneMoreSlash ==
  ASSUME NEW T, NEW t \in Seq(T), NEW p \in 2 .. Len(t), t[p] = "/",
         \A i \in p + 1 .. Len(t) : t[i] # "/"
  PROVE  Slashes(t) = Slashes(SubSeq(t, 1, p - 1)) + 1
  <1> DEFINE father == SubSeq(t, 1, p - 1)
             A == {i \in 2 .. Len(t) : t[i] = "/"}
             B == {i \in 2 .. Len(father) : father[i] = "/"}
  <1>1. Len(t) \in Nat /\ p \in Nat
    BY LenProperties
  <1>2. Len(father) = p - 1 /\ \A i \in 1 .. p - 1 : father[i] = t[i]
    <2>1. /\ p - 1 \in Nat /\ 1 \in Nat /\ 1 <= 1 /\ 1 <= (p - 1) + 1 /\ p - 1 <= Len(t)
          /\ (p - 1) - 1 + 1 = p - 1
      BY <1>1
    <2>2. /\ Len(father) = (p - 1) - 1 + 1
          /\ \A i \in 1 .. (p - 1) - 1 + 1 : father[i] = t[1 + i - 1]
      BY <2>1, Piece
    <2>3. \A i \in 1 .. p - 1 : 1 + i - 1 = i
      BY <1>1
    <2> HIDE DEF father
    <2> QED  BY <2>1, <2>2, <2>3
  <1> HIDE DEF father
  <1>3. IsFiniteSet(B)
    <2>1. Len(father) \in Nat
      BY <1>1, <1>2
    <2> QED  BY <2>1, FiniteSlashes
  <1>4. A = B \cup {p} /\ p \notin B
    BY <1>1, <1>2
  <1> HIDE DEF A, B
  <1>5. Cardinality(A) = Cardinality(B) + 1
    BY <1>3, <1>4, FS_AddElement
  <1> QED  BY <1>5 DEF A, B, Slashes, father

\* A slash in front of a path counts.
LEMMA SlashInFront ==
  ASSUME NEW T, NEW t \in Seq(T), NEW u \in Seq(T), Len(t) >= 1, t[1] = "/",
         Len(u) = Len(t) + 1, u[1] = "/", \A i \in 1 .. Len(t) : u[i + 1] = t[i]
  PROVE  Slashes(u) = Slashes(t) + 1
  <1> DEFINE A == {i \in 2 .. Len(t) : t[i] = "/"}
             B == A \cup {1}
             C == {i \in 2 .. Len(u) : u[i] = "/"}
             f == [i \in B |-> i + 1]
  <1>1. Len(t) \in Nat /\ Len(u) \in Nat
    BY LenProperties
  <1>2. IsFiniteSet(A) /\ 1 \notin A
    BY <1>1, FiniteSlashes
  <1>3. IsFiniteSet(B) /\ Cardinality(B) = Cardinality(A) + 1
    <2> HIDE DEF A
    <2> QED  BY <1>2, FS_AddElement
  <1>4. f \in [B -> C]
    <2>1. ASSUME NEW i \in B  PROVE i + 1 \in C
      <3>1. i \in 1 .. Len(t) /\ t[i] = "/"
        BY <1>1
      <3> QED  BY <1>1, <3>1
    <2> QED  BY <2>1
  <1>5. \A i, k \in B : f[i] = f[k] => i = k
    <2>1. \A i \in B : i \in Nat /\ f[i] = i + 1
      OBVIOUS
    <2> HIDE DEF B, f
    <2> QED  BY <2>1
  <1>6. \A c \in C : \E i \in B : f[i] = c
    <2> TAKE c \in C
    <2>1. c - 1 \in 1 .. Len(t) /\ (c - 1) + 1 = c
      BY <1>1
    <2>2. t[c - 1] = "/"
      BY <2>1
    <2>3. c - 1 \in B
      BY <1>1, <2>1, <2>2
    <2>4. f[c - 1] = c
      BY <2>1, <2>3
    <2> QED  BY <2>3, <2>4
  <1> HIDE DEF B, C, f
  <1>7. ExistsBijection(B, C)
    BY <1>4, <1>5, <1>6 DEF ExistsBijection, Bijection, Injection, Surjection, IsInjective
  <1>8. Cardinality(C) = Cardinality(B)
    BY <1>3, <1>7, FS_Bijection
  <1> QED  BY <1>3, <1>8 DEF A, C, Slashes

\* The url of a path is one deeper than the path.
LEMMA DepthOfUrl ==
  ASSUME NEW S, NEW t \in Seq(S), Len(t) >= 1, t[1] = "/"
  PROVE  depth(url_of(t)) = depth(t) + 1
  <1> DEFINE T == S \cup STRING \cup {":", "/"}
             P == FILE_PROTOCOL
             y == <<":", "/">>
             u == url_of(t)
             l == Len(FILE_PROTOCOL)
  <1>1. t \in Seq(T) /\ P \in Seq(T) /\ y \in Seq(T)
    <2>1. S \subseteq T /\ STRING \subseteq T /\ y \in Seq(T)
      OBVIOUS
    <2>2. P \in Seq(STRING)
      BY ProtocolAssumption
    <2> HIDE DEF T, y, P
    <2> QED  BY <2>1, <2>2, SeqMonotonic
  <1>2. Len(y) = 2 /\ y[1] = ":" /\ y[2] = "/"
    OBVIOUS
  <1>3. u = P \o y \o t
    BY DEF url_of
  <1> HIDE DEF T, P, y, u
  <1>4. /\ Len(P) \in Nat /\ Len(t) \in Nat /\ u \in Seq(T)
        /\ Len(u) = Len(P) + Len(y) + Len(t)
        /\ \A i \in 1 .. Len(P) : u[i] = P[i]
        /\ \A i \in 1 .. Len(y) : u[Len(P) + i] = y[i]
        /\ \A i \in 1 .. Len(t) : u[Len(P) + Len(y) + i] = t[i]
    BY <1>1, <1>3, ThreeParts
  <1>5. /\ l \in Nat /\ l >= 1 /\ l = Len(P)
        /\ \A i \in 1 .. l : P[i] # ":" /\ P[i] # "/"
    <2>1. P # <<>> /\ l = Len(P) /\ \A i \in 1 .. l : P[i] # ":" /\ P[i] # "/"
      BY ProtocolAssumption DEF P
    <2>2. l # 0
      BY <1>1, <2>1, EmptySeq
    <2> HIDE DEF l
    <2> QED  BY <1>4, <2>1, <2>2
  <1> HIDE DEF l
  <1>6. /\ Len(u) = l + 2 + Len(t) /\ Len(u) \in Nat
        /\ u[1] # "/" /\ u # <<>>
        /\ u[l + 1] = ":" /\ u[l + 2] = "/"
        /\ \A i \in 1 .. l : u[i] = P[i]
        /\ \A i \in 1 .. Len(t) : u[l + 2 + i] = t[i]
    <2>1. Len(u) = l + 2 + Len(t) /\ Len(u) \in Nat
      BY <1>2, <1>4, <1>5
    <2>2. u # <<>>
      <3>1. Len(u) # 0
        BY <1>4, <1>5, <2>1
      <3> QED  BY <3>1, EmptySeq
    <2>3. u[l + 1] = ":" /\ u[l + 2] = "/"
      BY <1>2, <1>4, <1>5
    <2>4. /\ \A i \in 1 .. l : u[i] = P[i]
          /\ \A i \in 1 .. Len(t) : u[l + 2 + i] = t[i]
      BY <1>2, <1>4, <1>5
    <2>5. u[1] # "/"
      <3>1. 1 \in 1 .. l
        BY <1>5
      <3> QED  BY <1>5, <2>4, <3>1
    <2> QED  BY <2>1, <2>2, <2>3, <2>4, <2>5
  <1>7. PICK f : /\ depth(u) = f[0]
                 /\ \A n \in 0 .. Len(u) :
                      LET rest == After(u, n) IN
                      f[n] = IF rest # <<>> /\ rest[1] = "/" THEN Slashes(rest)
                             ELSE IF protocol(rest) = FILE_PROTOCOL
                                  THEN f[n + FindFirst(rest, ":")]
                             ELSE -1
    BY <1>4, Depths
  <1>8. f[0] = f[l + 1]
    <2>1. After(u, 0) = u /\ 0 \in 0 .. Len(u)
      BY <1>4, <1>6, SubSeqFull DEF After
    <2>2. FindFirst(u, ":") = l + 1
      <3>1. l + 1 \in 1 .. Len(u) /\ \A i \in 1 .. (l + 1) - 1 : u[i] # ":"
        BY <1>4, <1>5, <1>6
      <3> QED  BY <1>6, <3>1, FirstIs
    <2>3. protocol(u) = FILE_PROTOCOL
      <3>1. protocol(u) = SubSeq(u, 1, l)
        <4>1. (l + 1) - 1 = l /\ l + 1 # 0
          BY <1>5
        <4> QED  BY <2>2, <4>1 DEF protocol
      <3> DEFINE z == SubSeq(u, 1, l)
      <3>2. /\ z \in Seq(T) /\ Len(z) = l /\ \A i \in 1 .. l : z[i] = u[i]
        <4>1. /\ 1 \in Nat /\ l \in Nat /\ 1 <= 1 /\ 1 <= l + 1 /\ l <= Len(u) /\ l - 1 + 1 = l
              /\ \A i \in 1 .. l : 1 + i - 1 = i
          BY <1>4, <1>5, <1>6
        <4>2. /\ z \in Seq(T) /\ Len(z) = l - 1 + 1
              /\ \A i \in 1 .. l - 1 + 1 : z[i] = u[1 + i - 1]
          BY <1>4, <4>1, Piece
        <4> HIDE DEF z
        <4> QED  BY <4>1, <4>2
      <3> HIDE DEF z
      <3>3. z = P
        BY <1>1, <1>5, <1>6, <3>2, SeqEqual
      <3> QED  BY <3>1, <3>3 DEF z, P
    <2>4. 0 + (l + 1) = l + 1
      BY <1>5
    <2> QED  BY <1>6, <1>7, <2>1, <2>2, <2>3, <2>4
  <1> DEFINE rest == After(u, l + 1)
             L == Len(t)
  <1>9. /\ rest \in Seq(T) /\ Len(rest) = L + 1 /\ rest[1] = "/"
        /\ \A i \in 1 .. L : rest[i + 1] = t[i]
    <2>1. L \in Nat
      BY <1>4
    <2>2. /\ l + 2 \in Nat /\ Len(u) \in Nat /\ 1 <= l + 2 /\ l + 2 <= Len(u) + 1
          /\ Len(u) <= Len(u) /\ Len(u) - (l + 2) + 1 = L + 1
          /\ (l + 1) + 1 = l + 2
      <3> HIDE DEF L
      <3>1. Len(u) = l + 2 + L /\ Len(u) \in Nat
        BY <1>6 DEF L
      <3> QED  BY <1>5, <2>1, <3>1
    <2>3. rest = SubSeq(u, l + 2, Len(u))
      BY <2>2 DEF After
    <2>4. /\ rest \in Seq(T) /\ Len(rest) = Len(u) - (l + 2) + 1
          /\ \A i \in 1 .. Len(u) - (l + 2) + 1 : rest[i] = u[(l + 2) + i - 1]
      <3> HIDE DEF rest
      <3> DEFINE k == l + 2
      <3>1. k \in Nat /\ Len(u) \in Nat /\ 1 <= k /\ k <= Len(u) + 1 /\ Len(u) <= Len(u)
        BY <2>2
      <3> HIDE DEF k
      <3>2. /\ SubSeq(u, k, Len(u)) \in Seq(T) /\ Len(SubSeq(u, k, Len(u))) = Len(u) - k + 1
            /\ \A i \in 1 .. Len(u) - k + 1 : SubSeq(u, k, Len(u))[i] = u[k + i - 1]
        BY <1>4, <3>1, Piece
      <3> QED  BY <2>3, <3>2 DEF k
    <2> HIDE DEF rest
    <2>5. rest[1] = "/"
      <3>1. 1 \in 1 .. L + 1 /\ (l + 2) + 1 - 1 = l + 2
        BY <1>5, <2>1
      <3> QED  BY <1>6, <2>2, <2>4, <3>1
    <2>6. ASSUME NEW i \in 1 .. L  PROVE rest[i + 1] = t[i]
      <3>1. i + 1 \in 1 .. L + 1 /\ (l + 2) + (i + 1) - 1 = l + 2 + i
        BY <1>5, <2>1
      <3> QED  BY <1>6, <2>2, <2>4, <3>1
    <2> QED  BY <2>2, <2>4, <2>5, <2>6
  <1>10. f[l + 1] = Slashes(rest)
    <2>1. l + 1 \in 0 .. Len(u)
      BY <1>4, <1>5, <1>6
    <2>2. rest # <<>>
      <3>1. Len(rest) # 0
        BY <1>4, <1>9
      <3> HIDE DEF rest
      <3> QED  BY <3>1, EmptySeq
    <2> QED  BY <1>7, <1>9, <2>1, <2>2
  <1> HIDE DEF rest, L
  <1>11. Slashes(rest) = Slashes(t) + 1
    BY <1>1, <1>9, SlashInFront DEF L
  <1>12. depth(t) = Slashes(t)
    BY DepthOfPath
  <1> QED  BY <1>7, <1>8, <1>10, <1>11, <1>12 DEF u

\* Of every path that begins with one slash, parent, short name, depth and url fit
\* together (File::parent_name, File::short_name, File::depth).
THEOREM AllNamesCompose ==
  ASSUME NEW S, NEW t \in Seq(S), Len(t) >= 1, t[1] = "/", Len(t) >= 2 => t[2] # "/"
  PROVE  NameComposes(t)
  <1> DEFINE p == FindLast(t, "/")
             father == parent_name(t)
             T == S \cup {"/"}
             L == Len(t)
             q == p - 1
             name == short_name(t)
  <1>0. L \in Nat /\ t \in Seq(T)
    <2>1. S \subseteq T
      OBVIOUS
    <2> HIDE DEF T
    <2> QED  BY <2>1, SeqMonotonic, LenProperties
  <1>1. /\ p \in 1 .. L /\ t[p] = "/"
        /\ \A i \in p + 1 .. L : t[i] # "/"
    <2>1. Len(t) \in Nat /\ 1 \in 1 .. Len(t)
      BY <1>0
    <2> QED  BY <2>1, LastWorks
  <1>2. depth(url_of(t)) = depth(t) + 1
    BY DepthOfUrl
  <1>3. name = SubSeq(t, p + 1, L)
    BY DEF short_name, After
  <1> DEFINE one == <<"/">>
  <1>4. one \in Seq(T) /\ Len(one) = 1 /\ one[1] = "/"
    OBVIOUS
  <1>5. father = IF p \in {0, 1} THEN one ELSE SubSeq(t, 1, q)
    BY DEF parent_name
  <1>6. CASE p = 1
    <2>1. father = one
      BY <1>5, <1>6
    <2>2. t = one \o name
      <3>1. SubSeq(t, 1, 1) = one
        <4> DEFINE z == SubSeq(t, 1, 1)
        <4>1. z \in Seq(T) /\ Len(z) = 1 /\ z[1] = t[1]
          <5>1. /\ 1 \in Nat /\ 1 <= 1 /\ 1 <= 1 + 1 /\ 1 <= Len(t) /\ 1 - 1 + 1 = 1 /\ 1 + 1 - 1 = 1
                /\ 1 \in 1 .. 1
            OBVIOUS
          <5>2. z \in Seq(T) /\ Len(z) = 1 - 1 + 1 /\ \A i \in 1 .. 1 - 1 + 1 : z[i] = t[1 + i - 1]
            BY <1>0, <5>1, Piece
          <5> HIDE DEF z
          <5> QED  BY <5>1, <5>2
        <4> HIDE DEF z, one
        <4>2. z = one
          BY <1>4, <4>1, SeqEqual
        <4> QED  BY <4>2 DEF z
      <3>2. SubSeq(t, 1, 1) \o SubSeq(t, 2, L) = SubSeq(t, 1, L)
        <4>1. /\ 1 \in 1 .. Len(t) + 1 /\ 1 \in 1 - 1 .. Len(t) /\ L \in 1 .. Len(t) /\ 1 + 1 = 2
          BY <1>0
        <4>2. SubSeq(t, 1, 1) \o SubSeq(t, 1 + 1, L) = SubSeq(t, 1, L)
          <5> HIDE DEF L
          <5> QED  BY <1>0, <4>1, ConcatAdjacentSubSeq
        <4> QED  BY <4>1, <4>2
      <3>3. SubSeq(t, 1, L) = t
        BY <1>0, SubSeqFull
      <3>4. name = SubSeq(t, 2, L)
        BY <1>3, <1>6
      <3> HIDE DEF name, one, L
      <3> QED  BY <3>1, <3>2, <3>3, <3>4
    <2>3. depth(t) = 0
      <3>1. {i \in 2 .. Len(t) : t[i] = "/"} = {}
        BY <1>1, <1>6
      <3>2. Slashes(t) = 0
        BY <3>1, FS_EmptySet DEF Slashes
      <3> QED  BY <3>2, DepthOfPath
    <2>4. FindFirst(one, "/") = 1
      <3>1. Len(one) \in Nat /\ 1 \in 1 .. Len(one) /\ \A i \in 1 .. 1 - 1 : one[i] # "/"
        BY <1>4
      <3> HIDE DEF one
      <3> QED  BY <1>4, <3>1, FirstIs
    <2> HIDE DEF father, name
    <2> QED  BY <1>2, <2>1, <2>2, <2>3, <2>4 DEF NameComposes, father, name
  <1>7. CASE p # 1
    <2>1. /\ p \in 2 .. L /\ q \in Nat /\ q >= 2 /\ q <= L /\ p = q + 1
      <3>1. p # 2
        BY <1>0, <1>1
      <3> HIDE DEF p, L
      <3> QED  BY <1>0, <1>1, <1>7, <3>1
    <2>2. father = SubSeq(t, 1, q)
      BY <1>1, <1>5, <1>7
    <2> HIDE DEF father
    <2>3. father \in Seq(T) /\ Len(father) = q /\ \A i \in 1 .. q : father[i] = t[i]
      <3> HIDE DEF q, L
      <3>1. /\ 1 \in Nat /\ 1 <= 1 /\ 1 <= q + 1 /\ q <= Len(t) /\ q - 1 + 1 = q
            /\ \A i \in 1 .. q : 1 + i - 1 = i
        BY <1>0, <2>1 DEF L
      <3>2. /\ father \in Seq(T) /\ Len(father) = q - 1 + 1
            /\ \A i \in 1 .. q - 1 + 1 : father[i] = t[1 + i - 1]
        BY <1>0, <2>1, <2>2, <3>1, Piece
      <3> QED  BY <3>1, <3>2
    <2>4. father[1] = "/" /\ 1 \in 1 .. Len(father) /\ father # one
      BY <2>1, <2>3
    <2>5. FindFirst(father, "/") = 1
      <3>1. Len(father) \in Nat /\ \A i \in 1 .. 1 - 1 : father[i] # "/"
        BY <2>1, <2>3
      <3> QED  BY <2>4, <3>1, FirstIs
    <2>6. t = (father \o one) \o name
      <3>1. SubSeq(t, p, p) = one
        <4> DEFINE z == SubSeq(t, p, p)
        <4>1. z \in Seq(T) /\ Len(z) = 1 /\ z[1] = t[p]
          <5>1. /\ p \in Nat /\ 1 <= p /\ p <= p + 1 /\ p <= Len(t) /\ p - p + 1 = 1 /\ p + 1 - 1 = p
                /\ 1 \in 1 .. 1
            BY <2>1
          <5>2. z \in Seq(T) /\ Len(z) = p - p + 1 /\ \A i \in 1 .. p - p + 1 : z[i] = t[p + i - 1]
            BY <1>0, <5>1, Piece
          <5> HIDE DEF z
          <5> QED  BY <5>1, <5>2
        <4> HIDE DEF z, one
        <4>2. z = one
          BY <1>1, <1>4, <4>1, SeqEqual
        <4> QED  BY <4>2 DEF z
      <3> HIDE DEF q, L
      <3>2. SubSeq(t, 1, q) \o SubSeq(t, p, p) = SubSeq(t, 1, p)
        <4>1. 1 \in 1 .. Len(t) + 1 /\ q \in 1 - 1 .. Len(t) /\ p \in q .. Len(t)
          BY <1>0, <2>1 DEF L
        <4>2. SubSeq(t, 1, q) \o SubSeq(t, q + 1, p) = SubSeq(t, 1, p)
          BY <1>0, <4>1, ConcatAdjacentSubSeq
        <4> QED  BY <2>1, <4>2
      <3>3. SubSeq(t, 1, p) \o SubSeq(t, p + 1, L) = SubSeq(t, 1, L)
        <4>1. 1 \in 1 .. Len(t) + 1 /\ p \in 1 - 1 .. Len(t) /\ L \in p .. Len(t)
          BY <1>0, <2>1 DEF L
        <4> QED  BY <1>0, <4>1, ConcatAdjacentSubSeq
      <3>4. SubSeq(t, 1, L) = t
        BY <1>0, SubSeqFull DEF L
      <3> HIDE DEF name, one
      <3> QED  BY <1>3, <2>2, <3>1, <3>2, <3>3, <3>4
    <2>7. depth(t) = depth(father) + 1
      <3>1. Slashes(t) = Slashes(father) + 1
        <4>1. p \in 2 .. Len(t) /\ \A i \in p + 1 .. Len(t) : t[i] # "/"
          BY <1>1, <2>1
        <4> QED  BY <1>0, <1>1, <2>2, <4>1, OneMoreSlash
      <3>2. depth(t) = Slashes(t)
        BY DepthOfPath
      <3>3. depth(father) = Slashes(father)
        <4>1. Len(father) >= 1
          BY <2>1, <2>3
        <4> QED  BY <2>3, <2>4, <4>1, DepthOfPath
      <3> QED  BY <3>1, <3>2, <3>3
    <2> HIDE DEF name
    <2> QED  BY <1>2, <2>4, <2>5, <2>6, <2>7 DEF NameComposes, father, name
  <1> QED  BY <1>6, <1>7

-----------------------------------------------------------------------------
(* The steps of the application *)

\* The characters of the strings and paths that the application builds.
Chars == {"a", ";", ":", "/"}

\* Its lists of strings.
Vectors == Seq(Seq(Chars))

\* What the application builds: lists and maps of strings, paths that begin with one
\* slash, and sizes.
Inputs ==
    /\ vect \in Vectors
    /\ DOMAIN map \in SUBSET Seq(Chars) /\ IsFiniteSet(DOMAIN map)
    /\ map \in [DOMAIN map -> Seq(Chars)]
    /\ path \in Seq(Chars) /\ Len(path) >= 1 /\ path[1] = "/"
    /\ Len(path) >= 2 => path[2] # "/"
    /\ size \in Nat

\* The words are strings of these characters.
LEMMA WordsAre ==
  /\ \A n \in Nat : Words(n) \subseteq Seq(Chars)
  /\ \A e \in Entries : e \in Seq(Chars) /\ Len(e) >= 1 /\ e[1] # "/"
  <1>1. ASSUME NEW n \in Nat, NEW w \in Words(n)  PROVE w \in Seq(Chars)
    <2> DEFINE Some == {"a", ";", ":"}
    <2>1. PICK i \in 0 .. n : w \in [1 .. i -> Some]
      BY DEF Words
    <2>2. Some \subseteq Chars
      BY DEF Chars
    <2> HIDE DEF Some
    <2>3. i \in Nat /\ w \in [1 .. i -> Chars]
      BY <2>1, <2>2
    <2> QED  BY <2>3, SeqDef
  <1>2. ASSUME NEW e \in Entries  PROVE e \in Seq(Chars) /\ Len(e) >= 1 /\ e[1] # "/"
    <2>1. PICK i \in 1 .. 2 : e \in [1 .. i -> {"a", ":"}]
      BY DEF Entries
    <2>2. i \in Nat /\ i >= 1 /\ e \in [1 .. i -> Chars] /\ e[1] \in {"a", ":"}
      <3>1. {"a", ":"} \subseteq Chars
        BY DEF Chars
      <3>2. 1 \in 1 .. i /\ i \in Nat /\ i >= 1
        OBVIOUS
      <3> QED  BY <2>1, <3>1, <3>2
    <2>3. e \in Seq(Chars)
      BY <2>2, SeqDef
    <2>4. Len(e) = i
      BY <2>2, <2>3, LenProperties
    <2> QED  BY <2>2, <2>3, <2>4
  <1> QED  BY <1>1, <1>2

\* What lies in the root or in a directory has a path that begins with one slash.
LEMMA Below ==
  ASSUME NEW t \in Seq(Chars), Len(t) >= 1, t[1] = "/", Len(t) >= 2 => t[2] # "/",
         NEW e \in Entries, NEW u,
         u = (IF t = <<"/">> THEN t ELSE t \o <<"/">>) \o e
  PROVE  u \in Seq(Chars) /\ Len(u) >= 1 /\ u[1] = "/" /\ u[2] # "/"
  <1> DEFINE one == <<"/">>
             p == IF t = one THEN t ELSE t \o one
  <1>1. one \in Seq(Chars) /\ Len(one) = 1 /\ one[1] = "/"
    <2>1. "/" \in Chars
      BY DEF Chars
    <2> QED  BY <2>1
  <1>2. u = p \o e
    OBVIOUS
  <1>3. e \in Seq(Chars) /\ Len(e) >= 1 /\ e[1] # "/" /\ Len(e) \in Nat
    BY WordsAre, LenProperties
  <1>4. t \in Seq(Chars) /\ Len(t) \in Nat
    BY LenProperties
  <1> HIDE DEF one
  <1>5. t # one => Len(t) # 1
    <2>1. Len(t) = 1 => \A i \in 1 .. Len(t) : t[i] = one[i]
      BY <1>1
    <2> QED  BY <1>1, <2>1, SeqEqual
  <1>6. /\ p \in Seq(Chars) /\ Len(p) \in Nat /\ Len(p) >= 1 /\ p[1] = "/"
        /\ Len(p) = 1 \/ (Len(p) >= 2 /\ p[2] # "/")
    <2>1. CASE t = one
      BY <1>1, <2>1
    <2>2. CASE t # one
      <3>1. p = t \o one /\ Len(t) >= 2
        BY <1>4, <1>5, <2>2
      <3> HIDE DEF p
      <3>2. /\ p \in Seq(Chars) /\ Len(p) = Len(t) + 1
            /\ \A i \in 1 .. Len(t) + 1 : p[i] = IF i <= Len(t) THEN t[i] ELSE one[i - Len(t)]
        <4>1. /\ t \o one \in Seq(Chars) /\ Len(t \o one) = Len(t) + Len(one)
              /\ \A i \in 1 .. Len(t) + Len(one) :
                    (t \o one)[i] = IF i <= Len(t) THEN t[i] ELSE one[i - Len(t)]
          BY <1>1, <1>4, ConcatProperties
        <4> QED  BY <1>1, <3>1, <4>1
      <3>3. p[1] = t[1] /\ p[2] = t[2]
        BY <1>4, <3>1, <3>2
      <3> QED  BY <1>4, <3>1, <3>2, <3>3
    <2> QED  BY <2>1, <2>2
  <1> HIDE DEF p
  <1>7. /\ u \in Seq(Chars) /\ Len(u) = Len(p) + Len(e)
        /\ \A i \in 1 .. Len(p) + Len(e) : u[i] = IF i <= Len(p) THEN p[i] ELSE e[i - Len(p)]
    <2>1. p \in Seq(Chars) /\ e \in Seq(Chars)
      BY <1>3, <1>6
    <2>2. /\ p \o e \in Seq(Chars) /\ Len(p \o e) = Len(p) + Len(e)
          /\ \A i \in 1 .. Len(p) + Len(e) :
                (p \o e)[i] = IF i <= Len(p) THEN p[i] ELSE e[i - Len(p)]
      BY <2>1, ConcatProperties
    <2> QED  BY <1>2, <2>2
  <1>8. u[1] = p[1]
    <2>1. 1 \in 1 .. Len(p) + Len(e) /\ 1 <= Len(p)
      BY <1>3, <1>6
    <2> QED  BY <1>7, <2>1
  <1>9. u[2] = IF Len(p) = 1 THEN e[1] ELSE p[2]
    <2> DEFINE k == Len(p)
               l == Len(e)
    <2>1. 2 \in 1 .. k + l /\ (2 <= k <=> k # 1) /\ (k = 1 => 2 - k = 1)
      <3>1. k \in Nat /\ k >= 1 /\ l \in Nat /\ l >= 1
        BY <1>3, <1>6
      <3> HIDE DEF k, l
      <3> QED  BY <3>1
    <2> QED  BY <1>7, <2>1
  <1> QED  BY <1>3, <1>6, <1>7, <1>8, <1>9

\* They are such at first,
LEMMA InputsAtFirst == Init => Inputs
  <1> SUFFICES ASSUME Init  PROVE Inputs
    OBVIOUS
  <1>1. vect \in Vectors /\ size \in Nat
    BY DEF Init, Vectors
  <1>2. DOMAIN map = {} /\ map \in [DOMAIN map -> Seq(Chars)]
    BY DEF Init
  <1>3. IsFiniteSet(DOMAIN map)
    BY <1>2, FS_EmptySet
  <1>4. path \in Seq(Chars) /\ Len(path) = 1 /\ path[1] = "/"
    BY DEF Init, Chars
  <1> QED  BY <1>1, <1>2, <1>3, <1>4 DEF Inputs

\* and no step builds another.
LEMMA InputsStay == Inputs /\ [Next]_vars => Inputs'
  <1> SUFFICES ASSUME Inputs, [Next]_vars  PROVE Inputs'
    OBVIOUS
  <1> USE DEF Inputs
  <1>1. CASE AddString
    <2>1. PICK s \in Words(2) : vect' = Append(vect, s)
      BY <1>1 DEF AddString
    <2>2. s \in Seq(Chars)
      BY <2>1, WordsAre
    <2>3. vect' \in Vectors
      BY <2>1, <2>2, AppendProperties DEF Vectors
    <2>4. UNCHANGED <<map, path, size>>
      BY <1>1 DEF AddString
    <2> QED  BY <2>3, <2>4
  <1>2. CASE AddEntry
    <2>1. PICK key \in Words(1), value \in Words(2) : map' = With(map, key, value)
      BY <1>2 DEF AddEntry
    <2>2. key \in Seq(Chars) /\ value \in Seq(Chars)
      BY <2>1, WordsAre
    <2>3. /\ DOMAIN map' = DOMAIN map \cup {key}
          /\ \A k \in DOMAIN map' : map'[k] = IF k = key THEN value ELSE map[k]
          /\ map' = [k \in DOMAIN map' |-> map'[k]]
      BY <2>1 DEF With
    <2>4. \A k \in DOMAIN map' : map'[k] \in Seq(Chars)
      BY <2>2, <2>3
    <2>5. map' \in [DOMAIN map' -> Seq(Chars)] /\ DOMAIN map' \in SUBSET Seq(Chars)
      BY <2>2, <2>3, <2>4
    <2>6. IsFiniteSet(DOMAIN map')
      <3>1. IsFiniteSet(DOMAIN map \cup {key})
        BY FS_AddElement
      <3> QED  BY <2>3, <3>1
    <2>7. UNCHANGED <<vect, path, size>>
      BY <1>2 DEF AddEntry
    <2> QED  BY <2>5, <2>6, <2>7
  <1>3. CASE Descend
    <2>1. PICK e \in Entries :
            path' = (IF path = <<"/">> THEN path ELSE path \o <<"/">>) \o e
      BY <1>3 DEF Descend
    <2>2. path \in Seq(Chars) /\ Len(path) >= 1 /\ path[1] = "/" /\ (Len(path) >= 2 => path[2] # "/")
      OBVIOUS
    <2> DEFINE z == path'
    <2>3. z = (IF path = <<"/">> THEN path ELSE path \o <<"/">>) \o e
      BY <2>1
    <2> HIDE DEF z
    <2>4. z \in Seq(Chars) /\ Len(z) >= 1 /\ z[1] = "/" /\ z[2] # "/"
      BY <2>2, <2>3, Below
    <2>7. UNCHANGED <<vect, map, size>>
      BY <1>3 DEF Descend
    <2> QED  BY <2>4, <2>7 DEF z
  <1>4. CASE AddByte
    BY <1>4 DEF AddByte
  <1>5. CASE UNCHANGED vars
    BY <1>5 DEF vars
  <1> QED  BY <1>1, <1>2, <1>3, <1>4, <1>5 DEF Next

\* All inputs are such.
LEMMA InputsAlways == Spec => []Inputs
  BY InputsAtFirst, InputsStay, PTL DEF Spec

\* Every list, map and name the application builds is read back as it was written,
\* for any bounds of what it builds (StringMemoryArea.cpp, Path.cpp, File.cpp).
THEOREM TextsAlwaysReadBack == Spec => []TextsReadBack
  <1>1. Inputs => TextsReadBack
    <2> SUFFICES ASSUME Inputs  PROVE TextsReadBack
      OBVIOUS
    <2>1. VectorReadsBack(vect)
      BY AllVectorsReadBack DEF Inputs, Vectors
    <2>2. MapReadsBack(map)
      BY AllMapsReadBack DEF Inputs
    <2>3. NameComposes(path)
      BY AllNamesCompose DEF Inputs
    <2> QED  BY <2>1, <2>2, <2>3 DEF TextsReadBack
  <1> QED  BY <1>1, InputsAlways, PTL

\* Of every size it builds all bytes are printed, but for one byte above whole
\* kilobytes, while its gigabytes fit an int (File::pretty_size).
THEOREM SizesAlwaysAddUp == Spec => []SizesAddUp
  <1>1. Inputs => SizesAddUp
    BY AllSizesAddUp DEF Inputs, SizesAddUp
  <1> QED  BY <1>1, InputsAlways, PTL
=============================================================================
