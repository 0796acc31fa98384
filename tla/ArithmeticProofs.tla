---------------------------- MODULE ArithmeticProofs ----------------------------
(***************************************************************************)
(* Proofs about the computations that all the tools share: digests are the *)
(* standard's, Montgomery products are products modulo N, and ECDSA as     *)
(* ec.c computes it is the textbook's.                                     *)
(***************************************************************************)
EXTENDS Arithmetic, FiniteSetTheorems, WellFoundedInduction, TLAPS

-----------------------------------------------------------------------------
(* Induction and recursion over the naturals. *)

\* A non-empty set of naturals has a least element: among the intervals from 0
\* to its elements, one is minimal for strict inclusion.
LEMMA LeastNat ==
    ASSUME NEW A \in SUBSET Nat, A # {}
    PROVE  \E k \in A : \A l \in A : k <= l
<1> DEFINE Less == StrictSubsetOrdering(Nat)
           F == FiniteSubsetsOf(Nat)
           T == {0 .. s : s \in A}
<1>1. IsWellFoundedOn(Less, F)
  BY FS_StrictSubsetOrderingWellFounded
<1>2. T \subseteq F /\ T # {}
  <2>1. \A s \in A : 0 .. s \in SUBSET Nat /\ IsFiniteSet(0 .. s)
    BY FS_Interval
  <2> QED BY <2>1 DEF FiniteSubsetsOf
<1>3. PICK x \in T : \A y \in T : ~ (<<y, x>> \in Less)
  <2> HIDE DEF Less, F, T
  <2> QED BY <1>1, <1>2, WFMin
<1>4. PICK k \in A : x = 0 .. k
  OBVIOUS
<1>5. ASSUME NEW l \in A, l < k
      PROVE  FALSE
  <2>1. 0 .. l \in T /\ 0 .. l \subseteq x /\ k \in x /\ k \notin 0 .. l
    BY <1>4, <1>5
  <2>2. 0 .. l \in SUBSET Nat /\ x \in SUBSET Nat
    BY <1>4
  <2>3. <<0 .. l, x>> \in Less
    BY <2>1, <2>2 DEF StrictSubsetOrdering
  <2> QED BY <1>3, <2>1, <2>3
<1> QED BY <1>5

\* Induction up to n, over the set of the numbers that have the property.
LEMMA Climb ==
    ASSUME NEW n \in Nat, NEW P, 0 \in P,
           \A k \in 1 .. n : k - 1 \in P => k \in P
    PROVE  \A k \in 0 .. n : k \in P
<1> DEFINE F == {k \in 0 .. n : k \notin P}
<1>1. ASSUME F # {} PROVE FALSE
  <2>1. F \in SUBSET Nat
    OBVIOUS
  <2>2. PICK k \in F : \A l \in F : k <= l
    <3> HIDE DEF F
    <3> QED BY <1>1, <2>1, LeastNat
  <2>3. k \in 1 .. n /\ k \notin P
    OBVIOUS
  <2>4. k - 1 \in P
    <3>1. CASE k - 1 \in P
      BY <3>1
    <3>2. CASE k - 1 \notin P
      <4>1. k - 1 \in F
        BY <2>3, <3>2
      <4> QED BY <2>2, <2>3, <4>1
    <3> QED BY <3>1, <3>2
  <2> QED BY <2>3, <2>4
<1> QED BY <1>1

\* f is what comes of v by n steps.
Runs(f, n, V, v, step) ==
    /\ f \in [0 .. n -> V] /\ f[0] = v
    /\ \A k \in 1 .. n : f[k] = step[<<k, f[k - 1]>>]

\* A recursion over 0 .. n whose values stay in V has a solution.
LEMMA Recursion ==
    ASSUME NEW n \in Nat, NEW V, NEW v \in V, NEW step \in [(1 .. n) \X V -> V]
    PROVE  \E f : Runs(f, n, V, v, step)
<1> DEFINE Solves(m, f) == /\ f \in [0 .. m -> V] /\ f[0] = v
                           /\ \A k \in 1 .. m : f[k] = step[<<k, f[k - 1]>>]
           P == {m \in 0 .. n : \E f : Solves(m, f)}
<1>1. 0 \in P
  <2>1. Solves(0, [k \in 0 .. 0 |-> v])
    OBVIOUS
  <2> HIDE DEF Solves
  <2> QED BY <2>1
<1>2. \A m \in 1 .. n : m - 1 \in P => m \in P
  <2> SUFFICES ASSUME NEW m \in 1 .. n, m - 1 \in P
               PROVE  m \in P
    OBVIOUS
  <2>1. PICK f : Solves(m - 1, f)
    OBVIOUS
  <2> DEFINE g == [k \in 0 .. m |-> IF k = m THEN step[<<m, f[m - 1]>>] ELSE f[k]]
  <2>2. f[m - 1] \in V
    BY <2>1
  <2>3. step[<<m, f[m - 1]>>] \in V
    BY <2>2
  <2>4. \A k \in 0 .. m - 1 : g[k] = f[k]
    OBVIOUS
  <2>5. g \in [0 .. m -> V] /\ g[0] = v
    BY <2>1, <2>3
  <2>6. \A k \in 1 .. m : g[k] = step[<<k, g[k - 1]>>]
    <3> SUFFICES ASSUME NEW k \in 1 .. m PROVE g[k] = step[<<k, g[k - 1]>>]
      OBVIOUS
    <3>1. CASE k = m
      <4>1. g[m] = step[<<m, f[m - 1]>>] /\ g[m - 1] = f[m - 1]
        OBVIOUS
      <4> HIDE DEF g
      <4> QED BY <3>1, <4>1
    <3>2. CASE k # m
      <4>1. f[k] = step[<<k, f[k - 1]>>]
        BY <2>1, <3>2
      <4>2. g[k] = f[k] /\ g[k - 1] = f[k - 1]
        BY <2>4, <3>2
      <4> HIDE DEF g
      <4> QED BY <4>1, <4>2
    <3> QED BY <3>1, <3>2
  <2>7. Solves(m, g)
    <3> HIDE DEF g
    <3> QED BY <2>5, <2>6
  <2> HIDE DEF Solves, g
  <2> QED BY <2>7
<1>3. n \in P
  <2> HIDE DEF P
  <2> QED BY <1>1, <1>2, Climb
<1>4. PICK f : Solves(n, f)
  BY <1>3
<1>5. Runs(f, n, V, v, step)
  BY <1>4 DEF Runs
<1> QED BY <1>5

-----------------------------------------------------------------------------
(* Powers. *)

\* The function in the definition of Pow exists.
LEMMA PowTable ==
    ASSUME NEW x \in Int, NEW n \in Nat
    PROVE  \E f \in [0 .. n -> Int] :
              /\ f[0] = 1 /\ \A k \in 1 .. n : f[k] = f[k - 1] * x
              /\ Pow(x, n) = f[n]
<1> DEFINE step == [q \in (1 .. n) \X Int |-> q[2] * x]
<1>1. PICK f \in [0 .. n -> Int] : f[0] = 1 /\ \A k \in 1 .. n : f[k] = step[<<k, f[k - 1]>>]
  <2>1. step \in [(1 .. n) \X Int -> Int] /\ 1 \in Int
    OBVIOUS
  <2> HIDE DEF step
  <2>2. PICK f : Runs(f, n, Int, 1, step)
    BY <2>1, Recursion
  <2> QED BY <2>2 DEF Runs
<1>2. \A k \in 1 .. n : f[k] = f[k - 1] * x
  <2> SUFFICES ASSUME NEW k \in 1 .. n PROVE f[k] = f[k - 1] * x
    OBVIOUS
  <2>1. f[k - 1] \in Int /\ <<k, f[k - 1]>> \in (1 .. n) \X Int
    BY <1>1
  <2>2. step[<<k, f[k - 1]>>] = f[k - 1] * x
    BY <2>1
  <2> HIDE DEF step
  <2> QED BY <1>1, <2>2
<1> DEFINE Table0(p) == [k \in 0 .. n |-> IF k = 0 THEN 1 ELSE p[k - 1] * x]
<1>3. f = Table0(f)
  <2>1. \A k \in 0 .. n : f[k] = Table0(f)[k]
    BY <1>1, <1>2
  <2> HIDE DEF step
  <2> QED BY <1>1, <2>1
<1> DEFINE g == CHOOSE p : p = Table0(p)
<1>4. g = Table0(g)
  <2> HIDE DEF Table0
  <2> QED BY <1>3
<1>5. Pow(x, n) = g[n]
  BY DEF Pow
<1> HIDE DEF g
<1>6. g[0] = 1 /\ \A k \in 1 .. n : g[k] = g[k - 1] * x
  <2>1. \A k \in 0 .. n : g[k] = Table0(g)[k]
    BY <1>4
  <2> QED BY <2>1
<1>7. \A k \in 0 .. n : g[k] \in Int
  <2> DEFINE P == {k \in 0 .. n : g[k] \in Int}
  <2>1. 0 \in P
    BY <1>6
  <2>2. \A k \in 1 .. n : k - 1 \in P => k \in P
    BY <1>6
  <2> HIDE DEF P
  <2>3. \A k \in 0 .. n : k \in P
    BY <2>1, <2>2, Climb
  <2> QED BY <2>3 DEF P
<1>8. g \in [0 .. n -> Int]
  <2>1. DOMAIN g = 0 .. n /\ g = [k \in 0 .. n |-> g[k]]
    BY <1>4
  <2> QED BY <2>1, <1>7
<1> QED BY <1>5, <1>6, <1>8

\* Such a function, on a longer interval too, is the power everywhere.
LEMMA PowIs ==
    ASSUME NEW x \in Int, NEW n \in Nat, NEW m \in 0 .. n, NEW f \in [0 .. n -> Int],
           f[0] = 1, \A k \in 1 .. n : f[k] = f[k - 1] * x
    PROVE  Pow(x, m) = f[m]
<1>0. m \in Nat
  OBVIOUS
<1>1. PICK g \in [0 .. m -> Int] : /\ g[0] = 1 /\ \A k \in 1 .. m : g[k] = g[k - 1] * x
                                   /\ Pow(x, m) = g[m]
  BY <1>0, PowTable
<1> DEFINE P == {k \in 0 .. m : f[k] = g[k]}
<1>2. 0 \in P
  BY <1>1
<1>3. \A k \in 1 .. m : k - 1 \in P => k \in P
  BY <1>1
<1> HIDE DEF P
<1>4. \A k \in 0 .. m : k \in P
  BY <1>0, <1>2, <1>3, Climb
<1>5. f[m] = g[m]
  BY <1>4 DEF P
<1> QED BY <1>1, <1>5

\* The recurrence of Pow.
LEMMA PowStep ==
    ASSUME NEW x \in Int, NEW n \in Nat
    PROVE  Pow(x, 0) = 1 /\ Pow(x, n + 1) = Pow(x, n) * x /\ Pow(x, n) \in Int
<1>0. n + 1 \in Nat /\ 0 \in 0 .. n + 1 /\ n \in 0 .. n + 1 /\ n + 1 \in 0 .. n + 1
  OBVIOUS
<1>1. PICK f \in [0 .. n + 1 -> Int] : f[0] = 1 /\ \A k \in 1 .. n + 1 : f[k] = f[k - 1] * x
  BY <1>0, PowTable
<1>2. Pow(x, 0) = f[0]
  BY <1>0, <1>1, PowIs
<1>3. Pow(x, n) = f[n]
  BY <1>0, <1>1, PowIs
<1>4. Pow(x, n + 1) = f[n + 1]
  BY <1>0, <1>1, PowIs
<1> QED BY <1>1, <1>2, <1>3, <1>4

\* A power of a positive number is one.
LEMMA PowPositive ==
    ASSUME NEW x \in Nat \ {0}, NEW n \in Nat
    PROVE  Pow(x, n) \in Nat \ {0}
<1> DEFINE P == {k \in 0 .. n : Pow(x, k) \in Nat \ {0}}
<1>1. 0 \in P
  BY PowStep
<1>2. \A k \in 1 .. n : k - 1 \in P => k \in P
  <2> SUFFICES ASSUME NEW k \in 1 .. n, k - 1 \in P PROVE k \in P
    OBVIOUS
  <2>1. Pow(x, (k - 1) + 1) = Pow(x, k - 1) * x
    BY PowStep
  <2>2. Pow(x, k) = Pow(x, k - 1) * x
    BY <2>1
  <2> QED BY <2>2
<1> HIDE DEF P
<1>3. n \in P
  BY <1>1, <1>2, Climb
<1> QED BY <1>3 DEF P

\* The power of a sum.
LEMMA PowSum ==
    ASSUME NEW x \in Int, NEW m \in Nat, NEW n \in Nat
    PROVE  Pow(x, m + n) = Pow(x, m) * Pow(x, n)
<1> DEFINE P == {k \in 0 .. n : Pow(x, m + k) = Pow(x, m) * Pow(x, k)}
<1>0. Pow(x, m) \in Int
  BY PowStep
<1>1. 0 \in P
  BY <1>0, PowStep
<1>2. \A k \in 1 .. n : k - 1 \in P => k \in P
  <2> SUFFICES ASSUME NEW k \in 1 .. n, k - 1 \in P PROVE k \in P
    OBVIOUS
  <2>1. Pow(x, (k - 1) + 1) = Pow(x, k - 1) * x /\ Pow(x, k - 1) \in Int
    BY PowStep
  <2>2. Pow(x, (m + (k - 1)) + 1) = Pow(x, m + (k - 1)) * x
    BY PowStep
  <2>3. (k - 1) + 1 = k /\ (m + (k - 1)) + 1 = m + k
    OBVIOUS
  <2>4. Pow(x, m + k) = (Pow(x, m) * Pow(x, k - 1)) * x
    BY <2>2, <2>3
  <2>5. Pow(x, k) = Pow(x, k - 1) * x
    BY <2>1, <2>3
  <2>6. PICK u \in Int, v \in Int : u = Pow(x, m) /\ v = Pow(x, k - 1)
    BY <1>0, <2>1
  <2>7. (u * v) * x = u * (v * x)
    OBVIOUS
  <2>8. Pow(x, m + k) = Pow(x, m) * Pow(x, k)
    BY <2>4, <2>5, <2>6, <2>7
  <2> QED BY <2>8
<1> HIDE DEF P
<1>3. n \in P
  BY <1>1, <1>2, Climb
<1> QED BY <1>3 DEF P

\* The power of a power.
LEMMA PowPow ==
    ASSUME NEW x \in Int, NEW m \in Nat, NEW n \in Nat
    PROVE  Pow(Pow(x, m), n) = Pow(x, m * n)
<1> DEFINE P == {k \in 0 .. n : Pow(Pow(x, m), k) = Pow(x, m * k)}
<1>0. PICK u \in Int : u = Pow(x, m)
  BY PowStep
<1>1. 0 \in P
  <2>1. Pow(u, 0) = 1 /\ Pow(x, 0) = 1
    BY PowStep
  <2> QED BY <1>0, <2>1
<1>2. \A k \in 1 .. n : k - 1 \in P => k \in P
  <2> SUFFICES ASSUME NEW k \in 1 .. n, k - 1 \in P PROVE k \in P
    OBVIOUS
  <2>1. Pow(u, (k - 1) + 1) = Pow(u, k - 1) * u
    BY PowStep
  <2>2. PICK mm \in Nat : mm = m * (k - 1)
    OBVIOUS
  <2>3. Pow(x, mm + m) = Pow(x, mm) * Pow(x, m)
    BY PowSum
  <2>4. (k - 1) + 1 = k /\ mm + m = m * k
    BY <2>2
  <2>5. Pow(u, k) = Pow(u, k - 1) * u
    BY <2>1, <2>4
  <2>6. Pow(x, m * k) = Pow(x, mm) * u
    BY <1>0, <2>3, <2>4
  <2>7. Pow(u, k - 1) = Pow(x, mm)
    BY <1>0, <2>2
  <2>8. Pow(Pow(x, m), k) = Pow(x, m * k)
    BY <1>0, <2>5, <2>6, <2>7
  <2> QED BY <2>8
<1> HIDE DEF P
<1>3. n \in P
  BY <1>1, <1>2, Climb
<1> QED BY <1>3 DEF P

-----------------------------------------------------------------------------
(* Division. *)

\* Quotient and remainder.
LEMMA Division ==
    ASSUME NEW n \in Nat \ {0}, NEW x \in Int
    PROVE  /\ x = n * (x \div n) + (x % n)
           /\ x % n \in 0 .. n - 1 /\ x \div n \in Int
           /\ (x \in Nat => x \div n \in Nat)
OBVIOUS

\* They are the only ones.
LEMMA DivisionIs ==
    ASSUME NEW n \in Nat \ {0}, NEW q \in Int, NEW r \in 0 .. n - 1
    PROVE  (n * q + r) \div n = q /\ (n * q + r) % n = r
<1> DEFINE x == n * q + r
<1>1. x \in Int
  OBVIOUS
<1>2. PICK d \in Int, e \in 0 .. n - 1 : d = x \div n /\ e = x % n /\ x = n * d + e
  BY <1>1, Division
<1>3. n * (d - q) = r - e
  BY <1>2
<1>4. d = q
  <2>1. CASE d - q >= 1
    <3>1. n * (d - q) >= n
      BY <2>1
    <3> QED BY <3>1, <1>3
  <2>2. CASE d - q <= -1
    <3>1. n * (d - q) <= -n
      BY <2>2
    <3> QED BY <3>1, <1>3
  <2> QED BY <2>1, <2>2
<1>5. e = r
  BY <1>3, <1>4
<1> QED BY <1>2, <1>4, <1>5

\* The same, with the factors in the order of a number and its digits.
LEMMA Quotient ==
    ASSUME NEW m \in Nat \ {0}, NEW x \in Int
    PROVE  /\ x = (x \div m) * m + (x % m)
           /\ x % m \in 0 .. m - 1
           /\ x \div m \in Int
OBVIOUS

\* A number and its remainder differ by a multiple.
LEMMA Remainder ==
    ASSUME NEW m \in Nat \ {0}, NEW x \in Int
    PROVE  \E k \in Int : x = (x % m) + k * m
<1>1. PICK k \in Int : k = x \div m
  BY Quotient
<1>2. x = (x % m) + k * m
  BY <1>1, Quotient
<1> QED BY <1>2

\* Multiples leave no remainder.
LEMMA Multiple ==
    ASSUME NEW m \in Nat \ {0}, NEW q \in Int
    PROVE  (q * m) % m = 0
OBVIOUS

\* A number without a remainder is its quotient times the divisor.
LEMMA NoRemainder ==
    ASSUME NEW m \in Nat \ {0}, NEW x \in Int, x % m = 0
    PROVE  x = (x \div m) * m
BY Quotient

\* The same, without naming the quotient.
LEMMA Divisible ==
    ASSUME NEW m \in Nat \ {0}, NEW x \in Int, x % m = 0
    PROVE  \E k \in Int : x = k * m
<1>1. PICK k \in Int : x = (x % m) + k * m
  BY Remainder
<1>2. x = k * m
  BY <1>1
<1> QED BY <1>2

\* A remainder may be taken before or after a product.
LEMMA ModFactor ==
    ASSUME NEW m \in Nat \ {0}, NEW x \in Int, NEW y \in Int
    PROVE  \E q \in Int : x * y = (x % m) * y + q * m
<1> DEFINE r == x % m
           k == x \div m
<1>1. x = k * m + r /\ r \in Int /\ k \in Int
  BY Quotient
<1> HIDE DEF r, k
<1>2. x * y = r * y + (k * y) * m
  BY <1>1
<1>3. k * y \in Int
  BY <1>1
<1>4. PICK j \in Int : j = k * y
  BY <1>3
<1>5. x * y = (x % m) * y + j * m
  BY <1>2, <1>4 DEF r
<1> QED BY <1>5

-----------------------------------------------------------------------------
(* One digit. *)

\* The last digit of an odd number is odd, so it has an inverse.
LEMMA LastDigit ==
    ASSUME NEW m \in Nat, m % 2 = 1
    PROVE  /\ m % Base \in 0 .. Base - 1
           /\ (m % Base) % 2 = 1
<1>1. PICK h \in Int : Base = h * 2
  <2>1. PICK n \in Nat : Bits = n + 1
    <3>1. Bits - 1 \in Nat /\ Bits = (Bits - 1) + 1
      BY BitsAssumption
    <3> QED BY <3>1
  <2>2. Pow(2, n + 1) = Pow(2, n) * 2 /\ Pow(2, n) \in Int
    BY PowStep
  <2> QED BY <2>1, <2>2, BitsAssumption
<1> DEFINE k == m \div Base
           r == m % Base
<1>2. m = k * Base + r /\ r \in 0 .. Base - 1 /\ k \in Int
  BY Quotient, BaseAssumption
<1> HIDE DEF k, r
<1>3. m = 2 * (k * h) + r /\ k * h \in Int
  BY <1>1, <1>2
<1>4. r % 2 = 1
  BY <1>2, <1>3
<1> QED BY <1>2, <1>4 DEF r

\* The last digit of x + N z is zero for the z of bn_mon_muladd_dig.
LEMMA ZeroDigit ==
    ASSUME NEW n0 \in Int, NEW u \in Int, NEW v \in Int, (n0 * v) % Base = 1
    PROVE  (u + n0 * ((-(u * v)) % Base)) % Base = 0
<1> DEFINE z == (-(u * v)) % Base
           k == (-(u * v)) \div Base
           c == (n0 * v) \div Base
<1>1. -(u * v) = k * Base + z /\ z \in Int /\ k \in Int
  BY Quotient, BaseAssumption
<1>2. n0 * v = c * Base + 1 /\ c \in Int
  BY Quotient, BaseAssumption
<1> HIDE DEF z, k, c
<1>3. z = -(u * v) - k * Base
  BY <1>1, BaseAssumption
<1>4. n0 * z = -(u * (n0 * v)) - (n0 * k) * Base
  BY <1>1, <1>3, BaseAssumption
<1>5. u * (n0 * v) = (u * c) * Base + u
  BY <1>2, BaseAssumption
<1>6. u + n0 * z = (-(u * c) - n0 * k) * Base
  BY <1>1, <1>2, <1>4, <1>5, BaseAssumption
<1>7. -(u * c) - n0 * k \in Int
  BY <1>1, <1>2
<1>8. PICK q \in Int : q = -(u * c) - n0 * k
  BY <1>7
<1>9. (q * Base) % Base = 0
  BY Multiple, BaseAssumption
<1>10. u + n0 * z = q * Base
  BY <1>6, <1>8
<1>11. (u + n0 * z) % Base = 0
  BY <1>9, <1>10
<1> QED BY <1>11 DEF z

\* What bn_mon_muladd_dig computes: (d + x y) / Base, up to a multiple of the
\* modulus, in W digits, and reduced when x and d are.
LEMMA MulAddDigit ==
    ASSUME NEW w \in Nat \ {0}, NEW m \in 1 .. w - 1, m % 2 = 1,
           NEW d \in 0 .. w - 1, NEW x \in 0 .. w - 1, NEW y \in 0 .. Base - 1
    PROVE  LET r == bn_mon_muladd_dig(d, x, y, m, w)
           IN  /\ r \in 0 .. w - 1
               /\ x < m /\ d < m => r < m
               /\ \E q \in Int : r * Base = d + x * y + q * m
<1> USE BaseAssumption
<1>1. m \in 1 .. w - 1 /\ m % 2 = 1
  OBVIOUS
<1> DEFINE v   == inverse(m % Base)
           u   == (d % Base) + (x % Base) * y
           z   == (-(u * v)) % Base
           s   == d + x * y + m * z
           dig == s \div Base
<1>2. /\ m % Base \in 0 .. Base - 1
      /\ v \in Nat /\ ((m % Base) * v) % Base = 1
  <2>1. m % Base \in 0 .. Base - 1 /\ (m % Base) % 2 = 1
    <3>1. m \in Nat /\ m % 2 = 1
      BY <1>1
    <3> QED BY <3>1, LastDigit
  <2> QED BY <2>1, InverseAssumption
<1>3. u \in Int /\ z \in 0 .. Base - 1
  <2>1. d % Base \in Int /\ x % Base \in Int
    BY Quotient
  <2>2. (x % Base) * y \in Int
    BY <2>1
  <2>3. u \in Int
    BY <2>1, <2>2
  <2> HIDE DEF u
  <2>4. -(u * v) \in Int
    BY <2>3, <1>2
  <2> QED BY <2>3, <2>4, Quotient DEF u
<1>4. s % Base = 0
  <2>1. (u + (m % Base) * z) % Base = 0
    <3> HIDE DEF u, v
    <3>1. m % Base \in Int /\ u \in Int /\ v \in Int /\ ((m % Base) * v) % Base = 1
      BY <1>2, <1>3
    <3> QED BY <3>1, ZeroDigit
  <2>2. d \in Int /\ x \in Int /\ y \in Int /\ m \in Int /\ z \in Int
    <3> HIDE DEF z
    <3> QED BY <1>1, <1>3
  <2> HIDE DEF z
  <2>3. PICK q1 \in Int : d = (d % Base) + q1 * Base
    BY <2>2, Remainder
  <2>4. PICK q2 \in Int : x * y = (x % Base) * y + q2 * Base
    BY <2>2, ModFactor
  <2>5. PICK q3 \in Int : m * z = (m % Base) * z + q3 * Base
    BY <2>2, ModFactor
  <2>6. /\ d % Base \in Int /\ (x % Base) * y \in Int /\ (m % Base) * z \in Int
        /\ x * y \in Int /\ m * z \in Int
    BY <2>2, Quotient
  <2>7. PICK X \in Int, Z \in Int : X = x * y /\ Z = m * z
    BY <2>6
  <2>8. PICK d0 \in Int, X0 \in Int, Z0 \in Int :
            d0 = d % Base /\ X0 = (x % Base) * y /\ Z0 = (m % Base) * z
    BY <2>6
  <2>9. PICK k \in Int : d0 + X0 + Z0 = k * Base
    <3>1. d0 + X0 + Z0 \in Int /\ (d0 + X0 + Z0) % Base = 0
      BY <2>1, <2>8
    <3> QED BY <3>1, Divisible
  <2>10. d = d0 + q1 * Base /\ X = X0 + q2 * Base /\ Z = Z0 + q3 * Base
    BY <2>3, <2>4, <2>5, <2>7, <2>8
  <2>11. PICK q \in Int : q = k + q1 + q2 + q3
    OBVIOUS
  <2>12. d + X + Z = q * Base
    BY <2>9, <2>10, <2>11
  <2>13. (q * Base) % Base = 0
    BY Multiple
  <2> QED BY <2>7, <2>12, <2>13
<1>5. s \in Int
  <2> HIDE DEF z
  <2> QED BY <1>1, <1>3
<1>6. s = dig * Base /\ dig \in Int
  <2> HIDE DEF s
  <2> QED BY <1>4, <1>5, NoRemainder, Quotient
<1>7. bn_mon_muladd_dig(d, x, y, m, w)
        = bn_reduce(IF dig >= w THEN (dig - m) % w ELSE dig, m)
  BY DEF bn_mon_muladd_dig
<1> HIDE DEF u, v
<1>8. 0 <= x * y /\ x * y <= x * (Base - 1) /\ 0 <= m * z /\ m * z <= m * (Base - 1)
  <2> HIDE DEF z
  <2> QED BY <1>1, <1>3
<1>9. s = d + x * y + m * z
  OBVIOUS
<1> HIDE DEF z
<1>10. x * y \in Int /\ m * z \in Int
  BY <1>1, <1>3
<1>11. 0 <= s /\ s <= d + x * (Base - 1) + m * (Base - 1)
  BY <1>1, <1>8, <1>9, <1>10
<1> HIDE DEF s, dig
<1>12. 0 <= dig /\ dig < w + m
  <2>1. d + x * (Base - 1) + m * (Base - 1) < w * Base + m * Base
    <3>1. d + x * (Base - 1) <= (w - 1) * Base
      <4>1. x * (Base - 1) <= (w - 1) * (Base - 1)
        OBVIOUS
      <4> QED BY <4>1
    <3>2. m * (Base - 1) < m * Base /\ (w - 1) * Base < w * Base
      BY <1>1
    <3> QED BY <1>1, <3>1, <3>2
  <2>2. dig * Base < (w + m) * Base
    BY <1>1, <1>6, <1>11, <2>1, <1>5
  <2> QED BY <1>1, <1>5, <1>6, <1>11, <2>2
<1>13. x < m /\ d < m => dig < m + m
  <2> SUFFICES ASSUME x < m, d < m PROVE dig < m + m
    OBVIOUS
  <2>1. d + x * (Base - 1) + m * (Base - 1) < (m + m) * Base
    <3>1. x * (Base - 1) <= m * (Base - 1)
      BY <1>1
    <3> QED BY <1>1, <3>1
  <2>2. dig * Base < (m + m) * Base
    BY <1>1, <1>5, <1>6, <1>11, <2>1
  <2> QED BY <1>1, <1>6, <2>2
<1>14. CASE dig >= w
  <2>1. dig - m \in 0 .. w - 1
    BY <1>1, <1>6, <1>12, <1>14
  <2>2. (dig - m) % w = dig - m
    BY <2>1
  <2>3. CASE dig - m >= m
    <3>1. bn_mon_muladd_dig(d, x, y, m, w) = dig - m - m
      BY <1>7, <1>14, <2>2, <2>3 DEF bn_reduce
    <3>2. (dig - m - m) * Base = d + x * y + (z - 2 * Base) * m
      BY <1>1, <1>3, <1>6, <1>9, <1>10
    <3>3. PICK q \in Int : q = z - 2 * Base
      BY <1>3
    <3>4. (dig - m - m) * Base = d + x * y + q * m
      BY <3>2, <3>3
    <3>5. \E i \in Int : (dig - m - m) * Base = d + x * y + i * m
      BY <3>4
    <3>6. dig - m - m \in 0 .. w - 1 /\ (x < m /\ d < m => dig - m - m < m)
      BY <1>1, <1>6, <1>13, <2>1, <2>3
    <3> QED BY <3>1, <3>5, <3>6
  <2>4. CASE dig - m < m
    <3>1. bn_mon_muladd_dig(d, x, y, m, w) = dig - m
      BY <1>1, <1>6, <1>7, <1>14, <2>2, <2>4 DEF bn_reduce
    <3>2. (dig - m) * Base = d + x * y + (z - Base) * m
      BY <1>1, <1>3, <1>6, <1>9, <1>10
    <3>3. PICK q \in Int : q = z - Base
      BY <1>3
    <3>4. (dig - m) * Base = d + x * y + q * m
      BY <3>2, <3>3
    <3>5. \E i \in Int : (dig - m) * Base = d + x * y + i * m
      BY <3>4
    <3> QED BY <1>1, <1>6, <2>1, <2>4, <3>1, <3>5
  <2> QED BY <1>1, <1>6, <2>3, <2>4
<1>15. CASE dig < w
  <2>1. CASE dig >= m
    <3>1. bn_mon_muladd_dig(d, x, y, m, w) = dig - m
      BY <1>1, <1>6, <1>7, <1>15, <2>1 DEF bn_reduce
    <3>2. (dig - m) * Base = d + x * y + (z - Base) * m
      BY <1>1, <1>3, <1>6, <1>9, <1>10
    <3>3. PICK q \in Int : q = z - Base
      BY <1>3
    <3>4. (dig - m) * Base = d + x * y + q * m
      BY <3>2, <3>3
    <3>5. \E i \in Int : (dig - m) * Base = d + x * y + i * m
      BY <3>4
    <3>6. dig - m \in 0 .. w - 1 /\ (x < m /\ d < m => dig - m < m)
      BY <1>1, <1>6, <1>13, <1>15, <2>1
    <3> QED BY <3>1, <3>5, <3>6
  <2>2. CASE dig < m
    <3>1. bn_mon_muladd_dig(d, x, y, m, w) = dig
      BY <1>1, <1>6, <1>7, <1>15, <2>2 DEF bn_reduce
    <3>2. dig * Base = d + x * y + z * m
      BY <1>1, <1>3, <1>6, <1>9, <1>10
    <3>3. \E i \in Int : dig * Base = d + x * y + i * m
      BY <1>3, <3>2
    <3>4. dig \in 0 .. w - 1
      BY <1>6, <1>12, <1>15
    <3> QED BY <2>2, <3>1, <3>3, <3>4
  <2> QED BY <1>1, <1>6, <2>1, <2>2
<1> QED BY <1>6, <1>14, <1>15

\* r is (d + x y) / Base modulo m.
MulAdds(r, d, x, y, m, w) ==
    /\ r \in 0 .. w - 1
    /\ x < m /\ d < m => r < m
    /\ \E q \in Int : r * Base = d + x * y + q * m

\* One digit of bn_mon_mul, as a relation.
LEMMA MulAddIs ==
    ASSUME NEW w \in Nat \ {0}, NEW m \in 1 .. w - 1, m % 2 = 1,
           NEW d \in 0 .. w - 1, NEW x \in 0 .. w - 1, NEW y \in 0 .. Base - 1
    PROVE  MulAdds(bn_mon_muladd_dig(d, x, y, m, w), d, x, y, m, w)
BY MulAddDigit DEF MulAdds

-----------------------------------------------------------------------------
(* Sequences. *)

IsJoin(V, s, r, w) ==
    /\ w \in Seq(V) /\ Len(w) = Len(s) + Len(r)
    /\ \A k \in 1 .. Len(s) : w[k] = s[k]
    /\ \A k \in 1 .. Len(r) : w[Len(s) + k] = r[k]

\* The elements of two sequences joined.
LEMMA Joined ==
    ASSUME NEW V, NEW s \in Seq(V), NEW r \in Seq(V)
    PROVE  IsJoin(V, s, r, s \o r)
BY DEF IsJoin

\* Sequences with the same elements are equal.
LEMMA SameSeq ==
    ASSUME NEW V, NEW s \in Seq(V), NEW r \in Seq(V), Len(s) = Len(r),
           \A k \in 1 .. Len(s) : s[k] = r[k]
    PROVE  s = r
OBVIOUS

\* Joining associates.
LEMMA Associates ==
    ASSUME NEW V, NEW s \in Seq(V), NEW r \in Seq(V), NEW u \in Seq(V)
    PROVE  (s \o r) \o u = s \o (r \o u)
OBVIOUS

\* Joining with nothing changes nothing.
LEMMA EmptyIsUnit ==
    ASSUME NEW V, NEW s \in Seq(V)
    PROVE  /\ <<>> \in Seq(V) /\ Len(<<>>) = 0 /\ <<>> \o s = s /\ s \o <<>> = s
           /\ (Len(s) = 0 => s = <<>>)
OBVIOUS

\* Append joins one element.
LEMMA AppendJoins ==
    ASSUME NEW V, NEW s \in Seq(V), NEW e \in V
    PROVE  /\ Append(s, e) = s \o <<e>> /\ <<e>> \in Seq(V) /\ Len(<<e>>) = 1
           /\ Append(s, e) \in Seq(V) /\ Len(Append(s, e)) = Len(s) + 1
OBVIOUS

\* The elements of a part.
LEMMA SubSeqIs ==
    ASSUME NEW V, NEW s \in Seq(V), NEW lo \in Nat \ {0}, NEW hi \in Nat,
           hi <= Len(s), lo <= hi + 1
    PROVE  /\ SubSeq(s, lo, hi) \in Seq(V) /\ Len(SubSeq(s, lo, hi)) = hi + 1 - lo
           /\ \A k \in 1 .. hi + 1 - lo : SubSeq(s, lo, hi)[k] = s[lo + k - 1]
OBVIOUS

\* A function on 1 .. n is a sequence.
LEMMA TableIsSeq ==
    ASSUME NEW V, NEW n \in Nat, NEW f, f = [k \in 1 .. n |-> f[k]], \A k \in 1 .. n : f[k] \in V
    PROVE  f \in Seq(V) /\ Len(f) = n
<1>1. f \in [1 .. n -> V]
  OBVIOUS
<1>2. f \in Seq(V)
  BY <1>1, SMT
<1> QED BY <1>1, <1>2

-----------------------------------------------------------------------------
(* The blocks of a message, and what is left over. *)

BlocksOf(m) == [k \in 1 .. Len(m) \div Block |-> SubSeq(m, (k - 1) * Block + 1, k * Block)]
TailOf(m)   == SubSeq(m, Block * (Len(m) \div Block) + 1, Len(m))

\* A block holds more than the bit count.
LEMMA BlockIs == Block \in Nat /\ Block > 8 /\ Digest \in Nat
BY DigestsAssumption DEF Digests!BlockAssumption

\* A message of q whole blocks and r octets.
IsCut(V, m, q, r) ==
    /\ Len(m) \div Block = q
    /\ TailOf(m) \in Seq(V) /\ Len(TailOf(m)) = r
    /\ \A k \in 1 .. r : TailOf(m)[k] = m[Block * q + k]
    /\ BlocksOf(m) \in Seq(Seq(V)) /\ Len(BlocksOf(m)) = q
    /\ \A k \in 1 .. q : /\ BlocksOf(m)[k] = SubSeq(m, (k - 1) * Block + 1, k * Block)
                         /\ Len(BlocksOf(m)[k]) = Block

\* The blocks and the tail of a message whose length is known.
LEMMA Cut ==
    ASSUME NEW V, NEW m \in Seq(V), NEW q \in Nat, NEW r \in 0 .. Block - 1,
           Len(m) = Block * q + r
    PROVE  IsCut(V, m, q, r)
<1> USE BlockIs
<1>1. Len(m) \div Block = q
  BY DivisionIs
<1>2. PICK bq \in Nat : bq = Block * q
  OBVIOUS
<1>3. TailOf(m) = SubSeq(m, bq + 1, Len(m))
  BY <1>1, <1>2 DEF TailOf
<1>4. /\ TailOf(m) \in Seq(V) /\ Len(TailOf(m)) = r
      /\ \A k \in 1 .. r : TailOf(m)[k] = m[bq + k]
  <2>1. bq + 1 \in Nat \ {0} /\ Len(m) \in Nat /\ bq + 1 <= Len(m) + 1 /\ Len(m) + 1 - (bq + 1) = r
    BY <1>2
  <2>2. /\ SubSeq(m, bq + 1, Len(m)) \in Seq(V)
        /\ Len(SubSeq(m, bq + 1, Len(m))) = Len(m) + 1 - (bq + 1)
        /\ \A k \in 1 .. Len(m) + 1 - (bq + 1) : SubSeq(m, bq + 1, Len(m))[k] = m[bq + 1 + k - 1]
    BY <2>1, SubSeqIs
  <2>3. \A k \in 1 .. r : bq + 1 + k - 1 = bq + k
    BY <1>2
  <2> QED BY <1>3, <2>1, <2>2, <2>3
<1>5. BlocksOf(m) = [k \in 1 .. q |-> SubSeq(m, (k - 1) * Block + 1, k * Block)]
  BY <1>1 DEF BlocksOf
<1>6. ASSUME NEW k \in 1 .. q
      PROVE  /\ BlocksOf(m)[k] = SubSeq(m, (k - 1) * Block + 1, k * Block)
             /\ Len(BlocksOf(m)[k]) = Block /\ BlocksOf(m)[k] \in Seq(V)
  <2>1. k * Block <= q * Block
    OBVIOUS
  <2>2. PICK hi \in Nat, lo \in Nat \ {0} : hi = k * Block /\ lo = (k - 1) * Block + 1
    OBVIOUS
  <2>3. hi <= Len(m) /\ lo <= hi + 1 /\ hi + 1 - lo = Block
    BY <2>1, <2>2
  <2>4. SubSeq(m, lo, hi) \in Seq(V) /\ Len(SubSeq(m, lo, hi)) = hi + 1 - lo
    BY <2>3, SubSeqIs
  <2> QED BY <1>5, <2>2, <2>3, <2>4
<1>7. BlocksOf(m) \in Seq(Seq(V)) /\ Len(BlocksOf(m)) = q
  <2>1. BlocksOf(m) = [k \in 1 .. q |-> BlocksOf(m)[k]]
    BY <1>5
  <2>2. \A k \in 1 .. q : BlocksOf(m)[k] \in Seq(V)
    BY <1>6
  <2> QED BY <2>1, <2>2, TableIsSeq
<1> QED BY <1>1, <1>2, <1>4, <1>6, <1>7 DEF IsCut

\* Every length is some whole blocks and less than one more.
LEMMA CutExists ==
    ASSUME NEW V, NEW m \in Seq(V)
    PROVE  \E q \in Nat, r \in 0 .. Block - 1 : Len(m) = Block * q + r
<1>1. Block \in Nat \ {0} /\ Len(m) \in Int /\ Len(m) \in Nat
  BY BlockIs
<1>2. /\ Len(m) = Block * (Len(m) \div Block) + (Len(m) % Block)
      /\ Len(m) % Block \in 0 .. Block - 1 /\ Len(m) \div Block \in Nat
  BY <1>1, Division
<1> QED BY <1>2

\* The whole blocks of a longer message begin with those of the shorter one.
LEMMA SameBlock ==
    ASSUME NEW V, NEW m \in Seq(V), NEW s \in Seq(V), NEW q \in Nat, NEW r \in 0 .. Block - 1,
           Len(m) = Block * q + r, NEW k \in 1 .. q
    PROVE  SubSeq(m \o s, (k - 1) * Block + 1, k * Block) = SubSeq(m, (k - 1) * Block + 1, k * Block)
<1> USE BlockIs
<1>1. k * Block <= q * Block
  OBVIOUS
<1>2. PICK hi \in Nat, lo \in Nat \ {0} : hi = k * Block /\ lo = (k - 1) * Block + 1
  OBVIOUS
<1>3. hi <= Len(m) /\ lo <= hi + 1 /\ hi + 1 - lo = Block
  BY <1>1, <1>2
<1>4. /\ m \o s \in Seq(V) /\ Len(m \o s) = Len(m) + Len(s)
      /\ \A j \in 1 .. Len(m) : (m \o s)[j] = m[j]
  <2>1. IsJoin(V, m, s, m \o s)
    BY Joined
  <2> QED BY <2>1 DEF IsJoin
<1>5. hi <= Len(m \o s)
  BY <1>3, <1>4
<1>6. /\ SubSeq(m, lo, hi) \in Seq(V) /\ Len(SubSeq(m, lo, hi)) = hi + 1 - lo
      /\ \A j \in 1 .. hi + 1 - lo : SubSeq(m, lo, hi)[j] = m[lo + j - 1]
  BY <1>3, SubSeqIs
<1>7. /\ SubSeq(m \o s, lo, hi) \in Seq(V) /\ Len(SubSeq(m \o s, lo, hi)) = hi + 1 - lo
      /\ \A j \in 1 .. hi + 1 - lo : SubSeq(m \o s, lo, hi)[j] = (m \o s)[lo + j - 1]
  BY <1>3, <1>4, <1>5, SubSeqIs
<1>8. \A j \in 1 .. Len(SubSeq(m, lo, hi)) : SubSeq(m, lo, hi)[j] = SubSeq(m \o s, lo, hi)[j]
  <2> SUFFICES ASSUME NEW j \in 1 .. hi + 1 - lo
               PROVE  SubSeq(m, lo, hi)[j] = SubSeq(m \o s, lo, hi)[j]
    BY <1>6
  <2>1. lo + j - 1 \in 1 .. Len(m)
    BY <1>3
  <2> QED BY <2>1, <1>4, <1>6, <1>7
<1>9. SubSeq(m \o s, lo, hi) = SubSeq(m, lo, hi)
  BY <1>6, <1>7, <1>8, SameSeq
<1> QED BY <1>2, <1>9

\* Octets that do not fill the block go to the rest.
LEMMA NotFilled ==
    ASSUME NEW V, NEW m \in Seq(V), NEW s \in Seq(V), Len(TailOf(m)) + Len(s) < Block
    PROVE  BlocksOf(m \o s) = BlocksOf(m) /\ TailOf(m \o s) = TailOf(m) \o s
<1> USE BlockIs
<1>1. PICK q \in Nat, r \in 0 .. Block - 1 : Len(m) = Block * q + r
  BY CutExists
<1>2. /\ Len(m) \div Block = q
      /\ TailOf(m) \in Seq(V) /\ Len(TailOf(m)) = r
      /\ \A k \in 1 .. r : TailOf(m)[k] = m[Block * q + k]
      /\ BlocksOf(m) \in Seq(Seq(V)) /\ Len(BlocksOf(m)) = q
      /\ \A k \in 1 .. q : BlocksOf(m)[k] = SubSeq(m, (k - 1) * Block + 1, k * Block)
  <2>1. IsCut(V, m, q, r)
    BY <1>1, Cut
  <2> QED BY <2>1 DEF IsCut
<1> DEFINE w == m \o s
<1>3. /\ w \in Seq(V) /\ Len(w) = Len(m) + Len(s)
      /\ \A j \in 1 .. Len(m) : w[j] = m[j]
      /\ \A j \in 1 .. Len(s) : w[Len(m) + j] = s[j]
  <2>1. IsJoin(V, m, s, w)
    BY Joined
  <2> QED BY <2>1 DEF IsJoin
<1>4. PICK rs \in 0 .. Block - 1 : rs = r + Len(s)
  BY <1>2
<1>5. Len(w) = Block * q + rs
  BY <1>1, <1>3, <1>4
<1>6. \A k \in 1 .. q : SubSeq(w, (k - 1) * Block + 1, k * Block) = SubSeq(m, (k - 1) * Block + 1, k * Block)
  BY <1>1, SameBlock
<1> HIDE DEF w
<1>7. /\ TailOf(w) \in Seq(V) /\ Len(TailOf(w)) = rs
      /\ \A k \in 1 .. rs : TailOf(w)[k] = w[Block * q + k]
      /\ BlocksOf(w) \in Seq(Seq(V)) /\ Len(BlocksOf(w)) = q
      /\ \A k \in 1 .. q : BlocksOf(w)[k] = SubSeq(w, (k - 1) * Block + 1, k * Block)
  <2>1. IsCut(V, w, q, rs)
    BY <1>3, <1>5, Cut
  <2> QED BY <2>1 DEF IsCut
<1>8. BlocksOf(w) = BlocksOf(m)
  <2>1. \A k \in 1 .. Len(BlocksOf(w)) : BlocksOf(w)[k] = BlocksOf(m)[k]
    BY <1>2, <1>6, <1>7
  <2> QED BY <2>1, <1>2, <1>7, SameSeq
<1>9. TailOf(w) = TailOf(m) \o s
  <2>1. /\ TailOf(m) \o s \in Seq(V) /\ Len(TailOf(m) \o s) = r + Len(s)
        /\ \A j \in 1 .. r : (TailOf(m) \o s)[j] = TailOf(m)[j]
        /\ \A j \in 1 .. Len(s) : (TailOf(m) \o s)[r + j] = s[j]
    <3>1. IsJoin(V, TailOf(m), s, TailOf(m) \o s)
      BY <1>2, Joined
    <3> QED BY <3>1, <1>2 DEF IsJoin
  <2>2. PICK bq \in Nat : bq = Block * q
    OBVIOUS
  <2>3. ASSUME NEW j \in 1 .. rs PROVE TailOf(w)[j] = (TailOf(m) \o s)[j]
    <3>1. CASE j <= r
      <4>1. j \in 1 .. r /\ bq + j \in 1 .. Len(m)
        BY <1>1, <2>2, <3>1
      <4> QED BY <4>1, <1>2, <1>3, <1>7, <2>1, <2>2
    <3>2. CASE j > r
      <4>1. PICK i \in 1 .. Len(s) : j = r + i
        <5>1. j - r \in 1 .. Len(s)
          BY <3>2, <1>4
        <5> QED BY <5>1
      <4>2. bq + j = Len(m) + i
        BY <4>1, <1>1, <2>2
      <4>3. TailOf(w)[j] = w[bq + j]
        BY <1>7, <2>2
      <4>4. w[Len(m) + i] = s[i] /\ (TailOf(m) \o s)[r + i] = s[i]
        BY <1>3, <2>1
      <4> QED BY <4>1, <4>2, <4>3, <4>4
    <3>3. j \in Int /\ r \in Int
      OBVIOUS
    <3>4. j <= r \/ j > r
      BY <3>3
    <3> QED BY <3>1, <3>2, <3>4
  <2> QED BY <2>1, <2>3, <1>4, <1>7, SameSeq
<1> QED BY <1>8, <1>9 DEF w

\* Octets that fill the block make it one of the blocks.
LEMMA Filled ==
    ASSUME NEW V, NEW m \in Seq(V), NEW s \in Seq(V), Len(TailOf(m)) + Len(s) = Block
    PROVE  BlocksOf(m \o s) = Append(BlocksOf(m), TailOf(m) \o s) /\ TailOf(m \o s) = <<>>
<1> USE BlockIs
<1>1. PICK q \in Nat, r \in 0 .. Block - 1 : Len(m) = Block * q + r
  BY CutExists
<1>2. /\ Len(m) \div Block = q
      /\ TailOf(m) \in Seq(V) /\ Len(TailOf(m)) = r
      /\ \A k \in 1 .. r : TailOf(m)[k] = m[Block * q + k]
      /\ BlocksOf(m) \in Seq(Seq(V)) /\ Len(BlocksOf(m)) = q
      /\ \A k \in 1 .. q : BlocksOf(m)[k] = SubSeq(m, (k - 1) * Block + 1, k * Block)
  <2>1. IsCut(V, m, q, r)
    BY <1>1, Cut
  <2> QED BY <2>1 DEF IsCut
<1> DEFINE w == m \o s
<1>3. /\ w \in Seq(V) /\ Len(w) = Len(m) + Len(s)
      /\ \A j \in 1 .. Len(m) : w[j] = m[j]
      /\ \A j \in 1 .. Len(s) : w[Len(m) + j] = s[j]
  <2>1. IsJoin(V, m, s, w)
    BY Joined
  <2> QED BY <2>1 DEF IsJoin
<1>4. q + 1 \in Nat /\ 0 \in 0 .. Block - 1 /\ Len(w) = Block * (q + 1) + 0
  <2>1. Len(w) = Block * q + r + Len(s) /\ r + Len(s) = Block /\ Len(s) \in Nat
    BY <1>1, <1>2, <1>3
  <2>2. PICK bq \in Nat : bq = Block * q
    OBVIOUS
  <2>3. Block * (q + 1) = bq + Block
    BY <2>2
  <2>4. Len(w) = bq + Block
    BY <2>1, <2>2
  <2> QED BY <2>3, <2>4
<1>6. \A k \in 1 .. q : SubSeq(w, (k - 1) * Block + 1, k * Block) = SubSeq(m, (k - 1) * Block + 1, k * Block)
  BY <1>1, SameBlock
<1> HIDE DEF w
<1>7. /\ TailOf(w) \in Seq(V) /\ Len(TailOf(w)) = 0
      /\ BlocksOf(w) \in Seq(Seq(V)) /\ Len(BlocksOf(w)) = q + 1
      /\ \A k \in 1 .. q + 1 : /\ BlocksOf(w)[k] = SubSeq(w, (k - 1) * Block + 1, k * Block)
                               /\ Len(BlocksOf(w)[k]) = Block
  <2>1. IsCut(V, w, q + 1, 0)
    BY <1>3, <1>4, Cut
  <2> QED BY <2>1 DEF IsCut
<1>8. PICK last \in Seq(V) : last = BlocksOf(w)[q + 1]
  BY <1>7
<1>9. last = TailOf(m) \o s
  <2>1. /\ TailOf(m) \o s \in Seq(V) /\ Len(TailOf(m) \o s) = r + Len(s)
        /\ \A j \in 1 .. r : (TailOf(m) \o s)[j] = TailOf(m)[j]
        /\ \A j \in 1 .. Len(s) : (TailOf(m) \o s)[r + j] = s[j]
    <3>1. IsJoin(V, TailOf(m), s, TailOf(m) \o s)
      BY <1>2, Joined
    <3> QED BY <3>1, <1>2 DEF IsJoin
  <2>2. PICK bq \in Nat : bq = Block * q
    OBVIOUS
  <2>3. (q + 1 - 1) * Block + 1 = bq + 1 /\ (q + 1) * Block = bq + Block
    BY <2>2
  <2>4. last = SubSeq(w, bq + 1, bq + Block) /\ Len(last) = Block
    <3>1. q + 1 \in 1 .. q + 1
      OBVIOUS
    <3>2. /\ BlocksOf(w)[q + 1] = SubSeq(w, (q + 1 - 1) * Block + 1, (q + 1) * Block)
          /\ Len(BlocksOf(w)[q + 1]) = Block
      BY <3>1, <1>7
    <3> QED BY <3>2, <1>8, <2>3
  <2>5. \A j \in 1 .. Block : last[j] = w[bq + j]
    <3>1. bq + 1 \in Nat \ {0} /\ bq + Block \in Nat /\ bq + Block <= Len(w) /\ bq + 1 <= bq + Block + 1
          /\ bq + Block + 1 - (bq + 1) = Block
      BY <1>4, <2>2
    <3>2. \A j \in 1 .. bq + Block + 1 - (bq + 1) : SubSeq(w, bq + 1, bq + Block)[j] = w[bq + 1 + j - 1]
      BY <3>1, <1>3, SubSeqIs
    <3>3. \A j \in 1 .. Block : bq + 1 + j - 1 = bq + j
      OBVIOUS
    <3> QED BY <2>4, <3>1, <3>2, <3>3
  <2>6. ASSUME NEW j \in 1 .. Block PROVE last[j] = (TailOf(m) \o s)[j]
    <3>1. CASE j <= r
      <4>1. j \in 1 .. r /\ bq + j \in 1 .. Len(m)
        BY <1>1, <2>2, <3>1
      <4> QED BY <4>1, <1>2, <1>3, <2>1, <2>2, <2>5
    <3>2. CASE j > r
      <4>1. PICK i \in 1 .. Len(s) : j = r + i
        <5>1. j - r \in 1 .. Len(s)
          BY <3>2, <1>2
        <5> QED BY <5>1
      <4>2. bq + j = Len(m) + i
        BY <4>1, <1>1, <2>2
      <4>3. w[Len(m) + i] = s[i] /\ (TailOf(m) \o s)[r + i] = s[i]
        BY <1>3, <2>1
      <4> QED BY <4>1, <4>2, <4>3, <2>5
    <3> QED BY <3>1, <3>2
  <2>7. Len(TailOf(m) \o s) = Block
    BY <1>2, <2>1
  <2> QED BY <2>1, <2>4, <2>6, <2>7, SameSeq
<1>10. BlocksOf(w) = Append(BlocksOf(m), last)
  <2>1. /\ Append(BlocksOf(m), last) \in Seq(Seq(V)) /\ Len(Append(BlocksOf(m), last)) = q + 1
        /\ Append(BlocksOf(m), last)[q + 1] = last
        /\ \A k \in 1 .. q : Append(BlocksOf(m), last)[k] = BlocksOf(m)[k]
    <3>1. last \in Seq(V) /\ BlocksOf(m) \in Seq(Seq(V)) /\ Len(BlocksOf(m)) = q
      BY <1>2
    <3> QED BY <3>1
  <2>2. \A k \in 1 .. q : BlocksOf(w)[k] = BlocksOf(m)[k]
    <3> SUFFICES ASSUME NEW k \in 1 .. q PROVE BlocksOf(w)[k] = BlocksOf(m)[k]
      OBVIOUS
    <3>1. k \in 1 .. q + 1
      OBVIOUS
    <3> QED BY <3>1, <1>2, <1>6, <1>7
  <2>3. \A k \in 1 .. q + 1 : BlocksOf(w)[k] = Append(BlocksOf(m), last)[k]
    <3>1. \A k \in 1 .. q + 1 : k \in 1 .. q \/ k = q + 1
      OBVIOUS
    <3> QED BY <3>1, <2>1, <2>2, <1>8
  <2> QED BY <2>1, <2>3, <1>7, SameSeq
<1>11. TailOf(w) = <<>>
  BY <1>7, EmptyIsUnit
<1> QED BY <1>9, <1>10, <1>11 DEF w

-----------------------------------------------------------------------------
(* What SHA1Input makes of a context. *)

LowOf(n)  == (8 * n) % Digests!WordMod
HighOf(n) == (8 * n) \div Digests!WordMod

Ctx(low, high, block, blocks, computed, corrupted) ==
    [Length_Low |-> low, Length_High |-> high, Message_Block |-> block,
     Message_Digest |-> blocks, Computed |-> computed, Corrupted |-> corrupted]

\* The context that has been given m.
After(m) == Ctx(LowOf(Len(m)), HighOf(Len(m)), TailOf(m), BlocksOf(m), FALSE, FALSE)

Contexts(V) ==
    {x \in [Length_Low : 0 .. Digests!WordMod - 1, Length_High : 0 .. Digests!WordMod - 1,
            Message_Block : Seq(V), Message_Digest : Seq(Seq(V)),
            Computed : BOOLEAN, Corrupted : BOOLEAN] :
        /\ Len(x.Message_Block) < Block
        /\ \A k \in 1 .. Len(x.Message_Digest) : Len(x.Message_Digest[k]) = Block}

\* A word counts the bits of w octets.
LEMMA WordIs ==
    \E w \in Nat \ {0} :
        /\ Digests!WordMod = 8 * w /\ Digests!Capacity = w * Digests!WordMod
        /\ Block + Digest < Digests!Capacity
<1>1. Octet \in Nat \ {0, 1} /\ Octet % 2 = 0
  BY DigestsAssumption DEF Digests!BlockAssumption
<1>2. PICK h \in Nat \ {0} : Octet = 2 * h
  <2>1. Octet = 2 * (Octet \div 2) /\ Octet \div 2 \in Nat \ {0}
    BY <1>1
  <2> QED BY <2>1
<1>3. PICK h4 \in Nat \ {0} : h4 = h * h * h * h
  OBVIOUS
<1>4. Digests!WordMod = 16 * h4
  BY <1>2, <1>3 DEF Digests!WordMod
<1>5. PICK w \in Nat \ {0} : w = 2 * h4
  OBVIOUS
<1>6. Digests!WordMod = 8 * w
  BY <1>4, <1>5
<1>7. PICK ww \in Nat \ {0} : ww = w * Digests!WordMod
  BY <1>6
<1>8. Digests!WordMod * Digests!WordMod = 8 * ww
  BY <1>6, <1>7
<1>9. (8 * ww) \div 8 = ww
  OBVIOUS
<1>10. Digests!Capacity = ww
  BY <1>8, <1>9 DEF Digests!Capacity
<1>11. 8 * (Block + Digest) < 8 * ww /\ Block + Digest \in Nat
  BY <1>8, DigestsAssumption DEF Digests!BlockAssumption
<1>12. Block + Digest < ww
  BY <1>11
<1> QED BY <1>6, <1>7, <1>10, <1>12

\* The two words count the bits of n octets, up to the capacity.
LEMMA Counted ==
    ASSUME NEW n \in Nat, n < Digests!Capacity
    PROVE  /\ LowOf(n) \in 0 .. Digests!WordMod - 1 /\ HighOf(n) \in 0 .. Digests!WordMod - 1
           /\ LET low  == (LowOf(n) + 8) % Digests!WordMod
                  high == IF low = 0 THEN (HighOf(n) + 1) % Digests!WordMod ELSE HighOf(n)
              IN  IF n + 1 < Digests!Capacity
                  THEN low = LowOf(n + 1) /\ high = HighOf(n + 1) /\ ~(low = 0 /\ high = 0)
                  ELSE low = 0 /\ high = 0
<1>1. PICK w \in Nat \ {0} : Digests!WordMod = 8 * w /\ Digests!Capacity = w * Digests!WordMod
  BY WordIs
<1>2. PICK M \in Nat \ {0} : M = 8 * w /\ Digests!WordMod = M
  BY <1>1
<1>3. PICK h \in Nat, l \in 0 .. w - 1 : n = w * h + l
  <2>0. n \in Int /\ n \in Nat
    OBVIOUS
  <2>1. n = w * (n \div w) + (n % w) /\ n % w \in 0 .. w - 1 /\ n \div w \in Nat
    BY <2>0, Division
  <2> QED BY <2>1
<1>4. h < M
  <2>1. w * h < w * M
    BY <1>1, <1>2, <1>3
  <2>2. CASE h >= M
    <3>1. w * h >= w * M
      BY <2>2
    <3> QED BY <2>1, <3>1
  <2> QED BY <2>2
<1>5. LowOf(n) = 8 * l /\ HighOf(n) = h
  <2>1. 8 * n = M * h + 8 * l
    BY <1>2, <1>3
  <2>2. 8 * l \in 0 .. M - 1 /\ h \in Int
    BY <1>2
  <2>3. (M * h + 8 * l) \div M = h /\ (M * h + 8 * l) % M = 8 * l
    BY <2>2, DivisionIs
  <2> QED BY <1>2, <2>1, <2>3 DEF LowOf, HighOf
<1>6. 8 * l \in 0 .. M - 1
  BY <1>2
<1>7. ASSUME NEW u \in Nat, u < M PROVE u % M = u
  <2>1. (M * 0 + u) % M = u
    BY <1>7, DivisionIs
  <2> QED BY <2>1
<1>8. M % M = 0
  OBVIOUS
<1>9. CASE l + 1 < w
  <2>1. (8 * l + 8) % M = 8 * (l + 1)
    <3>1. 8 * l + 8 \in Nat /\ 8 * l + 8 < M /\ 8 * l + 8 = 8 * (l + 1)
      BY <1>2, <1>9
    <3> QED BY <3>1, <1>7
  <2>2. LowOf(n + 1) = 8 * (l + 1) /\ HighOf(n + 1) = h
    <3>1. 8 * (n + 1) = M * h + 8 * (l + 1)
      BY <1>2, <1>3
    <3>2. 8 * (l + 1) \in 0 .. M - 1 /\ h \in Int
      BY <1>2, <1>9
    <3>3. (M * h + 8 * (l + 1)) \div M = h /\ (M * h + 8 * (l + 1)) % M = 8 * (l + 1)
      BY <3>2, DivisionIs
    <3> QED BY <1>2, <3>1, <3>3 DEF LowOf, HighOf
  <2>3. n + 1 < Digests!Capacity
    <3>1. w * (h + 1) <= w * M
      BY <1>4
    <3>2. n + 1 < w * (h + 1)
      BY <1>3, <1>9
    <3>3. w * h \in Int /\ w * M \in Int /\ w * (h + 1) \in Int
      OBVIOUS
    <3> QED BY <1>1, <1>2, <3>1, <3>2, <3>3
  <2>4. 8 * (l + 1) # 0
    OBVIOUS
  <2> QED BY <1>2, <1>4, <1>5, <1>6, <2>1, <2>2, <2>3, <2>4
<1>10. CASE l + 1 = w
  <2>1. (8 * l + 8) % M = 0
    <3>1. 8 * l + 8 = M
      BY <1>2, <1>10
    <3> QED BY <3>1, <1>8
  <2>2. n + 1 = w * (h + 1)
    BY <1>3, <1>10
  <2>3. CASE h + 1 < M
    <3>1. (h + 1) % M = h + 1 /\ h + 1 # 0
      BY <2>3, <1>7
    <3>2. LowOf(n + 1) = 0 /\ HighOf(n + 1) = h + 1
      <4>1. 8 * (n + 1) = M * (h + 1) + 0
        BY <1>2, <2>2
      <4>2. (M * (h + 1) + 0) \div M = h + 1 /\ (M * (h + 1) + 0) % M = 0
        <5>1. 0 \in 0 .. M - 1 /\ h + 1 \in Int
          OBVIOUS
        <5> QED BY <5>1, DivisionIs
      <4> QED BY <1>2, <4>1, <4>2 DEF LowOf, HighOf
    <3>3. n + 1 < Digests!Capacity
      <4>1. w * (h + 1) < w * M
        BY <2>3
      <4> QED BY <1>1, <1>2, <2>2, <4>1
    <3> QED BY <1>2, <1>4, <1>5, <1>6, <2>1, <3>1, <3>2, <3>3
  <2>4. CASE h + 1 = M
    <3>1. (h + 1) % M = 0
      BY <2>4, <1>8
    <3>2. n + 1 = Digests!Capacity
      BY <1>1, <1>2, <2>2, <2>4
    <3>3. ~(n + 1 < Digests!Capacity)
      BY <3>2
    <3> QED BY <1>2, <1>4, <1>5, <1>6, <2>1, <3>1, <3>3
  <2> QED BY <1>4, <2>3, <2>4
<1> QED BY <1>9, <1>10

Blocked(x, blocks, e) == [x EXCEPT !.Message_Digest = blocks, !.Message_Block = e]
Counting(x, e, low, high, f) ==
    [x EXCEPT !.Message_Block = e, !.Length_Low = low, !.Length_High = high, !.Corrupted = f]
Flagged(x, f)  == [x EXCEPT !.Corrupted = f]
Finished(x, f) == [x EXCEPT !.Computed = f]
Refilled(x, e) == [x EXCEPT !.Message_Block = e]

\* A block handed over.
LEMMA BlockedIs ==
    ASSUME NEW a1, NEW a2, NEW a3, NEW a4, NEW a5, NEW a6, NEW d, NEW e
    PROVE  Blocked(Ctx(a1, a2, a3, a4, a5, a6), d, e) = Ctx(a1, a2, e, d, a5, a6)
<1>1. [Ctx(a1, a2, a3, a4, a5, a6) EXCEPT !.Message_Digest = d] = Ctx(a1, a2, a3, d, a5, a6)
  BY DEF Ctx
<1>2. [Ctx(a1, a2, a3, d, a5, a6) EXCEPT !.Message_Block = e] = Ctx(a1, a2, e, d, a5, a6)
  BY DEF Ctx
<1> QED BY <1>1, <1>2 DEF Blocked

\* The change that SHA1Input makes for an octet that does not fill the block.
LEMMA CountingIs ==
    ASSUME NEW a1, NEW a2, NEW a3, NEW a4, NEW a5, NEW a6, NEW e, NEW l, NEW h, NEW f
    PROVE  Counting(Ctx(a1, a2, a3, a4, a5, a6), e, l, h, f) = Ctx(l, h, e, a4, a5, f)
<1>1. [Ctx(a1, a2, a3, a4, a5, a6) EXCEPT !.Message_Block = e] = Ctx(a1, a2, e, a4, a5, a6)
  BY DEF Ctx
<1>2. [Ctx(a1, a2, e, a4, a5, a6) EXCEPT !.Length_Low = l] = Ctx(l, a2, e, a4, a5, a6)
  BY DEF Ctx
<1>3. [Ctx(l, a2, e, a4, a5, a6) EXCEPT !.Length_High = h] = Ctx(l, h, e, a4, a5, a6)
  BY DEF Ctx
<1>4. [Ctx(l, h, e, a4, a5, a6) EXCEPT !.Corrupted = f] = Ctx(l, h, e, a4, a5, f)
  BY DEF Ctx
<1> QED BY <1>1, <1>2, <1>3, <1>4 DEF Counting

\* The flags set, one at a time.
LEMMA FlaggedIs ==
    ASSUME NEW a1, NEW a2, NEW a3, NEW a4, NEW a5, NEW a6, NEW f
    PROVE  /\ Flagged(Ctx(a1, a2, a3, a4, a5, a6), f) = Ctx(a1, a2, a3, a4, a5, f)
           /\ Finished(Ctx(a1, a2, a3, a4, a5, a6), f) = Ctx(a1, a2, a3, a4, f, a6)
BY DEF Ctx, Flagged, Finished

\* The block padded.
LEMMA RefilledIs ==
    ASSUME NEW a1, NEW a2, NEW a3, NEW a4, NEW a5, NEW a6, NEW e
    PROVE  Refilled(Ctx(a1, a2, a3, a4, a5, a6), e) = Ctx(a1, a2, e, a4, a5, a6)
BY DEF Ctx, Refilled

\* A block that is full goes to the digest.
LEMMA ProcessIs ==
    ASSUME NEW a1, NEW a2, NEW a3, NEW a4, NEW a5, NEW a6
    PROVE  Digests!ProcessMessageBlock(Ctx(a1, a2, a3, a4, a5, a6))
             = Ctx(a1, a2, <<>>, Append(a4, a3), a5, a6)
<1> DEFINE x == Ctx(a1, a2, a3, a4, a5, a6)
           d == Append(a4, a3)
<1>1. x.Message_Digest = a4 /\ x.Message_Block = a3
  BY DEF Ctx
<1>2. Blocked(x, d, <<>>) = Ctx(a1, a2, <<>>, d, a5, a6)
  BY BlockedIs
<1> HIDE DEF x, d
<1>4. Digests!ProcessMessageBlock(x) = Blocked(x, d, <<>>)
  BY <1>1 DEF Digests!ProcessMessageBlock, Blocked, d
<1>5. Digests!ProcessMessageBlock(x) = Ctx(a1, a2, <<>>, d, a5, a6)
  BY <1>2, <1>4
<1> QED BY <1>5 DEF x, d

LowSum(low)        == (low + 8) % Digests!WordMod
HighSum(low, high) == IF LowSum(low) = 0 THEN (high + 1) % Digests!WordMod ELSE high
Overflow(low, high) == LowSum(low) = 0 /\ HighSum(low, high) = 0

\* One turn of the loop of SHA1Input, of a context in use.
LEMMA OctetIs ==
    ASSUME NEW low, NEW high, NEW block, NEW blocks, NEW cp, NEW o
    PROVE  Digests!InputOctet(Ctx(low, high, block, blocks, cp, FALSE), o)
             = IF Len(Append(block, o)) = Block
               THEN Ctx(LowSum(low), HighSum(low, high), <<>>, Append(blocks, Append(block, o)), cp,
                        Overflow(low, high))
               ELSE Ctx(LowSum(low), HighSum(low, high), Append(block, o), blocks, cp,
                        Overflow(low, high))
<1>0. PICK no : no = FALSE
  OBVIOUS
<1> DEFINE l == LowSum(low)
           h == HighSum(low, high)
           x == Ctx(low, high, block, blocks, cp, no)
           f == Overflow(low, high)
           e == Append(block, o)
           y == Counting(x, e, l, h, f)
<1>1. /\ x.Length_Low = low /\ x.Length_High = high /\ x.Message_Block = block
      /\ x.Message_Digest = blocks /\ x.Corrupted = FALSE
  BY <1>0 DEF Ctx
<1> HIDE DEF l, h, f, e
<1>3. y = Ctx(l, h, e, blocks, cp, f)
  BY CountingIs
<1> HIDE DEF x
<1>2. Digests!InputOctet(x, o)
        = IF Len(y.Message_Block) = Block THEN Digests!ProcessMessageBlock(y) ELSE y
  BY <1>1 DEF Digests!InputOctet, LowSum, HighSum, Overflow, Counting, l, h, f, e
<1>4. Digests!ProcessMessageBlock(Ctx(l, h, e, blocks, cp, f)) = Ctx(l, h, <<>>, Append(blocks, e), cp, f)
  BY ProcessIs
<1>5. y.Message_Block = e
  <2>1. Ctx(l, h, e, blocks, cp, f).Message_Block = e
    BY DEF Ctx
  <2> HIDE DEF y
  <2> QED BY <2>1, <1>3
<1> HIDE DEF y
<1>6. Digests!InputOctet(x, o)
        = IF Len(e) = Block
          THEN Ctx(l, h, <<>>, Append(blocks, e), cp, f)
          ELSE Ctx(l, h, e, blocks, cp, f)
  BY <1>2, <1>3, <1>4, <1>5
<1> QED BY <1>0, <1>6 DEF x, l, h, f, e

\* The fields of a context.
LEMMA ContextIs ==
    ASSUME NEW V, NEW x \in Contexts(V)
    PROVE  /\ x = Ctx(x.Length_Low, x.Length_High, x.Message_Block, x.Message_Digest,
                      x.Computed, x.Corrupted)
           /\ x.Length_Low \in 0 .. Digests!WordMod - 1 /\ x.Length_High \in 0 .. Digests!WordMod - 1
           /\ x.Message_Block \in Seq(V) /\ x.Message_Digest \in Seq(Seq(V))
           /\ x.Computed \in BOOLEAN /\ x.Corrupted \in BOOLEAN
           /\ Len(x.Message_Block) < Block
           /\ \A k \in 1 .. Len(x.Message_Digest) : Len(x.Message_Digest[k]) = Block
BY DEF Contexts, Ctx

\* What makes a context.
LEMMA IsContext ==
    ASSUME NEW V, NEW low \in 0 .. Digests!WordMod - 1, NEW high \in 0 .. Digests!WordMod - 1,
           NEW block \in Seq(V), NEW blocks \in Seq(Seq(V)), NEW cp \in BOOLEAN, NEW cr \in BOOLEAN,
           Len(block) < Block, \A k \in 1 .. Len(blocks) : Len(blocks[k]) = Block
    PROVE  Ctx(low, high, block, blocks, cp, cr) \in Contexts(V)
BY DEF Contexts, Ctx

\* One more block of the right length.
LEMMA AddBlock ==
    ASSUME NEW V, NEW blocks \in Seq(Seq(V)), NEW e \in Seq(V), Len(e) = Block,
           \A k \in 1 .. Len(blocks) : Len(blocks[k]) = Block
    PROVE  /\ Append(blocks, e) \in Seq(Seq(V))
           /\ \A k \in 1 .. Len(Append(blocks, e)) : Len(Append(blocks, e)[k]) = Block
<1>1. Append(blocks, e) \in Seq(Seq(V)) /\ Len(Append(blocks, e)) = Len(blocks) + 1
  OBVIOUS
<1>2. ASSUME NEW k \in 1 .. Len(blocks) + 1
      PROVE  Len(Append(blocks, e)[k]) = Block
  <2>1. CASE k = Len(blocks) + 1
    <3>1. Append(blocks, e)[k] = e
      BY <2>1
    <3> QED BY <3>1
  <2>2. CASE k # Len(blocks) + 1
    <3>1. k \in 1 .. Len(blocks)
      BY <2>2
    <3>2. Append(blocks, e)[k] = blocks[k]
      BY <3>1
    <3> QED BY <3>1, <3>2
  <2> QED BY <2>1, <2>2
<1> QED BY <1>1, <1>2

\* An octet keeps a context a context, and a spoilt one as it is.
LEMMA OctetKeeps ==
    ASSUME NEW V, NEW x \in Contexts(V), NEW o \in V
    PROVE  /\ Digests!InputOctet(x, o) \in Contexts(V)
           /\ (x.Corrupted => Digests!InputOctet(x, o) = x)
<1>1. CASE x.Corrupted
  <2>1. Digests!InputOctet(x, o) = x
    BY <1>1 DEF Digests!InputOctet
  <2> QED BY <2>1
<1>2. CASE ~ x.Corrupted
  <2>0. x.Corrupted = FALSE
    BY <1>2, ContextIs
  <2> DEFINE low == x.Length_Low
             high == x.Length_High
             block == x.Message_Block
             blocks == x.Message_Digest
             cp == x.Computed
  <2>1. /\ x = Ctx(low, high, block, blocks, cp, FALSE)
        /\ low \in 0 .. Digests!WordMod - 1 /\ high \in 0 .. Digests!WordMod - 1
        /\ block \in Seq(V) /\ blocks \in Seq(Seq(V)) /\ cp \in BOOLEAN
        /\ Len(block) < Block
        /\ \A k \in 1 .. Len(blocks) : Len(blocks[k]) = Block
    BY <2>0, ContextIs
  <2> HIDE DEF low, high, block, blocks, cp
  <2>2. PICK M \in Nat \ {0} : Digests!WordMod = M
    <3>1. PICK w \in Nat \ {0} : Digests!WordMod = 8 * w
      BY WordIs
    <3> QED BY <3>1
  <2> DEFINE l == LowSum(low)
             h == HighSum(low, high)
             f == Overflow(low, high)
  <2>3. l \in 0 .. M - 1 /\ h \in 0 .. M - 1 /\ f \in BOOLEAN
    BY <2>1, <2>2 DEF LowSum, HighSum, Overflow
  <2> HIDE DEF l, h, f
  <2>4. /\ Append(block, o) \in Seq(V) /\ Len(Append(block, o)) = Len(block) + 1
    BY <2>1
  <2>5. Digests!InputOctet(x, o)
          = IF Len(Append(block, o)) = Block
            THEN Ctx(l, h, <<>>, Append(blocks, Append(block, o)), cp, f)
            ELSE Ctx(l, h, Append(block, o), blocks, cp, f)
    <3>1. Digests!InputOctet(Ctx(low, high, block, blocks, cp, FALSE), o)
          = IF Len(Append(block, o)) = Block
            THEN Ctx(l, h, <<>>, Append(blocks, Append(block, o)), cp, f)
            ELSE Ctx(l, h, Append(block, o), blocks, cp, f)
      BY OctetIs DEF l, h, f
    <3> QED BY <2>1, <3>1
  <2>6. CASE Len(Append(block, o)) = Block
    <3>1. /\ Append(blocks, Append(block, o)) \in Seq(Seq(V))
          /\ \A k \in 1 .. Len(Append(blocks, Append(block, o))) :
                Len(Append(blocks, Append(block, o))[k]) = Block
      BY <2>1, <2>4, <2>6, AddBlock
    <3>2. <<>> \in Seq(V) /\ Len(<<>>) < Block
      BY BlockIs
    <3>3. Ctx(l, h, <<>>, Append(blocks, Append(block, o)), cp, f) \in Contexts(V)
      BY <2>1, <2>2, <2>3, <3>1, <3>2, IsContext
    <3> QED BY <1>2, <2>5, <2>6, <3>3
  <2>7. CASE Len(Append(block, o)) # Block
    <3>1. Len(Append(block, o)) < Block
      BY <2>1, <2>4, <2>7, BlockIs
    <3>2. Ctx(l, h, Append(block, o), blocks, cp, f) \in Contexts(V)
      BY <2>1, <2>2, <2>3, <2>4, <3>1, IsContext
    <3> QED BY <1>2, <2>5, <2>7, <3>2
  <2> QED BY <2>6, <2>7
<1> QED BY <1>1, <1>2

\* The tail is shorter than a block and the blocks have their length.
LEMMA TailFits ==
    ASSUME NEW V, NEW m \in Seq(V)
    PROVE  /\ TailOf(m) \in Seq(V) /\ Len(TailOf(m)) < Block
           /\ BlocksOf(m) \in Seq(Seq(V))
           /\ \A k \in 1 .. Len(BlocksOf(m)) : Len(BlocksOf(m)[k]) = Block
<1>1. PICK q \in Nat, r \in 0 .. Block - 1 : Len(m) = Block * q + r
  BY CutExists
<1>2. IsCut(V, m, q, r)
  BY <1>1, Cut
<1>3. r < Block
  BY BlockIs
<1> QED BY <1>2, <1>3 DEF IsCut

\* What a message leaves is a context.
LEMMA AfterFits ==
    ASSUME NEW V, NEW m \in Seq(V), Len(m) < Digests!Capacity
    PROVE  After(m) \in Contexts(V)
<1>1. LowOf(Len(m)) \in 0 .. Digests!WordMod - 1 /\ HighOf(Len(m)) \in 0 .. Digests!WordMod - 1
  BY Counted
<1>2. FALSE \in BOOLEAN
  OBVIOUS
<1> QED BY <1>1, <1>2, TailFits, IsContext DEF After

\* The context that was given m, and one octet more.
LEMMA OctetAfter ==
    ASSUME NEW V, NEW m \in Seq(V), NEW o \in V, Len(m) < Digests!Capacity
    PROVE  IF Len(m) + 1 < Digests!Capacity
           THEN Digests!InputOctet(After(m), o) = After(m \o <<o>>)
           ELSE Digests!InputOctet(After(m), o).Corrupted
<1> DEFINE n == Len(m)
           l == LowSum(LowOf(n))
           h == HighSum(LowOf(n), HighOf(n))
           f == Overflow(LowOf(n), HighOf(n))
<1>1. Digests!InputOctet(After(m), o)
        = IF Len(Append(TailOf(m), o)) = Block
          THEN Ctx(l, h, <<>>, Append(BlocksOf(m), Append(TailOf(m), o)), FALSE, f)
          ELSE Ctx(l, h, Append(TailOf(m), o), BlocksOf(m), FALSE, f)
  BY OctetIs DEF After, l, h, f
<1>2. IF n + 1 < Digests!Capacity
      THEN l = LowOf(n + 1) /\ h = HighOf(n + 1) /\ ~f
      ELSE l = 0 /\ h = 0
  BY Counted DEF LowSum, HighSum, Overflow
<1> HIDE DEF l, h, f
<1>3. /\ TailOf(m) \in Seq(V) /\ Len(TailOf(m)) < Block
  BY TailFits
<1>4. /\ Append(TailOf(m), o) = TailOf(m) \o <<o>> /\ <<o>> \in Seq(V) /\ Len(<<o>>) = 1
      /\ Len(Append(TailOf(m), o)) = Len(TailOf(m)) + 1
  BY <1>3, AppendJoins
<1>5. m \o <<o>> \in Seq(V) /\ Len(m \o <<o>>) = n + 1
  OBVIOUS
<1>6. CASE n + 1 < Digests!Capacity
  <2>1. f = FALSE
    BY <1>2, <1>6 DEF f, Overflow
  <2>2. CASE Len(TailOf(m)) + 1 = Block
    <3>1. BlocksOf(m \o <<o>>) = Append(BlocksOf(m), TailOf(m) \o <<o>>) /\ TailOf(m \o <<o>>) = <<>>
      BY <1>4, <2>2, Filled
    <3>2. After(m \o <<o>>) = Ctx(l, h, <<>>, Append(BlocksOf(m), Append(TailOf(m), o)), FALSE, f)
      BY <1>2, <1>4, <1>5, <1>6, <2>1, <3>1 DEF After
    <3> QED BY <1>1, <1>4, <1>6, <2>2, <3>2
  <2>3. CASE Len(TailOf(m)) + 1 # Block
    <3>1. Len(TailOf(m)) + Len(<<o>>) < Block
      BY <1>3, <1>4, <2>3, BlockIs
    <3>2. BlocksOf(m \o <<o>>) = BlocksOf(m) /\ TailOf(m \o <<o>>) = TailOf(m) \o <<o>>
      BY <1>4, <3>1, NotFilled
    <3>3. After(m \o <<o>>) = Ctx(l, h, Append(TailOf(m), o), BlocksOf(m), FALSE, f)
      BY <1>2, <1>4, <1>5, <1>6, <2>1, <3>2 DEF After
    <3> QED BY <1>1, <1>4, <1>6, <2>3, <3>3
  <2> QED BY <2>2, <2>3
<1>7. CASE ~ (n + 1 < Digests!Capacity)
  <2>1. f = TRUE
    BY <1>2, <1>7 DEF f, l, h, Overflow
  <2>2. Digests!InputOctet(After(m), o).Corrupted = f
    BY <1>1 DEF Ctx
  <2> QED BY <1>7, <2>1, <2>2
<1> QED BY <1>6, <1>7

\* The loop of SHA1Input, and the contexts between its turns.
Turns(V, x, octets, y) ==
    /\ y \in [0 .. Len(octets) -> Contexts(V)] /\ y[0] = x
    /\ \A k \in 1 .. Len(octets) : y[k] = Digests!InputOctet(y[k - 1], octets[k])
    /\ Digests!Input(x, octets) = y[Len(octets)]

\* The loop of SHA1Input ends, and its result is that of the last turn.
LEMMA InputTurns ==
    ASSUME NEW V, NEW x \in Contexts(V), NEW octets \in Seq(V), octets # <<>>,
           ~ x.Computed, ~ x.Corrupted
    PROVE  \E y : Turns(V, x, octets, y)
<1> DEFINE n    == Len(octets)
           step == [q \in (1 .. n) \X Contexts(V) |-> Digests!InputOctet(q[2], octets[q[1]])]
<1>0. n \in Nat /\ \A k \in 1 .. n : octets[k] \in V
  OBVIOUS
<1>1. step \in [(1 .. n) \X Contexts(V) -> Contexts(V)]
  <2> HIDE DEF n
  <2> SUFFICES ASSUME NEW q \in (1 .. n) \X Contexts(V)
               PROVE  Digests!InputOctet(q[2], octets[q[1]]) \in Contexts(V)
    OBVIOUS
  <2>1. q[2] \in Contexts(V) /\ octets[q[1]] \in V
    BY <1>0
  <2> QED BY <2>1, OctetKeeps
<1>2. PICK f : Runs(f, n, Contexts(V), x, step)
  <2> HIDE DEF step, n
  <2> QED BY <1>0, <1>1, Recursion
<1> HIDE DEF n
<1>3. f \in [0 .. n -> Contexts(V)] /\ f[0] = x /\ \A k \in 1 .. n : f[k] = step[<<k, f[k - 1]>>]
  <2> HIDE DEF step
  <2> QED BY <1>2 DEF Runs
<1>4. \A k \in 1 .. n : f[k] = Digests!InputOctet(f[k - 1], octets[k])
  <2> SUFFICES ASSUME NEW k \in 1 .. n PROVE f[k] = Digests!InputOctet(f[k - 1], octets[k])
    OBVIOUS
  <2>1. f[k - 1] \in Contexts(V) /\ <<k, f[k - 1]>> \in (1 .. n) \X Contexts(V)
    BY <1>0, <1>3
  <2>2. step[<<k, f[k - 1]>>] = Digests!InputOctet(f[k - 1], octets[k])
    BY <2>1
  <2> HIDE DEF step
  <2> QED BY <1>3, <2>2
<1> HIDE DEF step
<1> DEFINE T(y) == [k \in 0 .. n |-> IF k = 0 THEN x ELSE Digests!InputOctet(y[k - 1], octets[k])]
           g    == CHOOSE y : y = T(y)
<1>5. f = T(f)
  <2>1. \A k \in 0 .. n : f[k] = T(f)[k]
    BY <1>0, <1>3, <1>4
  <2> QED BY <1>3, <2>1
<1>6. g = T(g)
  <2> HIDE DEF T
  <2> QED BY <1>5
<1>7. Digests!Input(x, octets) = g[n]
  BY DEF Digests!Input, n
<1> HIDE DEF g
<1>8. g[0] = x /\ \A k \in 1 .. n : g[k] = Digests!InputOctet(g[k - 1], octets[k])
  <2>1. \A k \in 0 .. n : g[k] = T(g)[k]
    BY <1>6
  <2> QED BY <2>1, <1>0
<1>9. \A k \in 0 .. n : g[k] = f[k]
  <2> DEFINE P == {k \in 0 .. n : g[k] = f[k]}
  <2>1. 0 \in P
    BY <1>0, <1>3, <1>8
  <2>2. \A k \in 1 .. n : k - 1 \in P => k \in P
    BY <1>0, <1>4, <1>8
  <2> HIDE DEF P
  <2>3. \A k \in 0 .. n : k \in P
    BY <1>0, <2>1, <2>2, Climb
  <2> QED BY <2>3 DEF P
<1>10. Digests!Input(x, octets) = f[n]
  BY <1>0, <1>7, <1>9
<1>11. Turns(V, x, octets, f)
  BY <1>3, <1>4, <1>10 DEF Turns, n
<1> QED BY <1>11

\* A context that is finished or spoilt is spoilt by any further octet.
LEMMA InputSpoils ==
    ASSUME NEW V, NEW x \in Contexts(V), NEW octets \in Seq(V), octets # <<>>,
           x.Computed \/ x.Corrupted
    PROVE  Digests!Input(x, octets) \in Contexts(V) /\ Digests!Input(x, octets).Corrupted
<1>0. PICK yes : yes = TRUE
  OBVIOUS
<1> DEFINE a1 == x.Length_Low
           a2 == x.Length_High
           a3 == x.Message_Block
           a4 == x.Message_Digest
           a5 == x.Computed
           a6 == x.Corrupted
<1>1. /\ x = Ctx(a1, a2, a3, a4, a5, a6)
      /\ a1 \in 0 .. Digests!WordMod - 1 /\ a2 \in 0 .. Digests!WordMod - 1
      /\ a3 \in Seq(V) /\ a4 \in Seq(Seq(V)) /\ a5 \in BOOLEAN /\ a6 \in BOOLEAN
      /\ Len(a3) < Block /\ \A k \in 1 .. Len(a4) : Len(a4[k]) = Block
  BY ContextIs
<1>2. Digests!Input(x, octets) = Flagged(x, yes)
  BY <1>0 DEF Digests!Input, Flagged
<1> HIDE DEF a1, a2, a3, a4, a5, a6
<1>3. Flagged(Ctx(a1, a2, a3, a4, a5, a6), yes) = Ctx(a1, a2, a3, a4, a5, yes)
  BY FlaggedIs
<1>4. Digests!Input(x, octets) = Ctx(a1, a2, a3, a4, a5, yes)
  BY <1>1, <1>2, <1>3
<1>5. yes \in BOOLEAN
  BY <1>0
<1>6. Ctx(a1, a2, a3, a4, a5, yes) \in Contexts(V)
  BY <1>1, <1>5, IsContext
<1>7. Ctx(a1, a2, a3, a4, a5, yes).Corrupted = yes
  BY DEF Ctx
<1> QED BY <1>0, <1>4, <1>6, <1>7

\* Prefixes, one element after the other.
LEMMA Prefix ==
    ASSUME NEW V, NEW s \in Seq(V)
    PROVE  /\ SubSeq(s, 1, 0) = <<>> /\ SubSeq(s, 1, Len(s)) = s
           /\ \A k \in 1 .. Len(s) : /\ SubSeq(s, 1, k) = SubSeq(s, 1, k - 1) \o <<s[k]>>
                                     /\ s[k] \in V
           /\ \A k \in 0 .. Len(s) : SubSeq(s, 1, k) \in Seq(V) /\ Len(SubSeq(s, 1, k)) = k
OBVIOUS

\* The octets of one input join those that came before, or spoil the context
\* when they are more than the bit count holds.
LEMMA InputAfter ==
    ASSUME NEW V, NEW m \in Seq(V), NEW octets \in Seq(V), Len(m) < Digests!Capacity
    PROVE  /\ Digests!Input(After(m), octets) \in Contexts(V)
           /\ IF Len(m) + Len(octets) < Digests!Capacity
              THEN Digests!Input(After(m), octets) = After(m \o octets)
              ELSE Digests!Input(After(m), octets).Corrupted
<1>1. After(m) \in Contexts(V)
  BY AfterFits
<1>2. CASE octets = <<>>
  <2>1. Digests!Input(After(m), octets) = After(m)
    BY <1>2 DEF Digests!Input
  <2>2. m \o octets = m /\ Len(octets) = 0
    BY <1>2, EmptyIsUnit
  <2> QED BY <1>1, <2>1, <2>2
<1>3. CASE octets # <<>>
  <2>1. ~ After(m).Computed /\ ~ After(m).Corrupted
    BY DEF After, Ctx
  <2>2. PICK y : Turns(V, After(m), octets, y)
    BY <1>1, <1>3, <2>1, InputTurns
  <2> DEFINE n == Len(octets)
             Pre(k) == m \o SubSeq(octets, 1, k)
             P == {k \in 0 .. n : IF Len(m) + k < Digests!Capacity
                                  THEN y[k] = After(Pre(k)) ELSE y[k].Corrupted}
  <2>3. /\ y \in [0 .. n -> Contexts(V)] /\ y[0] = After(m)
        /\ \A k \in 1 .. n : y[k] = Digests!InputOctet(y[k - 1], octets[k])
        /\ Digests!Input(After(m), octets) = y[n]
    BY <2>2 DEF Turns
  <2>4. n \in Nat /\ Len(m) \in Nat
    OBVIOUS
  <2>5. \A k \in 0 .. n : Pre(k) \in Seq(V) /\ Len(Pre(k)) = Len(m) + k
    <3> SUFFICES ASSUME NEW k \in 0 .. n PROVE Pre(k) \in Seq(V) /\ Len(Pre(k)) = Len(m) + k
      OBVIOUS
    <3>1. SubSeq(octets, 1, k) \in Seq(V) /\ Len(SubSeq(octets, 1, k)) = k
      BY Prefix
    <3>2. IsJoin(V, m, SubSeq(octets, 1, k), Pre(k))
      BY <3>1, Joined
    <3> QED BY <3>1, <3>2 DEF IsJoin
  <2>6. Pre(0) = m /\ Pre(n) = m \o octets
    <3>1. SubSeq(octets, 1, 0) = <<>> /\ SubSeq(octets, 1, n) = octets
      BY Prefix
    <3>2. m \o <<>> = m
      BY EmptyIsUnit
    <3> QED BY <3>1, <3>2
  <2>7. \A k \in 1 .. n : Pre(k) = Pre(k - 1) \o <<octets[k]>> /\ octets[k] \in V
    <3> SUFFICES ASSUME NEW k \in 1 .. n
                 PROVE  Pre(k) = Pre(k - 1) \o <<octets[k]>> /\ octets[k] \in V
      OBVIOUS
    <3>0. k - 1 \in 0 .. n
      OBVIOUS
    <3>1. SubSeq(octets, 1, k) = SubSeq(octets, 1, k - 1) \o <<octets[k]>> /\ octets[k] \in V
      BY Prefix
    <3>2. SubSeq(octets, 1, k - 1) \in Seq(V) /\ <<octets[k]>> \in Seq(V)
      BY <3>0, <3>1, Prefix
    <3>3. PICK u \in Seq(V), e \in Seq(V) : u = SubSeq(octets, 1, k - 1) /\ e = <<octets[k]>>
      BY <3>2
    <3>4. (m \o u) \o e = m \o (u \o e)
      BY Associates
    <3> QED BY <3>1, <3>3, <3>4
  <2> HIDE DEF Pre
  <2>8. 0 \in P
    BY <2>3, <2>4, <2>6
  <2>9. ASSUME NEW k \in 1 .. n, k - 1 \in P PROVE k \in P
    <3> DEFINE w == Pre(k - 1)
               o == octets[k]
    <3>1. k - 1 \in 0 .. n /\ k - 1 + 1 = k /\ y[k - 1] \in Contexts(V)
      BY <2>3, <2>4
    <3>2. w \in Seq(V) /\ Len(w) = Len(m) + (k - 1) /\ o \in V /\ Pre(k) = w \o <<o>>
      BY <2>5, <2>7, <3>1
    <3>3. y[k] = Digests!InputOctet(y[k - 1], o)
      BY <2>3
    <3>4. IF Len(w) < Digests!Capacity THEN y[k - 1] = After(w) ELSE y[k - 1].Corrupted
      BY <2>9, <3>2
    <3> HIDE DEF w, o
    <3>5. CASE Len(w) < Digests!Capacity
      <4>1. IF Len(w) + 1 < Digests!Capacity
            THEN Digests!InputOctet(After(w), o) = After(w \o <<o>>)
            ELSE Digests!InputOctet(After(w), o).Corrupted
        BY <3>2, <3>5, OctetAfter
      <4>2. Len(w) + 1 = Len(m) + k
        BY <2>4, <3>2
      <4>3. IF Len(m) + k < Digests!Capacity THEN y[k] = After(Pre(k)) ELSE y[k].Corrupted
        BY <3>2, <3>3, <3>4, <3>5, <4>1, <4>2
      <4> QED BY <4>3
    <3>6. CASE ~ (Len(w) < Digests!Capacity)
      <4>1. y[k - 1].Corrupted
        BY <3>4, <3>6
      <4>2. y[k] = y[k - 1]
        BY <3>1, <3>2, <3>3, <4>1, OctetKeeps
      <4>3. ~ (Len(m) + k < Digests!Capacity)
        <5>1. PICK c \in Nat : c = Digests!Capacity
          <6>1. PICK ww \in Nat \ {0} : Digests!WordMod = 8 * ww /\ Digests!Capacity = ww * Digests!WordMod
            BY WordIs
          <6> QED BY <6>1
        <5> QED BY <2>4, <3>2, <3>6, <5>1
      <4> QED BY <4>1, <4>2, <4>3
    <3> QED BY <3>5, <3>6
  <2> HIDE DEF P, n
  <2>10. n \in P
    <3>1. \A k \in 1 .. n : k - 1 \in P => k \in P
      BY <2>9
    <3>2. n \in Nat
      BY <2>4
    <3>3. \A k \in 0 .. n : k \in P
      BY <2>8, <3>1, <3>2, Climb
    <3> QED BY <3>2, <3>3
  <2>11. IF Len(m) + n < Digests!Capacity THEN y[n] = After(Pre(n)) ELSE y[n].Corrupted
    BY <2>10 DEF P
  <2>12. y[n] \in Contexts(V)
    BY <2>3, <2>4
  <2> QED BY <2>3, <2>6, <2>11, <2>12 DEF n
<1> QED BY <1>2, <1>3

-----------------------------------------------------------------------------
(* Padding. *)

Numerals == {"n"} \X Int

\* A word is written in four octets.
LEMMA WordSeq ==
    ASSUME NEW V, Numerals \subseteq V, NEW w \in Int
    PROVE  Digests!Word(w) \in Seq(V) /\ Len(Digests!Word(w)) = 4
<1>1. Octet \in Nat \ {0}
  BY DigestsAssumption DEF Digests!BlockAssumption
<1>2. PICK p3 \in Nat \ {0}, p2 \in Nat \ {0} : p3 = Octet * Octet * Octet /\ p2 = Octet * Octet
  BY <1>1
<1> DEFINE D(p) == <<"n", (w \div p) % Octet>>
<1>3. \A p \in Nat \ {0} : D(p) \in V
  BY <1>1 DEF Numerals
<1>4. Digests!Word(w) = <<D(p3), D(p2), D(Octet), D(1)>>
  BY <1>2 DEF Digests!Word
<1> HIDE DEF D
<1>5. D(p3) \in V /\ D(p2) \in V /\ D(Octet) \in V /\ D(1) \in V
  <2>1. 1 \in Nat \ {0}
    OBVIOUS
  <2> QED BY <1>1, <1>3, <2>1
<1> QED BY <1>4, <1>5

\* Zeros are octets.
LEMMA ZerosSeq ==
    ASSUME NEW V, Numerals \subseteq V, NEW n \in Nat
    PROVE  Digests!Zeros(n) \in Seq(V) /\ Len(Digests!Zeros(n)) = n
<1>1. Digests!Zero \in V
  BY DEF Digests!Zero, Numerals
<1>2. Digests!Zeros(n) = [k \in 1 .. n |-> Digests!Zero]
  BY DEF Digests!Zeros
<1> QED BY <1>1, <1>2

\* Zeros joined are zeros.
LEMMA ZerosSum ==
    ASSUME NEW m \in Nat, NEW n \in Nat
    PROVE  Digests!Zeros(m) \o Digests!Zeros(n) = Digests!Zeros(m + n)
<1> DEFINE z == Digests!Zero
           V == {z}
           s == [k \in 1 .. m |-> z]
           r == [k \in 1 .. n |-> z]
           w == [k \in 1 .. m + n |-> z]
<1> HIDE DEF z
<1>1. s \in Seq(V) /\ r \in Seq(V) /\ w \in Seq(V) /\ Len(s) = m /\ Len(r) = n /\ Len(w) = m + n
  OBVIOUS
<1>2. IsJoin(V, s, r, s \o r)
  <2> HIDE DEF s, r, V
  <2> QED BY <1>1, Joined
<1>3. s \o r \in Seq(V) /\ Len(s \o r) = m + n
  <2> HIDE DEF s, r, V
  <2> QED BY <1>1, <1>2 DEF IsJoin
<1>4. \A k \in 1 .. m + n : (s \o r)[k] = z
  <2>1. \A k \in 1 .. m + n : (s \o r)[k] \in V
    <3> HIDE DEF s, r, V
    <3> QED BY <1>3
  <2> QED BY <2>1
<1>5. \A k \in 1 .. m + n : w[k] = z
  OBVIOUS
<1>6. s \o r = w
  <2> HIDE DEF s, r, w, V
  <2> QED BY <1>1, <1>3, <1>4, <1>5, SameSeq
<1> QED BY <1>6 DEF Digests!Zeros, z

\* The rest of a message of n octets after its whole blocks, and the zeros of
\* the standard: they fill one block with the bit count, or two.
LEMMA ZerosNeeded ==
    ASSUME NEW q \in Nat, NEW r \in 0 .. Block - 1
    PROVE  (-(Block * q + r + 1 + 8)) % Block
             = IF r <= Block - 9 THEN Block - 9 - r ELSE 2 * Block - 9 - r
<1> USE BlockIs
<1>1. CASE r <= Block - 9
  <2>1. PICK d \in Int : d = -(q + 1)
    OBVIOUS
  <2>2. PICK e \in 0 .. Block - 1 : e = Block - 9 - r
    BY <1>1
  <2>3. -(Block * q + r + 1 + 8) = Block * d + e
    BY <2>1, <2>2
  <2>4. (Block * d + e) % Block = e
    BY DivisionIs
  <2> QED BY <1>1, <2>2, <2>3, <2>4
<1>2. CASE ~ (r <= Block - 9)
  <2>1. PICK d \in Int : d = -(q + 2)
    OBVIOUS
  <2>2. PICK e \in 0 .. Block - 1 : e = 2 * Block - 9 - r
    BY <1>2
  <2>3. -(Block * q + r + 1 + 8) = Block * d + e
    BY <2>1, <2>2
  <2>4. (Block * d + e) % Block = e
    BY DivisionIs
  <2> QED BY <1>2, <2>2, <2>3, <2>4
<1> QED BY <1>1, <1>2

\* The message padded: what the standard cuts into blocks.
Padded(m) ==
    m \o <<Digests!One>> \o Digests!Zeros((-(Len(m) + 1 + 8)) % Block)
      \o Digests!Word(HighOf(Len(m))) \o Digests!Word(LowOf(Len(m)))

\* The standard's blocks are those of the padded message.
LEMMA StandardIs ==
    ASSUME NEW m
    PROVE  Digests!StandardBlocks(m) = BlocksOf(Padded(m))
BY DEF Digests!StandardBlocks, BlocksOf, Padded, HighOf, LowOf

\* The length of two sequences joined.
LEMMA JoinLen ==
    ASSUME NEW V, NEW s \in Seq(V), NEW r \in Seq(V)
    PROVE  s \o r \in Seq(V) /\ Len(s \o r) = Len(s) + Len(r)
OBVIOUS

Regroups(s, r, u) == (s \o r) \o u = s \o (r \o u)

\* Joining associates, as a relation.
LEMMA Regrouped ==
    ASSUME NEW V, NEW s \in Seq(V), NEW r \in Seq(V), NEW u \in Seq(V)
    PROVE  Regroups(s, r, u)
BY Associates DEF Regroups

\* A tail, the padding of one block and the words.
OneBlockJoin(V, t, a, b, c, d) ==
    /\ (((t \o a) \o b) \o c) \o d = t \o (((a \o b) \o c) \o d)
    /\ ((a \o b) \o c) \o d \in Seq(V)
    /\ Len(((a \o b) \o c) \o d) = Len(a) + Len(b) + Len(c) + Len(d)

\* Five sequences regrouped into a block.
LEMMA OneBlock ==
    ASSUME NEW V, NEW t \in Seq(V), NEW a \in Seq(V), NEW b \in Seq(V), NEW c \in Seq(V), NEW d \in Seq(V)
    PROVE  OneBlockJoin(V, t, a, b, c, d)
<1>1. PICK t1 \in Seq(V) : t1 = a \o b /\ Len(t1) = Len(a) + Len(b)
  BY JoinLen
<1>2. PICK t2 \in Seq(V) : t2 = t1 \o c /\ Len(t2) = Len(t1) + Len(c)
  BY <1>1, JoinLen
<1>3. PICK t3 \in Seq(V) : t3 = t2 \o d /\ Len(t3) = Len(t2) + Len(d)
  BY <1>2, JoinLen
<1>4. Regroups(t, a, b) /\ Regroups(t, t1, c) /\ Regroups(t, t2, d)
  BY Regrouped
<1>5. Len(t3) = Len(a) + Len(b) + Len(c) + Len(d)
  BY <1>1, <1>2, <1>3
<1>6. (((t \o a) \o b) \o c) \o d = t \o t3
  BY <1>1, <1>2, <1>3, <1>4, Zenon DEF Regroups
<1> QED BY <1>1, <1>2, <1>3, <1>5, <1>6, Zenon DEF OneBlockJoin

\* The same when the zeros b \o e fill one block and most of the next.
TwoBlockJoin(V, t, a, b, e, c, d) ==
    /\ (((t \o a) \o (b \o e)) \o c) \o d = (t \o (a \o b)) \o ((e \o c) \o d)
    /\ (e \o c) \o d \in Seq(V) /\ Len((e \o c) \o d) = Len(e) + Len(c) + Len(d)

\* Six sequences regrouped into two blocks.
LEMMA TwoBlocks ==
    ASSUME NEW V, NEW t \in Seq(V), NEW a \in Seq(V), NEW b \in Seq(V), NEW e \in Seq(V),
           NEW c \in Seq(V), NEW d \in Seq(V)
    PROVE  TwoBlockJoin(V, t, a, b, e, c, d)
<1>1. PICK u \in Seq(V) : u = t \o a
  BY JoinLen
<1>2. PICK v \in Seq(V) : v = u \o b
  BY <1>1, JoinLen
<1>3. PICK t1 \in Seq(V) : t1 = e \o c /\ Len(t1) = Len(e) + Len(c)
  BY JoinLen
<1>4. PICK t2 \in Seq(V) : t2 = t1 \o d /\ Len(t2) = Len(t1) + Len(d)
  BY <1>3, JoinLen
<1>5. Regroups(u, b, e) /\ Regroups(v, e, c) /\ Regroups(v, t1, d) /\ Regroups(t, a, b)
  BY Regrouped
<1>6. Len(t2) = Len(e) + Len(c) + Len(d)
  BY <1>3, <1>4
<1>7. v = t \o (a \o b)
  BY <1>1, <1>2, <1>5, Zenon DEF Regroups
<1>8. (((t \o a) \o (b \o e)) \o c) \o d = v \o t2
  BY <1>1, <1>2, <1>3, <1>4, <1>5, Zenon DEF Regroups
<1> QED BY <1>3, <1>4, <1>6, <1>7, <1>8, Zenon DEF TwoBlockJoin

\* SHA1PadMessage, of a context that was given m, makes the standard's blocks.
LEMMA PadIs ==
    ASSUME NEW V, Numerals \subseteq V, NEW m \in Seq(V), Len(m) < Digests!Capacity
    PROVE  Digests!PadMessage(After(m))
             = Ctx(LowOf(Len(m)), HighOf(Len(m)), <<>>, Digests!StandardBlocks(m), FALSE, FALSE)
<1>0. PICK no : no = FALSE
  OBVIOUS
<1> DEFINE n    == Len(m)
           lo   == LowOf(n)
           hi   == HighOf(n)
           tail == TailOf(m)
           bs   == BlocksOf(m)
           one  == <<Digests!One>>
           wh   == Digests!Word(hi)
           wl   == Digests!Word(lo)
           Z(k) == Digests!Zeros(k)
           b    == tail \o one
<1>1. PICK q \in Nat, r \in 0 .. Block - 1 : n = Block * q + r
  BY CutExists
<1>2. tail \in Seq(V) /\ Len(tail) = r /\ bs \in Seq(Seq(V))
  <2>1. IsCut(V, m, q, r)
    BY <1>1, Cut
  <2> QED BY <2>1 DEF IsCut
<1>3. one \in Seq(V) /\ Len(one) = 1
  <2>1. Digests!One \in V
    BY DEF Digests!One, Numerals
  <2> QED BY <2>1
<1>4. hi \in Int /\ lo \in Int
  BY Counted
<1>5. wh \in Seq(V) /\ Len(wh) = 4 /\ wl \in Seq(V) /\ Len(wl) = 4
  BY <1>4, WordSeq
<1>6. \A k \in Nat : Z(k) \in Seq(V) /\ Len(Z(k)) = k
  BY ZerosSeq
<1>7. \A k \in Nat, l \in Nat : Z(k) \o Z(l) = Z(k + l)
  BY ZerosSum
<1>8. After(m) = Ctx(lo, hi, tail, bs, no, no)
  BY <1>0 DEF After
<1>9. Append(tail, Digests!One) = b /\ b \in Seq(V) /\ Len(b) = r + 1
  BY <1>2, <1>3
<1>10. PICK z \in Nat : z = (-(n + 1 + 8)) % Block
  BY <1>1, BlockIs
<1>11. Padded(m) = m \o one \o Z(z) \o wh \o wl
  BY <1>10 DEF Padded
<1>12. z = IF r <= Block - 9 THEN Block - 9 - r ELSE 2 * Block - 9 - r
  BY <1>1, <1>10, ZerosNeeded
<1> DEFINE y == IF Len(tail) > Block - 8 - 1
                THEN Digests!ProcessMessageBlock(Refilled(After(m), b \o Z(Block - Len(b))))
                ELSE Refilled(After(m), b)
           Final(c) == Digests!ProcessMessageBlock(
                         Refilled(c, ((c.Message_Block \o Z(Block - 8 - Len(c.Message_Block)))
                                        \o Digests!Word(c.Length_High)) \o Digests!Word(c.Length_Low)))
<1>13. Digests!PadMessage(After(m)) = Final(y)
  <2>1. After(m).Message_Block = tail
    BY <1>8 DEF Ctx
  <2> HIDE DEF tail
  <2> QED BY <1>9, <2>1 DEF Digests!PadMessage, Refilled
<1> HIDE DEF lo, hi, tail, bs, one, wh, wl, Z, b, n
<1>14. CASE r <= Block - 9
  <2>1. y = Ctx(lo, hi, b, bs, no, no)
    <3>1. ~ (Len(tail) > Block - 8 - 1)
      BY <1>2, <1>14, BlockIs
    <3>2. Refilled(Ctx(lo, hi, tail, bs, no, no), b) = Ctx(lo, hi, b, bs, no, no)
      BY RefilledIs
    <3> QED BY <1>8, <3>1, <3>2
  <2> DEFINE s == ((one \o Z(z)) \o wh) \o wl
             f == ((b \o Z(z)) \o wh) \o wl
  <2>2. Final(y) = Ctx(lo, hi, <<>>, Append(bs, f), no, no)
    <3>1. Block - 8 - (r + 1) = z
      BY <1>12, <1>14, BlockIs
    <3>2. /\ y.Message_Block = b /\ y.Length_High = hi /\ y.Length_Low = lo
      BY <2>1 DEF Ctx
    <3>3. Final(y) = Digests!ProcessMessageBlock(Refilled(y, f))
      <4> HIDE DEF y
      <4> QED BY <1>9, <3>1, <3>2 DEF wh, wl
    <3> HIDE DEF f, y, Final
    <3>4. Refilled(y, f) = Ctx(lo, hi, f, bs, no, no)
      BY <2>1, RefilledIs
    <3>5. Digests!ProcessMessageBlock(Ctx(lo, hi, f, bs, no, no)) = Ctx(lo, hi, <<>>, Append(bs, f), no, no)
      BY ProcessIs
    <3> QED BY <3>3, <3>4, <3>5
  <2>3. Z(z) \in Seq(V) /\ Len(Z(z)) = z
    BY <1>6
  <2>4. f = tail \o s /\ s \in Seq(V) /\ Len(s) = Len(one) + Len(Z(z)) + Len(wh) + Len(wl)
    <3>1. PICK t1 \in Seq(V) : t1 = Z(z)
      BY <2>3
    <3>2. OneBlockJoin(V, tail, one, t1, wh, wl)
      BY <1>2, <1>3, <1>5, OneBlock
    <3> QED BY <3>1, <3>2, Zenon DEF b, OneBlockJoin
  <2>5. Padded(m) = m \o s
    <3>1. PICK t1 \in Seq(V) : t1 = Z(z)
      BY <2>3
    <3>2. OneBlockJoin(V, m, one, t1, wh, wl)
      BY <1>3, <1>5, OneBlock
    <3> QED BY <1>11, <3>1, <3>2, Zenon DEF OneBlockJoin
  <2>6. s \in Seq(V) /\ Len(s) = Block - r
    <3> HIDE DEF s
    <3> QED BY <1>3, <1>5, <1>12, <1>14, <2>3, <2>4, BlockIs
  <2> HIDE DEF s, f, y, Final
  <2>7. BlocksOf(m \o s) = Append(bs, tail \o s)
    <3>1. Len(tail) + Len(s) = Block
      BY <1>2, <2>6, BlockIs
    <3> QED BY <2>6, <3>1, Filled DEF tail, bs
  <2>8. Digests!StandardBlocks(m) = Append(bs, f)
    BY <2>4, <2>5, <2>7, StandardIs
  <2> QED BY <1>0, <1>13, <2>2, <2>8 DEF lo, hi, n
<1>15. CASE ~ (r <= Block - 9)
  <2> DEFINE z1 == Block - (r + 1)
             z2 == Block - 8
             f  == b \o Z(z1)
             g  == (Z(z2) \o wh) \o wl
  <2>1. z1 \in Nat /\ z2 \in Nat /\ z = z1 + z2 /\ r + 1 + z1 = Block
    BY <1>12, <1>15, BlockIs
  <2> HIDE DEF z1, z2
  <2>2. Z(z1) \in Seq(V) /\ Len(Z(z1)) = z1 /\ Z(z2) \in Seq(V) /\ Len(Z(z2)) = z2 /\ Z(z) = Z(z1) \o Z(z2)
    BY <1>6, <1>7, <2>1
  <2>3. y = Ctx(lo, hi, <<>>, Append(bs, f), no, no)
    <3>1. Len(tail) > Block - 8 - 1
      BY <1>2, <1>15, BlockIs
    <3>2. Block - Len(b) = z1
      BY <1>9 DEF z1
    <3>3. y = Digests!ProcessMessageBlock(Refilled(After(m), f))
      BY <3>1, <3>2
    <3> HIDE DEF f, y
    <3>4. Refilled(After(m), f) = Ctx(lo, hi, f, bs, no, no)
      BY <1>8, RefilledIs
    <3>5. Digests!ProcessMessageBlock(Ctx(lo, hi, f, bs, no, no)) = Ctx(lo, hi, <<>>, Append(bs, f), no, no)
      BY ProcessIs
    <3> QED BY <3>3, <3>4, <3>5
  <2>4. Final(y) = Ctx(lo, hi, <<>>, Append(Append(bs, f), g), no, no)
    <3>1. /\ y.Message_Block = <<>> /\ y.Length_High = hi /\ y.Length_Low = lo
      BY <2>3 DEF Ctx
    <3>2. Block - 8 - Len(<<>>) = z2 /\ <<>> \o Z(z2) = Z(z2)
      BY <2>2, EmptyIsUnit, BlockIs DEF z2
    <3>3. Final(y) = Digests!ProcessMessageBlock(Refilled(y, g))
      <4> HIDE DEF y
      <4> QED BY <3>1, <3>2 DEF wh, wl
    <3> HIDE DEF f, g, y, Final
    <3>4. Refilled(y, g) = Ctx(lo, hi, g, Append(bs, f), no, no)
      BY <2>3, RefilledIs
    <3>5. Digests!ProcessMessageBlock(Ctx(lo, hi, g, Append(bs, f), no, no))
            = Ctx(lo, hi, <<>>, Append(Append(bs, f), g), no, no)
      BY ProcessIs
    <3> QED BY <3>3, <3>4, <3>5
  <2> DEFINE s == one \o Z(z1)
  <2>5. s \in Seq(V) /\ Len(s) = 1 + z1
    <3>1. PICK t1 \in Seq(V) : t1 = Z(z1) /\ Len(t1) = z1
      BY <2>2
    <3>2. one \o t1 \in Seq(V) /\ Len(one \o t1) = Len(one) + Len(t1)
      BY <1>3, <3>1, JoinLen
    <3> QED BY <1>3, <3>1, <3>2
  <2>6. g \in Seq(V) /\ Len(g) = Block
    <3>1. PICK t2 \in Seq(V) : t2 = Z(z2) /\ Len(t2) = z2
      BY <2>2
    <3>2. (t2 \o wh) \o wl \in Seq(V) /\ Len((t2 \o wh) \o wl) = Len(t2) + Len(wh) + Len(wl)
      <4>1. PICK u \in Seq(V) : u = t2 \o wh /\ Len(u) = Len(t2) + Len(wh)
        BY <1>5, <3>1, JoinLen
      <4>2. u \o wl \in Seq(V) /\ Len(u \o wl) = Len(u) + Len(wl)
        BY <1>5, <4>1, JoinLen
      <4> QED BY <4>1, <4>2
    <3> HIDE DEF g
    <3>3. g = (t2 \o wh) \o wl
      BY <3>1 DEF g
    <3> QED BY <1>5, <3>1, <3>2, <3>3, BlockIs DEF z2
  <2>7. f = tail \o s
    <3>1. PICK t1 \in Seq(V) : t1 = Z(z1)
      BY <2>2
    <3>2. (tail \o one) \o t1 = tail \o (one \o t1)
      BY <1>2, <1>3, Associates
    <3> QED BY <3>1, <3>2 DEF b
  <2>8. Padded(m) = (m \o s) \o g
    <3>1. PICK t1 \in Seq(V), t2 \in Seq(V) : t1 = Z(z1) /\ t2 = Z(z2)
      BY <2>2
    <3>2. TwoBlockJoin(V, m, one, t1, t2, wh, wl)
      BY <1>3, <1>5, TwoBlocks
    <3> QED BY <1>11, <2>2, <3>1, <3>2, Zenon DEF TwoBlockJoin
  <2> HIDE DEF s, f, g, y, Final
  <2>9. BlocksOf(m \o s) = Append(bs, f) /\ TailOf(m \o s) = <<>>
    <3>1. Len(tail) + Len(s) = Block
      BY <1>2, <2>1, <2>5, BlockIs
    <3> QED BY <2>5, <2>7, <3>1, Filled DEF tail, bs
  <2>10. BlocksOf((m \o s) \o g) = Append(Append(bs, f), g)
    <3>1. PICK u \in Seq(V) : u = m \o s
      BY <2>5, JoinLen
    <3>2. Len(TailOf(u)) + Len(g) = Block
      BY <2>6, <2>9, <3>1, EmptyIsUnit, BlockIs
    <3>3. BlocksOf(u \o g) = Append(BlocksOf(u), TailOf(u) \o g)
      BY <2>6, <3>2, Filled
    <3>4. <<>> \o g = g
      BY <2>6, EmptyIsUnit
    <3> QED BY <2>9, <3>1, <3>3, <3>4
  <2>11. Digests!StandardBlocks(m) = Append(Append(bs, f), g)
    BY <2>8, <2>10, StandardIs
  <2> QED BY <1>0, <1>13, <2>4, <2>11 DEF lo, hi, n
<1> QED BY <1>14, <1>15

-----------------------------------------------------------------------------
(* Digests and HMACs. *)

\* The standard's blocks have their length.
LEMMA StandardFits ==
    ASSUME NEW V, Numerals \subseteq V, NEW m \in Seq(V), Len(m) < Digests!Capacity
    PROVE  /\ Digests!StandardBlocks(m) \in Seq(Seq(V))
           /\ \A k \in 1 .. Len(Digests!StandardBlocks(m)) : Len(Digests!StandardBlocks(m)[k]) = Block
<1> DEFINE one == <<Digests!One>>
           wh  == Digests!Word(HighOf(Len(m)))
           wl  == Digests!Word(LowOf(Len(m)))
           zs  == Digests!Zeros((-(Len(m) + 1 + 8)) % Block)
<1>1. one \in Seq(V)
  <2>1. Digests!One \in V
    BY DEF Digests!One, Numerals
  <2> QED BY <2>1
<1>2. wh \in Seq(V) /\ wl \in Seq(V)
  <2>1. HighOf(Len(m)) \in Int /\ LowOf(Len(m)) \in Int
    BY Counted
  <2> QED BY <2>1, WordSeq
<1>3. zs \in Seq(V)
  <2>1. (-(Len(m) + 1 + 8)) % Block \in Nat
    BY BlockIs
  <2> QED BY <2>1, ZerosSeq
<1>4. Padded(m) = (((m \o one) \o zs) \o wh) \o wl
  BY DEF Padded
<1> HIDE DEF one, wh, wl, zs
<1>5. PICK t1 \in Seq(V) : t1 = m \o one
  BY <1>1, JoinLen
<1>6. PICK t2 \in Seq(V) : t2 = t1 \o zs
  BY <1>3, <1>5, JoinLen
<1>7. PICK t3 \in Seq(V) : t3 = t2 \o wh
  BY <1>2, <1>6, JoinLen
<1>8. PICK t4 \in Seq(V) : t4 = t3 \o wl
  BY <1>2, <1>7, JoinLen
<1>9. Padded(m) \in Seq(V)
  BY <1>4, <1>5, <1>6, <1>7, <1>8
<1> QED BY <1>9, TailFits, StandardIs

\* SHA1Result of a context that was given m makes the standard's digest, and
\* leaves no octet behind.
Done(m) == Ctx(LowOf(Len(m)), HighOf(Len(m)), <<>>, Digests!StandardBlocks(m), TRUE, FALSE)

\* SHA1Result answers with the standard's blocks.
LEMMA ResultAfter ==
    ASSUME NEW V, Numerals \subseteq V, NEW m \in Seq(V), Len(m) < Digests!Capacity
    PROVE  Digests!Result(After(m)) = Done(m) /\ Done(m) \in Contexts(V)
<1>1. PICK no, yes : no = FALSE /\ yes = TRUE
  OBVIOUS
<1> DEFINE x == Digests!PadMessage(After(m))
<1>2. x = Ctx(LowOf(Len(m)), HighOf(Len(m)), <<>>, Digests!StandardBlocks(m), no, no)
  BY <1>1, PadIs
<1>3. After(m).Corrupted = FALSE /\ After(m).Computed = FALSE
  BY DEF After, Ctx
<1>4. Digests!Result(After(m)) = Finished(x, TRUE)
  BY <1>3 DEF Digests!Result, Finished
<1> HIDE DEF x
<1>5. Finished(x, yes) = Ctx(LowOf(Len(m)), HighOf(Len(m)), <<>>, Digests!StandardBlocks(m), yes, no)
  BY <1>2, FlaggedIs
<1>6. Digests!Result(After(m)) = Done(m)
  BY <1>1, <1>4, <1>5 DEF Done
<1>7. Done(m) \in Contexts(V)
  <2>1. /\ LowOf(Len(m)) \in 0 .. Digests!WordMod - 1 /\ HighOf(Len(m)) \in 0 .. Digests!WordMod - 1
    BY Counted
  <2>2. <<>> \in Seq(V) /\ Len(<<>>) < Block
    BY BlockIs
  <2>3. TRUE \in BOOLEAN /\ FALSE \in BOOLEAN
    OBVIOUS
  <2> QED BY <2>1, <2>2, <2>3, StandardFits, IsContext DEF Done
<1> QED BY <1>6, <1>7

\* A context that is spoilt, or whose digest is made, is left alone.
LEMMA ResultSpoilt ==
    ASSUME NEW x, x.Corrupted \/ x.Computed
    PROVE  Digests!Result(x) = x
BY DEF Digests!Result

\* SHA1Reset leaves the context of the empty message.
LEMMA ResetIs == Digests!ResetCtx = After(<<>>)
<1>1. Len(<<>>) = 0 /\ LowOf(0) = 0 /\ HighOf(0) = 0
  <2>1. PICK w \in Nat \ {0} : Digests!WordMod = 8 * w
    BY WordIs
  <2>2. PICK M \in Nat \ {0} : Digests!WordMod = M
    BY <2>1
  <2>3. (M * 0 + 0) \div M = 0 /\ (M * 0 + 0) % M = 0
    BY DivisionIs
  <2>4. M * 0 + 0 = 8 * 0
    OBVIOUS
  <2>5. (8 * 0) \div M = 0 /\ (8 * 0) % M = 0
    BY <2>3, <2>4
  <2> QED BY <2>2, <2>5 DEF LowOf, HighOf
<1>2. BlocksOf(<<>>) = <<>> /\ TailOf(<<>>) = <<>>
  <2>1. 0 = Block * 0 + 0 /\ 0 \in 0 .. Block - 1 /\ <<>> \in Seq(Int)
    BY BlockIs
  <2>2. IsCut(Int, <<>>, 0, 0)
    BY <1>1, <2>1, Cut
  <2>3. /\ TailOf(<<>>) \in Seq(Int) /\ Len(TailOf(<<>>)) = 0
        /\ BlocksOf(<<>>) \in Seq(Seq(Int)) /\ Len(BlocksOf(<<>>)) = 0
    BY <2>2 DEF IsCut
  <2> QED BY <2>3, EmptyIsUnit
<1> QED BY <1>1, <1>2 DEF Digests!ResetCtx, After, Ctx

\* The capacity is a number.
LEMMA CapacityIs == Digests!Capacity \in Int
<1>1. PICK w \in Nat \ {0} : Digests!WordMod = 8 * w /\ Digests!Capacity = w * Digests!WordMod
  BY WordIs
<1>2. Digests!Capacity = w * (8 * w)
  BY <1>1
<1> QED BY <1>2

\* sha1 is the standard digest.
LEMMA Sha1Is ==
    ASSUME NEW V, Numerals \subseteq V, NEW m \in Seq(V), Len(m) < Digests!Capacity
    PROVE  Digests!sha1(m) = Digests!StandardSha1(m)
<1>1. Len(<<>>) = 0 /\ <<>> \in Seq(V) /\ <<>> \o m = m
  BY EmptyIsUnit
<1>2. Len(<<>>) < Digests!Capacity /\ Len(<<>>) + Len(m) < Digests!Capacity
  <2>1. Len(m) \in Nat /\ Digests!Capacity \in Int
    BY CapacityIs
  <2> QED BY <1>1, <2>1
<1>3. Digests!Input(After(<<>>), m) = After(<<>> \o m)
  BY <1>1, <1>2, InputAfter
<1>4. Digests!Result(Digests!Input(Digests!ResetCtx, m)) = Done(m)
  BY <1>1, <1>3, ResetIs, ResultAfter
<1>5. Done(m).Message_Digest = Digests!StandardBlocks(m)
  BY DEF Done, Ctx
<1> QED BY <1>4, <1>5 DEF Digests!sha1, Digests!sha1_fixup, Digests!StandardSha1

\* A sequence over a set is one over a larger set.
LEMMA Widens ==
    ASSUME NEW V, NEW U, V \subseteq U, NEW m \in Seq(V)
    PROVE  m \in Seq(U)
OBVIOUS

\* The key's octets and the digest's.
KeyXor(pad)    == [k \in 1 .. Block |-> <<"k", <<"key", k, pad>>>>]
KeyOctets(pad) == {<<"k", <<"key", k, pad>>>> : k \in 1 .. Block}
DigestOctets(m) == {<<"h", <<k, Digests!StandardBlocks(m)>>>> : k \in 1 .. Digest}

\* The padded key fills one block.
LEMMA KeyFits ==
    ASSUME NEW pad
    PROVE  KeyXor(pad) \in Seq(KeyOctets(pad)) /\ Len(KeyXor(pad)) = Block
<1> DEFINE C(k) == <<"k", <<"key", k, pad>>>>
<1>1. KeyXor(pad) = [k \in 1 .. Block |-> C(k)] /\ KeyOctets(pad) = {C(k) : k \in 1 .. Block}
  BY DEF KeyXor, KeyOctets
<1> HIDE DEF C
<1> QED BY <1>1, BlockIs

\* A digest has its length.
LEMMA DigestFits ==
    ASSUME NEW m
    PROVE  Digests!StandardSha1(m) \in Seq(DigestOctets(m)) /\ Len(Digests!StandardSha1(m)) = Digest
<1> DEFINE C(k) == <<"h", <<k, Digests!StandardBlocks(m)>>>>
<1>1. /\ Digests!StandardSha1(m) = [k \in 1 .. Digest |-> C(k)]
      /\ DigestOctets(m) = {C(k) : k \in 1 .. Digest}
  BY DEF Digests!StandardSha1, DigestOctets
<1> HIDE DEF C
<1> QED BY <1>1, BlockIs

\* sha1_hmac, of any key and a message that leaves room for a block.
LEMMA HmacIs ==
    ASSUME NEW V, Numerals \subseteq V, NEW m \in Seq(V), Len(m) + Block < Digests!Capacity
    PROVE  Digests!sha1_hmac("key", m) = Digests!StandardHmac("key", m)
<1>1. PICK ki, ko : ki = KeyXor(54) /\ ko = KeyXor(92)
  OBVIOUS
<1>2. PICK U : U = V \union KeyOctets(54) \union KeyOctets(92)
  OBVIOUS
<1>3. ki \in Seq(U) /\ ko \in Seq(U) /\ m \in Seq(U) /\ Len(ki) = Block /\ Len(ko) = Block
  <2>1. KeyOctets(54) \subseteq U /\ KeyOctets(92) \subseteq U /\ V \subseteq U
    BY <1>2
  <2> QED BY <1>1, <2>1, KeyFits, Widens
<1>4. Numerals \subseteq U
  BY <1>2
<1>5. Len(m) \in Nat /\ Block \in Nat /\ Digest \in Nat /\ Digests!Capacity \in Int
  BY BlockIs, CapacityIs
<1>6. Block < Digests!Capacity /\ Block + Digest < Digests!Capacity
  BY <1>5, WordIs
<1>7. PICK mi \in Seq(U) : mi = ki \o m /\ Len(mi) = Block + Len(m)
  <2>1. ki \o m \in Seq(U) /\ Len(ki \o m) = Len(ki) + Len(m)
    BY <1>3, JoinLen
  <2> QED BY <1>3, <2>1
<1>8. Digests!Input(Digests!ResetCtx, ki) = After(ki)
  <2>1. Len(<<>>) = 0 /\ <<>> \in Seq(U) /\ <<>> \o ki = ki
    BY <1>3, EmptyIsUnit
  <2>2. Len(<<>>) < Digests!Capacity /\ Len(<<>>) + Len(ki) < Digests!Capacity
    BY <1>3, <1>5, <1>6, <2>1
  <2>3. Digests!Input(After(<<>>), ki) = After(<<>> \o ki)
    BY <1>3, <2>1, <2>2, InputAfter
  <2> QED BY <2>1, <2>3, ResetIs
<1>9. Digests!Input(After(ki), m) = After(mi)
  <2>1. Len(ki) < Digests!Capacity /\ Len(ki) + Len(m) < Digests!Capacity
    BY <1>3, <1>5, <1>6
  <2> QED BY <1>3, <1>7, <2>1, InputAfter
<1>10. Digests!Result(After(mi)) = Done(mi)
  <2>1. Len(mi) < Digests!Capacity
    BY <1>5, <1>7
  <2> QED BY <1>4, <2>1, ResultAfter
<1>11. Done(mi).Message_Digest = Digests!StandardBlocks(mi)
  BY DEF Done, Ctx
<1>12. Digests!sha1_fixup(Done(mi)) = Digests!StandardSha1(mi)
  BY <1>11 DEF Digests!sha1_fixup, Digests!StandardSha1
<1>13. PICK d : d = Digests!StandardSha1(mi)
  OBVIOUS
<1>14. PICK X : X = U \union DigestOctets(mi)
  OBVIOUS
<1>15. d \in Seq(X) /\ Len(d) = Digest /\ ko \in Seq(X) /\ Numerals \subseteq X
  <2>1. DigestOctets(mi) \subseteq X /\ U \subseteq X
    BY <1>14
  <2> QED BY <1>3, <1>4, <1>13, <2>1, DigestFits, Widens
<1>16. PICK mo \in Seq(X) : mo = ko \o d /\ Len(mo) = Block + Digest
  <2>1. ko \o d \in Seq(X) /\ Len(ko \o d) = Len(ko) + Len(d)
    BY <1>15, JoinLen
  <2> QED BY <1>3, <1>15, <2>1
<1>17. Digests!sha1(mo) = Digests!StandardSha1(mo)
  BY <1>6, <1>15, <1>16, Sha1Is
<1>18. Digests!sha1_hmac("key", m) = Digests!sha1(ko \o Digests!sha1_fixup(
           Digests!Result(Digests!Input(Digests!Input(Digests!ResetCtx, ki), m))))
  BY <1>1 DEF Digests!sha1_hmac, KeyXor
<1>19. Digests!StandardHmac("key", m) = Digests!StandardSha1(ko \o Digests!StandardSha1(ki \o m))
  BY <1>1 DEF Digests!StandardHmac, KeyXor
<1> QED BY <1>7, <1>8, <1>9, <1>10, <1>12, <1>13, <1>16, <1>17, <1>18, <1>19

\* What a caller of the interface can have given and got: a context in use, a
\* finished one, or a spoilt one that says so.
MsgOctets == ({"d"} \X Int) \union Numerals

InUse    == s_ctx = After(s_msg) /\ Len(s_msg) < Digests!Capacity /\ s_late = FALSE /\ s_ret = -1
Answered == s_ctx = Done(s_msg) /\ Len(s_msg) < Digests!Capacity /\ s_late = FALSE /\ s_ret \in {-1, 1}
Spoilt   == /\ s_ctx \in Contexts(MsgOctets) /\ s_ctx.Corrupted /\ s_ret \in {-1, 0}
            /\ s_late \/ Len(s_msg) >= Digests!Capacity

HashInv ==
    /\ s_msg \in Seq(MsgOctets) /\ s_late \in BOOLEAN
    /\ InUse \/ Answered \/ Spoilt

\* The octets that a caller hands over.
LEMMA OctetsAre ==
    ASSUME NEW from \in Nat, NEW n \in Nat
    PROVE  /\ Digests!Octets(from, n) \in Seq(MsgOctets) /\ Len(Digests!Octets(from, n)) = n
           /\ (Digests!Octets(from, n) = <<>> <=> n = 0)
<1> DEFINE C(k) == <<"d", from + k>>
<1>1. \A k \in 1 .. n : C(k) \in MsgOctets
  BY DEF MsgOctets
<1>2. Digests!Octets(from, n) = [k \in 1 .. n |-> C(k)]
  BY DEF Digests!Octets
<1> HIDE DEF C
<1>3. Digests!Octets(from, n) \in Seq(MsgOctets) /\ Len(Digests!Octets(from, n)) = n
  BY <1>1, <1>2
<1> QED BY <1>3, EmptyIsUnit

\* SHA1Reset has been called first.
LEMMA HashInit == ToolsInit => HashInv
<1> SUFFICES ASSUME ToolsInit PROVE HashInv
  OBVIOUS
<1>1. s_ctx = Digests!ResetCtx /\ s_msg = <<>> /\ s_late = FALSE /\ s_ret = -1
  BY DEF ToolsInit, Digests!Init
<1>2. s_msg \in Seq(MsgOctets) /\ Len(s_msg) = 0
  BY <1>1
<1>3. Len(s_msg) < Digests!Capacity
  <2>1. Block + Digest < Digests!Capacity /\ Digests!Capacity \in Int
    BY WordIs, CapacityIs
  <2> QED BY <1>2, <2>1, BlockIs
<1>4. InUse
  BY <1>1, <1>3, ResetIs DEF InUse
<1> QED BY <1>1, <1>2, <1>4 DEF HashInv

\* SHA1Reset keeps the invariant.
LEMMA HashReset ==
    ASSUME Digests!SHA1Reset
    PROVE  HashInv'
<1>1. s_ctx' = Digests!ResetCtx /\ s_msg' = <<>> /\ s_late' = FALSE /\ s_ret' = -1
  BY DEF Digests!SHA1Reset
<1>2. s_msg' \in Seq(MsgOctets) /\ Len(s_msg') = 0
  BY <1>1
<1>3. Len(s_msg') < Digests!Capacity
  <2>1. Block + Digest < Digests!Capacity /\ Digests!Capacity \in Int
    BY WordIs, CapacityIs
  <2> QED BY <1>2, <2>1, BlockIs
<1>4. InUse'
  BY <1>1, <1>3, ResetIs DEF InUse
<1> QED BY <1>1, <1>2, <1>4 DEF HashInv

\* The octets of padding are octets.
LEMMA NumeralsIn == Numerals \subseteq MsgOctets
BY DEF MsgOctets

\* SHA1Result keeps the invariant.
LEMMA HashResult ==
    ASSUME HashInv, Digests!SHA1Result
    PROVE  HashInv'
<1>1. /\ s_ctx' = Digests!Result(s_ctx) /\ s_ret' = (IF s_ctx.Corrupted THEN 0 ELSE 1)
      /\ s_msg' = s_msg /\ s_late' = s_late
  BY DEF Digests!SHA1Result
<1>2. s_msg' \in Seq(MsgOctets) /\ s_late' \in BOOLEAN /\ s_msg \in Seq(MsgOctets)
  BY <1>1 DEF HashInv
<1>3. CASE InUse
  <2>1. s_ctx' = Done(s_msg)
    BY <1>1, <1>2, <1>3, NumeralsIn, ResultAfter DEF InUse
  <2>2. s_ctx.Corrupted = FALSE
    BY <1>3 DEF InUse, After, Ctx
  <2>3. Answered'
    BY <1>1, <1>3, <2>1, <2>2 DEF InUse, Answered
  <2> QED BY <1>2, <2>3 DEF HashInv
<1>4. CASE Answered
  <2>1. s_ctx.Corrupted = FALSE /\ s_ctx.Computed = TRUE
    BY <1>4 DEF Answered, Done, Ctx
  <2>2. s_ctx' = s_ctx
    BY <1>1, <2>1, ResultSpoilt
  <2>3. Answered'
    BY <1>1, <1>4, <2>1, <2>2 DEF Answered
  <2> QED BY <1>2, <2>3 DEF HashInv
<1>5. CASE Spoilt
  <2>1. s_ctx' = s_ctx
    BY <1>1, <1>5, ResultSpoilt DEF Spoilt
  <2>2. Spoilt'
    BY <1>1, <1>5, <2>1 DEF Spoilt
  <2> QED BY <1>2, <2>2 DEF HashInv
<1> QED BY <1>3, <1>4, <1>5 DEF HashInv

\* SHA1Input keeps the invariant, also when it spoils the context.
LEMMA HashInput ==
    ASSUME HashInv, NEW n \in Chunks, Digests!SHA1Input(n)
    PROVE  HashInv'
<1>1. n \in Nat
  BY DigestsAssumption DEF Digests!BlockAssumption
<1>2. s_msg \in Seq(MsgOctets) /\ Len(s_msg) \in Nat /\ s_late \in BOOLEAN
  BY DEF HashInv
<1>3. PICK o \in Seq(MsgOctets) : /\ o = Digests!Octets(Len(s_msg), n) /\ Len(o) = n
                                  /\ (o = <<>> <=> n = 0)
  BY <1>1, <1>2, OctetsAre
<1>4. /\ s_ctx' = Digests!Input(s_ctx, o) /\ s_msg' = s_msg \o o
      /\ s_late' = (s_late \/ (n > 0 /\ s_ctx.Computed)) /\ s_ret' = -1
  BY <1>3 DEF Digests!SHA1Input
<1>5. s_msg' \in Seq(MsgOctets) /\ Len(s_msg') = Len(s_msg) + n /\ s_late' \in BOOLEAN
  BY <1>2, <1>3, <1>4, JoinLen
<1>6. Digests!Capacity \in Int
  BY CapacityIs
<1>7. CASE n = 0
  <2>1. o = <<>> /\ s_msg' = s_msg
    BY <1>2, <1>3, <1>4, <1>7, EmptyIsUnit
  <2>2. s_ctx' = s_ctx
    BY <1>4, <2>1 DEF Digests!Input
  <2>3. s_late' = s_late
    BY <1>2, <1>4, <1>7
  <2>4. s_ret' = -1
    BY <1>4
  <2>5. InUse' \/ Answered' \/ Spoilt'
    BY <2>1, <2>2, <2>3, <2>4 DEF HashInv, InUse, Answered, Spoilt
  <2> QED BY <1>5, <2>5 DEF HashInv
<1>8. CASE n # 0
  <2>1. o # <<>> /\ n > 0
    BY <1>1, <1>3, <1>8
  <2>2. CASE InUse
    <3>1. s_ctx = After(s_msg) /\ Len(s_msg) < Digests!Capacity /\ s_late = FALSE
      BY <2>2 DEF InUse
    <3>2. s_ctx.Computed = FALSE
      BY <3>1 DEF After, Ctx
    <3>3. s_late' = FALSE
      BY <1>4, <3>1, <3>2
    <3>4. /\ Digests!Input(After(s_msg), o) \in Contexts(MsgOctets)
          /\ IF Len(s_msg) + Len(o) < Digests!Capacity
             THEN Digests!Input(After(s_msg), o) = After(s_msg \o o)
             ELSE Digests!Input(After(s_msg), o).Corrupted
      BY <1>2, <1>3, <3>1, InputAfter
    <3>5. CASE Len(s_msg) + Len(o) < Digests!Capacity
      <4>1. s_ctx' = After(s_msg') /\ Len(s_msg') < Digests!Capacity
        BY <1>3, <1>4, <1>5, <3>1, <3>4, <3>5
      <4>2. InUse'
        BY <1>4, <3>3, <4>1 DEF InUse
      <4> QED BY <1>5, <4>2 DEF HashInv
    <3>6. CASE ~ (Len(s_msg) + Len(o) < Digests!Capacity)
      <4>1. s_ctx' \in Contexts(MsgOctets) /\ s_ctx'.Corrupted
        BY <1>4, <3>1, <3>4, <3>6
      <4>2. Len(s_msg') >= Digests!Capacity
        BY <1>1, <1>2, <1>3, <1>5, <1>6, <3>6
      <4>3. Spoilt'
        BY <1>4, <4>1, <4>2 DEF Spoilt
      <4> QED BY <1>5, <4>3 DEF HashInv
    <3> QED BY <3>5, <3>6
  <2>3. CASE Answered
    <3>1. s_ctx.Computed
      BY <2>3 DEF Answered, Done, Ctx
    <3>2. s_ctx \in Contexts(MsgOctets)
      BY <1>2, <2>3, NumeralsIn, ResultAfter DEF Answered
    <3>3. s_ctx' \in Contexts(MsgOctets) /\ s_ctx'.Corrupted
      BY <1>4, <2>1, <3>1, <3>2, InputSpoils
    <3>4. s_late'
      BY <1>4, <2>1, <3>1
    <3>5. Spoilt'
      BY <1>4, <3>3, <3>4 DEF Spoilt
    <3> QED BY <1>5, <3>5 DEF HashInv
  <2>4. CASE Spoilt
    <3>1. s_ctx' \in Contexts(MsgOctets) /\ s_ctx'.Corrupted
      BY <1>4, <2>1, <2>4, InputSpoils DEF Spoilt
    <3>2. s_late' \/ Len(s_msg') >= Digests!Capacity
      BY <1>1, <1>2, <1>4, <1>5, <1>6, <2>4 DEF Spoilt
    <3>3. Spoilt'
      BY <1>4, <3>1, <3>2 DEF Spoilt
    <3> QED BY <1>5, <3>3 DEF HashInv
  <2> QED BY <2>2, <2>3, <2>4 DEF HashInv
<1> QED BY <1>7, <1>8

\* Every step keeps the invariant.
LEMMA HashNext == HashInv /\ [ToolsNext]_all => HashInv'
<1> SUFFICES ASSUME HashInv, [ToolsNext]_all PROVE HashInv'
  OBVIOUS
<1>1. CASE Hash
  <2>1. CASE Digests!SHA1Reset
    BY <2>1, HashReset
  <2>2. CASE Digests!SHA1Result
    BY <2>2, HashResult
  <2>3. CASE \E n \in Chunks : Digests!SHA1Input(n)
    BY <2>3, HashInput
  <2> QED BY <1>1, <2>1, <2>2, <2>3 DEF Hash, Digests!Next
<1>2. CASE UNCHANGED digest
  BY <1>2 DEF digest, HashInv, InUse, Answered, Spoilt
<1> QED BY <1>1, <1>2 DEF ToolsNext, Sign, Multiply, all

\* The invariant implies the property.
LEMMA HashSafe == HashInv => Sha1IsStandard
<1> SUFFICES ASSUME HashInv PROVE Digests!TypeOK /\ Digests!IsStandard
  BY DEF Sha1IsStandard
<1>1. s_msg \in Seq(MsgOctets) /\ Len(s_msg) \in Nat /\ Digests!Capacity \in Int
  BY CapacityIs DEF HashInv
<1>2. s_ctx \in Contexts(MsgOctets)
  <2>1. CASE InUse
    BY <1>1, <2>1, AfterFits DEF InUse
  <2>2. CASE Answered
    BY <1>1, <2>2, NumeralsIn, ResultAfter DEF Answered
  <2>3. CASE Spoilt
    BY <2>3 DEF Spoilt
  <2> QED BY <2>1, <2>2, <2>3 DEF HashInv
<1>3. Digests!TypeOK
  <2>1. s_ret \in {-1, 0, 1}
    BY DEF HashInv, InUse, Answered, Spoilt
  <2> QED BY <1>2, <2>1, ContextIs DEF Digests!TypeOK
<1>4. Digests!DigestIsStandard
  <2>1. ASSUME s_ret = 1 PROVE Answered
    BY <2>1 DEF HashInv, InUse, Spoilt
  <2>2. Done(s_msg).Message_Digest = Digests!StandardBlocks(s_msg)
    BY DEF Done, Ctx
  <2> QED BY <2>1, <2>2 DEF Digests!DigestIsStandard, Answered
<1>5. Digests!RefusesSpoilt
  BY <1>1 DEF Digests!RefusesSpoilt, HashInv, InUse, Answered, Spoilt
<1>6. Digests!HmacIsStandard
  BY <1>1, NumeralsIn, HmacIs DEF Digests!HmacIsStandard
<1> QED BY <1>3, <1>4, <1>5, <1>6 DEF Digests!IsStandard

\* Digests and HMACs are the standard's.
THEOREM HashCorrect == ToolsSpec => []Sha1IsStandard
<1> QED BY HashInit, HashNext, HashSafe, PTL DEF ToolsSpec

-----------------------------------------------------------------------------
(* The loop of bn_mon_mul. *)

\* After each digit m_t holds the product so far, divided by the digits' weight,
\* modulo m_N.  The congruence names its multiple of m_N, so that the next digit
\* can add to it.
ProductInv ==
    /\ Products!TypeOK /\ Products!Reduced
    /\ \E q \in Int : m_t * m_weight = m_a * (m_b - m_rest * m_weight) + q * m_N

\* The constants of MonMul.
LEMMA ModuliAre ==
    /\ W \in Nat \ {0} /\ \A m \in Moduli : m \in 1 .. W - 1 /\ m % 2 = 1
    /\ Factors \subseteq 0 .. W - 1
BY ProductsAssumption DEF Products!WidthAssumption, Products!ModuliAssumption, Products!FactorsAssumption

\* MonMul and Ec mean the same function.
LEMMA SameDigit ==
    ASSUME NEW d, NEW x, NEW y, NEW m, NEW w
    PROVE  Products!bn_mon_muladd_dig(d, x, y, m, w) = bn_mon_muladd_dig(d, x, y, m, w)
BY DEF Products!bn_mon_muladd_dig, bn_mon_muladd_dig, Products!bn_reduce, bn_reduce,
       Products!inverse, inverse, Products!inv256, inv256

\* No digit has been used.
LEMMA ProductInit ==
    ASSUME Products!Init
    PROVE  ProductInv
<1>1. Products!TypeOK /\ Products!Reduced
  BY ModuliAre DEF Products!Init, Products!TypeOK, Products!Reduced
<1>2. m_t * m_weight = m_a * (m_b - m_rest * m_weight) + 0 * m_N
  BY ModuliAre DEF Products!Init
<1> QED BY <1>1, <1>2 DEF ProductInv

\* One more digit keeps the invariant.
LEMMA ProductStep ==
    ASSUME ProductInv, Products!MulAddDig
    PROVE  ProductInv'
<1>1. /\ m_a \in 0 .. W - 1 /\ m_b \in 0 .. W - 1 /\ m_N \in Moduli /\ m_t \in 0 .. W - 1
      /\ m_rest \in Nat /\ m_weight \in Nat \ {0} /\ (m_a < m_N => m_t < m_N)
  BY DEF ProductInv, Products!TypeOK, Products!Reduced
<1>2. m_a' = m_a /\ m_b' = m_b /\ m_N' = m_N /\ m_weight' = m_weight * Base /\ m_rest' = m_rest \div Base
      /\ m_t' = bn_mon_muladd_dig(m_t, m_a, m_rest % Base, m_N, W)
  BY SameDigit DEF Products!MulAddDig
<1>3. m_rest = (m_rest \div Base) * Base + (m_rest % Base) /\ m_rest % Base \in 0 .. Base - 1
      /\ m_rest \div Base \in Nat
  <2>1. m_rest \in Int /\ Base \in Nat \ {0}
    BY <1>1, BaseAssumption
  <2>2. m_rest \div Base \in Nat
    BY <1>1, BaseAssumption
  <2> QED BY <2>1, <2>2, Quotient
<1>4. /\ m_t' \in 0 .. W - 1 /\ (m_a < m_N /\ m_t < m_N => m_t' < m_N)
      /\ \E q \in Int : m_t' * Base = m_t + m_a * (m_rest % Base) + q * m_N
  <2>1. PICK y \in 0 .. Base - 1 : y = m_rest % Base
    BY <1>3
  <2>2. MulAdds(bn_mon_muladd_dig(m_t, m_a, y, m_N, W), m_t, m_a, y, m_N, W)
    <3>1. W \in Nat \ {0} /\ m_N \in 1 .. W - 1 /\ m_N % 2 = 1
      BY <1>1, ModuliAre
    <3> QED BY <1>1, <3>1, MulAddIs
  <2> QED BY <1>2, <2>1, <2>2 DEF MulAdds
<1>5. PICK q1 \in Int : m_t' * Base = m_t + m_a * (m_rest % Base) + q1 * m_N
  BY <1>4
<1>6. PICK q0 \in Int : m_t * m_weight = m_a * (m_b - m_rest * m_weight) + q0 * m_N
  BY DEF ProductInv
<1>7. m_weight' \in Nat \ {0} /\ m_rest' \in Nat
  BY <1>1, <1>2, <1>3, BaseAssumption
<1>8. PICK r \in Nat, k \in Nat : r = m_rest % Base /\ k = m_rest \div Base
  BY <1>3
<1>9. m_N \in Int /\ Base \in Int /\ m_a \in Int /\ m_b \in Int /\ m_weight \in Int /\ m_t' \in Int
  BY <1>1, <1>4, ModuliAre, BaseAssumption
<1>10. PICK q \in Int : q = q0 + q1 * m_weight
  BY <1>9
<1>11. m_t' * m_weight' = m_a * (m_b - m_rest' * m_weight') + q * m_N
  <2>1. m_t' * (m_weight * Base) = (m_t' * Base) * m_weight
    BY <1>9
  <2>2. (m_t' * Base) * m_weight = (m_t + m_a * r + q1 * m_N) * m_weight
    BY <1>5, <1>8
  <2>3. (m_t + m_a * r + q1 * m_N) * m_weight = m_t * m_weight + (m_a * r) * m_weight + (q1 * m_weight) * m_N
    BY <1>1, <1>8, <1>9
  <2>4. m_a * (m_b - m_rest * m_weight) = m_a * (m_b - k * (m_weight * Base)) - (m_a * r) * m_weight
    BY <1>3, <1>8, <1>9
  <2> QED BY <1>2, <1>6, <1>8, <1>9, <1>10, <2>1, <2>2, <2>3, <2>4
<1>12. \E i \in Int : m_t' * m_weight' = m_a' * (m_b' - m_rest' * m_weight') + i * m_N'
  BY <1>2, <1>11
<1>13. Products!TypeOK' /\ Products!Reduced'
  BY <1>1, <1>2, <1>4, <1>7 DEF Products!TypeOK, Products!Reduced
<1> QED BY <1>7, <1>12, <1>13 DEF ProductInv

\* So does every step.
LEMMA ProductNext == ProductInv /\ Products!Next => ProductInv'
BY ProductStep DEF Products!Next

\* The invariant implies the property.
LEMMA ProductIs == ProductInv => Products!TypeOK /\ Products!Reduced /\ Products!Residue
<1> SUFFICES ASSUME ProductInv PROVE Products!TypeOK /\ Products!Reduced /\ Products!Residue
  OBVIOUS
<1>1. PICK q \in Int : m_t * m_weight = m_a * (m_b - m_rest * m_weight) + q * m_N
  BY DEF ProductInv
<1>2. /\ m_N \in Nat \ {0} /\ m_a \in Int /\ m_b \in Int /\ m_rest \in Int /\ m_weight \in Int
      /\ m_t \in Int
  BY ModuliAre DEF ProductInv, Products!TypeOK
<1>3. PICK X \in Int : X = m_a * (m_b - m_rest * m_weight)
  BY <1>2
<1>4. m_t * m_weight - X = q * m_N
  BY <1>1, <1>2, <1>3
<1>5. (m_t * m_weight - X) % m_N = 0
  BY <1>2, <1>4, Multiple
<1>6. Products!Residue
  BY <1>3, <1>5 DEF Products!Residue, Products!Congruent
<1> QED BY <1>6 DEF ProductInv

\* bn_mon_mul is multiplication modulo N.
THEOREM ProductCorrect == ToolsSpec => []Product
<1> DEFINE Inv == program = "multiply" => ProductInv
<1>1. ToolsInit => Inv
  BY ProductInit DEF ToolsInit
<1>2. Inv /\ [ToolsNext]_all => Inv'
  <2> SUFFICES ASSUME Inv, [ToolsNext]_all PROVE Inv'
    OBVIOUS
  <2>1. CASE Multiply
    BY <2>1, ProductNext DEF Multiply
  <2>2. CASE UNCHANGED <<program, product>>
    BY <2>2 DEF product, ProductInv, Products!TypeOK, Products!Reduced
  <2> QED BY <2>1, <2>2 DEF ToolsNext, Sign, Hash, all
<1>3. Inv => Product
  BY ProductIs DEF Product
<1> QED BY <1>1, <1>2, <1>3, PTL DEF ToolsSpec

-----------------------------------------------------------------------------
(* Congruences. *)

Cong(x, y, m) == \E q \in Int : x = y + q * m

\* Congruence modulo m is reflexive.
LEMMA CongSame ==
    ASSUME NEW x \in Int, NEW m \in Int
    PROVE  Cong(x, x, m)
<1>1. x = x + 0 * m
  OBVIOUS
<1> QED BY <1>1 DEF Cong

\* It is symmetric.
LEMMA CongSwap ==
    ASSUME NEW x \in Int, NEW y \in Int, NEW m \in Int, Cong(x, y, m)
    PROVE  Cong(y, x, m)
<1>1. PICK q \in Int : x = y + q * m
  BY DEF Cong
<1>2. y = x + (-q) * m /\ -q \in Int
  BY <1>1
<1> QED BY <1>2 DEF Cong

\* It is transitive.
LEMMA CongTrans ==
    ASSUME NEW x \in Int, NEW y \in Int, NEW z \in Int, NEW m \in Int, Cong(x, y, m), Cong(y, z, m)
    PROVE  Cong(x, z, m)
<1>1. PICK q \in Int : x = y + q * m
  BY DEF Cong
<1>2. PICK k \in Int : y = z + k * m
  BY DEF Cong
<1>3. x = z + (q + k) * m /\ q + k \in Int
  BY <1>1, <1>2
<1> QED BY <1>3 DEF Cong

\* Sums and differences keep it.
LEMMA CongSum ==
    ASSUME NEW x \in Int, NEW y \in Int, NEW u \in Int, NEW v \in Int, NEW m \in Int,
           Cong(x, y, m), Cong(u, v, m)
    PROVE  Cong(x + u, y + v, m) /\ Cong(x - u, y - v, m)
<1>1. PICK q \in Int : x = y + q * m
  BY DEF Cong
<1>2. PICK k \in Int : u = v + k * m
  BY DEF Cong
<1>3. x + u = (y + v) + (q + k) * m /\ q + k \in Int
  BY <1>1, <1>2
<1>4. x - u = (y - v) + (q - k) * m /\ q - k \in Int
  BY <1>1, <1>2
<1> QED BY <1>3, <1>4 DEF Cong

\* Products keep it.
LEMMA CongTimes ==
    ASSUME NEW x \in Int, NEW y \in Int, NEW u \in Int, NEW v \in Int, NEW m \in Int,
           Cong(x, y, m), Cong(u, v, m)
    PROVE  Cong(x * u, y * v, m)
<1>1. PICK q \in Int : x = y + q * m
  BY DEF Cong
<1>2. PICK k \in Int : u = v + k * m
  BY DEF Cong
<1>3. PICK j \in Int : j = y * k + q * v + q * k * m
  OBVIOUS
<1>4. x * u = y * v + j * m
  BY <1>1, <1>2, <1>3
<1> QED BY <1>4 DEF Cong

\* A number is congruent to its remainder.
LEMMA CongMod ==
    ASSUME NEW x \in Int, NEW m \in Nat \ {0}
    PROVE  x % m \in 0 .. m - 1 /\ Cong(x, x % m, m) /\ Cong(x % m, x, m)
<1>1. PICK k \in Int : x = (x % m) + k * m
  BY Remainder
<1>2. x % m \in 0 .. m - 1 /\ x % m \in Int
  BY Quotient
<1>3. Cong(x, x % m, m)
  BY <1>1 DEF Cong
<1> QED BY <1>2, <1>3, CongSwap

\* Residues are equal when they are congruent.
LEMMA CongSmall ==
    ASSUME NEW m \in Nat, NEW x \in 0 .. m - 1, NEW y \in 0 .. m - 1, Cong(x, y, m)
    PROVE  x = y
<1>1. PICK q \in Int : x = y + q * m
  BY DEF Cong
<1>2. CASE q >= 1
  <2>1. q * m >= m
    BY <1>2
  <2> QED BY <1>1, <2>1
<1>3. CASE q <= -1
  <2>1. q * m <= -m
    BY <1>3
  <2> QED BY <1>1, <2>1
<1>4. CASE q = 0
  BY <1>1, <1>4
<1> QED BY <1>2, <1>3, <1>4

\* Congruence in terms of %, as the modules write it.
LEMMA CongIs ==
    ASSUME NEW x \in Int, NEW y \in Int, NEW m \in Nat \ {0}
    PROVE  /\ Cong(x, y, m) <=> x % m = y % m
           /\ Cong(x, 0, m) <=> x % m = 0
           /\ Cong(x, y, m) <=> (x - y) % m = 0
<1>1. Cong(x, y, m) <=> x % m = y % m
  <2>1. ASSUME Cong(x, y, m) PROVE x % m = y % m
    <3>1. Cong(x % m, x, m) /\ Cong(y, y % m, m) /\ x % m \in 0 .. m - 1 /\ y % m \in 0 .. m - 1
      BY CongMod
    <3>2. PICK a \in 0 .. m - 1, b \in 0 .. m - 1 : a = x % m /\ b = y % m
      BY <3>1
    <3>3. Cong(a, y, m)
      BY <2>1, <3>1, <3>2, CongTrans
    <3>4. Cong(a, b, m)
      BY <3>1, <3>2, <3>3, CongTrans
    <3> QED BY <3>2, <3>4, CongSmall
  <2>2. ASSUME x % m = y % m PROVE Cong(x, y, m)
    <3>1. Cong(x, x % m, m) /\ Cong(y % m, y, m) /\ x % m \in 0 .. m - 1
      BY CongMod
    <3>2. PICK a \in Int : a = x % m
      BY <3>1
    <3>3. Cong(x, a, m) /\ Cong(a, y, m)
      BY <2>2, <3>1, <3>2
    <3> QED BY <3>3, CongTrans
  <2> QED BY <2>1, <2>2
<1>2. ASSUME NEW z \in Int PROVE Cong(z, 0, m) <=> z % m = 0
  <2>1. ASSUME Cong(z, 0, m) PROVE z % m = 0
    <3>1. PICK q \in Int : z = 0 + q * m
      BY <2>1 DEF Cong
    <3>2. z = q * m
      BY <3>1
    <3> QED BY <3>2, Multiple
  <2>2. ASSUME z % m = 0 PROVE Cong(z, 0, m)
    <3>1. Cong(z, z % m, m)
      BY CongMod
    <3> QED BY <2>2, <3>1
  <2> QED BY <2>1, <2>2
<1>3. Cong(x, y, m) <=> Cong(x - y, 0, m)
  <2>1. ASSUME NEW q \in Int PROVE x = y + q * m <=> x - y = 0 + q * m
    OBVIOUS
  <2> QED BY <2>1 DEF Cong
<1>4. x - y \in Int
  OBVIOUS
<1> QED BY <1>1, <1>2, <1>3, <1>4

-----------------------------------------------------------------------------
(* Primes. *)

\* Euclid's lemma: the least k > 0 for which m divides k y divides every other,
\* so it is 1 or m.
LEMMA Euclid ==
    ASSUME NEW m \in Nat, IsPrime(m), NEW x \in Int, NEW y \in Int, Cong(x * y, 0, m)
    PROVE  Cong(x, 0, m) \/ Cong(y, 0, m)
<1>1. m > 1 /\ \A d \in 2 .. m - 1 : m % d # 0
  BY DEF IsPrime
<1> SUFFICES ASSUME ~ Cong(x, 0, m)
             PROVE  Cong(y, 0, m)
  OBVIOUS
<1> DEFINE D == {k \in Nat \ {0} : Cong(k * y, 0, m)}
<1>2. m \in D
  <2>1. m * y = 0 + y * m
    OBVIOUS
  <2>2. Cong(m * y, 0, m)
    BY <2>1 DEF Cong
  <2> QED BY <1>1, <2>2
<1>3. PICK r \in 1 .. m - 1 : r \in D
  <2>1. x % m \in 0 .. m - 1 /\ Cong(x % m, x, m) /\ x % m # 0
    BY <1>1, CongMod, CongIs
  <2>2. PICK r \in 1 .. m - 1 : r = x % m
    BY <2>1
  <2>3. Cong(y, y, m)
    BY CongSame
  <2>4. Cong(r * y, x * y, m)
    <3>1. Cong(r, x, m) /\ r \in Int
      BY <2>1, <2>2
    <3> QED BY <2>3, <3>1, CongTimes
  <2>5. r * y \in Int /\ x * y \in Int
    OBVIOUS
  <2>6. Cong(r * y, 0, m)
    BY <2>4, <2>5, CongTrans
  <2> QED BY <2>6
<1>4. PICK k \in D : \A l \in D : k <= l
  <2>1. D \in SUBSET Nat /\ D # {}
    BY <1>2
  <2> HIDE DEF D
  <2> QED BY <2>1, LeastNat
<1>5. k \in Nat \ {0} /\ k <= r /\ Cong(k * y, 0, m)
  BY <1>3, <1>4
<1>6. m % k = 0
  <2>1. PICK q \in Int, e \in 0 .. k - 1 : m = q * k + e /\ e = m % k
    <3>1. k \in Nat \ {0} /\ m \in Int
      BY <1>5
    <3>2. m = (m \div k) * k + (m % k) /\ m % k \in 0 .. k - 1 /\ m \div k \in Int
      BY <3>1, Quotient
    <3> QED BY <3>2
  <2>2. CASE e # 0
    <3>1. PICK i \in Int : k * y = i * m
      BY <1>5 DEF Cong
    <3>2. e * y = y * m - q * (k * y)
      <4>1. k \in Int /\ e \in Int
        BY <1>5
      <4>2. e = m - q * k
        BY <2>1, <4>1
      <4>3. e * y = (m - q * k) * y
        BY <4>2
      <4>4. (m - q * k) * y = y * m - q * (k * y)
        BY <4>1
      <4> QED BY <4>3, <4>4
    <3>3. e * y = y * m - q * (i * m)
      BY <3>1, <3>2
    <3>4. PICK j \in Int : j = y - q * i
      OBVIOUS
    <3>5. e * y = 0 + j * m
      BY <3>3, <3>4
    <3>6. e \in D
      BY <2>2, <3>5 DEF Cong
    <3> HIDE DEF D
    <3> QED BY <1>4, <1>5, <3>6, <2>1
  <2> QED BY <2>1, <2>2
<1>7. k = 1
  <2>1. k \in 1 .. m - 1
    BY <1>3, <1>5
  <2>2. CASE k # 1
    <3>1. k \in 2 .. m - 1
      BY <2>1, <2>2
    <3> QED BY <1>1, <1>6, <3>1
  <2> QED BY <2>2
<1> QED BY <1>5, <1>7

\* What is not a multiple of a prime may be cancelled.
LEMMA Cancel ==
    ASSUME NEW m \in Nat, IsPrime(m), NEW x \in Int, NEW y \in Int, NEW z \in Int,
           ~ Cong(z, 0, m), Cong(x * z, y * z, m)
    PROVE  Cong(x, y, m)
<1>1. PICK q \in Int : x * z = y * z + q * m
  BY DEF Cong
<1>2. (x - y) * z = 0 + q * m
  BY <1>1
<1>3. Cong((x - y) * z, 0, m) /\ x - y \in Int
  BY <1>2 DEF Cong
<1>4. Cong(x - y, 0, m)
  BY <1>3, Euclid
<1>5. PICK k \in Int : x - y = 0 + k * m
  BY <1>4 DEF Cong
<1>6. x = y + k * m
  BY <1>5
<1> QED BY <1>6 DEF Cong

-----------------------------------------------------------------------------
(* Products of n factors. *)

IsProd(p, g, n) ==
    /\ p \in [0 .. n -> Int] /\ p[0] = 1
    /\ \A k \in 1 .. n : p[k] = p[k - 1] * g[k]

\* Products of n factors exist.
LEMMA ProdExists ==
    ASSUME NEW n \in Nat, NEW g \in [1 .. n -> Int]
    PROVE  \E p : IsProd(p, g, n)
<1> DEFINE step == [q \in (1 .. n) \X Int |-> q[2] * g[q[1]]]
<1>1. step \in [(1 .. n) \X Int -> Int] /\ 1 \in Int
  OBVIOUS
<1>2. PICK p : Runs(p, n, Int, 1, step)
  <2> HIDE DEF step
  <2> QED BY <1>1, Recursion
<1>3. p \in [0 .. n -> Int] /\ p[0] = 1 /\ \A k \in 1 .. n : p[k] = step[<<k, p[k - 1]>>]
  BY <1>2 DEF Runs
<1>4. ASSUME NEW k \in 1 .. n PROVE p[k] = p[k - 1] * g[k]
  <2>1. p[k - 1] \in Int
    BY <1>3
  <2>2. step[<<k, p[k - 1]>>] = p[k - 1] * g[k]
    BY <2>1
  <2> QED BY <1>3, <2>2
<1>5. IsProd(p, g, n)
  BY <1>3, <1>4 DEF IsProd
<1> QED BY <1>5

\* Congruent factors make congruent products.
LEMMA ProdCong ==
    ASSUME NEW m \in Int, NEW n \in Nat, NEW g \in [1 .. n -> Int], NEW h \in [1 .. n -> Int],
           NEW p, NEW q, IsProd(p, g, n), IsProd(q, h, n), \A k \in 1 .. n : Cong(g[k], h[k], m)
    PROVE  Cong(p[n], q[n], m)
<1>1. /\ p \in [0 .. n -> Int] /\ p[0] = 1 /\ \A k \in 1 .. n : p[k] = p[k - 1] * g[k]
      /\ q \in [0 .. n -> Int] /\ q[0] = 1 /\ \A k \in 1 .. n : q[k] = q[k - 1] * h[k]
  BY DEF IsProd
<1> DEFINE P == {k \in 0 .. n : Cong(p[k], q[k], m)}
<1>2. 0 \in P
  <2>1. Cong(1, 1, m)
    BY CongSame
  <2> QED BY <1>1, <2>1
<1>3. \A k \in 1 .. n : k - 1 \in P => k \in P
  <2> SUFFICES ASSUME NEW k \in 1 .. n, k - 1 \in P PROVE Cong(p[k], q[k], m)
    OBVIOUS
  <2>1. PICK x \in Int, y \in Int, u \in Int, v \in Int : x = p[k - 1] /\ y = q[k - 1] /\ u = g[k] /\ v = h[k]
    BY <1>1
  <2>2. Cong(x, y, m) /\ Cong(u, v, m)
    BY <2>1
  <2>3. Cong(x * u, y * v, m)
    BY <2>2, CongTimes
  <2> QED BY <1>1, <2>1, <2>3
<1> HIDE DEF P
<1>4. \A k \in 0 .. n : k \in P
  BY <1>2, <1>3, Climb
<1>5. n \in 0 .. n
  OBVIOUS
<1>6. n \in P
  BY <1>4, <1>5
<1> QED BY <1>6 DEF P

\* One factor replaced by another.
LEMMA ProdSwap ==
    ASSUME NEW n \in Nat, NEW g \in [1 .. n -> Int], NEW h \in [1 .. n -> Int],
           NEW p, NEW q, IsProd(p, g, n), IsProd(q, h, n),
           NEW j \in 1 .. n, \A k \in 1 .. n : k # j => g[k] = h[k]
    PROVE  p[n] * h[j] = q[n] * g[j]
<1>1. /\ p \in [0 .. n -> Int] /\ p[0] = 1 /\ \A k \in 1 .. n : p[k] = p[k - 1] * g[k]
      /\ q \in [0 .. n -> Int] /\ q[0] = 1 /\ \A k \in 1 .. n : q[k] = q[k - 1] * h[k]
  BY DEF IsProd
<1> DEFINE P == {k \in 0 .. n : IF k < j THEN p[k] = q[k] ELSE p[k] * h[j] = q[k] * g[j]}
<1>2. 0 \in P
  BY <1>1
<1>3. \A k \in 1 .. n : k - 1 \in P => k \in P
  <2> SUFFICES ASSUME NEW k \in 1 .. n, k - 1 \in P PROVE k \in P
    OBVIOUS
  <2>1. PICK x \in Int, y \in Int, u \in Int, v \in Int : x = p[k - 1] /\ y = q[k - 1] /\ u = g[k] /\ v = h[k]
    BY <1>1
  <2>2. PICK a \in Int, b \in Int : a = g[j] /\ b = h[j]
    OBVIOUS
  <2>3. p[k] = x * u /\ q[k] = y * v
    BY <1>1, <2>1
  <2>4. CASE k < j
    <3>1. x = y /\ u = v
      BY <2>1, <2>4
    <3> QED BY <2>3, <2>4, <3>1
  <2>5. CASE k = j
    <3>1. x = y /\ u = a /\ v = b
      BY <2>1, <2>2, <2>5
    <3>2. (x * u) * b = (y * v) * a
      BY <3>1
    <3> QED BY <2>2, <2>3, <2>5, <3>2
  <2>6. CASE k > j
    <3>1. x * b = y * a /\ u = v
      BY <2>1, <2>2, <2>6
    <3>2. (x * u) * b = (x * b) * u /\ (y * v) * a = (y * a) * v
      OBVIOUS
    <3>3. (x * u) * b = (y * v) * a
      BY <3>1, <3>2
    <3> QED BY <2>2, <2>3, <2>6, <3>3
  <2> QED BY <2>4, <2>5, <2>6
<1> HIDE DEF P
<1>4. \A k \in 0 .. n : k \in P
  BY <1>2, <1>3, Climb
<1>5. n \in 0 .. n
  OBVIOUS
<1>6. n \in P
  BY <1>4, <1>5
<1> QED BY <1>6 DEF P

Distinct(g, n) == \A k, l \in 1 .. n : g[k] = g[l] => k = l
Covers(g, h, n) == \A k \in 1 .. n : \E l \in 1 .. n : h[k] = g[l]

\* The order of the factors does not matter.
Orderless(n) ==
    \A g, h \in [1 .. n -> Int] :
        Distinct(g, n) /\ Distinct(h, n) /\ Covers(g, h, n) /\ Covers(h, g, n) =>
            \A p, q : IsProd(p, g, n) /\ IsProd(q, h, n) => p[n] = q[n]

SameProduct(p, q, n) == p[n] = q[n]

\* The same, for two given lists of factors.
LEMMA OrderUse ==
    ASSUME NEW n, Orderless(n), NEW g \in [1 .. n -> Int], NEW h \in [1 .. n -> Int],
           Distinct(g, n), Distinct(h, n), Covers(g, h, n), Covers(h, g, n),
           NEW p, NEW q, IsProd(p, g, n), IsProd(q, h, n)
    PROVE  SameProduct(p, q, n)
BY DEF Orderless, SameProduct

Swapped(p, q, g, h, n, j) == p[n] * h[j] = q[n] * g[j]

\* The same, as a relation.
LEMMA SwapUse ==
    ASSUME NEW n \in Nat, NEW g \in [1 .. n -> Int], NEW h \in [1 .. n -> Int],
           NEW p, NEW q, IsProd(p, g, n), IsProd(q, h, n),
           NEW j \in 1 .. n, \A k \in 1 .. n : k # j => g[k] = h[k]
    PROVE  Swapped(p, q, g, h, n, j)
<1>1. p[n] * h[j] = q[n] * g[j]
  BY ProdSwap
<1> QED BY <1>1 DEF Swapped

\* The step of the induction: the last factor of one list is moved to the end of the other.
LEMMA OrderStep ==
    ASSUME NEW n \in Nat \ {0}, Orderless(n - 1)
    PROVE  Orderless(n)
<1> SUFFICES \A g, h \in [1 .. n -> Int] :
                 Distinct(g, n) /\ Distinct(h, n) /\ Covers(g, h, n) /\ Covers(h, g, n) =>
                     \A p, q : IsProd(p, g, n) /\ IsProd(q, h, n) => p[n] = q[n]
  BY DEF Orderless
<1> TAKE g, h \in [1 .. n -> Int]
<1> HAVE Distinct(g, n) /\ Distinct(h, n) /\ Covers(g, h, n) /\ Covers(h, g, n)
<1> TAKE p, q
<1> HAVE IsProd(p, g, n) /\ IsProd(q, h, n)
<1>0. PICK i \in Nat : i = n - 1 /\ n = i + 1
  OBVIOUS
<1>1. PICK j \in 1 .. n : g[j] = h[n]
  BY DEF Covers
<1> DEFINE g1 == [k \in 1 .. i |-> g[k]]
           g2 == [k \in 1 .. i |-> IF k = j THEN g[n] ELSE g[k]]
           h1 == [k \in 1 .. i |-> h[k]]
           p1 == [k \in 0 .. i |-> p[k]]
           q1 == [k \in 0 .. i |-> q[k]]
<1>2. g1 \in [1 .. i -> Int] /\ g2 \in [1 .. i -> Int] /\ h1 \in [1 .. i -> Int]
  BY <1>0
<1>3. /\ p \in [0 .. n -> Int] /\ p[0] = 1 /\ \A k \in 1 .. n : p[k] = p[k - 1] * g[k]
      /\ q \in [0 .. n -> Int] /\ q[0] = 1 /\ \A k \in 1 .. n : q[k] = q[k - 1] * h[k]
  BY DEF IsProd
<1>4. IsProd(p1, g1, i) /\ IsProd(q1, h1, i)
  BY <1>0, <1>3 DEF IsProd
<1>5. PICK r : IsProd(r, g2, i)
  <2> HIDE DEF g2
  <2> QED BY <1>2, ProdExists
<1>6. Distinct(g2, i) /\ Distinct(h1, i)
  BY <1>0, <1>1 DEF Distinct
<1>7. Covers(g2, h1, i)
  <2> SUFFICES ASSUME NEW k \in 1 .. i PROVE \E l \in 1 .. i : h1[k] = g2[l]
    BY DEF Covers
  <2>1. PICK l \in 1 .. n : h[k] = g[l]
    BY <1>0 DEF Covers
  <2>2. l # j
    BY <1>0, <1>1, <2>1 DEF Distinct
  <2>3. CASE l = n
    <3>1. j \in 1 .. i /\ g2[j] = h1[k]
      BY <1>0, <2>1, <2>2, <2>3
    <3> QED BY <3>1
  <2>4. CASE l # n
    <3>1. l \in 1 .. i /\ g2[l] = h1[k]
      BY <1>0, <2>1, <2>2, <2>4
    <3> QED BY <3>1
  <2> QED BY <2>3, <2>4
<1>8. Covers(h1, g2, i)
  <2> SUFFICES ASSUME NEW k \in 1 .. i PROVE \E l \in 1 .. i : g2[k] = h1[l]
    BY DEF Covers
  <2>1. PICK o \in 1 .. n : o = (IF k = j THEN n ELSE k)
    BY <1>0
  <2>2. g2[k] = g[o] /\ o # j
    BY <1>0, <2>1
  <2>3. PICK l \in 1 .. n : g[o] = h[l]
    BY DEF Covers
  <2>4. l # n
    BY <1>1, <2>2, <2>3 DEF Distinct
  <2>5. l \in 1 .. i /\ h1[l] = g2[k]
    BY <1>0, <2>2, <2>3, <2>4
  <2> QED BY <2>5
<1>9. r[i] = q1[i] /\ q1[i] = q[i] /\ p1[i] = p[i]
  <2>1. q1[i] = q[i] /\ p1[i] = p[i]
    BY <1>0
  <2> HIDE DEF g2, h1, q1
  <2>2. Orderless(i)
    BY <1>0
  <2>3. r[i] = q1[i]
    <3>1. SameProduct(r, q1, i)
      BY <1>2, <1>4, <1>5, <1>6, <1>7, <1>8, <2>2, OrderUse
    <3> QED BY <3>1 DEF SameProduct
  <2> QED BY <2>1, <2>3
<1>10. p[n] = p[i] * g[n] /\ q[n] = q[i] * h[n]
  BY <1>0, <1>3
<1>11. p[i] * g[n] = q[i] * h[n]
  <2>1. CASE j = n
    <3>1. g2 = g1
      BY <1>0, <2>1
    <3>2. p1[i] = r[i]
      <4>0. 0 \in Int
        OBVIOUS
      <4>1. \A k \in 1 .. i : Cong(g1[k], g2[k], 0)
        <5>1. ASSUME NEW k \in 1 .. i PROVE Cong(g1[k], g2[k], 0)
          <6>1. g1[k] = g2[k] /\ g1[k] \in Int
            BY <1>2, <3>1
          <6> QED BY <6>1, CongSame
        <5> QED BY <5>1
      <4> HIDE DEF g1, g2, p1
      <4>2. Cong(p1[i], r[i], 0)
        BY <1>0, <1>2, <1>4, <1>5, <4>0, <4>1, ProdCong, Zenon
      <4>3. PICK x \in Int, y \in Int : x = p1[i] /\ y = r[i]
        BY <1>4, <1>5 DEF IsProd
      <4>4. PICK k \in Int : x = y + k * 0
        BY <4>2, <4>3 DEF Cong
      <4> QED BY <4>3, <4>4
    <3> QED BY <1>1, <1>9, <2>1, <3>2
  <2>2. CASE j # n
    <3>1. j \in 1 .. i /\ g1[j] = h[n] /\ g2[j] = g[n]
      BY <1>0, <1>1, <2>2
    <3>2. \A k \in 1 .. i : k # j => g1[k] = g2[k]
      OBVIOUS
    <3>3. p1[i] * g2[j] = r[i] * g1[j]
      <4> HIDE DEF g1, g2, p1
      <4>1. Swapped(p1, r, g1, g2, i, j)
        BY <1>0, <1>2, <1>4, <1>5, <3>1, <3>2, SwapUse
      <4> QED BY <4>1 DEF Swapped
    <3> QED BY <1>9, <3>1, <3>3
  <2> QED BY <2>1, <2>2
<1> QED BY <1>10, <1>11

\* Products do not depend on the order of their factors.
LEMMA Order ==
    ASSUME NEW n \in Nat
    PROVE  Orderless(n)
<1> DEFINE P == {k \in 0 .. n : Orderless(k)}
<1>1. 0 \in P
  BY DEF Orderless, IsProd
<1>2. \A k \in 1 .. n : k - 1 \in P => k \in P
  BY OrderStep
<1> HIDE DEF P
<1>3. n \in P
  BY <1>1, <1>2, Climb
<1> QED BY <1>3 DEF P

\* A factor x in each of n factors is a power of x.
LEMMA PowIsProd ==
    ASSUME NEW m \in Int, NEW x \in Int, NEW n \in Nat,
           NEW g \in [1 .. n -> Int], NEW h \in [1 .. n -> Int], NEW p, NEW q,
           IsProd(p, g, n), IsProd(q, h, n), \A k \in 1 .. n : Cong(h[k], x * g[k], m)
    PROVE  Cong(q[n], Pow(x, n) * p[n], m)
<1>1. /\ p \in [0 .. n -> Int] /\ p[0] = 1 /\ \A k \in 1 .. n : p[k] = p[k - 1] * g[k]
      /\ q \in [0 .. n -> Int] /\ q[0] = 1 /\ \A k \in 1 .. n : q[k] = q[k - 1] * h[k]
  BY DEF IsProd
<1> DEFINE P == {k \in 0 .. n : Cong(q[k], Pow(x, k) * p[k], m)}
<1>2. 0 \in P
  <2>1. Pow(x, 0) = 1
    BY PowStep
  <2>2. Cong(1, 1, m)
    BY CongSame
  <2> QED BY <1>1, <2>1, <2>2
<1>3. \A k \in 1 .. n : k - 1 \in P => k \in P
  <2> SUFFICES ASSUME NEW k \in 1 .. n, k - 1 \in P PROVE Cong(q[k], Pow(x, k) * p[k], m)
    OBVIOUS
  <2>1. PICK a \in Int, b \in Int, u \in Int, v \in Int : a = p[k - 1] /\ b = q[k - 1] /\ u = g[k] /\ v = h[k]
    BY <1>1
  <2>2. PICK i \in Nat : i = k - 1 /\ k = i + 1
    OBVIOUS
  <2>3. PICK w \in Int : w = Pow(x, i) /\ Pow(x, k) = w * x
    BY <2>2, PowStep
  <2>4. Cong(b, w * a, m) /\ Cong(v, x * u, m)
    BY <2>1, <2>2, <2>3
  <2>5. PICK y \in Int, z \in Int : y = w * a /\ z = x * u
    OBVIOUS
  <2>6. Cong(b * v, y * z, m)
    BY <2>4, <2>5, CongTimes
  <2>7. y * z = (w * x) * (a * u)
    BY <2>5
  <2> QED BY <1>1, <2>1, <2>3, <2>6, <2>7
<1> HIDE DEF P
<1>4. \A k \in 0 .. n : k \in P
  BY <1>2, <1>3, Climb
<1>5. n \in 0 .. n
  OBVIOUS
<1>6. n \in P
  BY <1>4, <1>5
<1> QED BY <1>6 DEF P

\* Fermat's little theorem: for a prime m and x no multiple of it the products
\* x k are the numbers below m in another order.
LEMMA Fermat ==
    ASSUME NEW m \in Nat, IsPrime(m), NEW x \in Int, ~ Cong(x, 0, m)
    PROVE  Cong(Pow(x, m - 1), 1, m)
<1>1. m > 1
  BY DEF IsPrime
<1>2. PICK n \in Nat : n = m - 1 /\ m = n + 1
  BY <1>1
<1> DEFINE h == [k \in 1 .. n |-> (x * k) % m]
           g == [k \in 1 .. n |-> k]
<1>3. ASSUME NEW k \in 1 .. n PROVE ~ Cong(k, 0, m)
  <2>1. k \in 0 .. m - 1 /\ 0 \in 0 .. m - 1 /\ k # 0
    BY <1>2
  <2> QED BY <2>1, CongSmall
<1>4. ASSUME NEW k \in 1 .. n
      PROVE  h[k] \in 1 .. n /\ Cong(h[k], x * k, m)
  <2>1. PICK y \in Int : y = x * k
    OBVIOUS
  <2>2. ~ Cong(y, 0, m)
    <3>1. ~ Cong(k, 0, m) /\ k \in Int
      BY <1>3
    <3>2. ~ Cong(x * k, 0, m)
      BY <3>1, Euclid
    <3> QED BY <2>1, <3>2
  <2>3. y % m \in 0 .. m - 1 /\ Cong(y % m, y, m) /\ y % m # 0
    BY <1>1, <2>2, CongMod, CongIs
  <2> QED BY <1>2, <2>1, <2>3
<1>5. g \in [1 .. n -> Int] /\ h \in [1 .. n -> Int] /\ h \in [1 .. n -> 1 .. n]
  <2>2. h = [k \in 1 .. n |-> h[k]]
    OBVIOUS
  <2>3. g \in [1 .. n -> Int]
    OBVIOUS
  <2> HIDE DEF h
  <2>1. \A k \in 1 .. n : h[k] \in 1 .. n /\ h[k] \in Int
    BY <1>4
  <2>4. h \in [1 .. n -> Int] /\ h \in [1 .. n -> 1 .. n]
    BY <2>1, <2>2
  <2> QED BY <2>3, <2>4
<1>6. \A k \in 1 .. n : g[k] = k
  OBVIOUS
<1> HIDE DEF h, g
<1>7. ASSUME NEW k \in 1 .. n, NEW l \in 1 .. n, h[k] = h[l] PROVE k = l
  <2>1. PICK a \in Int, b \in Int, c \in Int : a = x * k /\ b = x * l /\ c = h[k]
    BY <1>5
  <2>2. Cong(c, a, m) /\ Cong(c, b, m)
    BY <1>4, <1>7, <2>1
  <2>3. Cong(a, b, m)
    BY <2>2, CongSwap, CongTrans
  <2>4. a = k * x /\ b = l * x
    BY <2>1
  <2>5. Cong(k, l, m)
    BY <2>3, <2>4, Cancel
  <2>6. k \in 0 .. m - 1 /\ l \in 0 .. m - 1
    BY <1>2
  <2> QED BY <2>5, <2>6, CongSmall
<1>8. h \in Injection(1 .. n, 1 .. n)
  BY <1>5, <1>7 DEF Injection, IsInjective
<1>9. h \in Surjection(1 .. n, 1 .. n)
  <2>1. IsFiniteSet(1 .. n)
    BY FS_Interval
  <2> QED BY <1>8, <2>1, FS_Injection
<1>10. \A k \in 1 .. n : \E l \in 1 .. n : h[l] = k
  BY <1>9 DEF Surjection
<1>11. Distinct(g, n) /\ Distinct(h, n) /\ Covers(g, h, n) /\ Covers(h, g, n)
  BY <1>5, <1>6, <1>7, <1>10 DEF Distinct, Covers
<1>12. PICK p : IsProd(p, g, n)
  BY <1>5, ProdExists
<1>13. PICK q : IsProd(q, h, n)
  BY <1>5, ProdExists
<1>14. PICK y \in Int : y = p[n] /\ y = q[n]
  <2>1. SameProduct(p, q, n)
    BY <1>5, <1>11, <1>12, <1>13, Order, OrderUse
  <2>2. p[n] \in Int
    BY <1>12 DEF IsProd
  <2> QED BY <2>1, <2>2 DEF SameProduct
<1>15. ~ Cong(y, 0, m)
  <2> DEFINE P == {k \in 0 .. n : ~ Cong(p[k], 0, m)}
  <2>1. /\ p \in [0 .. n -> Int] /\ p[0] = 1 /\ \A k \in 1 .. n : p[k] = p[k - 1] * g[k]
    BY <1>12 DEF IsProd
  <2>2. 0 \in P
    <3>1. 1 \in 0 .. m - 1 /\ 0 \in 0 .. m - 1
      BY <1>1
    <3>2. ~ Cong(1, 0, m)
      BY <3>1, CongSmall
    <3> QED BY <2>1, <3>2
  <2>3. \A k \in 1 .. n : k - 1 \in P => k \in P
    <3> SUFFICES ASSUME NEW k \in 1 .. n, k - 1 \in P PROVE ~ Cong(p[k], 0, m)
      OBVIOUS
    <3>1. PICK a \in Int : a = p[k - 1]
      BY <2>1
    <3>2. ~ Cong(a, 0, m) /\ ~ Cong(k, 0, m)
      BY <1>3, <3>1
    <3>3. ~ Cong(a * k, 0, m)
      BY <3>2, Euclid
    <3> QED BY <1>6, <2>1, <3>1, <3>3
  <2> HIDE DEF P
  <2>4. \A k \in 0 .. n : k \in P
    BY <2>2, <2>3, Climb
  <2>5. n \in P
    BY <2>4
  <2> QED BY <1>14, <2>5 DEF P
<1>16. PICK w \in Int : w = Pow(x, n)
  BY PowStep
<1>17. Cong(y, w * y, m)
  <2>1. \A k \in 1 .. n : Cong(h[k], x * g[k], m)
    BY <1>4, <1>6
  <2>2. Cong(q[n], Pow(x, n) * p[n], m)
    <3>1. m \in Int
      OBVIOUS
    <3> QED BY <1>5, <1>12, <1>13, <2>1, <3>1, PowIsProd
  <2> QED BY <1>14, <1>16, <2>2
<1>18. Cong(w * y, 1 * y, m)
  <2>1. w * y \in Int /\ 1 * y = y
    OBVIOUS
  <2> QED BY <1>17, <2>1, CongSwap
<1>19. Cong(w, 1, m)
  BY <1>15, <1>18, Cancel
<1> QED BY <1>2, <1>16, <1>19

\* So the power m - 2 is the inverse.
LEMMA Inverted ==
    ASSUME NEW m \in Nat, IsPrime(m), m > 2, NEW x \in Int, ~ Cong(x, 0, m)
    PROVE  Pow(x, m - 2) \in Int /\ Cong(x * Pow(x, m - 2), 1, m)
<1>1. PICK n \in Nat : n = m - 2 /\ m - 1 = n + 1
  OBVIOUS
<1>2. Pow(x, n + 1) = Pow(x, n) * x /\ Pow(x, n) \in Int
  BY PowStep
<1>3. PICK w \in Int : w = Pow(x, n)
  BY <1>2
<1>4. Cong(w * x, 1, m)
  BY <1>1, <1>2, <1>3, Fermat
<1>5. w * x = x * w
  OBVIOUS
<1> QED BY <1>1, <1>3, <1>4, <1>5

-----------------------------------------------------------------------------
(* Numbers of n digits.  With operands below m the results are below m and right *)
(* modulo m; with any operands of n digits they have n digits.                   *)

\* v is a number of n digits that, if good holds, is the residue of x.
Stands(v, x, m, w, good) == v \in 0 .. w - 1 /\ (good => v < m /\ Cong(v, x, m))

\* bn_add.
LEMMA AddIs ==
    ASSUME NEW w \in Nat \ {0}, NEW m \in 1 .. w - 1, NEW a \in 0 .. w - 1, NEW b \in 0 .. w - 1
    PROVE  Stands(bn_add(a, b, m, w), a + b, m, w, a < m /\ b < m)
<1> DEFINE s == IF a + b >= w THEN (a + b - w - m) % w ELSE a + b
           v == bn_reduce(s, m)
<1>1. bn_add(a, b, m, w) = v
  BY DEF bn_add
<1>2. s \in 0 .. w - 1
  <2>1. CASE a + b >= w
    <3>1. PICK x \in Int : x = a + b - w - m
      OBVIOUS
    <3>2. x % w \in 0 .. w - 1
      BY Quotient
    <3> QED BY <2>1, <3>1, <3>2
  <2>2. CASE ~ (a + b >= w)
    BY <2>2
  <2> QED BY <2>1, <2>2
<1>3. v \in 0 .. w - 1
  <2> HIDE DEF s
  <2> QED BY <1>2 DEF bn_reduce
<1>4. ASSUME a < m, b < m PROVE v < m /\ Cong(v, a + b, m)
  <2>1. CASE a + b >= w
    <3>1. s = a + b - m
      <4>1. PICK x \in 0 .. w - 1 : x = a + b - m
        BY <1>4, <2>1
      <4>2. a + b - w - m = w * (-1) + x /\ -1 \in Int
        BY <4>1
      <4>3. (w * (-1) + x) % w = x
        BY <4>2, DivisionIs
      <4> QED BY <2>1, <4>1, <4>2, <4>3
    <3>2. v = a + b - m /\ v < m
      BY <1>4, <3>1 DEF bn_reduce
    <3>3. a + b - m = (a + b) + (-1) * m /\ -1 \in Int
      OBVIOUS
    <3> QED BY <3>2, <3>3 DEF Cong
  <2>2. CASE ~ (a + b >= w) /\ a + b >= m
    <3>1. v = a + b - m /\ v < m
      BY <1>4, <2>2 DEF bn_reduce
    <3>2. a + b - m = (a + b) + (-1) * m /\ -1 \in Int
      OBVIOUS
    <3> QED BY <3>1, <3>2 DEF Cong
  <2>3. CASE ~ (a + b >= w) /\ ~ (a + b >= m)
    <3>1. v = a + b /\ v < m
      BY <2>3 DEF bn_reduce
    <3>2. Cong(a + b, a + b, m)
      BY CongSame
    <3> QED BY <3>1, <3>2
  <2> QED BY <2>1, <2>2, <2>3
<1> HIDE DEF v
<1> QED BY <1>1, <1>3, <1>4 DEF Stands

\* bn_sub.
LEMMA SubIs ==
    ASSUME NEW w \in Nat \ {0}, NEW m \in 1 .. w - 1, NEW a \in 0 .. w - 1, NEW b \in 0 .. w - 1
    PROVE  Stands(bn_sub(a, b, m, w), a - b, m, w, a < m /\ b < m)
<1>1. CASE a < b
  <2>1. PICK x \in Int : x = a - b + m
    OBVIOUS
  <2>2. x % w \in 0 .. w - 1
    BY Quotient
  <2>3. bn_sub(a, b, m, w) = x % w
    BY <1>1, <2>1 DEF bn_sub
  <2>4. ASSUME a < m, b < m PROVE x % w < m /\ Cong(x % w, a - b, m)
    <3>1. x \in 0 .. w - 1 /\ x < m
      BY <1>1, <2>1, <2>4
    <3>2. w * 0 + x = x /\ 0 \in Int
      BY <3>1
    <3>3. (w * 0 + x) % w = x
      BY <3>1, <3>2, DivisionIs
    <3>4. x = (a - b) + 1 * m /\ 1 \in Int
      BY <2>1
    <3> QED BY <3>1, <3>2, <3>3, <3>4 DEF Cong
  <2> QED BY <2>2, <2>3, <2>4 DEF Stands
<1>2. CASE ~ (a < b)
  <2>1. bn_sub(a, b, m, w) = a - b /\ a - b \in 0 .. w - 1 /\ (a < m => a - b < m)
    BY <1>2 DEF bn_sub
  <2>2. Cong(a - b, a - b, m)
    BY CongSame
  <2> QED BY <2>1, <2>2 DEF Stands
<1> QED BY <1>1, <1>2

\* The digits of a number, the last one first.
LEMMA NextDigit ==
    ASSUME NEW x \in Nat, NEW u \in Nat \ {0}, NEW v \in Nat \ {0}
    PROVE  /\ x \div u = (x \div (u * v)) * v + ((x \div u) % v)
           /\ (x \div u) % v \in 0 .. v - 1 /\ x \div u \in Nat /\ x \div (u * v) \in Nat
<1>1. PICK q \in Nat, r \in 0 .. u - 1 : x = u * q + r /\ q = x \div u
  <2>1. x \in Int /\ x \in Nat
    OBVIOUS
  <2> QED BY <2>1, Division
<1>2. PICK q2 \in Nat, d \in 0 .. v - 1 : q = v * q2 + d /\ d = q % v
  <2>1. q \in Int /\ q \in Nat
    OBVIOUS
  <2>2. q = v * (q \div v) + (q % v) /\ q % v \in 0 .. v - 1 /\ q \div v \in Nat
    BY <2>1, Division
  <2> QED BY <2>2
<1>3. PICK uv \in Nat \ {0} : uv = u * v
  <2>1. u * v \in Nat /\ u * v # 0
    OBVIOUS
  <2> QED BY <2>1
<1>4. PICK e \in Int : e = u * d + r
  OBVIOUS
<1>5. e \in 0 .. uv - 1
  <2>1. 0 <= u * d /\ u * d <= u * (v - 1)
    OBVIOUS
  <2>2. u * (v - 1) = uv - u
    BY <1>3
  <2>3. u * d \in Int
    OBVIOUS
  <2> QED BY <1>4, <2>1, <2>2, <2>3
<1>6. x = uv * q2 + e
  <2>1. x = u * (v * q2 + d) + r
    BY <1>1, <1>2
  <2>2. u * (v * q2 + d) = (u * v) * q2 + u * d
    OBVIOUS
  <2>3. PICK i \in Int, j \in Int : i = (u * v) * q2 /\ j = u * d
    OBVIOUS
  <2>4. x = i + j + r
    BY <2>1, <2>2, <2>3
  <2>5. e = j + r /\ uv * q2 = i
    BY <1>3, <1>4, <2>3
  <2> QED BY <2>4, <2>5
<1>7. (uv * q2 + e) \div uv = q2
  BY <1>5, DivisionIs
<1>8. x \div (u * v) = q2
  BY <1>3, <1>6, <1>7
<1>9. q = q2 * v + d
  BY <1>2
<1> QED BY <1>1, <1>2, <1>8, <1>9

-----------------------------------------------------------------------------
(* The product of n digits. *)

MulDigit(b, k) == (b \div Pow(Base, k - 1)) % Base

IsMulTable(t, a, b, m, n) ==
    /\ t \in [0 .. n -> 0 .. Pow(Base, n) - 1] /\ t[0] = 0
    /\ \A k \in 1 .. n : t[k] = bn_mon_muladd_dig(t[k - 1], a, MulDigit(b, k), m, Pow(Base, n))
    /\ bn_mon_mul(a, b, m, n) = t[n]

\* A word is a positive number.
LEMMA BasePow ==
    ASSUME NEW n \in Nat
    PROVE  Pow(Base, n) \in Nat \ {0}
<1>1. Base \in Nat \ {0}
  BY BaseAssumption
<1> QED BY <1>1, PowPositive

\* A digit is below the base.
LEMMA DigitFits ==
    ASSUME NEW n \in Nat, NEW b \in Nat, NEW k \in 1 .. n
    PROVE  MulDigit(b, k) \in 0 .. Base - 1
<1>1. k - 1 \in Nat /\ Base \in Nat \ {0}
  BY BaseAssumption
<1>2. PICK u \in Nat \ {0} : u = Pow(Base, k - 1)
  BY <1>1, BasePow
<1>3. (b \div u) % Base \in 0 .. Base - 1
  BY <1>1, NextDigit
<1> QED BY <1>2, <1>3 DEF MulDigit

\* The function in the definition of bn_mon_mul exists.
LEMMA MulTable ==
    ASSUME NEW n \in Nat, NEW w, w = Pow(Base, n), NEW m \in 1 .. w - 1, m % 2 = 1,
           NEW a \in 0 .. w - 1, NEW b \in 0 .. w - 1
    PROVE  \E t : IsMulTable(t, a, b, m, n)
<1>0. w \in Nat \ {0} /\ b \in Nat
  <2>1. w \in Nat \ {0}
    BY BasePow
  <2> QED BY <2>1
<1> DEFINE V == 0 .. w - 1
           F(k, x) == bn_mon_muladd_dig(x, a, MulDigit(b, k), m, w)
           step == [q \in (1 .. n) \X V |-> F(q[1], q[2])]
<1>1. ASSUME NEW k \in 1 .. n, NEW x \in V PROVE F(k, x) \in V
  <2>1. PICK y \in 0 .. Base - 1 : y = MulDigit(b, k)
    BY <1>0, DigitFits
  <2>2. MulAdds(bn_mon_muladd_dig(x, a, y, m, w), x, a, y, m, w)
    BY <1>0, MulAddIs
  <2> QED BY <2>1, <2>2 DEF MulAdds
<1>2. 0 \in V
  BY <1>0
<1> HIDE DEF V, F
<1>3. step \in [(1 .. n) \X V -> V]
  BY <1>1
<1>4. PICK f : Runs(f, n, V, 0, step)
  <2> HIDE DEF step
  <2> QED BY <1>2, <1>3, Recursion
<1>5. f \in [0 .. n -> V] /\ f[0] = 0 /\ \A k \in 1 .. n : f[k] = step[<<k, f[k - 1]>>]
  <2> HIDE DEF step
  <2> QED BY <1>4 DEF Runs
<1>6. \A k \in 1 .. n : f[k] = F(k, f[k - 1])
  <2> SUFFICES ASSUME NEW k \in 1 .. n PROVE f[k] = F(k, f[k - 1])
    OBVIOUS
  <2>1. f[k - 1] \in V /\ <<k, f[k - 1]>> \in (1 .. n) \X V
    BY <1>5
  <2>2. step[<<k, f[k - 1]>>] = F(k, f[k - 1])
    BY <2>1
  <2> HIDE DEF step
  <2> QED BY <1>5, <2>2
<1> HIDE DEF step
<1> DEFINE T(y) == [k \in 0 .. n |-> IF k = 0 THEN 0 ELSE F(k, y[k - 1])]
           g    == CHOOSE y : y = T(y)
<1>7. f = T(f)
  <2>1. \A k \in 0 .. n : f[k] = T(f)[k]
    BY <1>5, <1>6
  <2> QED BY <1>5, <2>1
<1>8. g = T(g)
  <2> HIDE DEF T
  <2> QED BY <1>7
<1>9. bn_mon_mul(a, b, m, n) = g[n]
  BY DEF bn_mon_mul, F, MulDigit
<1> HIDE DEF g
<1>10. g[0] = 0 /\ \A k \in 1 .. n : g[k] = F(k, g[k - 1])
  <2>1. \A k \in 0 .. n : g[k] = T(g)[k]
    BY <1>8
  <2> QED BY <2>1
<1>11. \A k \in 0 .. n : g[k] = f[k]
  <2> DEFINE P == {k \in 0 .. n : g[k] = f[k]}
  <2>1. 0 \in P
    BY <1>5, <1>10
  <2>2. \A k \in 1 .. n : k - 1 \in P => k \in P
    BY <1>6, <1>10
  <2> HIDE DEF P
  <2>3. \A k \in 0 .. n : k \in P
    BY <2>1, <2>2, Climb
  <2> QED BY <2>3 DEF P
<1>12. bn_mon_mul(a, b, m, n) = f[n]
  BY <1>9, <1>11
<1>13. IsMulTable(f, a, b, m, n)
  BY <1>5, <1>6, <1>12 DEF IsMulTable, F, V
<1> QED BY <1>13

\* a b / w modulo m, and reduced when a is.
MonMuls(r, a, b, m, w) == r \in 0 .. w - 1 /\ (a < m => r < m) /\ Cong(r * w, a * b, m)

\* bn_mon_mul divides the product by the word, also when a factor is not reduced.
LEMMA MonMulIs ==
    ASSUME NEW n \in Nat, NEW w, w = Pow(Base, n), NEW m \in 1 .. w - 1, m % 2 = 1,
           NEW a \in 0 .. w - 1, NEW b \in 0 .. w - 1
    PROVE  MonMuls(bn_mon_mul(a, b, m, n), a, b, m, w)
<1>0. w \in Nat \ {0} /\ b \in Nat /\ Base \in Nat \ {0}
  <2>1. w \in Nat \ {0} /\ Base \in Nat \ {0}
    BY BasePow, BaseAssumption
  <2> QED BY <2>1
<1>1. PICK t : IsMulTable(t, a, b, m, n)
  BY MulTable
<1>2. /\ t \in [0 .. n -> 0 .. w - 1] /\ t[0] = 0
      /\ \A k \in 1 .. n : t[k] = bn_mon_muladd_dig(t[k - 1], a, MulDigit(b, k), m, w)
      /\ bn_mon_mul(a, b, m, n) = t[n]
  BY <1>1 DEF IsMulTable
<1> DEFINE P == {k \in 0 .. n : /\ a < m => t[k] < m
                                /\ Cong(t[k] * Pow(Base, k),
                                        a * (b - (b \div Pow(Base, k)) * Pow(Base, k)), m)}
<1>3. 0 \in P
  <2>1. Pow(Base, 0) = 1 /\ b \div 1 = b
    BY <1>0, PowStep
  <2>2. Cong(0, 0, m)
    <3>1. 0 \in Int /\ m \in Int
      OBVIOUS
    <3> QED BY <3>1, CongSame
  <2>3. 0 * 1 = 0 /\ a * (b - b * 1) = 0
    OBVIOUS
  <2>4. Cong(t[0] * Pow(Base, 0), a * (b - (b \div Pow(Base, 0)) * Pow(Base, 0)), m)
    BY <1>2, <2>1, <2>2, <2>3
  <2> QED BY <1>2, <2>4
<1>4. \A k \in 1 .. n : k - 1 \in P => k \in P
  <2> SUFFICES ASSUME NEW k \in 1 .. n, k - 1 \in P PROVE k \in P
    OBVIOUS
  <2>1. PICK x \in 0 .. w - 1, y \in 0 .. Base - 1 : x = t[k - 1] /\ y = MulDigit(b, k)
    BY <1>0, <1>2, DigitFits
  <2>2. PICK i \in Nat : i = k - 1 /\ k = i + 1
    OBVIOUS
  <2>3. PICK u \in Nat \ {0} : u = Pow(Base, i) /\ Pow(Base, k) = u * Base
    BY <1>0, <2>2, BasePow, PowStep
  <2>4. PICK hi \in Nat, h2 \in Nat : hi = b \div u /\ h2 = b \div (u * Base) /\ hi = h2 * Base + y
    <3>1. y = (b \div u) % Base
      BY <2>1, <2>2, <2>3 DEF MulDigit
    <3>2. /\ b \div u = (b \div (u * Base)) * Base + ((b \div u) % Base)
          /\ b \div u \in Nat /\ b \div (u * Base) \in Nat
      BY <1>0, NextDigit
    <3> QED BY <3>1, <3>2
  <2>5. PICK r \in 0 .. w - 1 : r = t[k]
    BY <1>2
  <2>6. MulAdds(r, x, a, y, m, w)
    <3>1. MulAdds(bn_mon_muladd_dig(x, a, y, m, w), x, a, y, m, w)
      BY <1>0, MulAddIs
    <3> QED BY <1>2, <2>1, <2>5, <3>1
  <2>7. PICK q \in Int : r * Base = x + a * y + q * m
    BY <2>6 DEF MulAdds
  <2>8. (a < m => x < m) /\ Cong(x * u, a * (b - hi * u), m)
    BY <2>1, <2>2, <2>3, <2>4
  <2>9. PICK j \in Int : x * u = a * (b - hi * u) + j * m
    BY <2>8 DEF Cong
  <2>10. PICK v \in Nat : v = u * Base
    BY <1>0
  <2>11. PICK l \in Int : l = j + q * u
    OBVIOUS
  <2>12. r * v = a * (b - h2 * v) + l * m
    <3>1. r * v = (r * Base) * u
      BY <1>0, <2>10
    <3>2. (r * Base) * u = (x + a * y + q * m) * u
      BY <2>7
    <3>3. (x + a * y + q * m) * u = x * u + (a * y) * u + (q * u) * m
      OBVIOUS
    <3>4. a * (b - hi * u) = a * (b - h2 * v) - (a * y) * u
      <4>1. hi * u = h2 * v + y * u
        <5>1. hi * u = (h2 * Base + y) * u
          BY <2>4
        <5>2. (h2 * Base + y) * u = h2 * (u * Base) + y * u
          BY <1>0
        <5> QED BY <2>10, <5>1, <5>2
      <4> QED BY <4>1
    <3>5. l * m = j * m + (q * u) * m
      BY <2>11
    <3> QED BY <2>9, <3>1, <3>2, <3>3, <3>4, <3>5
  <2>13. Cong(r * v, a * (b - h2 * v), m)
    BY <2>12 DEF Cong
  <2>14. a < m => r < m
    BY <2>6, <2>8 DEF MulAdds
  <2>15. /\ a < m => t[k] < m
         /\ Cong(t[k] * Pow(Base, k), a * (b - (b \div Pow(Base, k)) * Pow(Base, k)), m)
    BY <2>3, <2>4, <2>5, <2>10, <2>13, <2>14
  <2> QED BY <2>15
<1> HIDE DEF P
<1>5. \A k \in 0 .. n : k \in P
  BY <1>3, <1>4, Climb
<1>6. n \in P
  BY <1>5
<1>7. (a < m => t[n] < m) /\ Cong(t[n] * w, a * (b - (b \div w) * w), m)
  BY <1>6 DEF P
<1>8. b \div w = 0
  <2>1. w * 0 + b = b /\ 0 \in Int
    BY <1>0
  <2>2. (w * 0 + b) \div w = 0
    BY <1>0, <2>1, DivisionIs
  <2> QED BY <2>1, <2>2
<1>9. a * (b - 0 * w) = a * b
  BY <1>0
<1> QED BY <1>2, <1>7, <1>8, <1>9 DEF MonMuls

-----------------------------------------------------------------------------
(* Montgomery form. *)

\* An odd modulus of n digits.
IsModulus(m, n) == m \in 3 .. Pow(Base, n) - 1 /\ m % 2 = 1

\* The bits of n digits.
LEMMA WordBits ==
    ASSUME NEW n \in Nat
    PROVE  Bits * n \in Nat /\ Pow(2, Bits * n) = Pow(Base, n)
<1>1. Bits \in Nat
  BY BitsAssumption
<1>2. Pow(Pow(2, Bits), n) = Pow(2, Bits * n)
  BY <1>1, PowPow
<1> QED BY <1>1, <1>2, BitsAssumption

IsDoublings(t, d, m, n) ==
    /\ t \in [0 .. Bits * n -> 0 .. Pow(Base, n) - 1] /\ t[0] = d
    /\ \A k \in 1 .. Bits * n : t[k] = bn_add(t[k - 1], t[k - 1], m, Pow(Base, n))
    /\ bn_to_mon(d, m, n) = t[Bits * n]

\* The function in the definition of bn_to_mon exists.
LEMMA Doublings ==
    ASSUME NEW n \in Nat, NEW m, IsModulus(m, n), NEW d \in 0 .. Pow(Base, n) - 1
    PROVE  \E t : IsDoublings(t, d, m, n)
<1>0. PICK w \in Nat \ {0}, b \in Nat : w = Pow(Base, n) /\ b = Bits * n
  BY BasePow, WordBits
<1>00. m \in 1 .. w - 1
  BY <1>0 DEF IsModulus
<1> DEFINE V == 0 .. w - 1
           F(x) == bn_add(x, x, m, w)
           step == [q \in (1 .. b) \X V |-> F(q[2])]
<1>1. ASSUME NEW x \in V PROVE F(x) \in V
  <2>1. x \in 0 .. w - 1
    OBVIOUS
  <2>2. Stands(bn_add(x, x, m, w), x + x, m, w, x < m /\ x < m)
    BY <1>0, <1>00, <2>1, AddIs
  <2> QED BY <2>2 DEF Stands
<1>2. d \in V
  BY <1>0
<1> HIDE DEF V, F
<1>3. step \in [(1 .. b) \X V -> V]
  BY <1>1
<1>4. PICK f : Runs(f, b, V, d, step)
  <2> HIDE DEF step
  <2> QED BY <1>0, <1>2, <1>3, Recursion
<1>5. f \in [0 .. b -> V] /\ f[0] = d /\ \A k \in 1 .. b : f[k] = step[<<k, f[k - 1]>>]
  <2> HIDE DEF step
  <2> QED BY <1>4 DEF Runs
<1>6. \A k \in 1 .. b : f[k] = F(f[k - 1])
  <2> SUFFICES ASSUME NEW k \in 1 .. b PROVE f[k] = F(f[k - 1])
    OBVIOUS
  <2>1. f[k - 1] \in V /\ <<k, f[k - 1]>> \in (1 .. b) \X V
    BY <1>0, <1>5
  <2>2. step[<<k, f[k - 1]>>] = F(f[k - 1])
    BY <2>1
  <2> HIDE DEF step
  <2> QED BY <1>5, <2>2
<1> HIDE DEF step
<1> DEFINE T(y) == [k \in 0 .. b |-> IF k = 0 THEN d ELSE F(y[k - 1])]
           g    == CHOOSE y : y = T(y)
<1>7. f = T(f)
  <2>1. \A k \in 0 .. b : f[k] = T(f)[k]
    BY <1>0, <1>5, <1>6
  <2> QED BY <1>5, <2>1
<1>8. g = T(g)
  <2> HIDE DEF T
  <2> QED BY <1>7
<1>9. bn_to_mon(d, m, n) = g[b]
  BY <1>0 DEF bn_to_mon, F
<1> HIDE DEF g
<1>10. g[0] = d /\ \A k \in 1 .. b : g[k] = F(g[k - 1])
  <2>1. \A k \in 0 .. b : g[k] = T(g)[k]
    BY <1>8
  <2> QED BY <1>0, <2>1
<1>11. \A k \in 0 .. b : g[k] = f[k]
  <2> DEFINE P == {k \in 0 .. b : g[k] = f[k]}
  <2>1. 0 \in P
    BY <1>0, <1>5, <1>10
  <2>2. \A k \in 1 .. b : k - 1 \in P => k \in P
    BY <1>0, <1>6, <1>10
  <2> HIDE DEF P
  <2>3. \A k \in 0 .. b : k \in P
    BY <1>0, <2>1, <2>2, Climb
  <2> QED BY <2>3 DEF P
<1>12. bn_to_mon(d, m, n) = f[b]
  BY <1>0, <1>9, <1>11
<1>13. IsDoublings(f, d, m, n)
  BY <1>0, <1>5, <1>6, <1>12 DEF IsDoublings, F, V
<1> QED BY <1>13

\* bn_to_mon multiplies by the word.
LEMMA ToMonIs ==
    ASSUME NEW n \in Nat, NEW w, w = Pow(Base, n), NEW m, IsModulus(m, n), NEW d \in 0 .. w - 1
    PROVE  Stands(bn_to_mon(d, m, n), d * w, m, w, d < m)
<1>0. PICK b \in Nat : b = Bits * n /\ w = Pow(2, b)
  BY WordBits
<1>00. w \in Nat \ {0} /\ m \in 1 .. w - 1
  BY BasePow DEF IsModulus
<1>1. PICK t : IsDoublings(t, d, m, n)
  BY Doublings
<1>2. /\ t \in [0 .. b -> 0 .. w - 1] /\ t[0] = d
      /\ \A k \in 1 .. b : t[k] = bn_add(t[k - 1], t[k - 1], m, w)
      /\ bn_to_mon(d, m, n) = t[b]
  BY <1>0, <1>1 DEF IsDoublings
<1> DEFINE P == {k \in 0 .. b : d < m => t[k] < m /\ Cong(t[k], d * Pow(2, k), m)}
<1>3. 0 \in P
  <2>1. Pow(2, 0) = 1 /\ d * 1 = d /\ d \in Int /\ m \in Int
    BY <1>00, PowStep
  <2>2. Cong(d, d, m)
    BY <2>1, CongSame
  <2> QED BY <1>0, <1>2, <2>1, <2>2
<1>4. \A k \in 1 .. b : k - 1 \in P => k \in P
  <2> SUFFICES ASSUME NEW k \in 1 .. b, k - 1 \in P, d < m PROVE t[k] < m /\ Cong(t[k], d * Pow(2, k), m)
    OBVIOUS
  <2>1. PICK x \in 0 .. w - 1, y \in 0 .. w - 1 : x = t[k - 1] /\ y = t[k]
    BY <1>0, <1>2
  <2>2. PICK i \in Nat : i = k - 1 /\ k = i + 1
    BY <1>0
  <2>3. PICK u \in Int : u = Pow(2, i) /\ Pow(2, k) = u * 2
    BY <2>2, PowStep
  <2>4. x < m /\ Cong(x, d * u, m)
    BY <2>1, <2>2, <2>3
  <2>5. Stands(bn_add(x, x, m, w), x + x, m, w, x < m /\ x < m)
    BY <1>00, AddIs
  <2>6. y < m /\ Cong(y, x + x, m)
    BY <1>2, <2>1, <2>4, <2>5 DEF Stands
  <2>7. PICK c \in Int : c = d * u
    BY <2>3
  <2>8. Cong(x + x, c + c, m)
    <3>1. x \in Int /\ m \in Int
      BY <1>00
    <3> QED BY <2>4, <2>7, <3>1, CongSum
  <2>9. Cong(y, c + c, m)
    <3>1. x + x \in Int /\ m \in Int /\ c + c \in Int /\ y \in Int
      BY <1>00
    <3> QED BY <2>6, <2>8, <3>1, CongTrans
  <2>10. c + c = d * Pow(2, k)
    BY <2>3, <2>7
  <2> QED BY <2>1, <2>6, <2>9, <2>10
<1> HIDE DEF P
<1>5. \A k \in 0 .. b : k \in P
  BY <1>0, <1>3, <1>4, Climb
<1>6. b \in P
  BY <1>0, <1>5
<1>7. t[b] \in 0 .. w - 1
  BY <1>0, <1>2
<1> QED BY <1>0, <1>2, <1>6, <1>7 DEF P, Stands

\* A power of two has an inverse modulo an odd number.
LEMMA TwoUnit ==
    ASSUME NEW m \in Nat, m % 2 = 1, NEW k \in Nat
    PROVE  \E i \in Int : Cong(Pow(2, k) * i, 1, m)
<1>1. PICK h \in Int : 2 * h = m + 1
  <2>1. m = 2 * (m \div 2) + (m % 2) /\ m \div 2 \in Int
    OBVIOUS
  <2>2. 2 * (m \div 2 + 1) = m + 1
    BY <2>1
  <2> QED BY <2>1, <2>2
<1> DEFINE P == {l \in 0 .. k : \E i \in Int : Cong(Pow(2, l) * i, 1, m)}
<1>2. 0 \in P
  <2>1. Pow(2, 0) = 1 /\ 1 * 1 = 1
    BY PowStep
  <2>2. Cong(1, 1, m)
    BY CongSame
  <2> QED BY <2>1, <2>2
<1>3. \A l \in 1 .. k : l - 1 \in P => l \in P
  <2> SUFFICES ASSUME NEW l \in 1 .. k, l - 1 \in P PROVE \E i \in Int : Cong(Pow(2, l) * i, 1, m)
    OBVIOUS
  <2>1. PICK j \in Nat : j = l - 1 /\ l = j + 1
    OBVIOUS
  <2>2. PICK u \in Int : u = Pow(2, j) /\ Pow(2, l) = u * 2
    BY <2>1, PowStep
  <2>3. PICK i \in Int : Cong(u * i, 1, m)
    BY <2>1, <2>2
  <2>4. Cong(2 * h, 1, m)
    <3>1. 2 * h = 1 + 1 * m /\ 1 \in Int
      BY <1>1
    <3> QED BY <3>1 DEF Cong
  <2>5. PICK c \in Int, e \in Int : c = u * i /\ e = 2 * h
    BY <1>1, <2>2, <2>3
  <2>6. Cong(c * e, 1 * 1, m)
    <3>1. 1 \in Int /\ m \in Int
      OBVIOUS
    <3> QED BY <2>3, <2>4, <2>5, <3>1, CongTimes
  <2>7. c * e = (u * 2) * (i * h) /\ 1 * 1 = 1
    BY <2>5
  <2>8. PICK z \in Int : z = i * h
    BY <1>1, <2>3
  <2>9. Cong(Pow(2, l) * z, 1, m)
    BY <2>2, <2>6, <2>7, <2>8
  <2> QED BY <2>9
<1> HIDE DEF P
<1>4. \A l \in 0 .. k : l \in P
  BY <1>2, <1>3, Climb
<1>5. k \in P
  BY <1>4
<1> QED BY <1>5 DEF P

\* The word can be cancelled.
LEMMA CancelWord ==
    ASSUME NEW n \in Nat, NEW m, IsModulus(m, n), NEW x \in Int, NEW y \in Int, NEW w, w = Pow(Base, n),
           Cong(x * w, y * w, m)
    PROVE  Cong(x, y, m)
<1>0. w \in Nat \ {0} /\ m \in Nat /\ m % 2 = 1 /\ Bits * n \in Nat /\ w = Pow(2, Bits * n)
  BY BasePow, WordBits DEF IsModulus
<1>1. PICK i \in Int : Cong(w * i, 1, m)
  BY <1>0, TwoUnit
<1>2. PICK q \in Int : w * i = 1 + q * m
  BY <1>1 DEF Cong
<1>3. PICK k \in Int : x * w = y * w + k * m
  BY DEF Cong
<1>4. PICK j \in Int : j = k * i + y * q - x * q
  OBVIOUS
<1>5. x = y + j * m
  <2>1. (x * w) * i = x * (w * i) /\ (y * w) * i = y * (w * i)
    BY <1>0
  <2>2. x * (w * i) = x + (x * q) * m /\ y * (w * i) = y + (y * q) * m
    BY <1>0, <1>2
  <2>3. (x * w) * i = (y * w) * i + (k * i) * m
    BY <1>0, <1>3
  <2>4. j * m = (k * i) * m + (y * q) * m - (x * q) * m
    BY <1>0, <1>4
  <2>5. PICK a1 \in Int, a2 \in Int, a3 \in Int : a1 = (k * i) * m /\ a2 = (y * q) * m /\ a3 = (x * q) * m
    BY <1>0
  <2>6. x + a3 = y + a2 + a1
    BY <2>1, <2>2, <2>3, <2>5
  <2>7. j * m = a1 + a2 - a3
    BY <2>4, <2>5
  <2> QED BY <2>6, <2>7
<1> QED BY <1>5 DEF Cong

\* v is the Montgomery form of x.
IsMon(v, x, m, n) == v \in 0 .. m - 1 /\ Cong(v, x * Pow(Base, n), m)

\* A modulus and its word.
LEMMA ModulusIs ==
    ASSUME NEW n \in Nat, NEW m, IsModulus(m, n)
    PROVE  \E w \in Nat \ {0} : /\ w = Pow(Base, n) /\ m \in 1 .. w - 1 /\ m \in Nat \ {0} /\ m > 2
                                /\ m % 2 = 1
<1>1. PICK w \in Nat \ {0} : w = Pow(Base, n)
  BY BasePow
<1> QED BY <1>1 DEF IsModulus

\* bn_add adds what the forms stand for.
LEMMA MonAdd ==
    ASSUME NEW n \in Nat, NEW m, IsModulus(m, n), NEW x \in Int, NEW y \in Int, NEW v, NEW u,
           IsMon(v, x, m, n), IsMon(u, y, m, n)
    PROVE  IsMon(bn_add(v, u, m, Pow(Base, n)), x + y, m, n)
<1>1. PICK w \in Nat \ {0} : w = Pow(Base, n) /\ m \in 1 .. w - 1 /\ m \in Nat \ {0}
  BY ModulusIs
<1>2. v \in 0 .. w - 1 /\ u \in 0 .. w - 1 /\ v < m /\ u < m
  BY <1>1 DEF IsMon
<1>3. Stands(bn_add(v, u, m, w), v + u, m, w, v < m /\ u < m)
  BY <1>1, <1>2, AddIs
<1>4. PICK r \in 0 .. w - 1 : r = bn_add(v, u, m, w) /\ r < m /\ Cong(r, v + u, m)
  BY <1>2, <1>3 DEF Stands
<1>5. PICK a \in Int, b \in Int : a = x * w /\ b = y * w
  BY <1>1
<1>6. Cong(v + u, a + b, m)
  <2>1. Cong(v, a, m) /\ Cong(u, b, m) /\ v \in Int /\ u \in Int /\ m \in Int
    BY <1>1, <1>2, <1>5 DEF IsMon
  <2> QED BY <2>1, CongSum
<1>7. Cong(r, a + b, m)
  <2>1. r \in Int /\ m \in Int /\ v + u \in Int /\ a + b \in Int
    BY <1>1, <1>2
  <2> QED BY <1>4, <1>6, <2>1, CongTrans
<1>8. a + b = (x + y) * w
  BY <1>1, <1>5
<1>9. r \in 0 .. m - 1
  BY <1>1, <1>4
<1> QED BY <1>1, <1>4, <1>7, <1>8, <1>9 DEF IsMon

\* bn_sub subtracts it.
LEMMA MonSub ==
    ASSUME NEW n \in Nat, NEW m, IsModulus(m, n), NEW x \in Int, NEW y \in Int, NEW v, NEW u,
           IsMon(v, x, m, n), IsMon(u, y, m, n)
    PROVE  IsMon(bn_sub(v, u, m, Pow(Base, n)), x - y, m, n)
<1>1. PICK w \in Nat \ {0} : w = Pow(Base, n) /\ m \in 1 .. w - 1 /\ m \in Nat \ {0}
  BY ModulusIs
<1>2. v \in 0 .. w - 1 /\ u \in 0 .. w - 1 /\ v < m /\ u < m
  BY <1>1 DEF IsMon
<1>3. Stands(bn_sub(v, u, m, w), v - u, m, w, v < m /\ u < m)
  BY <1>1, <1>2, SubIs
<1>4. PICK r \in 0 .. w - 1 : r = bn_sub(v, u, m, w) /\ r < m /\ Cong(r, v - u, m)
  BY <1>2, <1>3 DEF Stands
<1>5. PICK a \in Int, b \in Int : a = x * w /\ b = y * w
  BY <1>1
<1>6. Cong(v - u, a - b, m)
  <2>1. Cong(v, a, m) /\ Cong(u, b, m) /\ v \in Int /\ u \in Int /\ m \in Int
    BY <1>1, <1>2, <1>5 DEF IsMon
  <2> QED BY <2>1, CongSum
<1>7. Cong(r, a - b, m)
  <2>1. r \in Int /\ m \in Int /\ v - u \in Int /\ a - b \in Int
    BY <1>1, <1>2
  <2> QED BY <1>4, <1>6, <2>1, CongTrans
<1>8. a - b = (x - y) * w
  BY <1>1, <1>5
<1>9. r \in 0 .. m - 1
  BY <1>1, <1>4
<1> QED BY <1>1, <1>4, <1>7, <1>8, <1>9 DEF IsMon

\* bn_mon_mul multiplies it.
LEMMA MonTimes ==
    ASSUME NEW n \in Nat, NEW m, IsModulus(m, n), NEW x \in Int, NEW y \in Int, NEW v, NEW u,
           IsMon(v, x, m, n), IsMon(u, y, m, n)
    PROVE  IsMon(bn_mon_mul(v, u, m, n), x * y, m, n)
<1>1. PICK w \in Nat \ {0} : w = Pow(Base, n) /\ m \in 1 .. w - 1 /\ m \in Nat \ {0} /\ m % 2 = 1
  BY ModulusIs
<1>2. v \in 0 .. w - 1 /\ u \in 0 .. w - 1 /\ v < m /\ u < m
  BY <1>1 DEF IsMon
<1>3. MonMuls(bn_mon_mul(v, u, m, n), v, u, m, w)
  BY <1>1, <1>2, MonMulIs
<1>4. PICK r \in 0 .. w - 1 : r = bn_mon_mul(v, u, m, n) /\ r < m /\ Cong(r * w, v * u, m)
  BY <1>2, <1>3 DEF MonMuls
<1>5. PICK a \in Int, b \in Int, c \in Int : a = x * w /\ b = y * w /\ c = (x * y) * w
  BY <1>1
<1>6. Cong(v * u, a * b, m)
  <2>1. Cong(v, a, m) /\ Cong(u, b, m) /\ v \in Int /\ u \in Int /\ m \in Int
    BY <1>1, <1>2, <1>5 DEF IsMon
  <2> QED BY <2>1, CongTimes
<1>7. Cong(r * w, a * b, m)
  <2>1. r * w \in Int /\ m \in Int /\ v * u \in Int /\ a * b \in Int
    BY <1>1, <1>2
  <2> QED BY <1>4, <1>6, <2>1, CongTrans
<1>8. a * b = c * w
  BY <1>1, <1>5
<1>9. Cong(r, c, m)
  <2>1. r \in Int /\ Cong(r * w, c * w, m)
    BY <1>7, <1>8
  <2> QED BY <1>1, <2>1, CancelWord
<1>10. r \in 0 .. m - 1
  BY <1>1, <1>4
<1> QED BY <1>1, <1>4, <1>5, <1>9, <1>10 DEF IsMon

\* bn_to_mon makes the form.
LEMMA ToMon ==
    ASSUME NEW n \in Nat, NEW m, IsModulus(m, n), NEW x \in 0 .. m - 1
    PROVE  IsMon(bn_to_mon(x, m, n), x, m, n)
<1>1. PICK w \in Nat \ {0} : w = Pow(Base, n) /\ m \in 1 .. w - 1 /\ m \in Nat \ {0}
  BY ModulusIs
<1>2. x \in 0 .. w - 1 /\ x < m
  BY <1>1
<1>3. Stands(bn_to_mon(x, m, n), x * w, m, w, x < m)
  BY <1>1, <1>2, ToMonIs
<1> QED BY <1>1, <1>2, <1>3 DEF Stands, IsMon

\* bn_from_mon takes it back.
LEMMA FromMon ==
    ASSUME NEW n \in Nat, NEW m, IsModulus(m, n), NEW x \in Int, NEW v, IsMon(v, x, m, n)
    PROVE  bn_from_mon(v, m, n) = x % m
<1>1. PICK w \in Nat \ {0} : w = Pow(Base, n) /\ m \in 1 .. w - 1 /\ m \in Nat \ {0} /\ m % 2 = 1
  BY ModulusIs
<1>2. v \in 0 .. w - 1 /\ v < m /\ 1 \in 0 .. w - 1
  BY <1>1 DEF IsMon
<1>3. MonMuls(bn_mon_mul(v, 1, m, n), v, 1, m, w)
  BY <1>1, <1>2, MonMulIs
<1>4. PICK r \in 0 .. m - 1 : r = bn_mon_mul(v, 1, m, n) /\ Cong(r * w, v * 1, m)
  BY <1>1, <1>2, <1>3 DEF MonMuls
<1>5. v * 1 = v /\ v \in Int /\ x * w \in Int /\ r * w \in Int /\ m \in Int
  BY <1>1, <1>2
<1>6. Cong(v, x * w, m)
  BY <1>1 DEF IsMon
<1>7. Cong(r * w, x * w, m)
  BY <1>4, <1>5, <1>6, CongTrans
<1>8. Cong(r, x, m)
  <2>1. r \in Int
    OBVIOUS
  <2> QED BY <1>1, <1>7, <2>1, CancelWord
<1>9. r = x % m
  <2>1. PICK y \in 0 .. m - 1 : y = x % m /\ Cong(x, y, m)
    BY <1>1, CongMod
  <2>2. Cong(r, y, m)
    BY <1>5, <1>8, <2>1, CongTrans
  <2>3. r = y
    BY <1>1, <2>2, CongSmall
  <2> QED BY <2>1, <2>3
<1> QED BY <1>4, <1>9 DEF bn_from_mon

\* Forms are equal when what they stand for is congruent.
LEMMA MonSame ==
    ASSUME NEW n \in Nat, NEW m, IsModulus(m, n), NEW x \in Int, NEW y \in Int, NEW v, NEW u,
           IsMon(v, x, m, n), IsMon(u, y, m, n)
    PROVE  v = u <=> Cong(x, y, m)
<1>1. PICK w \in Nat \ {0} : w = Pow(Base, n) /\ m \in 1 .. w - 1 /\ m \in Nat \ {0} /\ m % 2 = 1
  BY ModulusIs
<1>2. PICK a \in Int, b \in Int : a = x * w /\ b = y * w
  BY <1>1
<1>3. v \in 0 .. m - 1 /\ u \in 0 .. m - 1 /\ Cong(v, a, m) /\ Cong(u, b, m)
  BY <1>1, <1>2 DEF IsMon
<1>4. v \in Int /\ u \in Int /\ m \in Int
  BY <1>1, <1>3
<1>5. ASSUME v = u PROVE Cong(x, y, m)
  <2>1. Cong(a, v, m)
    BY <1>3, <1>4, CongSwap
  <2>2. Cong(a, b, m)
    BY <1>3, <1>4, <1>5, <2>1, CongTrans
  <2> QED BY <1>1, <1>2, <2>2, CancelWord
<1>6. ASSUME Cong(x, y, m) PROVE v = u
  <2>1. Cong(w, w, m) /\ w \in Int
    BY <1>1, <1>4, CongSame
  <2>2. Cong(a, b, m)
    BY <1>2, <1>4, <1>6, <2>1, CongTimes
  <2>3. Cong(v, b, m)
    BY <1>3, <1>4, <2>2, CongTrans
  <2>4. Cong(b, u, m)
    BY <1>3, <1>4, CongSwap
  <2>5. Cong(v, u, m)
    BY <1>4, <2>3, <2>4, CongTrans
  <2> QED BY <1>1, <1>3, <2>5, CongSmall
<1> QED BY <1>5, <1>6

\* Only the form of zero is zero.
LEMMA MonZero ==
    ASSUME NEW n \in Nat, NEW m, IsModulus(m, n), NEW x \in Int, NEW v, IsMon(v, x, m, n)
    PROVE  v = 0 <=> Cong(x, 0, m)
<1>1. PICK w \in Nat \ {0} : w = Pow(Base, n) /\ m \in 1 .. w - 1 /\ m \in Nat \ {0}
  BY ModulusIs
<1>2. IsMon(0, 0, m, n)
  <2>1. 0 * w = 0 /\ 0 \in 0 .. m - 1 /\ 0 \in Int /\ m \in Int
    BY <1>1
  <2>2. Cong(0, 0, m)
    BY <2>1, CongSame
  <2> QED BY <1>1, <2>1, <2>2 DEF IsMon
<1>3. 0 \in Int
  OBVIOUS
<1> QED BY <1>2, <1>3, MonSame

\* What stands for x stands for everything congruent to it.
LEMMA MonCong ==
    ASSUME NEW n \in Nat, NEW m, IsModulus(m, n), NEW x \in Int, NEW y \in Int, NEW v,
           IsMon(v, x, m, n), Cong(x, y, m)
    PROVE  IsMon(v, y, m, n)
<1>1. PICK w \in Nat \ {0} : w = Pow(Base, n) /\ m \in 1 .. w - 1 /\ m \in Nat \ {0}
  BY ModulusIs
<1>2. PICK a \in Int, b \in Int : a = x * w /\ b = y * w
  BY <1>1
<1>3. v \in 0 .. m - 1 /\ Cong(v, a, m) /\ v \in Int /\ m \in Int /\ w \in Int
  BY <1>1, <1>2 DEF IsMon
<1>4. Cong(w, w, m)
  BY <1>3, CongSame
<1>5. Cong(a, b, m)
  BY <1>2, <1>3, <1>4, CongTimes
<1>6. Cong(v, b, m)
  BY <1>3, <1>5, CongTrans
<1> QED BY <1>1, <1>2, <1>3, <1>6 DEF IsMon

\* The bits of e from the first on.
ExpBit(e, k, n) == (e \div Pow(2, Bits * n - k)) % 2

ExpStep(k, x, v, m, n, e) ==
    LET t == bn_mon_mul(x, x, m, n)
    IN  IF ExpBit(e, k, n) = 1 THEN bn_mon_mul(t, v, m, n) ELSE t

IsExpTable(d, v, m, n, e) ==
    /\ d \in [0 .. Bits * n -> 0 .. m - 1] /\ d[0] = bn_to_mon(1, m, n)
    /\ \A k \in 1 .. Bits * n : d[k] = ExpStep(k, d[k - 1], v, m, n, e)
    /\ bn_mon_exp(v, m, n, e) = d[Bits * n]

\* Reduced factors have a reduced product.
LEMMA MonMulReduced ==
    ASSUME NEW n \in Nat, NEW m, IsModulus(m, n), NEW v \in 0 .. m - 1, NEW u \in 0 .. m - 1
    PROVE  bn_mon_mul(v, u, m, n) \in 0 .. m - 1
<1>1. PICK w \in Nat \ {0} : w = Pow(Base, n) /\ m \in 1 .. w - 1 /\ m \in Nat \ {0} /\ m % 2 = 1
  BY ModulusIs
<1>2. v \in 0 .. w - 1 /\ u \in 0 .. w - 1 /\ v < m
  BY <1>1
<1>3. MonMuls(bn_mon_mul(v, u, m, n), v, u, m, w)
  BY <1>1, <1>2, MonMulIs
<1>4. PICK r \in 0 .. w - 1 : r = bn_mon_mul(v, u, m, n) /\ r < m
  BY <1>2, <1>3 DEF MonMuls
<1> QED BY <1>1, <1>4

\* The function in the definition of bn_mon_exp exists.
LEMMA ExpTable ==
    ASSUME NEW n \in Nat, NEW m, IsModulus(m, n), NEW v \in 0 .. m - 1, NEW e
    PROVE  \E d : IsExpTable(d, v, m, n, e)
<1>0. PICK b \in Nat : b = Bits * n
  BY WordBits
<1> DEFINE V == 0 .. m - 1
           F(k, x) == ExpStep(k, x, v, m, n, e)
           one == bn_to_mon(1, m, n)
           step == [q \in (1 .. b) \X V |-> F(q[1], q[2])]
<1>1. ASSUME NEW k, NEW x \in V PROVE F(k, x) \in V
  <2>1. bn_mon_mul(x, x, m, n) \in 0 .. m - 1
    BY MonMulReduced
  <2>2. bn_mon_mul(bn_mon_mul(x, x, m, n), v, m, n) \in 0 .. m - 1
    BY <2>1, MonMulReduced
  <2> QED BY <2>1, <2>2 DEF ExpStep
<1>2. one \in V
  <2>1. 1 \in 0 .. m - 1
    BY ModulusIs
  <2>2. IsMon(bn_to_mon(1, m, n), 1, m, n)
    BY <2>1, ToMon
  <2> QED BY <2>2 DEF IsMon
<1> HIDE DEF V, F, one
<1>3. step \in [(1 .. b) \X V -> V]
  BY <1>1
<1>4. PICK f : Runs(f, b, V, one, step)
  <2> HIDE DEF step
  <2> QED BY <1>0, <1>2, <1>3, Recursion
<1>5. f \in [0 .. b -> V] /\ f[0] = one /\ \A k \in 1 .. b : f[k] = step[<<k, f[k - 1]>>]
  <2> HIDE DEF step
  <2> QED BY <1>4 DEF Runs
<1>6. \A k \in 1 .. b : f[k] = F(k, f[k - 1])
  <2> SUFFICES ASSUME NEW k \in 1 .. b PROVE f[k] = F(k, f[k - 1])
    OBVIOUS
  <2>1. f[k - 1] \in V /\ <<k, f[k - 1]>> \in (1 .. b) \X V
    BY <1>0, <1>5
  <2>2. step[<<k, f[k - 1]>>] = F(k, f[k - 1])
    BY <2>1
  <2> HIDE DEF step
  <2> QED BY <1>5, <2>2
<1> HIDE DEF step
<1> DEFINE T(y) == [k \in 0 .. b |-> IF k = 0 THEN one ELSE F(k, y[k - 1])]
           g    == CHOOSE y : y = T(y)
<1>7. f = T(f)
  <2>1. \A k \in 0 .. b : f[k] = T(f)[k]
    BY <1>0, <1>5, <1>6
  <2> QED BY <1>5, <2>1
<1>8. g = T(g)
  <2> HIDE DEF T
  <2> QED BY <1>7
<1>9. bn_mon_exp(v, m, n, e) = g[b]
  BY <1>0 DEF bn_mon_exp, F, ExpStep, ExpBit, one
<1> HIDE DEF g
<1>10. g[0] = one /\ \A k \in 1 .. b : g[k] = F(k, g[k - 1])
  <2>1. \A k \in 0 .. b : g[k] = T(g)[k]
    BY <1>8
  <2> QED BY <1>0, <2>1
<1>11. \A k \in 0 .. b : g[k] = f[k]
  <2> DEFINE P == {k \in 0 .. b : g[k] = f[k]}
  <2>1. 0 \in P
    BY <1>0, <1>5, <1>10
  <2>2. \A k \in 1 .. b : k - 1 \in P => k \in P
    BY <1>0, <1>6, <1>10
  <2> HIDE DEF P
  <2>3. \A k \in 0 .. b : k \in P
    BY <1>0, <2>1, <2>2, Climb
  <2> QED BY <2>3 DEF P
<1>12. bn_mon_exp(v, m, n, e) = f[b]
  BY <1>0, <1>9, <1>11
<1>13. IsExpTable(f, v, m, n, e)
  BY <1>0, <1>5, <1>6, <1>12 DEF IsExpTable, F, V, one
<1> QED BY <1>13

\* One more bit of a scalar.
LEMMA NextBit ==
    ASSUME NEW b \in Nat, NEW e \in Nat, NEW k \in 1 .. b
    PROVE  \E hi \in Nat, lo \in Nat, bit \in {0, 1} :
              /\ hi = e \div Pow(2, b - (k - 1)) /\ lo = e \div Pow(2, b - k)
              /\ bit = (e \div Pow(2, b - k)) % 2 /\ lo = hi + hi + bit
<1>1. PICK i \in Nat : i = b - k /\ b - (k - 1) = i + 1
  OBVIOUS
<1>2. PICK u \in Nat \ {0} : u = Pow(2, i)
  BY PowPositive
<1>3. Pow(2, i + 1) = u * 2
  BY <1>2, PowStep
<1>4. 2 \in Nat \ {0}
  OBVIOUS
<1>5. /\ e \div u = (e \div (u * 2)) * 2 + ((e \div u) % 2)
      /\ (e \div u) % 2 \in 0 .. 1 /\ e \div u \in Nat /\ e \div (u * 2) \in Nat
  <2>1. (e \div u) % 2 \in 0 .. 2 - 1
    BY <1>2, <1>4, NextDigit
  <2>2. e \div u = (e \div (u * 2)) * 2 + ((e \div u) % 2)
    BY <1>2, <1>4, NextDigit
  <2>3. e \div u \in Nat /\ e \div (u * 2) \in Nat
    BY <1>2, <1>4, NextDigit
  <2> QED BY <2>1, <2>2, <2>3
<1>6. PICK hi \in Nat, lo \in Nat, bit \in {0, 1} :
         hi = e \div (u * 2) /\ lo = e \div u /\ bit = (e \div u) % 2
  BY <1>5
<1>7. lo = hi + hi + bit
  BY <1>5, <1>6
<1> QED BY <1>1, <1>2, <1>3, <1>6, <1>7

\* No bit is left of a scalar below the word, before its first.
LEMMA NoBits ==
    ASSUME NEW b \in Nat, NEW e \in 0 .. Pow(2, b) - 1
    PROVE  e \div Pow(2, b - 0) = 0 /\ e \div Pow(2, b - b) = e /\ e \in Nat
<1>1. b - 0 = b /\ b - b = 0 /\ Pow(2, 0) = 1 /\ Pow(2, b) \in Nat \ {0}
  BY PowPositive, PowStep
<1>2. PICK w \in Nat \ {0} : w = Pow(2, b)
  BY <1>1
<1>3. e \div w = 0 /\ e \in Nat
  <2>1. w * 0 + e = e /\ e \in 0 .. w - 1 /\ 0 \in Int /\ e \in Nat
    BY <1>2
  <2>2. (w * 0 + e) \div w = 0
    BY <1>2, <2>1, DivisionIs
  <2> QED BY <2>1, <2>2
<1>4. e \div 1 = e
  BY <1>3
<1> QED BY <1>1, <1>2, <1>3, <1>4

\* bn_mon_exp is a power: after k bits, the power of the first k bits.
LEMMA MonExp ==
    ASSUME NEW n \in Nat, NEW m, IsModulus(m, n), NEW x \in Int, NEW v, IsMon(v, x, m, n),
           NEW e \in 0 .. Pow(Base, n) - 1
    PROVE  IsMon(bn_mon_exp(v, m, n, e), Pow(x, e), m, n)
<1>0. PICK b \in Nat : b = Bits * n /\ Pow(Base, n) = Pow(2, b)
  BY WordBits
<1>1. e \div Pow(2, b - 0) = 0 /\ e \div Pow(2, b - b) = e /\ e \in Nat
  BY <1>0, NoBits
<1>2. v \in 0 .. m - 1
  BY DEF IsMon
<1>3. PICK d : IsExpTable(d, v, m, n, e)
  BY <1>2, ExpTable
<1>4. /\ d \in [0 .. b -> 0 .. m - 1] /\ d[0] = bn_to_mon(1, m, n)
      /\ \A k \in 1 .. b : d[k] = ExpStep(k, d[k - 1], v, m, n, e)
      /\ bn_mon_exp(v, m, n, e) = d[b]
  BY <1>0, <1>3 DEF IsExpTable
<1> DEFINE P == {k \in 0 .. b : IsMon(d[k], Pow(x, e \div Pow(2, b - k)), m, n)}
<1>5. 0 \in P
  <2>1. 1 \in 0 .. m - 1 /\ Pow(x, 0) = 1
    BY ModulusIs, PowStep
  <2>2. IsMon(bn_to_mon(1, m, n), 1, m, n)
    BY <2>1, ToMon
  <2> QED BY <1>1, <1>4, <2>1, <2>2
<1>6. \A k \in 1 .. b : k - 1 \in P => k \in P
  <2> SUFFICES ASSUME NEW k \in 1 .. b, k - 1 \in P PROVE k \in P
    OBVIOUS
  <2>1. PICK hi \in Nat, lo \in Nat, bit \in {0, 1} :
           /\ hi = e \div Pow(2, b - (k - 1)) /\ lo = e \div Pow(2, b - k)
           /\ bit = (e \div Pow(2, b - k)) % 2 /\ lo = hi + hi + bit
    BY <1>1, NextBit
  <2>2. bit = ExpBit(e, k, n)
    BY <1>0, <2>1 DEF ExpBit
  <2>3. PICK u \in Int : u = Pow(x, hi)
    BY <2>1, PowStep
  <2>4. IsMon(d[k - 1], u, m, n)
    BY <2>1, <2>3
  <2> DEFINE t == bn_mon_mul(d[k - 1], d[k - 1], m, n)
  <2>5. IsMon(t, u * u, m, n)
    BY <2>3, <2>4, MonTimes
  <2>6. Pow(x, hi + hi) = u * u
    BY <2>1, <2>3, PowSum
  <2>7. CASE bit = 1
    <3>1. d[k] = bn_mon_mul(t, v, m, n)
      BY <1>4, <2>2, <2>7 DEF ExpStep
    <3> HIDE DEF t
    <3>2. u * u \in Int
      BY <2>3
    <3>3. IsMon(d[k], (u * u) * x, m, n)
      BY <2>5, <3>1, <3>2, MonTimes
    <3>4. hi + hi \in Nat
      BY <2>1
    <3>5. Pow(x, (hi + hi) + 1) = (u * u) * x
      BY <2>6, <3>4, PowStep
    <3>6. lo = (hi + hi) + 1
      BY <2>1, <2>7
    <3>7. IsMon(d[k], Pow(x, lo), m, n)
      BY <3>3, <3>5, <3>6
    <3> QED BY <2>1, <3>7
  <2>8. CASE bit # 1
    <3>1. d[k] = t
      BY <1>4, <2>2, <2>8 DEF ExpStep
    <3>2. lo = hi + hi
      BY <2>1, <2>8
    <3>3. IsMon(d[k], Pow(x, lo), m, n)
      BY <2>5, <2>6, <3>1, <3>2
    <3> QED BY <2>1, <3>3
  <2> QED BY <2>7, <2>8
<1> HIDE DEF P
<1>7. \A k \in 0 .. b : k \in P
  BY <1>5, <1>6, Climb
<1>8. b \in P
  BY <1>7
<1> QED BY <1>1, <1>4, <1>8 DEF P

-----------------------------------------------------------------------------
(* Inverses. *)

\* A prime above two is odd.
LEMMA PrimeModulus ==
    ASSUME NEW n \in Nat, NEW m \in 3 .. Pow(Base, n) - 1, IsPrime(m)
    PROVE  IsModulus(m, n) /\ m \in Nat /\ m > 2
<1>1. PICK w \in Nat \ {0} : w = Pow(Base, n)
  BY BasePow
<1>2. m \in Nat /\ m > 2 /\ 2 \in 2 .. m - 1
  BY <1>1
<1>3. m % 2 # 0
  BY <1>2 DEF IsPrime
<1>4. m % 2 = 1
  BY <1>2, <1>3
<1> QED BY <1>2, <1>4 DEF IsModulus

IsReciprocal(r, x, m) == r \in 0 .. m - 1 /\ Cong(x * r, 1, m)

\* The textbook's reciprocal is an inverse.
LEMMA ReciprocalIs ==
    ASSUME NEW m \in Nat, IsPrime(m), m > 2, NEW x \in Int, ~ Cong(x, 0, m)
    PROVE  IsReciprocal(Reciprocal(x % m, m), x, m)
<1>0. m \in Nat \ {0} /\ m \in Int /\ 1 \in Int /\ 1 % m = 1
  OBVIOUS
<1>1. PICK y \in Int : Cong(x * y, 1, m)
  BY Inverted
<1>2. PICK i \in 0 .. m - 1 : Cong(i, y, m)
  BY <1>0, CongMod
<1>3. PICK a \in 0 .. m - 1 : a = x % m /\ Cong(x, a, m) /\ Cong(a, x, m)
  BY <1>0, CongMod
<1>4. i \in Int /\ a \in Int
  BY <1>0
<1>5. Cong(a * i, x * y, m)
  BY <1>0, <1>1, <1>2, <1>3, <1>4, CongTimes
<1>6. a * i \in Int /\ x * y \in Int
  BY <1>1, <1>4
<1>7. Cong(a * i, 1, m)
  BY <1>0, <1>1, <1>5, <1>6, CongTrans
<1>8. (a * i) % m = 1
  <2>1. (a * i) % m = 1 % m
    BY <1>0, <1>6, <1>7, CongIs
  <2> QED BY <1>0, <2>1
<1>9. PICK r : r = Reciprocal(a, m) /\ r \in 0 .. m - 1 /\ (a * r) % m = 1
  BY <1>8 DEF Reciprocal
<1>10. r \in Int /\ a * r \in Int /\ x * r \in Int
  BY <1>0, <1>4, <1>9
<1>11. Cong(a * r, 1, m)
  <2>1. (a * r) % m = 1 % m
    BY <1>0, <1>9
  <2> QED BY <1>0, <1>10, <2>1, CongIs
<1>12. Cong(x * r, a * r, m)
  <2>1. Cong(r, r, m)
    BY <1>0, <1>10, CongSame
  <2> QED BY <1>0, <1>3, <1>4, <1>10, <2>1, CongTimes
<1>13. Cong(x * r, 1, m)
  BY <1>0, <1>10, <1>11, <1>12, CongTrans
<1> QED BY <1>3, <1>9, <1>13 DEF IsReciprocal

\* Inverses are unique.
LEMMA InverseUnique ==
    ASSUME NEW m \in Nat, IsPrime(m), m > 2, NEW x \in Int, NEW y \in Int, NEW z \in Int,
           Cong(x * y, 1, m), Cong(x * z, 1, m)
    PROVE  Cong(y, z, m)
<1>0. m \in Int /\ 1 \in Int /\ x * y \in Int /\ x * z \in Int
  OBVIOUS
<1>1. ~ Cong(x, 0, m)
  <2> SUFFICES ASSUME Cong(x, 0, m) PROVE FALSE
    OBVIOUS
  <2>1. PICK q \in Int : x = q * m
    <3>1. PICK q \in Int : x = 0 + q * m
      BY DEF Cong
    <3>2. x = q * m
      BY <3>1
    <3> QED BY <3>2
  <2>2. PICK k \in Int : x * y = 1 + k * m
    BY DEF Cong
  <2>3. PICK j \in Int : j = q * y - k
    OBVIOUS
  <2>4. j * m = 1
    <3>1. x * y = (q * y) * m
      BY <2>1
    <3> QED BY <2>2, <2>3, <3>1
  <2>5. CASE j >= 1
    <3>1. j * m >= m
      BY <2>5
    <3> QED BY <2>4, <3>1
  <2>6. CASE j <= 0
    <3>1. j * m <= 0
      BY <2>6
    <3> QED BY <2>4, <3>1
  <2> QED BY <2>3, <2>5, <2>6
<1>2. Cong(1, x * z, m)
  BY <1>0, CongSwap
<1>3. Cong(x * y, x * z, m)
  BY <1>0, <1>2, CongTrans
<1>4. x * y = y * x /\ x * z = z * x
  OBVIOUS
<1>5. Cong(y * x, z * x, m)
  BY <1>3, <1>4
<1> QED BY <1>1, <1>5, Cancel

\* bn_mon_inv is the textbook's reciprocal, and takes zero to zero.
LEMMA MonInv ==
    ASSUME NEW n \in Nat, NEW m, IsModulus(m, n), IsPrime(m), NEW x \in Int, NEW v, IsMon(v, x, m, n)
    PROVE  /\ bn_mon_inv(v, m, n) \in 0 .. m - 1
           /\ ~ Cong(x, 0, m) => IsMon(bn_mon_inv(v, m, n), Reciprocal(x % m, m), m, n)
           /\ x = 0 => bn_mon_inv(v, m, n) = 0
<1>1. PICK w \in Nat \ {0} : w = Pow(Base, n) /\ m \in 1 .. w - 1 /\ m \in Nat \ {0} /\ m > 2
  BY ModulusIs
<1>2. PICK e \in 0 .. w - 1 : e = m - 2 /\ (m - 2) % w = e /\ e \in Nat \ {0}
  <2>1. m - 2 \in 0 .. w - 1 /\ m - 2 \in Nat \ {0} /\ m - 2 \in Nat
    BY <1>1
  <2>2. (w * 0 + (m - 2)) % w = m - 2
    BY <1>1, <2>1, DivisionIs
  <2>3. w * 0 + (m - 2) = m - 2
    BY <1>1, <2>1
  <2> QED BY <2>1, <2>2, <2>3
<1>3. IsMon(bn_mon_inv(v, m, n), Pow(x, e), m, n)
  <2>1. IsMon(bn_mon_exp(v, m, n, e), Pow(x, e), m, n)
    BY <1>1, MonExp
  <2> QED BY <1>1, <1>2, <2>1 DEF bn_mon_inv
<1>4. bn_mon_inv(v, m, n) \in 0 .. m - 1
  BY <1>3 DEF IsMon
<1>5. ASSUME ~ Cong(x, 0, m) PROVE IsMon(bn_mon_inv(v, m, n), Reciprocal(x % m, m), m, n)
  <2>1. Pow(x, e) \in Int /\ Cong(x * Pow(x, e), 1, m)
    BY <1>1, <1>2, <1>5, Inverted
  <2>2. IsReciprocal(Reciprocal(x % m, m), x, m)
    BY <1>1, <1>5, ReciprocalIs
  <2>3. PICK r \in Int : r = Reciprocal(x % m, m) /\ Cong(x * r, 1, m)
    BY <1>1, <2>2 DEF IsReciprocal
  <2>4. Cong(Pow(x, e), r, m)
    BY <1>1, <2>1, <2>3, InverseUnique
  <2> QED BY <1>3, <2>1, <2>3, <2>4, MonCong
<1>6. ASSUME x = 0 PROVE bn_mon_inv(v, m, n) = 0
  <2>1. PICK k \in Nat : e = k + 1
    <3>0. e \in Nat \ {0}
      BY <1>2
    <3>1. e - 1 \in Nat /\ e = (e - 1) + 1
      BY <3>0
    <3> QED BY <3>1
  <2>2. Pow(0, k + 1) = Pow(0, k) * 0 /\ Pow(0, k) \in Int
    <3>1. 0 \in Int
      OBVIOUS
    <3> QED BY <2>1, <3>1, PowStep
  <2>3. Pow(x, e) = 0
    BY <1>6, <2>1, <2>2
  <2>4. IsMon(bn_mon_inv(v, m, n), 0, m, n) /\ 0 \in Int /\ m \in Int
    BY <1>1, <1>3, <2>3
  <2>5. Cong(0, 0, m)
    BY <2>4, CongSame
  <2> QED BY <2>4, <2>5, MonZero
<1> QED BY <1>4, <1>5, <1>6

-----------------------------------------------------------------------------
(* The group of the curve's points, and its multiples. *)

\* The neutral element; sums of points are points and associate.
LEMMA Neutral ==
    ASSUME NEW c, NEW P
    PROVE  TextAdd(c, Infinity, P) = P /\ TextAdd(c, P, Infinity) = P /\ Infinity \in Points(c)
BY DEF TextAdd, Points

\* A sum of points is a point.
LEMMA Closed ==
    ASSUME NEW c, IsGroup(c), NEW P \in Points(c), NEW Q \in Points(c)
    PROVE  TextAdd(c, P, Q) \in Points(c)
BY DEF IsGroup

Associate(c, P, Q, T) == TextAdd(c, TextAdd(c, P, Q), T) = TextAdd(c, P, TextAdd(c, Q, T))

\* Sums of points associate.
LEMMA PointsAssociate ==
    ASSUME NEW c, IsGroup(c), NEW P \in Points(c), NEW Q \in Points(c), NEW T \in Points(c)
    PROVE  Associate(c, P, Q, T)
BY DEF IsGroup, Associate

IsSums(f, c, n, P) ==
    /\ f \in [0 .. n -> Points(c)] /\ f[0] = Infinity
    /\ \A k \in 1 .. n : f[k] = TextAdd(c, f[k - 1], P)

\* The function in the definition of TextMul exists.
LEMMA SumsExist ==
    ASSUME NEW c, IsGroup(c), NEW P \in Points(c), NEW n \in Nat
    PROVE  \E f : IsSums(f, c, n, P) /\ TextMul(c, n, P) = f[n]
<1> DEFINE V == Points(c)
           F(x) == TextAdd(c, x, P)
           step == [q \in (1 .. n) \X V |-> F(q[2])]
<1>1. ASSUME NEW x \in V PROVE F(x) \in V
  BY Closed
<1>2. Infinity \in V
  BY Neutral
<1> HIDE DEF V, F
<1>3. step \in [(1 .. n) \X V -> V]
  BY <1>1
<1>4. PICK f : Runs(f, n, V, Infinity, step)
  <2> HIDE DEF step
  <2> QED BY <1>2, <1>3, Recursion
<1>5. f \in [0 .. n -> V] /\ f[0] = Infinity /\ \A k \in 1 .. n : f[k] = step[<<k, f[k - 1]>>]
  <2> HIDE DEF step
  <2> QED BY <1>4 DEF Runs
<1>6. \A k \in 1 .. n : f[k] = F(f[k - 1])
  <2> SUFFICES ASSUME NEW k \in 1 .. n PROVE f[k] = F(f[k - 1])
    OBVIOUS
  <2>1. f[k - 1] \in V /\ <<k, f[k - 1]>> \in (1 .. n) \X V
    BY <1>5
  <2>2. step[<<k, f[k - 1]>>] = F(f[k - 1])
    BY <2>1
  <2> HIDE DEF step
  <2> QED BY <1>5, <2>2
<1> HIDE DEF step
<1> DEFINE T(y) == [k \in 0 .. n |-> IF k = 0 THEN Infinity ELSE F(y[k - 1])]
           g    == CHOOSE y : y = T(y)
<1>7. f = T(f)
  <2>1. \A k \in 0 .. n : f[k] = T(f)[k]
    BY <1>5, <1>6
  <2> QED BY <1>5, <2>1
<1>8. g = T(g)
  <2> HIDE DEF T
  <2> QED BY <1>7
<1>9. TextMul(c, n, P) = g[n]
  BY DEF TextMul, F
<1> HIDE DEF g
<1>10. g[0] = Infinity /\ \A k \in 1 .. n : g[k] = F(g[k - 1])
  <2>1. \A k \in 0 .. n : g[k] = T(g)[k]
    BY <1>8
  <2> QED BY <2>1
<1>11. \A k \in 0 .. n : g[k] = f[k]
  <2> DEFINE A == {k \in 0 .. n : g[k] = f[k]}
  <2>1. 0 \in A
    BY <1>5, <1>10
  <2>2. \A k \in 1 .. n : k - 1 \in A => k \in A
    BY <1>6, <1>10
  <2> HIDE DEF A
  <2>3. \A k \in 0 .. n : k \in A
    BY <2>1, <2>2, Climb
  <2> QED BY <2>3 DEF A
<1>12. TextMul(c, n, P) = f[n]
  BY <1>9, <1>11
<1>13. IsSums(f, c, n, P)
  BY <1>5, <1>6 DEF IsSums, F, V
<1> QED BY <1>12, <1>13

\* Such a function, on a longer interval too, gives every multiple.
LEMMA SumsAre ==
    ASSUME NEW c, IsGroup(c), NEW P \in Points(c), NEW n \in Nat, NEW f, IsSums(f, c, n, P),
           NEW m \in 0 .. n
    PROVE  TextMul(c, m, P) = f[m]
<1>0. m \in Nat
  OBVIOUS
<1>1. PICK g : IsSums(g, c, m, P) /\ TextMul(c, m, P) = g[m]
  BY <1>0, SumsExist
<1> DEFINE A == {k \in 0 .. m : f[k] = g[k]}
<1>2. 0 \in A
  BY <1>1 DEF IsSums
<1>3. \A k \in 1 .. m : k - 1 \in A => k \in A
  BY <1>1 DEF IsSums
<1> HIDE DEF A
<1>4. \A k \in 0 .. m : k \in A
  BY <1>0, <1>2, <1>3, Climb
<1>5. f[m] = g[m]
  BY <1>4 DEF A
<1> QED BY <1>1, <1>5

NextMul(c, n, P) ==
    /\ TextMul(c, 0, P) = Infinity /\ TextMul(c, n + 1, P) = TextAdd(c, TextMul(c, n, P), P)
    /\ TextMul(c, n, P) \in Points(c)

\* The recurrence of TextMul.
LEMMA MulStep ==
    ASSUME NEW c, IsGroup(c), NEW P \in Points(c), NEW n \in Nat
    PROVE  NextMul(c, n, P)
<1>0. n + 1 \in Nat /\ 0 \in 0 .. n + 1 /\ n \in 0 .. n + 1 /\ n + 1 \in 0 .. n + 1
  OBVIOUS
<1>1. PICK f : IsSums(f, c, n + 1, P)
  BY <1>0, SumsExist
<1>2. TextMul(c, 0, P) = f[0]
  BY <1>0, <1>1, SumsAre
<1>3. TextMul(c, n, P) = f[n]
  BY <1>0, <1>1, SumsAre
<1>4. TextMul(c, n + 1, P) = f[n + 1]
  BY <1>0, <1>1, SumsAre
<1>5. f[0] = Infinity /\ f[n + 1] = TextAdd(c, f[n], P) /\ f[n] \in Points(c)
  BY <1>1 DEF IsSums
<1> QED BY <1>2, <1>3, <1>4, <1>5 DEF NextMul

\* Multiples of a point are points.
LEMMA MulIn ==
    ASSUME NEW c, IsGroup(c), NEW P \in Points(c), NEW n \in Nat
    PROVE  TextMul(c, n, P) \in Points(c)
BY MulStep DEF NextMul

\* Multiples add up.
SumMul(c, m, n, P) == TextMul(c, m + n, P) = TextAdd(c, TextMul(c, m, P), TextMul(c, n, P))

\* Multiples add up, by induction on the second.
LEMMA MulSum ==
    ASSUME NEW c, IsGroup(c), NEW P \in Points(c), NEW m \in Nat, NEW n \in Nat
    PROVE  SumMul(c, m, n, P)
<1> DEFINE A == {k \in 0 .. n : SumMul(c, m, k, P)}
<1>1. 0 \in A
  <2>1. TextMul(c, 0, P) = Infinity
    BY MulStep DEF NextMul
  <2>2. m + 0 = m
    OBVIOUS
  <2> QED BY <2>1, <2>2, Neutral DEF SumMul
<1>2. \A k \in 1 .. n : k - 1 \in A => k \in A
  <2> SUFFICES ASSUME NEW k \in 1 .. n, k - 1 \in A PROVE k \in A
    OBVIOUS
  <2>1. PICK i \in Nat : i = k - 1 /\ k = i + 1 /\ m + i \in Nat /\ m + k = (m + i) + 1
    OBVIOUS
  <2>2. PICK M, I, MI : M = TextMul(c, m, P) /\ I = TextMul(c, i, P) /\ MI = TextMul(c, m + i, P)
    OBVIOUS
  <2>3. MI = TextAdd(c, M, I)
    BY <2>1, <2>2 DEF SumMul
  <2>4. M \in Points(c) /\ I \in Points(c)
    BY <2>1, <2>2, MulIn
  <2>5. TextMul(c, k, P) = TextAdd(c, I, P)
    <3>1. NextMul(c, i, P)
      BY <2>1, MulStep
    <3> QED BY <2>1, <2>2, <3>1 DEF NextMul
  <2>6. TextMul(c, m + k, P) = TextAdd(c, MI, P)
    <3>1. NextMul(c, m + i, P)
      BY <2>1, MulStep
    <3> QED BY <2>1, <2>2, <3>1 DEF NextMul
  <2>7. Associate(c, M, I, P)
    BY <2>4, PointsAssociate
  <2>8. SumMul(c, m, k, P)
    BY <2>2, <2>3, <2>5, <2>6, <2>7 DEF SumMul, Associate
  <2> QED BY <2>8
<1> HIDE DEF A
<1>3. \A k \in 0 .. n : k \in A
  BY <1>1, <1>2, Climb
<1>4. n \in A
  BY <1>3
<1> QED BY <1>4 DEF A

\* Multiples of multiples.
MulMul(c, m, n, P) == TextMul(c, n, TextMul(c, m, P)) = TextMul(c, m * n, P)

\* A multiple of a multiple is a multiple by the product.
LEMMA MulTimes ==
    ASSUME NEW c, IsGroup(c), NEW P \in Points(c), NEW m \in Nat, NEW n \in Nat
    PROVE  MulMul(c, m, n, P)
<1> DEFINE A == {k \in 0 .. n : MulMul(c, m, k, P)}
<1>0. PICK M \in Points(c) : M = TextMul(c, m, P)
  BY MulIn
<1>1. 0 \in A
  <2>1. TextMul(c, 0, P) = Infinity
    BY MulStep DEF NextMul
  <2>2. TextMul(c, 0, M) = Infinity
    BY MulStep DEF NextMul
  <2>3. m * 0 = 0
    OBVIOUS
  <2> QED BY <1>0, <2>1, <2>2, <2>3 DEF MulMul
<1>2. \A k \in 1 .. n : k - 1 \in A => k \in A
  <2> SUFFICES ASSUME NEW k \in 1 .. n, k - 1 \in A PROVE k \in A
    OBVIOUS
  <2>1. PICK i \in Nat : i = k - 1 /\ k = i + 1
    OBVIOUS
  <2>2. PICK j \in Nat : j = m * i /\ m * k = j + m
    BY <2>1
  <2>3. TextMul(c, i, M) = TextMul(c, j, P)
    BY <1>0, <2>1, <2>2 DEF MulMul
  <2>4. TextMul(c, k, M) = TextAdd(c, TextMul(c, i, M), M)
    <3>1. NextMul(c, i, M)
      BY <2>1, MulStep
    <3> QED BY <2>1, <3>1 DEF NextMul
  <2>5. TextMul(c, j + m, P) = TextAdd(c, TextMul(c, j, P), M)
    <3>1. SumMul(c, j, m, P)
      BY <2>2, MulSum
    <3> QED BY <1>0, <3>1 DEF SumMul
  <2>6. MulMul(c, m, k, P)
    BY <1>0, <2>2, <2>3, <2>4, <2>5 DEF MulMul
  <2> QED BY <2>6
<1> HIDE DEF A
<1>3. \A k \in 0 .. n : k \in A
  BY <1>1, <1>2, Climb
<1>4. n \in A
  BY <1>3
<1> QED BY <1>4 DEF A

\* Multiples by numbers that are congruent modulo the point's order are equal.
SameMul(c, m, n, P) == TextMul(c, m, P) = TextMul(c, n, P)

\* Whole multiples of the order add nothing.
LEMMA MulPeriod ==
    ASSUME NEW c, IsGroup(c), NEW P \in Points(c), NEW o \in Nat, TextMul(c, o, P) = Infinity,
           NEW m \in Nat, NEW j \in Nat
    PROVE  SameMul(c, m + j * o, m, P)
<1>1. TextMul(c, j * o, P) = Infinity
  <2> DEFINE A == {k \in 0 .. j : TextMul(c, k * o, P) = Infinity}
  <2>1. 0 \in A
    <3>1. TextMul(c, 0, P) = Infinity /\ 0 * o = 0
      BY MulStep DEF NextMul
    <3> QED BY <3>1
  <2>2. \A k \in 1 .. j : k - 1 \in A => k \in A
    <3> SUFFICES ASSUME NEW k \in 1 .. j, k - 1 \in A PROVE k \in A
      OBVIOUS
    <3>1. PICK i \in Nat : i = (k - 1) * o /\ k * o = i + o
      OBVIOUS
    <3>2. SumMul(c, i, o, P)
      BY <3>1, MulSum
    <3>3. TextMul(c, i, P) = Infinity
      BY <3>1
    <3>4. TextMul(c, k * o, P) = Infinity
      BY <3>1, <3>2, <3>3, Neutral DEF SumMul
    <3> QED BY <3>4
  <2> HIDE DEF A
  <2>3. \A k \in 0 .. j : k \in A
    BY <2>1, <2>2, Climb
  <2>4. j \in A
    BY <2>3
  <2> QED BY <2>4 DEF A
<1>2. PICK i \in Nat : i = j * o
  OBVIOUS
<1>3. SumMul(c, m, i, P)
  BY <1>2, MulSum
<1> QED BY <1>1, <1>2, <1>3, Neutral DEF SumMul, SameMul

\* So multiples depend on the remainder by the order only.
LEMMA MulCong ==
    ASSUME NEW c, IsGroup(c), NEW P \in Points(c), NEW o \in Nat, TextMul(c, o, P) = Infinity,
           NEW m \in Nat, NEW n \in Nat, Cong(m, n, o)
    PROVE  SameMul(c, m, n, P)
<1>1. PICK q \in Int : m = n + q * o
  BY DEF Cong
<1>2. CASE q \in Nat
  BY <1>1, <1>2, MulPeriod
<1>3. CASE q \notin Nat
  <2>1. PICK j \in Nat : j = -q /\ n = m + j * o
    <3>1. -q \in Nat
      BY <1>3
    <3>2. n = m + (-q) * o
      BY <1>1
    <3> QED BY <3>1, <3>2
  <2>2. SameMul(c, m + j * o, m, P)
    BY MulPeriod
  <2> QED BY <2>1, <2>2 DEF SameMul
<1> QED BY <1>2, <1>3

-----------------------------------------------------------------------------
(* The field's elements in Montgomery form. *)

\* What the proofs need of a curve's field, and of the converted curve d.
IsField(c) ==
    /\ IsModulus(c.p, ne) /\ IsPrime(c.p) /\ c.p \in Nat /\ c.p > 2
    /\ c.a \in 0 .. c.p - 1 /\ c.b \in 0 .. c.p - 1 /\ IsGroup(c)

IsConverted(d, c) == d.p = c.p /\ IsMon(d.a, c.a, c.p, ne)

\* v is the Montgomery form of the residue x.
IsElt(v, x, c) == IsMon(v, x, c.p, ne)

\* The sum of two elements.
LEMMA EltAdd ==
    ASSUME NEW c, IsField(c), NEW d, IsConverted(d, c), NEW x \in Int, NEW y \in Int, NEW v, NEW u,
           IsElt(v, x, c), IsElt(u, y, c)
    PROVE  IsElt(elt_add(d, v, u), x + y, c)
<1>1. ne \in Nat /\ IsModulus(c.p, ne) /\ d.p = c.p
  BY DigitsAssumption DEF IsField, IsConverted
<1>2. IsMon(v, x, c.p, ne) /\ IsMon(u, y, c.p, ne)
  BY DEF IsElt
<1> QED BY <1>1, <1>2, MonAdd DEF IsElt, elt_add, We

\* The difference.
LEMMA EltSub ==
    ASSUME NEW c, IsField(c), NEW d, IsConverted(d, c), NEW x \in Int, NEW y \in Int, NEW v, NEW u,
           IsElt(v, x, c), IsElt(u, y, c)
    PROVE  IsElt(elt_sub(d, v, u), x - y, c)
<1>1. ne \in Nat /\ IsModulus(c.p, ne) /\ d.p = c.p
  BY DigitsAssumption DEF IsField, IsConverted
<1>2. IsMon(v, x, c.p, ne) /\ IsMon(u, y, c.p, ne)
  BY DEF IsElt
<1> QED BY <1>1, <1>2, MonSub DEF IsElt, elt_sub, We

\* The product.
LEMMA EltMul ==
    ASSUME NEW c, IsField(c), NEW d, IsConverted(d, c), NEW x \in Int, NEW y \in Int, NEW v, NEW u,
           IsElt(v, x, c), IsElt(u, y, c)
    PROVE  IsElt(elt_mul(d, v, u), x * y, c)
<1>1. ne \in Nat /\ IsModulus(c.p, ne) /\ d.p = c.p
  BY DigitsAssumption DEF IsField, IsConverted
<1>2. IsMon(v, x, c.p, ne) /\ IsMon(u, y, c.p, ne)
  BY DEF IsElt
<1> QED BY <1>1, <1>2, MonTimes DEF IsElt, elt_mul

\* A form stands for every congruent number.
LEMMA EltCong ==
    ASSUME NEW c, IsField(c), NEW x \in Int, NEW y \in Int, NEW v, IsElt(v, x, c), Cong(x, y, c.p)
    PROVE  IsElt(v, y, c)
BY MonCong, DigitsAssumption DEF IsElt, IsField

\* Only zero has the form zero.
LEMMA EltZero ==
    ASSUME NEW c, IsField(c), NEW x \in 0 .. c.p - 1, NEW v, IsElt(v, x, c)
    PROVE  v = 0 <=> x = 0
<1>0. ne \in Nat /\ IsModulus(c.p, ne) /\ c.p \in Nat \ {0} /\ x \in Int
  BY DigitsAssumption DEF IsField
<1>1. v = 0 <=> Cong(x, 0, c.p)
  BY <1>0, MonZero DEF IsElt
<1>2. 0 \in 0 .. c.p - 1
  BY <1>0
<1>3. Cong(x, 0, c.p) => x = 0
  BY <1>0, <1>2, CongSmall
<1>4. Cong(0, 0, c.p)
  BY <1>0, CongSame
<1> QED BY <1>1, <1>3, <1>4

\* elt_inv is the textbook's reciprocal.
LEMMA EltInv ==
    ASSUME NEW c, IsField(c), NEW d, IsConverted(d, c), NEW x \in Int, NEW v, IsElt(v, x, c),
           ~ Cong(x, 0, c.p)
    PROVE  IsElt(elt_inv(d, v), Reciprocal(x % c.p, c.p), c) /\ Reciprocal(x % c.p, c.p) \in Int
<1>0. ne \in Nat /\ IsModulus(c.p, ne) /\ d.p = c.p /\ c.p \in Nat /\ c.p > 2 /\ IsPrime(c.p)
  BY DigitsAssumption DEF IsField, IsConverted
<1>1. IsMon(bn_mon_inv(v, c.p, ne), Reciprocal(x % c.p, c.p), c.p, ne)
  BY <1>0, MonInv DEF IsElt
<1>2. IsReciprocal(Reciprocal(x % c.p, c.p), x, c.p)
  BY <1>0, ReciprocalIs
<1>3. Reciprocal(x % c.p, c.p) \in Int
  BY <1>0, <1>2 DEF IsReciprocal
<1> QED BY <1>0, <1>1, <1>3 DEF IsElt, elt_inv

-----------------------------------------------------------------------------
(* Points in Montgomery form. *)

\* v is the Montgomery form of the pair P.
IsForm(v, P, c) ==
    /\ v \in [x : 0 .. c.p - 1, y : 0 .. c.p - 1]
    /\ IsElt(v.x, P.x, c) /\ IsElt(v.y, P.y, c)

IsPoint(v, P, c) == P \in Points(c) /\ IsForm(v, P, c)

\* A pair of forms is the form of a pair.
LEMMA PairForm ==
    ASSUME NEW c, NEW x, NEW y, NEW v, NEW u, IsElt(v, x, c), IsElt(u, y, c)
    PROVE  IsForm([x |-> v, y |-> u], [x |-> x, y |-> y], c)
<1>1. v \in 0 .. c.p - 1 /\ u \in 0 .. c.p - 1
  BY DEF IsElt, IsMon
<1> QED BY <1>1 DEF IsForm

\* The coordinates of a point, and the equation they satisfy.
LEMMA PointIs ==
    ASSUME NEW c, IsField(c), NEW P \in Points(c)
    PROVE  /\ P.x \in 0 .. c.p - 1 /\ P.y \in 0 .. c.p - 1 /\ P.x \in Int /\ P.y \in Int
           /\ P = [x |-> P.x, y |-> P.y]
           /\ P # Infinity =>
                 (P.y * P.y - (P.x * P.x * P.x + c.a * P.x + c.b)) % c.p = 0
<1>1. c.p \in Nat /\ c.p > 2 /\ 0 \in 0 .. c.p - 1
  BY DEF IsField
<1>2. CASE P = Infinity
  <2>1. P.x = 0 /\ P.y = 0 /\ P = [x |-> P.x, y |-> P.y]
    BY <1>2 DEF Infinity
  <2> QED BY <1>1, <1>2, <2>1
<1>3. CASE P # Infinity
  <2>1. /\ P \in [x : 0 .. c.p - 1, y : 0 .. c.p - 1]
        /\ (P.y * P.y - (P.x * P.x * P.x + c.a * P.x + c.b)) % c.p = 0
    BY <1>3 DEF Points
  <2>2. P.x \in 0 .. c.p - 1 /\ P.y \in 0 .. c.p - 1 /\ P = [x |-> P.x, y |-> P.y]
    BY <2>1
  <2>3. P.x \in Int /\ P.y \in Int
    BY <1>1, <2>2
  <2> QED BY <2>1, <2>2, <2>3
<1> QED BY <1>2, <1>3

\* The pair of zeros stands for infinity only.
LEMMA ZeroForm ==
    ASSUME NEW c, IsField(c), NEW P, NEW v, IsPoint(v, P, c)
    PROVE  v = zero <=> P = Infinity
<1>1. P \in Points(c) /\ v \in [x : 0 .. c.p - 1, y : 0 .. c.p - 1] /\ IsElt(v.x, P.x, c) /\ IsElt(v.y, P.y, c)
  BY DEF IsPoint, IsForm
<1>2. P.x \in 0 .. c.p - 1 /\ P.y \in 0 .. c.p - 1 /\ P = [x |-> P.x, y |-> P.y]
  BY <1>1, PointIs
<1>3. v.x = 0 <=> P.x = 0
  BY <1>1, <1>2, EltZero
<1>4. v.y = 0 <=> P.y = 0
  BY <1>1, <1>2, EltZero
<1>5. v = [x |-> v.x, y |-> v.y]
  BY <1>1
<1>6. v = zero <=> v.x = 0 /\ v.y = 0
  BY <1>5 DEF zero
<1>7. P = Infinity <=> P.x = 0 /\ P.y = 0
  BY <1>2 DEF Infinity
<1> QED BY <1>3, <1>4, <1>6, <1>7

\* zero is a form of infinity.
LEMMA ZeroIs ==
    ASSUME NEW c, IsField(c)
    PROVE  IsPoint(zero, Infinity, c)
<1>0. ne \in Nat /\ IsModulus(c.p, ne) /\ c.p \in Nat \ {0}
  BY DigitsAssumption DEF IsField
<1>1. IsMon(0, 0, c.p, ne)
  <2>1. PICK w \in Nat \ {0} : w = Pow(Base, ne)
    BY <1>0, ModulusIs
  <2>2. 0 * w = 0 /\ 0 \in 0 .. c.p - 1 /\ Cong(0, 0, c.p)
    BY <1>0, <2>1, CongSame
  <2> QED BY <2>1, <2>2 DEF IsMon
<1>2. IsForm([x |-> 0, y |-> 0], [x |-> 0, y |-> 0], c)
  BY <1>1, PairForm DEF IsElt
<1>3. Infinity \in Points(c)
  BY Neutral
<1> QED BY <1>2, <1>3 DEF IsPoint, Infinity, zero

\* The third point of a line of the given slope, mirrored, in the textbook.
TextSum(c, P, Q, slope) ==
    LET x == (slope * slope - P.x - Q.x) % c.p
    IN  [x |-> x, y |-> (slope * (P.x - x) - P.y) % c.p]

\* chord follows the textbook's formula.
LEMMA ChordIs ==
    ASSUME NEW c, IsField(c), NEW d, IsConverted(d, c), NEW P, NEW Q, NEW v, NEW u,
           IsPoint(v, P, c), IsPoint(u, Q, c), NEW l \in Int, NEW s, IsElt(s, l, c)
    PROVE  IsForm(chord(d, v, u, s), TextSum(c, P, Q, l), c)
<1>0. c.p \in Nat \ {0} /\ c.p \in Int
  BY DEF IsField
<1>1. /\ P \in Points(c) /\ Q \in Points(c)
      /\ IsElt(v.x, P.x, c) /\ IsElt(v.y, P.y, c) /\ IsElt(u.x, Q.x, c)
  BY DEF IsPoint, IsForm
<1>2. PICK px \in Int, py \in Int, qx \in Int : px = P.x /\ py = P.y /\ qx = Q.x
  BY <1>1, PointIs
<1>3. PICK x0 \in Int : x0 = l * l - (px + qx)
  OBVIOUS
<1>14. PICK rx : rx = elt_sub(d, elt_mul(d, s, s), elt_add(d, v.x, u.x))
  OBVIOUS
<1>4. IsElt(rx, x0, c)
  <2>1. IsElt(elt_mul(d, s, s), l * l, c)
    BY EltMul
  <2>2. IsElt(elt_add(d, v.x, u.x), px + qx, c)
    BY <1>1, <1>2, EltAdd
  <2>3. l * l \in Int /\ px + qx \in Int
    OBVIOUS
  <2> QED BY <1>3, <1>14, <2>1, <2>2, <2>3, EltSub
<1>5. PICK x1 \in Int : x1 = x0 % c.p /\ Cong(x0, x1, c.p)
  <2>1. x0 % c.p \in 0 .. c.p - 1 /\ Cong(x0, x0 % c.p, c.p)
    BY <1>0, CongMod
  <2>2. x0 % c.p \in Int
    BY <1>0, <2>1
  <2> QED BY <2>1, <2>2
<1>6. IsElt(rx, x1, c)
  BY <1>4, <1>5, EltCong
<1>7. PICK y0 \in Int : y0 = l * (px - x1) - py
  OBVIOUS
<1>15. PICK ry : ry = elt_sub(d, elt_mul(d, s, elt_sub(d, v.x, rx)), v.y)
  OBVIOUS
<1>8. IsElt(ry, y0, c)
  <2>1. IsElt(elt_sub(d, v.x, rx), px - x1, c) /\ px - x1 \in Int
    BY <1>1, <1>2, <1>6, EltSub
  <2>2. IsElt(elt_mul(d, s, elt_sub(d, v.x, rx)), l * (px - x1), c) /\ l * (px - x1) \in Int
    BY <2>1, EltMul
  <2>3. IsElt(v.y, py, c)
    BY <1>1, <1>2
  <2> QED BY <1>7, <1>15, <2>2, <2>3, EltSub
<1>9. PICK y1 \in Int : y1 = y0 % c.p /\ Cong(y0, y1, c.p)
  <2>1. y0 % c.p \in 0 .. c.p - 1 /\ Cong(y0, y0 % c.p, c.p)
    BY <1>0, CongMod
  <2>2. y0 % c.p \in Int
    BY <1>0, <2>1
  <2> QED BY <2>1, <2>2
<1>10. IsElt(ry, y1, c)
  BY <1>8, <1>9, EltCong
<1>11. TextSum(c, P, Q, l) = [x |-> x1, y |-> y1]
  <2>1. l * l - px - qx = x0
    BY <1>3
  <2> QED BY <1>2, <1>5, <1>7, <1>9, <2>1 DEF TextSum
<1>12. chord(d, v, u, s) = [x |-> rx, y |-> ry]
  BY <1>14, <1>15 DEF chord
<1>13. IsForm([x |-> rx, y |-> ry], [x |-> x1, y |-> y1], c)
  BY <1>6, <1>10, PairForm
<1> QED BY <1>11, <1>12, <1>13

\* Numbers with a zero difference are congruent.
LEMMA CongMinus ==
    ASSUME NEW x \in Int, NEW y \in Int, NEW m \in Int, Cong(x - y, 0, m)
    PROVE  Cong(x, y, m)
<1>1. PICK q \in Int : x - y = 0 + q * m
  BY DEF Cong
<1>2. x = y + q * m
  BY <1>1
<1> QED BY <1>2 DEF Cong

\* elt_sub tells whether two elements are equal.
LEMMA EltSubZero ==
    ASSUME NEW c, IsField(c), NEW d, IsConverted(d, c), NEW x \in 0 .. c.p - 1, NEW y \in 0 .. c.p - 1,
           NEW v, NEW u, IsElt(v, x, c), IsElt(u, y, c)
    PROVE  elt_sub(d, v, u) = 0 <=> x = y
<1>0. ne \in Nat /\ IsModulus(c.p, ne) /\ c.p \in Nat /\ x \in Int /\ y \in Int /\ c.p \in Int /\ x - y \in Int
  <2>1. ne \in Nat /\ IsModulus(c.p, ne) /\ c.p \in Nat
    BY DigitsAssumption DEF IsField
  <2> QED BY <2>1
<1>1. PICK z : z = elt_sub(d, v, u)
  OBVIOUS
<1>2. IsMon(z, x - y, c.p, ne)
  BY <1>0, <1>1, EltSub DEF IsElt
<1>3. z = 0 <=> Cong(x - y, 0, c.p)
  BY <1>0, <1>2, MonZero
<1>4. Cong(x - y, 0, c.p) => x = y
  BY <1>0, CongMinus, CongSmall
<1>5. ASSUME x = y PROVE Cong(x - y, 0, c.p)
  <2>1. Cong(0, 0, c.p) /\ x - y = 0
    BY <1>0, <1>5, CongSame
  <2> QED BY <2>1
<1> QED BY <1>1, <1>3, <1>4, <1>5

\* Only zero doubles to zero: the field is not of characteristic two.
LEMMA TwoNotZero ==
    ASSUME NEW c, IsField(c), NEW y \in 0 .. c.p - 1, Cong(y + y, 0, c.p)
    PROVE  y = 0
<1>0. c.p \in Nat /\ c.p > 2 /\ IsPrime(c.p) /\ y \in Int /\ 2 \in Int /\ 2 * y = y + y
  BY DEF IsField
<1>1. Cong(2, 0, c.p) \/ Cong(y, 0, c.p)
  <2>1. Cong(2 * y, 0, c.p)
    BY <1>0
  <2> QED BY <1>0, <2>1, Euclid
<1>2. 2 \in 0 .. c.p - 1 /\ 0 \in 0 .. c.p - 1
  BY <1>0
<1>3. Cong(2, 0, c.p) => 2 = 0
  BY <1>0, <1>2, CongSmall
<1>4. Cong(y, 0, c.p) => y = 0
  BY <1>0, <1>2, CongSmall
<1> QED BY <1>1, <1>3, <1>4

Doubled(v, P, c) == IsPoint(v, TextAdd(c, P, P), c)

\* point_double is the textbook's sum of a point and itself.
LEMMA DoubleIs ==
    ASSUME NEW c, IsField(c), NEW d, IsConverted(d, c), NEW P, NEW v, IsPoint(v, P, c)
    PROVE  Doubled(point_double(d, v), P, c)
<1>0. c.p \in Nat \ {0} /\ c.p \in Int /\ IsGroup(c)
  BY DEF IsField
<1>1. P \in Points(c) /\ IsElt(v.x, P.x, c) /\ IsElt(v.y, P.y, c)
  BY DEF IsPoint, IsForm
<1>2. PICK x \in Int, y \in 0 .. c.p - 1 : x = P.x /\ y = P.y
  BY <1>1, PointIs
<1>3. v.y = 0 <=> y = 0
  BY <1>1, <1>2, EltZero
<1>4. TextAdd(c, P, P) \in Points(c)
  BY <1>0, <1>1, Closed
<1>5. CASE y = 0
  <2>1. point_double(d, v) = zero
    BY <1>3, <1>5 DEF point_double
  <2>2. TextAdd(c, P, P) = Infinity
    <3>1. CASE P = Infinity
      BY <3>1, Neutral
    <3>2. CASE P # Infinity
      <4>1. (P.y + P.y) % c.p = 0
        BY <1>0, <1>2, <1>5
      <4> QED BY <3>2, <4>1 DEF TextAdd
    <3> QED BY <3>1, <3>2
  <2> QED BY <2>1, <2>2, ZeroIs DEF Doubled
<1>6. CASE y # 0
  <2>0. y \in Int /\ y + y \in Int
    BY <1>0
  <2>1. ~ Cong(y + y, 0, c.p)
    BY <1>6, TwoNotZero
  <2>2. PICK r \in Int : /\ r = Reciprocal((y + y) % c.p, c.p)
                         /\ IsElt(elt_inv(d, elt_add(d, v.y, v.y)), r, c)
    <3>1. IsElt(elt_add(d, v.y, v.y), y + y, c)
      BY <1>1, <1>2, <2>0, EltAdd
    <3> QED BY <2>0, <2>1, <3>1, EltInv
  <2>3. PICK a \in Int : a = c.a /\ IsElt(d.a, a, c)
    <3>1. c.a \in Int
      BY <1>0 DEF IsField
    <3>2. IsElt(d.a, c.a, c)
      BY DEF IsConverted, IsElt
    <3> QED BY <3>1, <3>2
  <2> DEFINE xx == elt_mul(d, v.x, v.x)
             n  == elt_add(d, elt_add(d, elt_add(d, xx, xx), xx), d.a)
             s  == elt_mul(d, n, elt_inv(d, elt_add(d, v.y, v.y)))
  <2>4. PICK q \in Int : q = x * x /\ IsElt(xx, q, c)
    <3>1. IsElt(xx, x * x, c)
      BY <1>1, <1>2, EltMul
    <3> QED BY <3>1
  <2>5. IsElt(n, q + q + q + a, c)
    <3>1. IsElt(elt_add(d, xx, xx), q + q, c) /\ q + q \in Int
      BY <2>4, EltAdd
    <3>2. IsElt(elt_add(d, elt_add(d, xx, xx), xx), q + q + q, c) /\ q + q + q \in Int
      BY <2>4, <3>1, EltAdd
    <3> QED BY <2>3, <3>2, EltAdd
  <2>6. PICK l \in Int : l = (q + q + q + a) * r /\ IsElt(s, l, c)
    <3>1. q + q + q + a \in Int
      BY <2>3, <2>4
    <3>2. IsElt(s, (q + q + q + a) * r, c)
      BY <2>2, <2>5, <3>1, EltMul
    <3> QED BY <2>2, <3>1, <3>2
  <2>7. point_double(d, v) = chord(d, v, v, s)
    BY <1>3, <1>6 DEF point_double
  <2>8. IsForm(chord(d, v, v, s), TextSum(c, P, P, l), c)
    BY <2>6, ChordIs
  <2>9. TextAdd(c, P, P) = TextSum(c, P, P, l)
    <3>1. P # Infinity
      BY <1>2, <1>6 DEF Infinity
    <3>2. (P.y + P.y) % c.p # 0
      <4>1. (y + y) % c.p # 0
        BY <1>0, <2>0, <2>1, CongIs
      <4> QED BY <1>2, <4>1
    <3>3. l = (3 * P.x * P.x + c.a) * Reciprocal((2 * P.y) % c.p, c.p)
      <4>1. 2 * y = y + y /\ 3 * x * x + a = q + q + q + a
        BY <2>0, <2>3, <2>4
      <4> QED BY <1>2, <2>2, <2>3, <2>6, <4>1
    <3>4. TextAdd(c, P, P) = TextSum(c, P, P, (3 * P.x * P.x + c.a) * Reciprocal((2 * P.y) % c.p, c.p))
      BY <3>1, <3>2 DEF TextAdd, TextSum
    <3> QED BY <3>3, <3>4
  <2> QED BY <1>4, <2>7, <2>8, <2>9 DEF Doubled, IsPoint
<1> QED BY <1>5, <1>6

\* Two points with the same first coordinate are equal or opposite.
LEMMA SameColumn ==
    ASSUME NEW c, IsField(c), NEW P \in Points(c), NEW Q \in Points(c),
           P # Infinity, Q # Infinity, P.x = Q.x, P.y # Q.y
    PROVE  (P.y + Q.y) % c.p = 0
<1>0. c.p \in Nat \ {0} /\ c.p \in Nat /\ c.p \in Int /\ IsPrime(c.p) /\ c.a \in Int /\ c.b \in Int
  <2>1. c.p \in Nat /\ c.p > 2 /\ IsPrime(c.p) /\ c.a \in 0 .. c.p - 1 /\ c.b \in 0 .. c.p - 1
    BY DEF IsField
  <2> QED BY <2>1
<1>1. PICK x \in Int, y \in 0 .. c.p - 1, z \in 0 .. c.p - 1 : x = P.x /\ x = Q.x /\ y = P.y /\ z = Q.y
  BY PointIs
<1>2. y \in Int /\ z \in Int
  BY <1>0
<1>3. PICK e \in Int : e = x * x * x + c.a * x + c.b
  <2>1. c.a * x \in Int /\ x * x * x \in Int
    BY <1>0
  <2> QED BY <1>0, <2>1
<1>4. (y * y - e) % c.p = 0 /\ (z * z - e) % c.p = 0
  <2>1. (P.y * P.y - (P.x * P.x * P.x + c.a * P.x + c.b)) % c.p = 0
    BY PointIs
  <2>2. (Q.y * Q.y - (Q.x * Q.x * Q.x + c.a * Q.x + c.b)) % c.p = 0
    BY PointIs
  <2> QED BY <1>1, <1>3, <2>1, <2>2
<1>5. PICK yy \in Int, zz \in Int : yy = y * y /\ zz = z * z
  BY <1>2
<1>6. Cong(yy, e, c.p) /\ Cong(zz, e, c.p)
  BY <1>0, <1>4, <1>5, CongIs
<1>7. Cong(yy - zz, e - e, c.p)
  BY <1>0, <1>6, CongSum
<1>8. Cong((y - z) * (y + z), 0, c.p)
  <2>1. yy - zz = (y - z) * (y + z) /\ e - e = 0
    BY <1>2, <1>5
  <2> QED BY <1>7, <2>1
<1>9. Cong(y - z, 0, c.p) \/ Cong(y + z, 0, c.p)
  <2>1. y - z \in Int /\ y + z \in Int
    BY <1>2
  <2> QED BY <1>0, <1>8, <2>1, Euclid
<1>10. ~ Cong(y - z, 0, c.p)
  <2> SUFFICES ASSUME Cong(y - z, 0, c.p) PROVE FALSE
    OBVIOUS
  <2>1. (y - z) % c.p = 0
    <3>1. y - z \in Int
      BY <1>2
    <3> QED BY <1>0, <3>1, CongIs
  <2>2. Cong(y, z, c.p)
    BY <1>0, <1>2, <2>1, CongIs
  <2>3. y = z
    BY <1>0, <2>2, CongSmall
  <2> QED BY <1>1, <2>3
<1>11. (y + z) % c.p = 0
  <2>1. y + z \in Int
    BY <1>2
  <2> QED BY <1>0, <1>9, <1>10, <2>1, CongIs
<1> QED BY <1>1, <1>11

Added(v, P, Q, c) == IsPoint(v, TextAdd(c, P, Q), c)

\* point_add is the textbook's sum, also of equal, opposite and infinite points.
LEMMA AddPoints ==
    ASSUME NEW c, IsField(c), NEW d, IsConverted(d, c), NEW P, NEW Q, NEW v, NEW u,
           IsPoint(v, P, c), IsPoint(u, Q, c)
    PROVE  Added(point_add(d, v, u), P, Q, c)
<1>0. c.p \in Nat \ {0} /\ c.p \in Int /\ IsGroup(c)
  BY DEF IsField
<1>1. /\ P \in Points(c) /\ IsElt(v.x, P.x, c) /\ IsElt(v.y, P.y, c)
      /\ Q \in Points(c) /\ IsElt(u.x, Q.x, c) /\ IsElt(u.y, Q.y, c)
  BY DEF IsPoint, IsForm
<1>2. v = zero <=> P = Infinity
  BY ZeroForm
<1>3. u = zero <=> Q = Infinity
  BY ZeroForm
<1>4. TextAdd(c, P, Q) \in Points(c)
  BY <1>0, <1>1, Closed
<1>5. CASE P = Infinity
  <2>1. point_add(d, v, u) = u
    BY <1>2, <1>5 DEF point_add
  <2>2. TextAdd(c, P, Q) = Q
    BY <1>5, Neutral
  <2> QED BY <2>1, <2>2 DEF Added
<1>6. CASE P # Infinity /\ Q = Infinity
  <2>1. point_add(d, v, u) = v
    BY <1>2, <1>3, <1>6 DEF point_add
  <2>2. TextAdd(c, P, Q) = P
    BY <1>6, Neutral
  <2> QED BY <2>1, <2>2 DEF Added
<1>7. CASE P # Infinity /\ Q # Infinity
  <2>1. PICK px \in 0 .. c.p - 1, py \in 0 .. c.p - 1, qx \in 0 .. c.p - 1, qy \in 0 .. c.p - 1 :
           px = P.x /\ py = P.y /\ qx = Q.x /\ qy = Q.y
    BY <1>1, PointIs
  <2>2. px \in Int /\ py \in Int /\ qx \in Int /\ qy \in Int
    BY <1>0
  <2>3. /\ IsElt(v.x, px, c) /\ IsElt(v.y, py, c) /\ IsElt(u.x, qx, c) /\ IsElt(u.y, qy, c)
        /\ v # zero /\ u # zero
    BY <1>1, <1>2, <1>3, <1>7, <2>1
  <2>4. elt_sub(d, u.x, v.x) = 0 <=> qx = px
    BY <2>3, EltSubZero
  <2>5. elt_sub(d, u.y, v.y) = 0 <=> qy = py
    BY <2>3, EltSubZero
  <2>6. CASE qx = px /\ qy = py
    <3>1. P = Q
      <4>1. P = [x |-> P.x, y |-> P.y]
        BY <1>1, PointIs
      <4>2. Q = [x |-> Q.x, y |-> Q.y]
        BY <1>1, PointIs
      <4> QED BY <2>1, <2>6, <4>1, <4>2
    <3>2. point_add(d, v, u) = point_double(d, v)
      BY <2>3, <2>4, <2>5, <2>6 DEF point_add
    <3>3. Doubled(point_double(d, v), P, c)
      BY DoubleIs
    <3> QED BY <3>1, <3>2, <3>3 DEF Doubled, Added
  <2>7. CASE qx = px /\ qy # py
    <3>1. point_add(d, v, u) = zero
      BY <2>3, <2>4, <2>5, <2>7 DEF point_add
    <3>2. (P.y + Q.y) % c.p = 0
      BY <1>1, <1>7, <2>1, <2>7, SameColumn
    <3>3. TextAdd(c, P, Q) = Infinity
      BY <1>7, <2>1, <2>7, <3>2 DEF TextAdd
    <3> QED BY <3>1, <3>3, ZeroIs DEF Added
  <2>8. CASE qx # px
    <3>1. qx - px \in Int /\ qy - py \in Int
      BY <2>2
    <3>2. ~ Cong(qx - px, 0, c.p)
      <4>1. ~ Cong(qx, px, c.p)
        BY <1>0, <2>8, CongSmall
      <4> QED BY <1>0, <2>2, <4>1, CongMinus
    <3> DEFINE dx == elt_sub(d, u.x, v.x)
               dy == elt_sub(d, u.y, v.y)
               s  == elt_mul(d, elt_inv(d, dx), dy)
    <3>3. IsElt(dx, qx - px, c)
      BY <2>2, <2>3, EltSub
    <3>4. IsElt(dy, qy - py, c)
      BY <2>2, <2>3, EltSub
    <3>5. PICK r \in Int : r = Reciprocal((qx - px) % c.p, c.p) /\ IsElt(elt_inv(d, dx), r, c)
      BY <3>1, <3>2, <3>3, EltInv
    <3>6. PICK l \in Int : l = r * (qy - py) /\ IsElt(s, l, c)
      <4>1. IsElt(s, r * (qy - py), c)
        BY <3>1, <3>4, <3>5, EltMul
      <4> QED BY <3>1, <3>5, <4>1
    <3>7. point_add(d, v, u) = chord(d, v, u, s)
      BY <2>3, <2>4, <2>8 DEF point_add
    <3>8. IsForm(chord(d, v, u, s), TextSum(c, P, Q, l), c)
      BY <3>6, ChordIs
    <3>9. TextAdd(c, P, Q) = TextSum(c, P, Q, l)
      <4>1. l = (Q.y - P.y) * Reciprocal((Q.x - P.x) % c.p, c.p)
        <5>1. r * (qy - py) = (qy - py) * r
          BY <2>2
        <5> QED BY <2>1, <3>5, <3>6, <5>1
      <4>2. TextAdd(c, P, Q) = TextSum(c, P, Q, (Q.y - P.y) * Reciprocal((Q.x - P.x) % c.p, c.p))
        BY <1>7, <2>1, <2>8 DEF TextAdd, TextSum
      <4> QED BY <4>1, <4>2
    <3> QED BY <1>4, <3>7, <3>8, <3>9 DEF Added, IsPoint
  <2> QED BY <2>6, <2>7, <2>8
<1> QED BY <1>5, <1>6, <1>7

-----------------------------------------------------------------------------
(* Multiples of points. *)

MulPointStep(d, k, x, e, v) ==
    LET y == point_double(d, x)
    IN  IF ExpBit(e, k, ns) = 1 THEN point_add(d, y, v) ELSE y

\* The Montgomery forms of the curve's points.
Forms(c) == {v \in [x : 0 .. c.p - 1, y : 0 .. c.p - 1] : \E P \in Points(c) : IsPoint(v, P, c)}

\* The form of a point is a form.
LEMMA FormsAre ==
    ASSUME NEW c, NEW P, NEW v, IsPoint(v, P, c)
    PROVE  v \in Forms(c)
BY DEF IsPoint, IsForm, Forms

IsMulPointTable(f, d, e, v, c) ==
    /\ f \in [0 .. Bits * ns -> Forms(c)] /\ f[0] = zero
    /\ \A k \in 1 .. Bits * ns : f[k] = MulPointStep(d, k, f[k - 1], e, v)
    /\ point_mul(d, e, v) = f[Bits * ns]

\* The digits and bits of a scalar.
LEMMA ScalarWord ==
    ns \in Nat /\ Ws \in Nat \ {0} /\ Ws = Pow(Base, ns) /\ Bits * ns \in Nat /\ Ws = Pow(2, Bits * ns)
<1>1. ns \in Nat
  BY DigitsAssumption DEF ns
<1> QED BY <1>1, BasePow, WordBits DEF Ws

\* The function in the definition of point_mul exists.
LEMMA MulPointTable ==
    ASSUME NEW c, IsField(c), NEW d, IsConverted(d, c), NEW P, NEW v, IsPoint(v, P, c), NEW e
    PROVE  \E f : IsMulPointTable(f, d, e, v, c)
<1>0. PICK b \in Nat : b = Bits * ns
  BY ScalarWord
<1> DEFINE V == Forms(c)
           F(k, x) == MulPointStep(d, k, x, e, v)
           step == [q \in (1 .. b) \X V |-> F(q[1], q[2])]
<1>1. ASSUME NEW k, NEW x \in V PROVE F(k, x) \in V
  <2>1. PICK X : IsPoint(x, X, c)
    BY DEF Forms
  <2>2. PICK Y : IsPoint(point_double(d, x), Y, c)
    <3>1. Doubled(point_double(d, x), X, c)
      BY <2>1, DoubleIs
    <3> QED BY <3>1 DEF Doubled
  <2>3. PICK Z : IsPoint(point_add(d, point_double(d, x), v), Z, c)
    <3>1. Added(point_add(d, point_double(d, x), v), Y, P, c)
      BY <2>2, AddPoints
    <3> QED BY <3>1 DEF Added
  <2> QED BY <2>2, <2>3, FormsAre DEF MulPointStep
<1>2. zero \in V
  BY ZeroIs, FormsAre
<1> HIDE DEF V, F
<1>3. step \in [(1 .. b) \X V -> V]
  BY <1>1
<1>4. PICK f : Runs(f, b, V, zero, step)
  <2> HIDE DEF step
  <2> QED BY <1>0, <1>2, <1>3, Recursion
<1>5. f \in [0 .. b -> V] /\ f[0] = zero /\ \A k \in 1 .. b : f[k] = step[<<k, f[k - 1]>>]
  <2> HIDE DEF step
  <2> QED BY <1>4 DEF Runs
<1>6. \A k \in 1 .. b : f[k] = F(k, f[k - 1])
  <2> SUFFICES ASSUME NEW k \in 1 .. b PROVE f[k] = F(k, f[k - 1])
    OBVIOUS
  <2>1. f[k - 1] \in V /\ <<k, f[k - 1]>> \in (1 .. b) \X V
    BY <1>0, <1>5
  <2>2. step[<<k, f[k - 1]>>] = F(k, f[k - 1])
    BY <2>1
  <2> HIDE DEF step
  <2> QED BY <1>5, <2>2
<1> HIDE DEF step
<1> DEFINE T(y) == [k \in 0 .. b |-> IF k = 0 THEN zero ELSE F(k, y[k - 1])]
           g    == CHOOSE y : y = T(y)
<1>7. f = T(f)
  <2>1. \A k \in 0 .. b : f[k] = T(f)[k]
    BY <1>0, <1>5, <1>6
  <2> QED BY <1>5, <2>1
<1>8. g = T(g)
  <2> HIDE DEF T
  <2> QED BY <1>7
<1>9. point_mul(d, e, v) = g[b]
  BY <1>0 DEF point_mul, F, MulPointStep, ExpBit
<1> HIDE DEF g
<1>10. g[0] = zero /\ \A k \in 1 .. b : g[k] = F(k, g[k - 1])
  <2>1. \A k \in 0 .. b : g[k] = T(g)[k]
    BY <1>8
  <2> QED BY <1>0, <2>1
<1>11. \A k \in 0 .. b : g[k] = f[k]
  <2> DEFINE A == {k \in 0 .. b : g[k] = f[k]}
  <2>1. 0 \in A
    BY <1>0, <1>5, <1>10
  <2>2. \A k \in 1 .. b : k - 1 \in A => k \in A
    BY <1>0, <1>6, <1>10
  <2> HIDE DEF A
  <2>3. \A k \in 0 .. b : k \in A
    BY <1>0, <2>1, <2>2, Climb
  <2> QED BY <2>3 DEF A
<1>12. point_mul(d, e, v) = f[b]
  BY <1>0, <1>9, <1>11
<1>13. IsMulPointTable(f, d, e, v, c)
  BY <1>0, <1>5, <1>6, <1>12 DEF IsMulPointTable, F, V
<1> QED BY <1>13

Multiplied(v, n, P, c) == IsPoint(v, TextMul(c, n, P), c)

\* point_mul is the textbook's multiple: after k bits, that by the first k bits.
LEMMA MulPoint ==
    ASSUME NEW c, IsField(c), NEW d, IsConverted(d, c), NEW P, NEW v, IsPoint(v, P, c), NEW e \in 0 .. Ws - 1
    PROVE  Multiplied(point_mul(d, e, v), e, P, c)
<1>0. PICK b \in Nat : b = Bits * ns /\ Ws = Pow(2, b)
  BY ScalarWord
<1>1. e \div Pow(2, b - 0) = 0 /\ e \div Pow(2, b - b) = e /\ e \in Nat
  BY <1>0, NoBits
<1>2. P \in Points(c) /\ IsGroup(c)
  BY DEF IsPoint, IsField
<1>3. PICK f : IsMulPointTable(f, d, e, v, c)
  BY MulPointTable
<1>4. /\ f[0] = zero
      /\ \A k \in 1 .. b : f[k] = MulPointStep(d, k, f[k - 1], e, v)
      /\ point_mul(d, e, v) = f[b]
  BY <1>0, <1>3 DEF IsMulPointTable
<1> DEFINE A == {k \in 0 .. b : Multiplied(f[k], e \div Pow(2, b - k), P, c)}
<1>5. 0 \in A
  <2>1. TextMul(c, 0, P) = Infinity
    BY <1>2, MulStep DEF NextMul
  <2> QED BY <1>1, <1>4, <2>1, ZeroIs DEF Multiplied
<1>6. \A k \in 1 .. b : k - 1 \in A => k \in A
  <2> SUFFICES ASSUME NEW k \in 1 .. b, k - 1 \in A PROVE k \in A
    OBVIOUS
  <2>1. PICK hi \in Nat, lo \in Nat, bit \in {0, 1} :
           /\ hi = e \div Pow(2, b - (k - 1)) /\ lo = e \div Pow(2, b - k)
           /\ bit = (e \div Pow(2, b - k)) % 2 /\ lo = hi + hi + bit
    BY <1>1, NextBit
  <2>2. bit = ExpBit(e, k, ns)
    BY <1>0, <2>1 DEF ExpBit
  <2>3. PICK X, y : X = TextMul(c, hi, P) /\ y = point_double(d, f[k - 1])
    OBVIOUS
  <2>4. IsPoint(f[k - 1], X, c)
    BY <2>1, <2>3 DEF Multiplied
  <2>5. IsPoint(y, TextAdd(c, X, X), c)
    BY <2>3, <2>4, DoubleIs DEF Doubled
  <2>6. TextMul(c, hi + hi, P) = TextAdd(c, X, X)
    <3>1. SumMul(c, hi, hi, P)
      BY <1>2, <2>1, MulSum
    <3> QED BY <2>3, <3>1 DEF SumMul
  <2>7. CASE bit = 1
    <3>1. f[k] = point_add(d, y, v)
      BY <1>4, <2>2, <2>3, <2>7 DEF MulPointStep
    <3>2. IsPoint(f[k], TextAdd(c, TextAdd(c, X, X), P), c)
      <4>1. Added(point_add(d, y, v), TextAdd(c, X, X), P, c)
        BY <2>5, AddPoints
      <4> QED BY <3>1, <4>1 DEF Added
    <3>3. TextMul(c, (hi + hi) + 1, P) = TextAdd(c, TextAdd(c, X, X), P)
      <4>1. hi + hi \in Nat
        BY <2>1
      <4>2. NextMul(c, hi + hi, P)
        BY <1>2, <4>1, MulStep
      <4> QED BY <2>6, <4>2 DEF NextMul
    <3>4. lo = (hi + hi) + 1
      BY <2>1, <2>7
    <3>5. Multiplied(f[k], lo, P, c)
      BY <3>2, <3>3, <3>4 DEF Multiplied
    <3> QED BY <2>1, <3>5
  <2>8. CASE bit # 1
    <3>1. f[k] = y
      BY <1>4, <2>2, <2>3, <2>8 DEF MulPointStep
    <3>2. lo = hi + hi
      BY <2>1, <2>8
    <3>3. Multiplied(f[k], lo, P, c)
      BY <2>5, <2>6, <3>1, <3>2 DEF Multiplied
    <3> QED BY <2>1, <3>3
  <2> QED BY <2>7, <2>8
<1> HIDE DEF A
<1>7. \A k \in 0 .. b : k \in A
  BY <1>5, <1>6, Climb
<1>8. b \in A
  BY <1>7
<1> QED BY <1>1, <1>4, <1>8 DEF A

-----------------------------------------------------------------------------
(* The curves of the table, and scalars in Montgomery form. *)

\* What the proofs need of a curve's order and generator, and of the converted d.
IsOrder(d, c) ==
    /\ IsModulus(c.N, ns) /\ IsPrime(c.N) /\ c.N \in Nat /\ c.N > 2
    /\ d.N = c.N /\ d.p = c.p
    /\ c.G \in Points(c) /\ TextMul(c, c.N, c.G) = Infinity /\ IsPoint(d.G, c.G, c)

\* A curve of the table, converted by ecdsa_set_curve.
LEMMA CurveIs ==
    ASSUME NEW c \in Curve, IsCurve(c)
    PROVE  IsField(c) /\ IsConverted(Converted(c), c) /\ IsOrder(Converted(c), c)
<1>0. c.p \in Nat /\ c.N \in Nat /\ c.a \in Nat /\ c.b \in Nat /\ ne \in Nat /\ ns \in Nat
  BY DigitsAssumption, ScalarWord DEF Curve
<1>1. We \in Nat \ {0}
  BY <1>0, BasePow DEF We
<1>2. IsModulus(c.p, ne) /\ c.p > 2 /\ IsPrime(c.p)
  <2>1. c.p \in 5 .. We - 1 /\ IsPrime(c.p)
    BY DEF IsCurve
  <2>2. c.p \in 3 .. We - 1
    BY <1>0, <1>1, <2>1
  <2> QED BY <1>0, <2>1, <2>2, PrimeModulus DEF We
<1>3. IsModulus(c.N, ns) /\ c.N > 2 /\ IsPrime(c.N)
  <2>1. c.N \in 3 .. Ws - 1 /\ IsPrime(c.N)
    BY DEF IsCurve
  <2> QED BY <1>0, <2>1, PrimeModulus DEF Ws
<1>4. c.a \in 0 .. c.p - 1 /\ c.b \in 0 .. c.p - 1 /\ IsGroup(c)
  <2>1. c.a \in 0 .. c.p - 1 /\ c.b \in 1 .. c.p - 1 /\ IsGroup(c)
    BY DEF IsCurve
  <2> QED BY <1>0, <2>1
<1>5. IsField(c)
  BY <1>0, <1>2, <1>4 DEF IsField
<1> DEFINE d == Converted(c)
<1>6. /\ d.p = c.p /\ d.N = c.N /\ d.a = bn_to_mon(c.a, c.p, ne)
      /\ d.G = [x |-> bn_to_mon(c.G.x, c.p, ne), y |-> bn_to_mon(c.G.y, c.p, ne)]
  BY DEF Converted, point_to_mon, Curve
<1> HIDE DEF d
<1>7. IsConverted(d, c)
  <2>1. IsMon(bn_to_mon(c.a, c.p, ne), c.a, c.p, ne)
    BY <1>0, <1>2, <1>4, ToMon
  <2> QED BY <1>6, <2>1 DEF IsConverted
<1>8. c.G \in Points(c) /\ TextMul(c, c.N, c.G) = Infinity
  BY DEF IsCurve
<1>9. IsPoint(d.G, c.G, c)
  <2>1. c.G.x \in 0 .. c.p - 1 /\ c.G.y \in 0 .. c.p - 1 /\ c.G = [x |-> c.G.x, y |-> c.G.y]
    BY <1>5, <1>8, PointIs
  <2>2. IsElt(bn_to_mon(c.G.x, c.p, ne), c.G.x, c)
    BY <1>0, <1>2, <2>1, ToMon DEF IsElt
  <2>3. IsElt(bn_to_mon(c.G.y, c.p, ne), c.G.y, c)
    BY <1>0, <1>2, <2>1, ToMon DEF IsElt
  <2>4. IsForm(d.G, [x |-> c.G.x, y |-> c.G.y], c)
    BY <1>6, <2>2, <2>3, PairForm
  <2> QED BY <1>8, <2>1, <2>4 DEF IsPoint
<1>10. IsOrder(d, c)
  BY <1>0, <1>3, <1>6, <1>8, <1>9 DEF IsOrder
<1> QED BY <1>5, <1>7, <1>10 DEF d

\* point_to_mon and point_from_mon.
LEMMA PointToMon ==
    ASSUME NEW c, IsField(c), NEW d, d.p = c.p, NEW P \in Points(c)
    PROVE  IsPoint(point_to_mon(d, P), P, c)
<1>0. IsModulus(c.p, ne) /\ ne \in Nat
  BY DigitsAssumption DEF IsField
<1>1. P.x \in 0 .. c.p - 1 /\ P.y \in 0 .. c.p - 1 /\ P = [x |-> P.x, y |-> P.y]
  BY PointIs
<1>2. IsElt(bn_to_mon(P.x, c.p, ne), P.x, c)
  BY <1>0, <1>1, ToMon DEF IsElt
<1>3. IsElt(bn_to_mon(P.y, c.p, ne), P.y, c)
  BY <1>0, <1>1, ToMon DEF IsElt
<1>4. IsForm(point_to_mon(d, P), [x |-> P.x, y |-> P.y], c)
  BY <1>2, <1>3, PairForm DEF point_to_mon
<1> QED BY <1>1, <1>4 DEF IsPoint

\* The first coordinate comes back from Montgomery form, and fits a scalar.
LEMMA Coordinate ==
    ASSUME NEW c, IsField(c), NEW d, d.p = c.p, NEW P, NEW v, IsPoint(v, P, c)
    PROVE  point_from_mon(d, v).x = P.x /\ P.x \in 0 .. c.p - 1 /\ P.x \in 0 .. Ws - 1
<1>0. IsModulus(c.p, ne) /\ ne \in Nat /\ c.p \in Nat \ {0}
  BY DigitsAssumption DEF IsField
<1>1. P \in Points(c) /\ IsMon(v.x, P.x, c.p, ne)
  BY DEF IsPoint, IsForm, IsElt
<1>2. P.x \in 0 .. c.p - 1 /\ P.x \in Int
  BY <1>1, PointIs
<1>3. bn_from_mon(v.x, c.p, ne) = P.x % c.p
  BY <1>0, <1>1, <1>2, FromMon
<1>4. PICK x \in 0 .. c.p - 1 : x = P.x
  BY <1>2
<1>5. x % c.p = x
  BY <1>0
<1>6. point_from_mon(d, v).x = P.x
  BY <1>3, <1>4, <1>5 DEF point_from_mon
<1>7. PICK w \in Nat \ {0} : w = Pow(Base, ne) /\ c.p \in 1 .. w - 1
  BY <1>0, ModulusIs
<1>8. Ws = w * Base
  BY <1>0, <1>7, PowStep, BaseAssumption DEF Ws, ns
<1>9. w * Base >= w
  BY <1>7, BaseAssumption
<1>10. x \in 0 .. Ws - 1
  BY <1>0, <1>7, <1>8, <1>9, ScalarWord
<1> QED BY <1>2, <1>4, <1>6, <1>10

\* One subtraction reduces what is below twice the modulus.
LEMMA ReduceIs ==
    ASSUME NEW m \in Nat \ {0}, NEW x \in Nat, x < 2 * m
    PROVE  /\ bn_reduce(x, m) = x % m /\ bn_reduce(x, m) \in 0 .. m - 1
           /\ Cong(bn_reduce(x, m), x, m)
<1>1. x \in Int /\ m \in Int
  OBVIOUS
<1>2. x % m \in 0 .. m - 1 /\ Cong(x % m, x, m)
  BY <1>1, CongMod
<1>3. bn_reduce(x, m) = x % m
  <2>1. CASE x < m
    <3>1. x % m = x
      BY <2>1
    <3> QED BY <2>1, <3>1 DEF bn_reduce
  <2>2. CASE x >= m
    <3>1. m * 1 + (x - m) = x /\ x - m \in 0 .. m - 1 /\ 1 \in Int
      BY <2>2
    <3>2. (m * 1 + (x - m)) % m = x - m
      BY <3>1, DivisionIs
    <3> QED BY <2>2, <3>1, <3>2 DEF bn_reduce
  <2> QED BY <2>1, <2>2
<1> QED BY <1>2, <1>3

\* v is the Montgomery form of the scalar x.
IsScalar(v, x, c) == IsMon(v, x, c.N, ns)

\* A reduced scalar in Montgomery form.
LEMMA ToN ==
    ASSUME NEW c, NEW d, IsOrder(d, c), NEW x \in 0 .. c.N - 1
    PROVE  IsScalar(toN(d, x), x, c)
BY ToMon, ScalarWord DEF IsScalar, toN, IsOrder

\* One that a subtraction reduces first.
LEMMA ToNReduced ==
    ASSUME NEW c, NEW d, IsOrder(d, c), NEW x \in Nat, x < 2 * c.N
    PROVE  IsScalar(toN(d, bn_reduce(x, d.N)), x, c)
<1>0. c.N \in Nat \ {0} /\ d.N = c.N /\ IsModulus(c.N, ns) /\ ns \in Nat
  BY ScalarWord DEF IsOrder
<1>1. PICK y \in 0 .. c.N - 1 : y = bn_reduce(x, c.N) /\ Cong(y, x, c.N)
  BY <1>0, ReduceIs
<1>2. y \in Int /\ x \in Int
  BY <1>0
<1>3. IsScalar(toN(d, y), y, c)
  BY ToN
<1> QED BY <1>0, <1>1, <1>2, <1>3, MonCong DEF IsScalar

\* The product of two scalars.
LEMMA MulN ==
    ASSUME NEW c, NEW d, IsOrder(d, c), NEW x \in Int, NEW y \in Int, NEW v, NEW u,
           IsScalar(v, x, c), IsScalar(u, y, c)
    PROVE  IsScalar(mulN(d, v, u), x * y, c)
BY MonTimes, ScalarWord DEF IsScalar, mulN, IsOrder

\* A scalar taken back.
LEMMA FromN ==
    ASSUME NEW c, NEW d, IsOrder(d, c), NEW x \in Int, NEW v, IsScalar(v, x, c)
    PROVE  fromN(d, v) = x % c.N
BY FromMon, ScalarWord DEF IsScalar, fromN, IsOrder

\* Whatever the operands, the results have ns digits; a reduced left factor
\* gives a reduced product.
Fits(v) == v \in 0 .. Ws - 1

\* The operations on scalars never leave their digits.
LEMMA FitsOps ==
    ASSUME NEW c, NEW d, IsOrder(d, c), NEW v, NEW u, Fits(v), Fits(u)
    PROVE  /\ Fits(toN(d, v)) /\ Fits(fromN(d, v)) /\ Fits(mulN(d, v, u)) /\ Fits(bn_add(v, u, d.N, Ws))
           /\ v < c.N => fromN(d, v) < c.N /\ mulN(d, v, u) < c.N
<1>0. /\ IsModulus(c.N, ns) /\ ns \in Nat /\ d.N = c.N /\ Ws = Pow(Base, ns) /\ Ws \in Nat \ {0}
      /\ c.N \in 1 .. Ws - 1 /\ c.N % 2 = 1 /\ 1 \in 0 .. Ws - 1
  <2>1. IsModulus(c.N, ns) /\ ns \in Nat /\ d.N = c.N /\ Ws = Pow(Base, ns) /\ Ws \in Nat \ {0}
    BY ScalarWord DEF IsOrder
  <2>2. c.N \in 3 .. Ws - 1 /\ c.N % 2 = 1
    BY <2>1 DEF IsModulus
  <2>3. c.N \in 1 .. Ws - 1 /\ 1 \in 0 .. Ws - 1
    BY <2>1, <2>2
  <2> QED BY <2>1, <2>2, <2>3
<1>1. v \in 0 .. Ws - 1 /\ u \in 0 .. Ws - 1
  BY DEF Fits
<1>2. MonMuls(mulN(d, v, u), v, u, c.N, Ws)
  BY <1>0, <1>1, MonMulIs DEF mulN
<1>3. MonMuls(fromN(d, v), v, 1, c.N, Ws)
  BY <1>0, <1>1, MonMulIs DEF fromN, bn_from_mon
<1>4. Stands(toN(d, v), v * Ws, c.N, Ws, v < c.N)
  BY <1>0, <1>1, ToMonIs DEF toN
<1>5. Stands(bn_add(v, u, d.N, Ws), v + u, c.N, Ws, v < c.N /\ u < c.N)
  BY <1>0, <1>1, AddIs
<1> QED BY <1>2, <1>3, <1>4, <1>5 DEF MonMuls, Stands, Fits

\* A scalar in Montgomery form is reduced.
LEMMA ScalarFits ==
    ASSUME NEW c, NEW d, IsOrder(d, c), NEW x, NEW v, IsScalar(v, x, c)
    PROVE  Fits(v) /\ v < c.N /\ v \in 0 .. c.N - 1
<1>1. c.N \in 3 .. Ws - 1 /\ Ws \in Nat
  BY ScalarWord DEF IsOrder, IsModulus
<1>2. v \in 0 .. c.N - 1
  BY DEF IsScalar, IsMon
<1> QED BY <1>1, <1>2 DEF Fits

\* The inverse of a scalar.
LEMMA InvN ==
    ASSUME NEW c, NEW d, IsOrder(d, c), NEW x \in 0 .. c.N - 1, NEW v, IsScalar(v, x, c)
    PROVE  /\ Fits(bn_mon_inv(v, d.N, ns)) /\ bn_mon_inv(v, d.N, ns) < c.N
           /\ x # 0 => /\ IsScalar(bn_mon_inv(v, d.N, ns), Reciprocal(x, c.N), c)
                       /\ IsReciprocal(Reciprocal(x, c.N), x, c.N)
           /\ x = 0 => bn_mon_inv(v, d.N, ns) = 0
<1>0. /\ IsModulus(c.N, ns) /\ ns \in Nat /\ d.N = c.N /\ c.N \in Nat /\ c.N > 2 /\ IsPrime(c.N)
      /\ c.N \in 3 .. Ws - 1 /\ Ws \in Nat
  BY ScalarWord DEF IsOrder, IsModulus
<1>1. x \in Int /\ x % c.N = x /\ IsMon(v, x, c.N, ns)
  BY <1>0 DEF IsScalar
<1>2. bn_mon_inv(v, c.N, ns) \in 0 .. c.N - 1
  BY <1>0, <1>1, MonInv
<1>3. ASSUME x # 0
      PROVE  /\ IsScalar(bn_mon_inv(v, d.N, ns), Reciprocal(x, c.N), c)
             /\ IsReciprocal(Reciprocal(x, c.N), x, c.N)
  <2>1. ~ Cong(x, 0, c.N)
    <3>1. 0 \in 0 .. c.N - 1
      BY <1>0
    <3> QED BY <1>0, <1>3, <3>1, CongSmall
  <2>2. IsMon(bn_mon_inv(v, c.N, ns), Reciprocal(x % c.N, c.N), c.N, ns)
    BY <1>0, <1>1, <2>1, MonInv
  <2>3. IsReciprocal(Reciprocal(x % c.N, c.N), x, c.N)
    BY <1>0, <1>1, <2>1, ReciprocalIs
  <2> QED BY <1>0, <1>1, <2>2, <2>3 DEF IsScalar
<1>4. ASSUME x = 0 PROVE bn_mon_inv(v, d.N, ns) = 0
  BY <1>0, <1>1, <1>4, MonInv
<1>5. Fits(bn_mon_inv(v, d.N, ns)) /\ bn_mon_inv(v, d.N, ns) < c.N
  BY <1>0, <1>2 DEF Fits
<1> QED BY <1>3, <1>4, <1>5

-----------------------------------------------------------------------------
(* What signing and verifying compute. *)

\* A number that one subtraction reduces modulo the order.
Near(x, c) == x \in Nat /\ x < 2 * c.N

Signs(r, s, c, k, h, m) ==
    /\ Fits(r) /\ s \in 0 .. c.N - 1
    /\ TextMul(c, m, c.G).x < c.N =>
          /\ r = TextMul(c, m, c.G).x
          /\ m # 0 => Cong(s * m, h + r * k, c.N)
          /\ m = 0 => s = 0

\* generate_ecdsa: S m is e + R k modulo N, when the coordinate R is below N.
LEMMA SignIs ==
    ASSUME NEW c, IsField(c), NEW d, IsConverted(d, c), IsOrder(d, c), NEW k, NEW h,
           Near(k, c), Near(h, c), NEW m \in 0 .. c.N - 1
    PROVE  LET sig == generate_ecdsa(d, k, h, m) IN Signs(sig.R, sig.S, c, k, h, m)
<1>0. /\ c.N \in Nat \ {0} /\ c.N \in Int /\ c.N > 2 /\ IsPrime(c.N) /\ c.G \in Points(c) /\ IsPoint(d.G, c.G, c)
      /\ d.N = c.N /\ d.p = c.p /\ IsGroup(c) /\ k \in Int /\ h \in Int /\ k \in Nat /\ h \in Nat
  BY DEF IsOrder, IsField, Near
<1>1. m \in Nat /\ m \in Int /\ m \in 0 .. Ws - 1
  <2>1. c.N \in 3 .. Ws - 1 /\ Ws \in Nat
    BY ScalarWord DEF IsOrder, IsModulus
  <2> QED BY <1>0, <2>1
<1>2. PICK x : x = TextMul(c, m, c.G).x /\ x \in Int /\ Fits(x) /\ x = point_from_mon(d, point_mul(d, m, d.G)).x
  <2>1. IsPoint(point_mul(d, m, d.G), TextMul(c, m, c.G), c)
    <3>1. Multiplied(point_mul(d, m, d.G), m, c.G, c)
      BY <1>0, <1>1, MulPoint
    <3> QED BY <3>1 DEF Multiplied
  <2>2. /\ point_from_mon(d, point_mul(d, m, d.G)).x = TextMul(c, m, c.G).x
        /\ TextMul(c, m, c.G).x \in 0 .. Ws - 1
    BY <1>0, <2>1, Coordinate
  <2>3. TextMul(c, m, c.G).x \in Int
    BY <2>2, ScalarWord
  <2> QED BY <2>2, <2>3 DEF Fits
<1>3. PICK e, r, kk, im, b :
         /\ e = toN(d, bn_reduce(h, d.N)) /\ r = toN(d, x) /\ kk = toN(d, bn_reduce(k, d.N))
         /\ im = bn_mon_inv(toN(d, m), d.N, ns)
         /\ b = bn_add(mulN(d, r, kk), e, d.N, Ws)
  OBVIOUS
<1>4. PICK s : s = mulN(d, im, b)
  OBVIOUS
<1>5. generate_ecdsa(d, k, h, m) = [R |-> fromN(d, r), S |-> fromN(d, s)]
  BY <1>2, <1>3, <1>4 DEF generate_ecdsa
<1>6. IsScalar(e, h, c) /\ IsScalar(kk, k, c) /\ IsScalar(toN(d, m), m, c)
  BY <1>0, <1>3, ToNReduced, ToN DEF Near
<1>7. Fits(e) /\ Fits(kk)
  BY <1>6, ScalarFits
<1>8. Fits(r)
  BY <1>2, <1>3, FitsOps
<1>9. Fits(im) /\ im < c.N
  BY <1>3, <1>6, InvN
<1>10. Fits(b)
  <2>1. Fits(mulN(d, r, kk))
    BY <1>7, <1>8, FitsOps
  <2> QED BY <1>3, <1>7, <2>1, FitsOps
<1>11. Fits(s) /\ s < c.N
  BY <1>4, <1>9, <1>10, FitsOps
<1>12. Fits(fromN(d, r)) /\ Fits(fromN(d, s)) /\ fromN(d, s) < c.N
  BY <1>8, <1>11, FitsOps
<1>13. fromN(d, s) \in 0 .. c.N - 1
  <2>1. fromN(d, s) \in 0 .. Ws - 1 /\ Ws \in Nat
    BY <1>12, ScalarWord DEF Fits
  <2> QED BY <1>0, <1>12, <2>1
<1>14. ASSUME x < c.N
       PROVE  /\ fromN(d, r) = x
              /\ m # 0 => Cong(fromN(d, s) * m, h + x * k, c.N)
              /\ m = 0 => fromN(d, s) = 0
  <2>1. x \in 0 .. c.N - 1
    <3>1. x \in 0 .. Ws - 1 /\ Ws \in Nat
      BY <1>2, ScalarWord DEF Fits
    <3> QED BY <1>0, <1>14, <3>1
  <2>2. IsScalar(r, x, c)
    BY <1>3, <2>1, ToN
  <2>3. fromN(d, r) = x
    <3>1. fromN(d, r) = x % c.N
      BY <1>2, <2>2, FromN
    <3>2. x % c.N = x
      BY <1>0, <2>1
    <3> QED BY <3>1, <3>2
  <2>4. PICK z \in Int : z = x * k + h
    BY <1>0, <1>2
  <2>5. IsScalar(b, z, c)
    <3>1. x * k \in Int
      BY <1>0, <1>2
    <3>2. IsScalar(mulN(d, r, kk), x * k, c)
      BY <1>0, <1>2, <1>6, <2>2, MulN
    <3>3. IsModulus(c.N, ns) /\ ns \in Nat /\ Ws = Pow(Base, ns)
      BY ScalarWord DEF IsOrder
    <3>4. IsMon(bn_add(mulN(d, r, kk), e, c.N, Pow(Base, ns)), x * k + h, c.N, ns)
      BY <1>0, <1>6, <3>1, <3>2, <3>3, MonAdd DEF IsScalar
    <3> QED BY <1>0, <1>3, <2>4, <3>3, <3>4 DEF IsScalar
  <2>6. ASSUME m # 0 PROVE Cong(fromN(d, s) * m, h + x * k, c.N)
    <3>1. PICK i \in Int : IsScalar(im, i, c) /\ Cong(m * i, 1, c.N)
      <4>1. IsScalar(im, Reciprocal(m, c.N), c) /\ IsReciprocal(Reciprocal(m, c.N), m, c.N)
        BY <1>3, <1>6, <2>6, InvN
      <4>2. Reciprocal(m, c.N) \in 0 .. c.N - 1 /\ Cong(m * Reciprocal(m, c.N), 1, c.N)
        BY <4>1 DEF IsReciprocal
      <4>3. Reciprocal(m, c.N) \in Int
        BY <1>0, <4>2
      <4> QED BY <4>1, <4>2, <4>3
    <3>2. PICK t \in Int : t = i * z /\ IsScalar(s, t, c)
      <4>1. IsScalar(s, i * z, c) /\ i * z \in Int
        BY <1>4, <2>5, <3>1, MulN
      <4> QED BY <4>1
    <3>3. PICK f \in Int : f = fromN(d, s) /\ Cong(f, t, c.N)
      <4>1. fromN(d, s) = t % c.N
        BY <3>2, FromN
      <4>2. t % c.N \in 0 .. c.N - 1 /\ Cong(t % c.N, t, c.N)
        BY <1>0, CongMod
      <4>3. t % c.N \in Int
        BY <1>0, <4>2
      <4> QED BY <4>1, <4>2, <4>3
    <3>4. PICK q \in Int : f = t + q * c.N
      BY <3>3 DEF Cong
    <3>5. PICK j \in Int : m * i = 1 + j * c.N
      BY <3>1 DEF Cong
    <3>6. PICK l \in Int : l = j * z + q * m
      BY <1>1, <2>4, <3>4, <3>5
    <3>7. f * m = z + l * c.N
      <4>1. f * m = t * m + (q * m) * c.N
        BY <1>0, <1>1, <3>4
      <4>2. t * m = (m * i) * z
        BY <1>1, <3>2
      <4>3. (m * i) * z = z + (j * z) * c.N
        BY <1>0, <3>5
      <4>4. l * c.N = (j * z) * c.N + (q * m) * c.N
        BY <1>0, <1>1, <3>6
      <4>5. PICK a1 \in Int, a2 \in Int : a1 = (j * z) * c.N /\ a2 = (q * m) * c.N
        BY <1>0, <1>1
      <4> QED BY <4>1, <4>2, <4>3, <4>4, <4>5
    <3>8. z = h + x * k
      <4>1. x * k \in Int
        BY <1>0, <1>2
      <4> QED BY <1>0, <2>4, <4>1
    <3>9. Cong(f * m, h + x * k, c.N)
      BY <3>7, <3>8 DEF Cong
    <3> QED BY <3>3, <3>9
  <2>7. ASSUME m = 0 PROVE fromN(d, s) = 0
    <3>1. im = 0
      BY <1>3, <1>6, <2>7, InvN
    <3>2. IsScalar(im, 0, c)
      <4>1. 0 * Ws = 0 /\ 0 \in 0 .. c.N - 1 /\ Cong(0, 0, c.N)
        BY <1>0, ScalarWord, CongSame
      <4> QED BY <3>1, <4>1, ScalarWord DEF IsScalar, IsMon
    <3>3. IsScalar(s, 0 * z, c) /\ 0 \in Int
      BY <1>4, <2>5, <3>2, MulN
    <3>4. 0 * z = 0 /\ 0 % c.N = 0
      BY <1>0, <2>4
    <3> QED BY <3>3, <3>4, FromN
  <2> QED BY <2>3, <2>6, <2>7
<1>15. Signs(fromN(d, r), fromN(d, s), c, k, h, m)
  BY <1>2, <1>12, <1>13, <1>14 DEF Signs
<1> QED BY <1>5, <1>15

\* The first coordinate, modulo N, of the textbook's (h w) G + (r w) Q.
CheckX(c, Q, r, s, h) ==
    TextAdd(c, TextMul(c, (h * Reciprocal(s, c.N)) % c.N, c.G),
               TextMul(c, (r * Reciprocal(s, c.N)) % c.N, Q)).x % c.N

Checks(v, c, Q, r, s, h) ==
    /\ Fits(v.R) /\ Fits(v.S)
    /\ r < c.N => v.R = r
    /\ s < c.N => v.S = s
    /\ r < c.N /\ s < c.N /\ s # 0 => (v.ok <=> CheckX(c, Q, r, s, h) = r)
    /\ v.ok \in BOOLEAN

\* What is converted comes back, when it is reduced.
LEMMA FromToN ==
    ASSUME NEW c, NEW d, IsOrder(d, c), NEW x \in 0 .. c.N - 1
    PROVE  fromN(d, toN(d, x)) = x
<1>1. c.N \in Nat /\ x \in Int
  BY DEF IsOrder
<1>2. fromN(d, toN(d, x)) = x % c.N
  BY <1>1, ToN, FromN
<1>3. x % c.N = x
  BY <1>1
<1> QED BY <1>2, <1>3

\* The multiplier of check_ecdsa for the scalar x.
LEMMA Multiplier ==
    ASSUME NEW c, NEW d, IsOrder(d, c), NEW x \in Int, NEW v, IsScalar(v, x, c),
           NEW i \in Int, NEW u, IsScalar(u, i, c)
    PROVE  fromN(d, mulN(d, v, u)) = (x * i) % c.N /\ (x * i) % c.N \in 0 .. Ws - 1
<1>0. c.N \in Nat \ {0} /\ c.N \in 3 .. Ws - 1 /\ Ws \in Nat
  BY ScalarWord DEF IsOrder, IsModulus
<1>1. PICK z \in Int : z = x * i
  OBVIOUS
<1>2. IsScalar(mulN(d, v, u), z, c)
  BY <1>1, MulN
<1>3. fromN(d, mulN(d, v, u)) = z % c.N
  BY <1>2, FromN
<1>4. z % c.N \in 0 .. c.N - 1
  BY <1>0, CongMod
<1>5. z % c.N \in 0 .. Ws - 1
  BY <1>0, <1>4
<1> QED BY <1>1, <1>3, <1>5

\* check_ecdsa compares R with the textbook's coordinate, and gives R and S back.
LEMMA CheckIs ==
    ASSUME NEW c, IsField(c), NEW d, IsConverted(d, c), IsOrder(d, c),
           \A x \in 0 .. c.p - 1 : Near(x, c),
           NEW Q, NEW q, IsPoint(q, Q, c), NEW r, NEW s, Fits(r), Fits(s), NEW h, Near(h, c)
    PROVE  Checks(check_ecdsa(d, q, r, s, h), c, Q, r, s, h)
<1>0. /\ c.N \in Nat \ {0} /\ c.N \in Int /\ c.G \in Points(c) /\ IsPoint(d.G, c.G, c)
      /\ d.N = c.N /\ d.p = c.p /\ IsGroup(c) /\ h \in Int /\ h \in Nat /\ h < 2 * c.N
  BY DEF IsOrder, IsField, Near
<1>1. r \in Nat /\ s \in Nat
  BY ScalarWord DEF Fits
<1>2. PICK e, rr, ss, si : /\ e = toN(d, bn_reduce(h, c.N)) /\ rr = toN(d, r) /\ ss = toN(d, s)
                           /\ si = bn_mon_inv(toN(d, s), c.N, ns)
  OBVIOUS
<1>3. PICK w1, w2 : w1 = fromN(d, mulN(d, e, si)) /\ w2 = fromN(d, mulN(d, rr, si))
  OBVIOUS
<1>4. PICK y : y = point_add(d, point_mul(d, w1, d.G), point_mul(d, w2, q))
  OBVIOUS
<1>5. check_ecdsa(d, q, r, s, h) =
         [ok |-> bn_reduce(point_from_mon(d, y).x, c.N) = fromN(d, rr), R |-> fromN(d, rr), S |-> fromN(d, ss)]
  BY <1>0, <1>2, <1>3, <1>4 DEF check_ecdsa
<1>6. Fits(fromN(d, rr)) /\ Fits(fromN(d, ss))
  BY <1>2, FitsOps
<1>7. ASSUME r < c.N PROVE fromN(d, rr) = r
  BY <1>0, <1>1, <1>2, <1>7, FromToN
<1>8. ASSUME s < c.N PROVE fromN(d, ss) = s
  BY <1>0, <1>1, <1>2, <1>8, FromToN
<1>9. ASSUME r < c.N, s < c.N, s # 0
      PROVE  bn_reduce(point_from_mon(d, y).x, c.N) = CheckX(c, Q, r, s, h)
  <2>1. r \in 0 .. c.N - 1 /\ s \in 0 .. c.N - 1 /\ r \in Int /\ s \in Int
    BY <1>0, <1>1, <1>9
  <2>2. PICK i \in Int : i = Reciprocal(s, c.N) /\ IsScalar(si, i, c)
    <3>1. IsScalar(toN(d, s), s, c)
      BY <2>1, ToN
    <3>2. IsScalar(si, Reciprocal(s, c.N), c) /\ IsReciprocal(Reciprocal(s, c.N), s, c.N)
      BY <1>0, <1>2, <1>9, <2>1, <3>1, InvN
    <3>3. Reciprocal(s, c.N) \in Int
      BY <1>0, <3>2 DEF IsReciprocal
    <3> QED BY <3>2, <3>3
  <2>3. IsScalar(e, h, c)
    BY <1>0, <1>2, ToNReduced
  <2>4. IsScalar(rr, r, c)
    BY <1>2, <2>1, ToN
  <2>5. w1 = (h * i) % c.N /\ w1 \in 0 .. Ws - 1
    BY <1>0, <1>3, <2>2, <2>3, Multiplier
  <2>6. w2 = (r * i) % c.N /\ w2 \in 0 .. Ws - 1
    BY <1>3, <2>1, <2>2, <2>4, Multiplier
  <2>7. IsPoint(point_mul(d, w1, d.G), TextMul(c, w1, c.G), c)
    <3>1. Multiplied(point_mul(d, w1, d.G), w1, c.G, c)
      BY <1>0, <2>5, MulPoint
    <3> QED BY <3>1 DEF Multiplied
  <2>8. IsPoint(point_mul(d, w2, q), TextMul(c, w2, Q), c)
    <3>1. Multiplied(point_mul(d, w2, q), w2, Q, c)
      BY <2>6, MulPoint
    <3> QED BY <3>1 DEF Multiplied
  <2>9. PICK Y : Y = TextAdd(c, TextMul(c, w1, c.G), TextMul(c, w2, Q))
    OBVIOUS
  <2>10. IsPoint(y, Y, c)
    <3>1. Added(y, TextMul(c, w1, c.G), TextMul(c, w2, Q), c)
      BY <1>4, <2>7, <2>8, AddPoints
    <3> QED BY <2>9, <3>1 DEF Added
  <2>11. point_from_mon(d, y).x = Y.x /\ Y.x \in 0 .. c.p - 1
    BY <1>0, <2>10, Coordinate
  <2>12. bn_reduce(Y.x, c.N) = Y.x % c.N
    <3>1. Near(Y.x, c)
      BY <2>11
    <3> QED BY <1>0, <3>1, ReduceIs DEF Near
  <2>13. CheckX(c, Q, r, s, h) = Y.x % c.N
    BY <2>2, <2>5, <2>6, <2>9 DEF CheckX
  <2> QED BY <2>11, <2>12, <2>13
<1>10. PICK v : v = check_ecdsa(d, q, r, s, h)
  OBVIOUS
<1>11. /\ v.R = fromN(d, rr) /\ v.S = fromN(d, ss) /\ v.ok \in BOOLEAN
       /\ v.ok = (bn_reduce(point_from_mon(d, y).x, c.N) = fromN(d, rr))
  BY <1>5, <1>10
<1> QED BY <1>6, <1>7, <1>8, <1>9, <1>10, <1>11 DEF Checks

\* A reduced number is its own remainder.
LEMMA ModSmall ==
    ASSUME NEW m \in Nat \ {0}, NEW x \in 0 .. m - 1
    PROVE  x % m = x
OBVIOUS

\* (e w) G + (r w) (pub G) is m G when s m = e + r k and k is pub, modulo N.
LEMMA SignedX ==
    ASSUME NEW c, IsField(c), NEW d, IsOrder(d, c), NEW m \in 0 .. c.N - 1,
           NEW k \in Nat, NEW h \in Nat, NEW p \in Nat, NEW r \in 0 .. c.N - 1, NEW s \in 1 .. c.N - 1,
           (k - p) % c.N = 0, r = TextMul(c, m, c.G).x, Cong(s * m, h + r * k, c.N)
    PROVE  CheckX(c, TextMul(c, p, c.G), r, s, h) = r
<1>0. /\ c.N \in Nat \ {0} /\ c.N \in Int /\ c.N \in Nat /\ c.N > 2 /\ IsPrime(c.N)
      /\ c.G \in Points(c) /\ TextMul(c, c.N, c.G) = Infinity /\ IsGroup(c)
  BY DEF IsOrder, IsField
<1>1. m \in Nat /\ r \in Nat /\ s \in Int /\ r % c.N = r /\ s # 0 /\ s \in 0 .. c.N - 1
  <2>1. r % c.N = r
    BY <1>0, ModSmall
  <2>2. m \in Nat /\ r \in Nat
    BY <1>0
  <2>3. s \in Int /\ s # 0 /\ s \in 0 .. c.N - 1
    BY <1>0
  <2> QED BY <2>1, <2>2, <2>3
<1>2. PICK i \in Int : i = Reciprocal(s, c.N) /\ Cong(s * i, 1, c.N)
  <2>1. ~ Cong(s, 0, c.N)
    <3>1. 0 \in 0 .. c.N - 1
      BY <1>0
    <3> QED BY <1>0, <1>1, <3>1, CongSmall
  <2>2. s % c.N = s
    BY <1>0
  <2>3. IsReciprocal(Reciprocal(s % c.N, c.N), s, c.N)
    BY <1>0, <1>1, <2>1, ReciprocalIs
  <2>4. Reciprocal(s, c.N) \in 0 .. c.N - 1 /\ Cong(s * Reciprocal(s, c.N), 1, c.N)
    BY <2>2, <2>3 DEF IsReciprocal
  <2>5. Reciprocal(s, c.N) \in Int
    BY <1>0, <2>4
  <2> QED BY <2>4, <2>5
<1>3. PICK w1 \in Nat : w1 = (h * i) % c.N /\ Cong(w1, h * i, c.N)
  <2>1. h * i \in Int
    BY <1>2
  <2>2. (h * i) % c.N \in 0 .. c.N - 1 /\ Cong((h * i) % c.N, h * i, c.N)
    BY <1>0, <2>1, CongMod
  <2>3. (h * i) % c.N \in Nat
    BY <1>0, <2>2
  <2> QED BY <2>2, <2>3
<1>4. PICK w2 \in Nat : w2 = (r * i) % c.N /\ Cong(w2, r * i, c.N)
  <2>1. r * i \in Int
    BY <1>1, <1>2
  <2>2. (r * i) % c.N \in 0 .. c.N - 1 /\ Cong((r * i) % c.N, r * i, c.N)
    BY <1>0, <2>1, CongMod
  <2>3. (r * i) % c.N \in Nat
    BY <1>0, <2>2
  <2> QED BY <2>2, <2>3
<1>5. PICK j \in Nat : j = p * w2
  BY <1>4
<1>6. TextMul(c, w2, TextMul(c, p, c.G)) = TextMul(c, j, c.G)
  <2>1. MulMul(c, p, w2, c.G)
    BY <1>0, MulTimes
  <2> QED BY <1>5, <2>1 DEF MulMul
<1>7. TextMul(c, w1 + j, c.G) = TextAdd(c, TextMul(c, w1, c.G), TextMul(c, j, c.G))
  <2>1. SumMul(c, w1, j, c.G)
    BY <1>0, MulSum
  <2> QED BY <2>1 DEF SumMul
<1>8. Cong(w1 + j, m, c.N)
  <2>1. PICK q1 \in Int : w1 = h * i + q1 * c.N
    BY <1>3 DEF Cong
  <2>2. PICK q2 \in Int : w2 = r * i + q2 * c.N
    BY <1>4 DEF Cong
  <2>3. PICK q3 \in Int : s * m = h + r * k + q3 * c.N
    BY DEF Cong
  <2>4. PICK q4 \in Int : k = p + q4 * c.N
    <3>1. k - p \in Int
      OBVIOUS
    <3>2. PICK q \in Int : k - p = q * c.N
      BY <1>0, <3>1, Divisible
    <3> QED BY <1>0, <3>2
  <2>5. PICK q5 \in Int : s * i = 1 + q5 * c.N
    BY <1>2 DEF Cong
  <2>6. PICK mm \in Int, ri \in Int : mm = (s * m) * i /\ ri = r * i
    BY <1>1, <1>2
  <2>7. mm = m + (q5 * m) * c.N
    <3>1. mm = (s * i) * m
      BY <1>1, <1>2, <2>6
    <3>2. (1 + q5 * c.N) * m = m + (q5 * m) * c.N
      BY <1>0, <1>1
    <3> QED BY <2>5, <3>1, <3>2
  <2>8. mm = h * i + ri * k + (q3 * i) * c.N
    <3>1. PICK rk \in Int, qn \in Int : rk = r * k /\ qn = q3 * c.N
      BY <1>0, <1>1, <2>3
    <3>2. (h + rk + qn) * i = h * i + rk * i + qn * i
      BY <1>2, <3>1
    <3>3. rk * i = ri * k
      BY <1>1, <1>2, <2>6, <3>1
    <3>4. qn * i = (q3 * i) * c.N
      BY <1>0, <1>2, <2>3, <3>1
    <3> QED BY <2>3, <2>6, <3>1, <3>2, <3>3, <3>4
  <2>9. ri * k = ri * p + (ri * q4) * c.N
    <3>1. ri * (p + q4 * c.N) = ri * p + (ri * q4) * c.N
      BY <1>0, <2>6
    <3> QED BY <2>4, <3>1
  <2>10. j = ri * p + (q2 * p) * c.N
    <3>1. p * (ri + q2 * c.N) = ri * p + (q2 * p) * c.N
      BY <1>0, <2>6
    <3> QED BY <1>5, <2>2, <2>6, <3>1
  <2>11. PICK a1 \in Int, a2 \in Int, a3 \in Int, a4 \in Int, a5 \in Int :
            a1 = q5 * m /\ a2 = q3 * i /\ a3 = ri * q4 /\ a4 = q2 * p /\ a5 = q1
    BY <1>1, <1>2, <2>1, <2>2, <2>3, <2>4, <2>5, <2>6
  <2>12. PICK b1 \in Int, b2 \in Int, b3 \in Int, b4 \in Int, b5 \in Int :
            b1 = a1 * c.N /\ b2 = a2 * c.N /\ b3 = a3 * c.N /\ b4 = a4 * c.N /\ b5 = a5 * c.N
    <3>1. \A a \in Int : a * c.N \in Int
      BY <1>0
    <3> QED BY <3>1
  <2>13. PICK hi \in Int, rp \in Int : hi = h * i /\ rp = ri * p
    BY <1>2, <2>6
  <2>14. /\ w1 = hi + b5 /\ j = rp + b4 /\ mm = m + b1 /\ ri * k = rp + b3
         /\ mm = hi + ri * k + b2
    BY <2>1, <2>7, <2>8, <2>9, <2>10, <2>11, <2>12, <2>13
  <2>15. w1 + j = m + (b1 - b2 - b3 + b4 + b5)
    BY <1>1, <2>14
  <2>16. PICK q \in Int : q = a1 - a2 - a3 + a4 + a5
    OBVIOUS
  <2>17. q * c.N = b1 - b2 - b3 + b4 + b5
    <3>1. q * c.N = a1 * c.N - a2 * c.N - a3 * c.N + a4 * c.N + a5 * c.N
      BY <1>0, <2>16
    <3> QED BY <2>12, <3>1
  <2>18. w1 + j = m + q * c.N
    BY <2>15, <2>17
  <2> QED BY <2>18 DEF Cong
<1>9. TextMul(c, w1 + j, c.G) = TextMul(c, m, c.G)
  <2>1. w1 + j \in Nat
    OBVIOUS
  <2>2. SameMul(c, w1 + j, m, c.G)
    BY <1>0, <1>1, <1>8, <2>1, MulCong
  <2> QED BY <2>2 DEF SameMul
<1>10. CheckX(c, TextMul(c, p, c.G), r, s, h) = TextMul(c, m, c.G).x % c.N
  BY <1>2, <1>3, <1>4, <1>6, <1>7, <1>9 DEF CheckX
<1> QED BY <1>1, <1>10

\* For R above zero infinity needs no test of its own.
LEMMA TextVerifyIs ==
    ASSUME NEW c, c.N \in Nat \ {0}, NEW Q, NEW r \in 1 .. c.N - 1, NEW s, NEW h
    PROVE  TextVerify(c, Q, r, s, h) <=> CheckX(c, Q, r, s, h) = r
<1>1. PICK P : P = TextAdd(c, TextMul(c, (h * Reciprocal(s, c.N)) % c.N, c.G),
                              TextMul(c, (r * Reciprocal(s, c.N)) % c.N, Q))
  OBVIOUS
<1>2. P = Infinity => P.x % c.N # r
  <2>1. 0 % c.N = 0
    OBVIOUS
  <2> QED BY <2>1 DEF Infinity
<1> QED BY <1>1, <1>2 DEF TextVerify, CheckX

-----------------------------------------------------------------------------
(* The calls. *)

\* The keys of a program that has set them: those of the curve it set last.
KeysInv ==
    /\ st \in {"curve", "pub", "keys"} => ec = Converted(curve)
    /\ st \in {"pub", "keys"} => pub \in Privs /\ IsPoint(ec_Q, TextMul(curve, pub, curve.G), curve)
    /\ st = "keys" => ec_k \in Privs

\* What R and S are while the caller holds a signature of this program's.
SignedInv ==
    signed # None =>
        /\ signed.type \in DOMAIN Table /\ signed.h \in Nat /\ signed.k \in Nat
        /\ signed.m \in 0 .. Table[signed.type].N - 1
        /\ Signs(R, S, Table[signed.type], signed.k, signed.h, signed.m)

VerdictInv == verdict # None => st \in {"pub", "keys"}

EcdsaInv == TypeOK /\ KeysInv /\ SignedInv /\ VerdictInv /\ IsTextbook

\* The curves that can be set.
LEMMA TableIs ==
    ASSUME NEW ty \in DOMAIN Table
    PROVE  /\ IsField(Table[ty]) /\ IsConverted(Converted(Table[ty]), Table[ty])
           /\ IsOrder(Converted(Table[ty]), Table[ty])
           /\ Table[ty].N \in Nat \ {0}
<1>1. Table[ty] \in Curve /\ IsCurve(Table[ty])
  BY CurveAssumption
<1>2. /\ IsField(Table[ty]) /\ IsConverted(Converted(Table[ty]), Table[ty])
      /\ IsOrder(Converted(Table[ty]), Table[ty])
  BY <1>1, CurveIs
<1>3. Table[ty].N \in Nat \ {0}
  BY <1>2 DEF IsOrder
<1> QED BY <1>2, <1>3

\* One subtraction reduces digests, private keys and coordinates.
LEMMA NumbersNear ==
    ASSUME NEW ty \in DOMAIN Table
    PROVE  /\ \A x \in Hashes : Near(x, Table[ty])
           /\ \A x \in Privs : Near(x, Table[ty])
           /\ \A x \in 0 .. Table[ty].p - 1 : Near(x, Table[ty])
<1>1. Table[ty].p \in Nat
  BY TableIs DEF IsField
<1>2. \A x \in 0 .. Table[ty].p - 1 : x \in Nat
  BY <1>1
<1> QED BY <1>2, NumbersAssumption DEF Near

\* Nothing is set at first.
LEMMA EcdsaInit == Init => EcdsaInv
<1> SUFFICES ASSUME Init PROVE EcdsaInv
  OBVIOUS
<1>1. We \in Nat \ {0} /\ Ws \in Nat \ {0}
  <2>1. ne \in Nat
    BY DigitsAssumption
  <2> QED BY <2>1, BasePow, ScalarWord DEF We
<1>2. 0 \in Element /\ 0 \in Scalar
  BY <1>1 DEF Element, Scalar
<1>3. TypeOK
  BY <1>2 DEF Init, TypeOK, Point, zero
<1>4. KeysInv /\ SignedInv /\ VerdictInv
  BY DEF Init, KeysInv, SignedInv, VerdictInv
<1>5. IsTextbook
  BY DEF Init, IsTextbook, VerifyIsTextbook, SignedVerifies, SignatureKept
<1> QED BY <1>3, <1>4, <1>5 DEF EcdsaInv

\* Without a verdict there is nothing to show.
LEMMA NoVerdictIs ==
    ASSUME verdict' = None
    PROVE  IsTextbook' /\ VerdictInv'
BY DEF IsTextbook, VerifyIsTextbook, SignedVerifies, SignatureKept, VerdictInv

\* Setting the curve keeps the invariant.
LEMMA CurveStep ==
    ASSUME EcdsaInv, NEW ty \in Types, ecdsa_set_curve(ty)
    PROVE  EcdsaInv'
<1>1. IsTextbook' /\ VerdictInv'
  BY NoVerdictIs DEF ecdsa_set_curve
<1>2. CASE ty \in DOMAIN Table
  <2>1. /\ st' = "curve" /\ type' = ty /\ ec' = Converted(Table[ty])
        /\ UNCHANGED <<ec_Q, ec_k, R, S, pub, signed>>
    BY <1>2 DEF ecdsa_set_curve
  <2>2. type' # -1
    <3>1. ty \in Nat
      BY <1>2, CurveAssumption
    <3> QED BY <2>1, <3>1
  <2>3. TypeOK'
    BY <1>2, <2>1, <2>2 DEF EcdsaInv, TypeOK
  <2>4. KeysInv'
    BY <2>1 DEF KeysInv, curve
  <2>5. SignedInv'
    BY <2>1 DEF EcdsaInv, SignedInv
  <2> QED BY <1>1, <2>3, <2>4, <2>5 DEF EcdsaInv
<1>3. CASE ty \notin DOMAIN Table
  <2>1. st' = "failed" /\ UNCHANGED <<type, ec, ec_Q, ec_k, R, S, pub, signed>>
    BY <1>3 DEF ecdsa_set_curve
  <2>2. TypeOK'
    BY <2>1 DEF EcdsaInv, TypeOK
  <2>3. KeysInv' /\ SignedInv'
    BY <2>1 DEF EcdsaInv, SignedInv, KeysInv
  <2> QED BY <1>1, <2>2, <2>3 DEF EcdsaInv
<1> QED BY <1>2, <1>3

\* So does setting the public key.
LEMMA PubStep ==
    ASSUME EcdsaInv, NEW k \in Privs, ecdsa_set_pub(k)
    PROVE  EcdsaInv'
<1>1. /\ st = "curve" /\ st' = "pub" /\ pub' = k
      /\ ec_Q' = point_to_mon(ec, TextMul(curve, k, curve.G))
      /\ UNCHANGED <<type, ec, ec_k, R, S, signed, verdict>>
  BY DEF ecdsa_set_pub, curve
<1>2. type \in DOMAIN Table /\ ec = Converted(curve)
  BY <1>1 DEF EcdsaInv, TypeOK, KeysInv
<1>3. IsField(curve) /\ IsOrder(ec, curve) /\ k \in Nat
  BY <1>2, TableIs, NumbersAssumption DEF curve
<1>4. IsPoint(ec_Q', TextMul(curve, k, curve.G), curve)
  <2>1. IsGroup(curve) /\ curve.G \in Points(curve) /\ ec.p = curve.p
    BY <1>3 DEF IsField, IsOrder
  <2>2. TextMul(curve, k, curve.G) \in Points(curve)
    BY <1>3, <2>1, MulIn
  <2> QED BY <1>1, <1>3, <2>1, <2>2, PointToMon
<1>5. curve' = curve
  BY <1>1 DEF curve
<1>6. ec_Q' \in Point
  <2>1. curve.p \in Nat /\ We \in Nat /\ curve.p \in 3 .. We - 1
    <3>1. ne \in Nat
      BY DigitsAssumption
    <3> QED BY <1>3, <3>1, BasePow DEF IsField, IsModulus, We
  <2>2. 0 .. curve.p - 1 \subseteq Element
    BY <2>1 DEF Element
  <2>3. ec_Q' \in [x : 0 .. curve.p - 1, y : 0 .. curve.p - 1]
    BY <1>4 DEF IsPoint, IsForm
  <2> QED BY <2>2, <2>3 DEF Point
<1>7. TypeOK'
  BY <1>1, <1>2, <1>6 DEF EcdsaInv, TypeOK
<1>8. KeysInv'
  <2>1. ec' = Converted(curve')
    BY <1>1, <1>2, <1>5
  <2>2. pub' \in Privs /\ IsPoint(ec_Q', TextMul(curve', pub', curve'.G), curve')
    BY <1>1, <1>4, <1>5
  <2> QED BY <1>1, <2>1, <2>2 DEF KeysInv
<1>9. SignedInv'
  BY <1>1 DEF EcdsaInv, SignedInv
<1>10. verdict' = None
  BY <1>1 DEF EcdsaInv, VerdictInv
<1> QED BY <1>7, <1>8, <1>9, <1>10, NoVerdictIs DEF EcdsaInv

\* So does setting the private key.
LEMMA PrivStep ==
    ASSUME EcdsaInv, NEW k \in Privs, ecdsa_set_priv(k)
    PROVE  EcdsaInv'
<1>1. /\ st = "pub" /\ st' = "keys" /\ ec_k' = k
      /\ UNCHANGED <<type, ec, ec_Q, R, S, pub, signed, verdict>>
  BY DEF ecdsa_set_priv
<1>2. curve' = curve
  BY <1>1 DEF curve
<1>3. TypeOK'
  BY <1>1 DEF EcdsaInv, TypeOK
<1>4. KeysInv' /\ SignedInv' /\ VerdictInv'
  BY <1>1, <1>2 DEF EcdsaInv, KeysInv, SignedInv, VerdictInv
<1>5. IsTextbook'
  BY <1>1, <1>2 DEF EcdsaInv, IsTextbook, VerifyIsTextbook, SignedVerifies, SignatureKept
<1> QED BY <1>3, <1>4, <1>5 DEF EcdsaInv

\* So does reading a signature.
LEMMA LoadStep ==
    ASSUME EcdsaInv, NEW r \in Halves, NEW s \in Halves, LoadSignature(r, s)
    PROVE  EcdsaInv'
<1>1. /\ st = "start" /\ R' = r /\ S' = s /\ signed' = None /\ verdict' = None
      /\ UNCHANGED <<type, st, ec, ec_Q, ec_k, pub>>
  BY DEF LoadSignature
<1>2. R' \in Scalar /\ S' \in Scalar
  BY <1>1, NumbersAssumption DEF Scalar
<1>3. TypeOK'
  BY <1>1, <1>2 DEF EcdsaInv, TypeOK
<1>4. KeysInv' /\ SignedInv'
  BY <1>1 DEF KeysInv, SignedInv
<1> QED BY <1>1, <1>3, <1>4, NoVerdictIs DEF EcdsaInv

\* So does signing, which relates R and S to the digest and the key.
LEMMA SignStep ==
    ASSUME EcdsaInv, NEW h \in Hashes, NEW m \in Scalars, ecdsa_sign(h, m)
    PROVE  EcdsaInv'
<1>1. /\ st = "keys" /\ m < ec.N
      /\ R' = generate_ecdsa(ec, ec_k, h, m).R /\ S' = generate_ecdsa(ec, ec_k, h, m).S
      /\ signed' = [h |-> h, m |-> m, k |-> ec_k, type |-> type] /\ verdict' = None
      /\ UNCHANGED <<type, st, ec, ec_Q, ec_k, pub>>
  BY DEF ecdsa_sign
<1>2. type \in DOMAIN Table /\ ec = Converted(curve) /\ ec_k \in Privs
  BY <1>1 DEF EcdsaInv, TypeOK, KeysInv
<1>3. IsField(curve) /\ IsConverted(ec, curve) /\ IsOrder(ec, curve) /\ curve.N \in Nat \ {0}
  BY <1>2, TableIs DEF curve
<1>4. Near(h, curve) /\ Near(ec_k, curve) /\ m \in Nat
  BY <1>2, NumbersNear, NumbersAssumption DEF curve
<1>5. m \in 0 .. curve.N - 1
  <2>1. ec.N = curve.N
    BY <1>3 DEF IsOrder
  <2> QED BY <1>1, <1>3, <1>4, <2>1
<1>6. Signs(R', S', curve, ec_k, h, m)
  <2>1. LET sig == generate_ecdsa(ec, ec_k, h, m) IN Signs(sig.R, sig.S, curve, ec_k, h, m)
    BY <1>3, <1>4, <1>5, SignIs
  <2> QED BY <1>1, <2>1
<1>7. R' \in Scalar /\ S' \in Scalar
  <2>1. curve.N \in 3 .. Ws - 1 /\ Ws \in Nat
    BY <1>3, ScalarWord DEF IsOrder, IsModulus
  <2>2. R' \in 0 .. Ws - 1 /\ S' \in 0 .. curve.N - 1
    BY <1>6 DEF Signs, Fits
  <2>3. S' \in 0 .. Ws - 1
    BY <1>3, <2>1, <2>2
  <2> QED BY <2>2, <2>3 DEF Scalar
<1>8. TypeOK'
  BY <1>1, <1>7 DEF EcdsaInv, TypeOK
<1>9. KeysInv'
  <2>1. curve' = curve
    BY <1>1 DEF curve
  <2> QED BY <1>1, <2>1 DEF EcdsaInv, KeysInv
<1>10. SignedInv'
  <2>1. /\ signed'.type = type /\ signed'.h = h /\ signed'.k = ec_k /\ signed'.m = m
    BY <1>1
  <2>2. h \in Nat /\ ec_k \in Nat
    BY <1>4 DEF Near
  <2> QED BY <1>2, <1>5, <1>6, <2>1, <2>2 DEF SignedInv, curve
<1> QED BY <1>1, <1>8, <1>9, <1>10, NoVerdictIs DEF EcdsaInv

\* So does verifying, where the verdict is reached.
LEMMA VerifyStep ==
    ASSUME EcdsaInv, NEW h \in Hashes, ecdsa_verify(h)
    PROVE  EcdsaInv'
<1>1. PICK v : v = check_ecdsa(ec, ec_Q, R, S, h)
  OBVIOUS
<1>2. /\ st \in {"pub", "keys"} /\ R' = v.R /\ S' = v.S
      /\ verdict' = [h |-> h, R |-> R, S |-> S, signed |-> signed, ok |-> v.ok]
      /\ signed' = IF v.R = R /\ v.S = S THEN signed ELSE None
      /\ UNCHANGED <<type, st, ec, ec_Q, ec_k, pub>>
  BY <1>1 DEF ecdsa_verify
<1>3. /\ type \in DOMAIN Table /\ ec = Converted(curve) /\ pub \in Privs
      /\ IsPoint(ec_Q, TextMul(curve, pub, curve.G), curve)
  BY <1>2 DEF EcdsaInv, TypeOK, KeysInv
<1>4. IsField(curve) /\ IsConverted(ec, curve) /\ IsOrder(ec, curve) /\ curve.N \in Nat \ {0}
  BY <1>3, TableIs DEF curve
<1>5. PICK Q : Q = TextMul(curve, pub, curve.G)
  OBVIOUS
<1>6. Near(h, curve) /\ (\A x \in 0 .. curve.p - 1 : Near(x, curve)) /\ Fits(R) /\ Fits(S) /\ pub \in Nat
  BY <1>3, NumbersNear, NumbersAssumption DEF curve, EcdsaInv, TypeOK, Scalar, Fits
<1>7. Checks(v, curve, Q, R, S, h)
  BY <1>1, <1>3, <1>4, <1>5, <1>6, CheckIs
<1>8. R \in Nat /\ S \in Nat
  BY <1>6, ScalarWord DEF Fits
<1>9. TypeOK'
  <2>1. R' \in Scalar /\ S' \in Scalar
    BY <1>2, <1>7 DEF Checks, Fits, Scalar
  <2> QED BY <1>2, <2>1 DEF EcdsaInv, TypeOK
<1>10. curve' = curve /\ pub' = pub /\ type' = type
  BY <1>2 DEF curve
<1>11. KeysInv' /\ VerdictInv'
  BY <1>2, <1>10 DEF EcdsaInv, KeysInv, VerdictInv
<1>12. SignedInv'
  <2>1. CASE v.R = R /\ v.S = S
    <3>1. R' = R /\ S' = S /\ signed' = signed
      BY <1>2, <2>1
    <3> QED BY <3>1 DEF EcdsaInv, SignedInv
  <2>2. CASE ~ (v.R = R /\ v.S = S)
    <3>1. signed' = None
      BY <1>2, <2>2
    <3> QED BY <3>1 DEF SignedInv
  <2> QED BY <2>1, <2>2
<1>13. verdict'.h = h /\ verdict'.R = R /\ verdict'.S = S /\ verdict'.signed = signed /\ verdict'.ok = v.ok
  BY <1>2
<1>14. VerifyIsTextbook'
  <2> SUFFICES ASSUME R \in 1 .. curve.N - 1, S \in 1 .. curve.N - 1
               PROVE  v.ok = TextVerify(curve, Q, R, S, h)
    BY <1>5, <1>10, <1>13 DEF VerifyIsTextbook
  <2>1. R < curve.N /\ S < curve.N /\ S # 0
    BY <1>4
  <2>2. v.ok \in BOOLEAN /\ (v.ok <=> CheckX(curve, Q, R, S, h) = R)
    BY <1>7, <2>1 DEF Checks
  <2>3. TextVerify(curve, Q, R, S, h) <=> CheckX(curve, Q, R, S, h) = R
    BY <1>4, TextVerifyIs
  <2>4. TextVerify(curve, Q, R, S, h) \in BOOLEAN
    BY DEF TextVerify
  <2> QED BY <2>2, <2>3, <2>4
<1>15. SignedVerifies'
  <2> SUFFICES ASSUME signed # None, signed.h = h, signed.type = type, (signed.k - pub) % curve.N = 0,
                      TextMul(curve, signed.m, curve.G).x < curve.N, S # 0
               PROVE  v.ok
    BY <1>10, <1>13 DEF SignedVerifies
  <2>1. /\ signed.k \in Nat /\ signed.m \in 0 .. curve.N - 1
        /\ Signs(R, S, curve, signed.k, h, signed.m) /\ h \in Nat
    BY <1>6 DEF EcdsaInv, SignedInv, curve, Near
  <2>2. /\ S \in 0 .. curve.N - 1 /\ R = TextMul(curve, signed.m, curve.G).x
        /\ (signed.m # 0 => Cong(S * signed.m, h + R * signed.k, curve.N)) /\ (signed.m = 0 => S = 0)
    BY <2>1 DEF Signs
  <2>3. Cong(S * signed.m, h + R * signed.k, curve.N)
    BY <2>2
  <2>4. R \in 0 .. curve.N - 1 /\ S \in 1 .. curve.N - 1 /\ R < curve.N /\ S < curve.N
    BY <1>4, <1>8, <2>2
  <2>5. CheckX(curve, Q, R, S, h) = R
    BY <1>4, <1>5, <1>6, <2>1, <2>2, <2>3, <2>4, SignedX
  <2> QED BY <1>7, <2>4, <2>5 DEF Checks
<1>16. SignatureKept'
  <2> SUFFICES ASSUME R < curve.N, S < curve.N PROVE v.R = R /\ v.S = S
    BY <1>2, <1>10, <1>13 DEF SignatureKept
  <2> QED BY <1>7 DEF Checks
<1> QED BY <1>9, <1>11, <1>12, <1>14, <1>15, <1>16 DEF EcdsaInv, IsTextbook

\* So does every step.
LEMMA EcdsaNext == EcdsaInv /\ Next => EcdsaInv'
<1> SUFFICES ASSUME EcdsaInv, Next PROVE EcdsaInv'
  OBVIOUS
<1>1. CASE \E ty \in Types : ecdsa_set_curve(ty)
  BY <1>1, CurveStep
<1>2. CASE \E k \in Privs : ecdsa_set_pub(k) \/ ecdsa_set_priv(k)
  BY <1>2, PubStep, PrivStep
<1>3. CASE \E h \in Hashes : ecdsa_verify(h) \/ \E m \in Scalars : ecdsa_sign(h, m)
  BY <1>3, VerifyStep, SignStep
<1>4. CASE \E r, s \in Halves : LoadSignature(r, s)
  BY <1>4, LoadStep
<1> QED BY <1>1, <1>2, <1>3, <1>4 DEF Next

\* The invariant is about the variables of Ec only.
LEMMA EcdsaSame == EcdsaInv /\ UNCHANGED vars => EcdsaInv'
BY DEF vars, EcdsaInv, TypeOK, KeysInv, SignedInv, VerdictInv, IsTextbook, VerifyIsTextbook,
       SignedVerifies, SignatureKept, curve

\* Verdicts are the textbook's, signatures of this code pass its own check, and
\* checking changes no signature: on every curve, at every size of digits.
THEOREM EcdsaCorrect == ToolsSpec => []EcdsaIsTextbook
<1>1. ToolsInit => EcdsaInv
  BY EcdsaInit DEF ToolsInit
<1>2. EcdsaInv /\ [ToolsNext]_all => EcdsaInv'
  <2> SUFFICES ASSUME EcdsaInv, [ToolsNext]_all PROVE EcdsaInv'
    OBVIOUS
  <2>1. CASE Sign
    BY <2>1, EcdsaNext DEF Sign
  <2>2. CASE UNCHANGED vars
    BY <2>2, EcdsaSame
  <2> QED BY <2>1, <2>2 DEF ToolsNext, Multiply, Hash, all
<1>3. EcdsaInv => EcdsaIsTextbook
  BY DEF EcdsaInv, EcdsaIsTextbook
<1> QED BY <1>1, <1>2, <1>3, PTL DEF ToolsSpec

===============================================================================
