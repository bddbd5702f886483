------------------------------ MODULE ModArith ------------------------------
(* Facts about naturals and remainders that the proofs cite. *)
EXTENDS Integers, FiniteSetTheorems, TLAPS

\* A remainder lies below its divisor.
LEMMA ModRange == ASSUME NEW m \in Nat \ {0}, NEW n \in Nat
                  PROVE  n % m \in 0 .. m - 1
  OBVIOUS

\* A number below the divisor is its own remainder.
LEMMA ModSmall == ASSUME NEW m \in Nat \ {0}, NEW n \in 0 .. m - 1
                  PROVE  n % m = n
  OBVIOUS

\* A number below twice the divisor wraps at most once.
LEMMA ModOnce == ASSUME NEW m \in Nat \ {0}, NEW n \in m .. 2 * m - 1
                 PROVE  n % m = n - m
  OBVIOUS

\* The quotient and the remainder determine the number.
LEMMA DivMod == ASSUME NEW m \in Nat \ {0}, NEW n \in Nat
                PROVE  n = m * (n \div m) + (n % m)
  BY Z3

\* The quotient of naturals is a natural.
LEMMA DivNat == ASSUME NEW m \in Nat \ {0}, NEW n \in Nat PROVE n \div m \in Nat
  OBVIOUS

\* And the number determines the remainder.
LEMMA ModUnique == ASSUME NEW m \in Nat \ {0}, NEW q \in Int, NEW r \in 0 .. m - 1
                   PROVE  (m * q + r) % m = r
  BY Z3

\* The remainder of a successor.
LEMMA ModSucc ==
  ASSUME NEW m \in Nat \ {0}, NEW n \in Nat
  PROVE  (n + 1) % m = IF n % m = m - 1 THEN 0 ELSE (n % m) + 1
<1> DEFINE q == n \div m
           r == n % m
<1>1. q \in Int /\ r \in 0 .. m - 1
  OBVIOUS
<1>2. n = m * q + r
  BY DivMod
<1> HIDE DEF q, r
<1>3. CASE r = m - 1
  <2>1. n + 1 = m * (q + 1) + 0
    BY <1>1, <1>2, <1>3
  <2>2. (m * (q + 1) + 0) % m = 0
    BY ModUnique, <1>1
  <2> QED
    BY <2>1, <2>2, <1>3 DEF r
<1>4. CASE r # m - 1
  <2>1. n + 1 = m * q + (r + 1)
    BY <1>1, <1>2
  <2>2. (m * q + (r + 1)) % m = r + 1
    BY ModUnique, <1>1, <1>4
  <2> QED
    BY <2>1, <2>2, <1>4 DEF r
<1> QED
  BY <1>3, <1>4

\* A set of naturals that is not empty has a least element.
LEMMA LeastNatural ==
  ASSUME NEW T \in SUBSET Nat, T # {}
  PROVE  \E m \in T : \A k \in T : m <= k
<1> DEFINE Below(n) == 0 .. n
           U == {Below(n) : n \in T}
<1>1. U \subseteq FiniteSubsetsOf(Nat)
  <2>1. ASSUME NEW n \in T PROVE Below(n) \in SUBSET Nat /\ IsFiniteSet(Below(n))
    BY FS_Interval
  <2> QED
    BY <2>1 DEF FiniteSubsetsOf
<1>2. U # {}
  OBVIOUS
<1>3. PICK u \in U : \A v \in U : ~ (<<v, u>> \in StrictSubsetOrdering(Nat))
  <2> HIDE DEF U
  <2> QED BY <1>1, <1>2, FS_StrictSubsetOrderingWellFounded, WFMin
<1>4. PICK m \in T : u = Below(m)
  OBVIOUS
<1>5. ASSUME NEW k \in T, k < m PROVE FALSE
  <2>1. Below(k) \in U /\ Below(k) \subseteq u /\ m \in u /\ m \notin Below(k)
    BY <1>4, <1>5
  <2>2. Below(k) \in SUBSET Nat /\ u \in SUBSET Nat
    BY <1>4
  <2>3. <<Below(k), u>> \in StrictSubsetOrdering(Nat)
    BY <2>1, <2>2 DEF StrictSubsetOrdering
  <2> QED
    BY <1>3, <2>1, <2>3
<1> QED
  BY <1>5

\* A remainder may be taken before an addition as well as after it.
LEMMA ModAdd ==
  ASSUME NEW m \in Nat \ {0}, NEW i \in Nat, NEW j \in Nat
  PROVE  ((i % m) + j) % m = (i + j) % m
<1> DEFINE q == i \div m
           r == i % m
           t == (r + j) \div m
           u == (r + j) % m
<1>1. q \in Int /\ r \in 0 .. m - 1 /\ i = m * q + r
  BY DivMod
<1> HIDE DEF q, r
<1>2. t \in Int /\ u \in 0 .. m - 1 /\ r + j = m * t + u
  BY <1>1, DivMod
<1> HIDE DEF t, u
<1>3. i + j = m * (q + t) + u
  BY <1>1, <1>2, Z3
<1>4. (m * (q + t) + u) % m = u
  <2>1. q + t \in Int
    BY <1>1, <1>2
  <2> QED
    BY <1>2, <2>1, ModUnique, Zenon
<1> QED
  BY <1>3, <1>4 DEF u, r
=============================================================================
