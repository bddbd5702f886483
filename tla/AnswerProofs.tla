---------------------------- MODULE AnswerProofs ----------------------------
(***************************************************************************)
(* What the tools that answer in one step compute, for every input: folds  *)
(* and lists of lists first, then one part for each tool.                  *)
(***************************************************************************)
EXTENDS Doctor, SampleBank, Freeze, Reference, StreamSearch, TileShape, ModArith,
        SequenceTheorems, FiniteSetTheorems, TLAPS

-----------------------------------------------------------------------------
(* Folding a sequence *)

\* What a fold over the subsets of 1 .. n comes to, when H[k] takes in number k.
Folds(iter, n, base, H) ==
  iter = [s \in SUBSET (1 .. n) |-> IF s = {} THEN base ELSE H[Max(s)][iter[s \ {Max(s)}]]]

\* The largest member of a set that is given with it.
LEMMA MaxIs ==
  ASSUME NEW S \in SUBSET Int, NEW x \in S, \A y \in S : y <= x
  PROVE  Max(S) = x
<1>1. Max(S) \in S /\ \A y \in S : Max(S) >= y
  BY DEF Max
<1>2. Max(S) >= x /\ Max(S) <= x
  BY <1>1
<1>3. Max(S) \in Int /\ x \in Int
  BY <1>1
<1> QED
  BY <1>2, <1>3

\* The smallest member of a set of naturals.
LEMMA MinMember ==
  ASSUME NEW S \in SUBSET Nat, S # {}
  PROVE  Min(S) \in S /\ \A y \in S : Min(S) <= y
<1>1. \E x \in S : \A y \in S : x <= y
  BY LeastNatural
<1> QED
  BY <1>1 DEF Min

\* And it is given by being one.
LEMMA MinIs ==
  ASSUME NEW S \in SUBSET Nat, NEW x \in S, \A y \in S : x <= y
  PROVE  Min(S) = x
<1>1. Min(S) \in S /\ \A y \in S : Min(S) <= y
  BY MinMember
<1>2. Min(S) <= x /\ x <= Min(S) /\ Min(S) \in Nat /\ x \in Nat
  BY <1>1
<1> QED
  BY <1>2

\* A set of numbers up to n has a largest member.
LEMMA MaxWithin ==
  ASSUME NEW n \in Nat, NEW S \in SUBSET (1 .. n), S # {}
  PROVE  Max(S) \in S /\ \A y \in S : y <= Max(S)
<1> DEFINE T == {n - x : x \in S}
<1>1. T \in SUBSET Nat /\ T # {}
  <2>1. \A x \in S : n - x \in Nat
    OBVIOUS
  <2> QED
    BY <2>1
<1>2. PICK t \in T : \A k \in T : t <= k
  <2> HIDE DEF T
  <2> QED
    BY <1>1, LeastNatural
<1>3. PICK x \in S : t = n - x
  BY <1>2
<1>4. \A y \in S : y <= x
  <2> SUFFICES ASSUME NEW y \in S PROVE y <= x
    OBVIOUS
  <2>1. n - y \in T
    OBVIOUS
  <2>2. n - x <= n - y
    <3> HIDE DEF T
    <3> QED
      BY <1>2, <1>3, <2>1
  <2> HIDE DEF T
  <2>3. x \in Int /\ y \in Int
    <3>1. x \in 1 .. n /\ y \in 1 .. n
      BY <1>3
    <3> QED
      BY <3>1
  <2> QED
    BY <2>2, <2>3
<1>5. S \in SUBSET Int
  OBVIOUS
<1>6. Max(S) = x
  BY <1>4, <1>5, MaxIs
<1> QED
  BY <1>4, <1>6

\* There is such a fold, for every length: one number more is taken in last.
LEMMA FoldExists ==
  ASSUME NEW D, NEW base \in D, NEW n \in Nat, NEW H \in [1 .. n -> [D -> D]]
  PROVE  \E iter \in [SUBSET (1 .. n) -> D] : Folds(iter, n, base, H)
<1> DEFINE Good(k) == \E iter \in [SUBSET (1 .. k) -> D] : Folds(iter, k, base, H)
           Bad == {k \in 0 .. n : ~Good(k)}
<1>1. Good(0)
  <2> DEFINE g == [s \in SUBSET (1 .. 0) |-> base]
  <2>1. g \in [SUBSET (1 .. 0) -> D]
    OBVIOUS
  <2>2. \A s \in SUBSET (1 .. 0) : s = {}
    OBVIOUS
  <2>3. g = [s \in SUBSET (1 .. 0) |-> IF s = {} THEN base ELSE H[Max(s)][g[s \ {Max(s)}]]]
    BY <2>2
  <2> HIDE DEF g
  <2> QED
    BY <2>1, <2>3, Zenon DEF Folds
<1>2. ASSUME NEW k \in 0 .. n - 1, Good(k) PROVE Good(k + 1)
  <2>1. PICK g \in [SUBSET (1 .. k) -> D] : Folds(g, k, base, H)
    BY <1>2
  <2> DEFINE h == [s \in SUBSET (1 .. k + 1) |-> IF k + 1 \in s THEN H[k + 1][g[s \ {k + 1}]] ELSE g[s]]
  <2>2. \A s \in SUBSET (1 .. k + 1) : s \ {k + 1} \in SUBSET (1 .. k) /\ (k + 1 \notin s => s \in SUBSET (1 .. k))
    OBVIOUS
  <2>3. h \in [SUBSET (1 .. k + 1) -> D]
    <3>1. ASSUME NEW s \in SUBSET (1 .. k + 1)
          PROVE  (IF k + 1 \in s THEN H[k + 1][g[s \ {k + 1}]] ELSE g[s]) \in D
      <4>1. k + 1 \in 1 .. n
        OBVIOUS
      <4>2. H[k + 1] \in [D -> D]
        BY <4>1
      <4> QED
        BY <2>2, <4>2
    <3> QED
      BY <3>1
  <2>4. ASSUME NEW s \in SUBSET (1 .. k + 1)
        PROVE  h[s] = IF s = {} THEN base ELSE H[Max(s)][h[s \ {Max(s)}]]
    <3>1. CASE k + 1 \in s
      <4>1. Max(s) = k + 1
        <5>1. s \in SUBSET Int /\ \A y \in s : y <= k + 1
          OBVIOUS
        <5> QED
          BY <3>1, <5>1, MaxIs
      <4>2. h[s] = H[k + 1][g[s \ {k + 1}]] /\ h[s \ {k + 1}] = g[s \ {k + 1}]
        BY <3>1, <2>2
      <4> QED
        BY <3>1, <4>1, <4>2
    <3>2. CASE k + 1 \notin s
      <4>1. h[s] = g[s] /\ s \in SUBSET (1 .. k)
        BY <2>2, <3>2
      <4>2. g[s] = IF s = {} THEN base ELSE H[Max(s)][g[s \ {Max(s)}]]
        BY <2>1, <4>1 DEF Folds
      <4>3. h[s \ {Max(s)}] = g[s \ {Max(s)}]
        BY <3>2
      <4> QED
        BY <4>1, <4>2, <4>3
    <3> QED
      BY <3>1, <3>2
  <2>5. h = [s \in SUBSET (1 .. k + 1) |-> h[s]]
    OBVIOUS
  <2>6. Folds(h, k + 1, base, H)
    <3> HIDE DEF h
    <3> QED
      BY <2>4, <2>5 DEF Folds
  <2> QED
    BY <2>3, <2>6
<1>3. Bad = {}
  <2> SUFFICES ASSUME Bad # {} PROVE FALSE
    OBVIOUS
  <2> HIDE DEF Good
  <2>1. Bad \in SUBSET Nat
    OBVIOUS
  <2>2. PICK m \in Bad : \A k \in Bad : m <= k
    <3> HIDE DEF Bad
    <3> QED BY <2>1, LeastNatural
  <2>3. m # 0
    BY <1>1
  <2>4. m - 1 \in 0 .. n - 1 /\ m - 1 \notin Bad
    BY <2>2, <2>3
  <2>5. Good(m - 1)
    BY <2>4
  <2>6. Good((m - 1) + 1)
    BY <1>2, <2>4, <2>5
  <2>7. (m - 1) + 1 = m
    BY <2>4
  <2> QED
    BY <2>2, <2>6, <2>7
<1> QED
  <2>1. n \in 0 .. n
    OBVIOUS
  <2> HIDE DEF Good
  <2>2. Good(n)
    BY <1>3, <2>1
  <2> QED
    BY <2>2 DEF Good

\* A fold over 1 .. k takes in number k last.
LEMMA FoldStep ==
  ASSUME NEW n \in Nat, NEW base, NEW H, NEW iter, Folds(iter, n, base, H)
  PROVE  /\ iter[1 .. 0] = base
         /\ \A k \in 1 .. n : iter[1 .. k] = H[k][iter[1 .. k - 1]]
<1>1. 1 .. 0 = {}
  OBVIOUS
<1>2. iter[{}] = base
  BY DEF Folds
<1>3. ASSUME NEW k \in 1 .. n PROVE iter[1 .. k] = H[k][iter[1 .. k - 1]]
  <2>1. Max(1 .. k) = k
    <3>1. 1 .. k \in SUBSET Int /\ k \in 1 .. k /\ \A y \in 1 .. k : y <= k
      OBVIOUS
    <3> QED
      BY <3>1, MaxIs
  <2>2. (1 .. k) \ {k} = 1 .. k - 1 /\ 1 .. k # {} /\ 1 .. k \in SUBSET (1 .. n)
    OBVIOUS
  <2>3. iter[1 .. k] = H[Max(1 .. k)][iter[(1 .. k) \ {Max(1 .. k)}]]
    BY <2>2 DEF Folds
  <2> QED
    BY <2>1, <2>2, <2>3
<1> QED
  BY <1>1, <1>2, <1>3

-----------------------------------------------------------------------------
(* Reading a list of lists *)

\* Two lists, one after the other.
Joins(whole, first, second) == whole = first \o second

\* What FlattenSeq has read after each of its lists: nothing, then one list
\* more.
Flattens(g, s, E) ==
  /\ s \in Seq(Seq(E)) /\ g \in [0 .. Len(s) -> Seq(E)]
  /\ g[0] = <<>> /\ \A k \in 1 .. Len(s) : g[k] = g[k - 1] \o s[k]

\* Such a reading exists for any list of lists.
LEMMA FlatExists ==
  ASSUME NEW E, NEW s \in Seq(Seq(E))
  PROVE  \E g : Flattens(g, s, E)
<1> DEFINE Good(n) == \E g \in [0 .. n -> Seq(E)] : g[0] = <<>> /\ \A k \in 1 .. n : g[k] = g[k - 1] \o s[k]
           Bad == {n \in Nat : n <= Len(s) /\ ~Good(n)}
<1>1. Good(0)
  <2> DEFINE g == [k \in 0 .. 0 |-> <<>>]
  <2>1. g \in [0 .. 0 -> Seq(E)] /\ g[0] = <<>>
    OBVIOUS
  <2> HIDE DEF g
  <2>2. \A k \in 1 .. 0 : g[k] = g[k - 1] \o s[k]
    OBVIOUS
  <2> QED
    BY <2>1, <2>2
<1>2. ASSUME NEW n \in Nat, n < Len(s), Good(n) PROVE Good(n + 1)
  <2>1. PICK g \in [0 .. n -> Seq(E)] : g[0] = <<>> /\ \A k \in 1 .. n : g[k] = g[k - 1] \o s[k]
    BY <1>2
  <2> DEFINE h == [k \in 0 .. n + 1 |-> IF k = n + 1 THEN g[n] \o s[n + 1] ELSE g[k]]
  <2>2. g[n] \o s[n + 1] \in Seq(E)
    BY <1>2
  <2>3. h \in [0 .. n + 1 -> Seq(E)]
    BY <2>2
  <2>4. h[0] = <<>>
    BY <2>1
  <2>6. /\ h[n + 1] = g[n] \o s[n + 1]
        /\ \A k \in 0 .. n : h[k] = g[k]
    OBVIOUS
  <2> HIDE DEF h
  <2>5. ASSUME NEW k \in 1 .. n + 1 PROVE h[k] = h[k - 1] \o s[k]
    <3>1. CASE k = n + 1
      <4>1. k - 1 = n /\ n \in 0 .. n
        BY <3>1
      <4> QED
        BY <3>1, <4>1, <2>6
    <3>2. CASE k # n + 1
      <4>1. k \in 1 .. n /\ k \in 0 .. n /\ k - 1 \in 0 .. n
        BY <3>2
      <4>2. h[k] = g[k] /\ h[k - 1] = g[k - 1] /\ g[k] = g[k - 1] \o s[k]
        BY <4>1, <2>1, <2>6
      <4> QED
        BY <4>2
    <3> QED
      BY <3>1, <3>2
  <2> QED
    BY <2>3, <2>4, <2>5
<1> HIDE DEF Good
<1>3. SUFFICES Bad = {}
  <2>1. Good(Len(s))
    BY <1>3
  <2> QED
    BY <2>1 DEF Good, Flattens
<1>4. SUFFICES ASSUME Bad # {} PROVE FALSE
  OBVIOUS
<1>5. PICK n \in Bad : \A k \in Bad : n <= k
  BY <1>4, LeastNatural
<1>6. n # 0
  BY <1>1
<1>7. n - 1 \in Nat /\ n - 1 < Len(s) /\ n - 1 \notin Bad
  BY <1>5, <1>6
<1> QED
  BY <1>2, <1>7

\* FlattenSeq is the reading after the last list.
LEMMA FlattenIs ==
  ASSUME NEW E, NEW s \in Seq(Seq(E))
  PROVE  \E g : Flattens(g, s, E) /\ FlattenSeq(s) = g[Len(s)]
<1>1. PICK g : Flattens(g, s, E)
  BY FlatExists
<1>2. CASE Len(s) = 0
  <2>1. FlattenSeq(s) = <<>>
    BY <1>2 DEF FlattenSeq
  <2> QED
    BY <1>1, <1>2, <2>1 DEF Flattens
<1>3. CASE Len(s) # 0
  <2> DEFINE Rec(f) == f = [i \in 1 .. Len(s) |-> IF i = 1 THEN s[i] ELSE f[i - 1] \o s[i]]
             r == [i \in 1 .. Len(s) |-> g[i]]
             f == CHOOSE f : Rec(f)
  <2>1. FlattenSeq(s) = f[Len(s)]
    BY <1>3 DEF FlattenSeq
  <2>2. Rec(r)
    <3>1. ASSUME NEW i \in 1 .. Len(s) PROVE r[i] = IF i = 1 THEN s[i] ELSE r[i - 1] \o s[i]
      <4>1. g[i] = g[i - 1] \o s[i]
        BY <1>1 DEF Flattens
      <4>2. CASE i = 1
        <5>1. <<>> \o s[1] = s[1]
          BY <4>2
        <5>2. g[0] = <<>> /\ i - 1 = 0
          BY <4>2, <1>1 DEF Flattens
        <5>3. g[i] = s[i]
          BY <4>1, <4>2, <5>1, <5>2
        <5> QED
          BY <4>2, <5>3
      <4>3. CASE i # 1
        <5>1. i - 1 \in 1 .. Len(s)
          BY <4>3
        <5>2. r[i - 1] = g[i - 1] /\ r[i] = g[i]
          BY <5>1
        <5> HIDE DEF r
        <5> QED
          BY <4>1, <4>3, <5>2
      <4> QED
        BY <4>2, <4>3
    <3> QED
      BY <3>1
  <2>3. Rec(f)
    BY <2>2
  <2> HIDE DEF f, r
  <2> DEFINE Bad == {i \in Nat : 1 <= i /\ i <= Len(s) /\ f[i] # g[i]}
  <2>4. ASSUME NEW i \in 1 .. Len(s) PROVE f[i] = IF i = 1 THEN s[i] ELSE f[i - 1] \o s[i]
    BY <2>3
  <2>5. g[1] = s[1]
    <3>0. Len(s) \in Nat
      OBVIOUS
    <3>1. 1 \in 1 .. Len(s)
      BY <3>0, <1>3
    <3>5. g[0] = <<>> /\ \A k \in 1 .. Len(s) : g[k] = g[k - 1] \o s[k]
      BY <1>1 DEF Flattens
    <3>6. g[1] = g[1 - 1] \o s[1]
      BY <3>1, <3>5, Zenon
    <3>7. 1 - 1 = 0
      OBVIOUS
    <3>2. g[0] = <<>> /\ g[1] = g[0] \o s[1]
      BY <3>5, <3>6, <3>7, Zenon
    <3>4. s[1] \in Seq(E)
      BY <3>1
    <3>3. <<>> \o s[1] = s[1]
      BY <3>4
    <3> QED
      BY <3>2, <3>3
  <2>6. Bad = {}
    <3>1. SUFFICES ASSUME Bad # {} PROVE FALSE
      OBVIOUS
    <3>2. PICK i \in Bad : \A k \in Bad : i <= k
      BY <3>1, LeastNatural
    <3>8. f[1] = s[1]
      <4>1. 1 \in 1 .. Len(s)
        BY <1>3
      <4> QED
        BY <4>1, <2>4
    <3>9. i \in 1 .. Len(s) /\ f[i] # g[i]
      BY <3>2
    <3>3. i # 1
      BY <3>8, <2>5, <3>9
    <3>4. i - 1 \in 1 .. Len(s) /\ i - 1 \notin Bad
      BY <3>2, <3>3
    <3>5. f[i - 1] = g[i - 1]
      BY <3>4
    <3>6. f[i] = f[i - 1] \o s[i]
      BY <2>4, <3>9, <3>3
    <3>7. g[i] = g[i - 1] \o s[i]
      BY <1>1, <3>9 DEF Flattens
    <3> QED
      BY <3>9, <3>5, <3>6, <3>7
  <2>7. f[Len(s)] = g[Len(s)]
    BY <2>6, <1>3
  <2> QED
    BY <1>1, <2>1, <2>7
<1> QED
  BY <1>2, <1>3

\* What holds at zero and is handed on from each number to the next holds up
\* to the last.
LEMMA UpTo ==
  ASSUME NEW n \in Nat, NEW S, 0 \in S, \A k \in 0 .. n - 1 : k \in S => k + 1 \in S
  PROVE  \A k \in 0 .. n : k \in S
<1> DEFINE Bad == {k \in Nat : k <= n /\ k \notin S}
<1>1. SUFFICES ASSUME Bad # {} PROVE FALSE
  OBVIOUS
<1>2. PICK k \in Bad : \A j \in Bad : k <= j
  BY <1>1, LeastNatural
<1>3. k # 0
  BY <1>2
<1>4. k - 1 \in 0 .. n - 1 /\ k - 1 \notin Bad
  BY <1>2, <1>3
<1>5. k - 1 \in S
  BY <1>4
<1>6. (k - 1) + 1 \in S
  BY <1>4, <1>5
<1>7. (k - 1) + 1 = k
  BY <1>2
<1> QED
  BY <1>2, <1>6, <1>7

\* One step of a reading.
LEMMA Reading ==
  ASSUME NEW E, NEW s, NEW g, Flattens(g, s, E),
         NEW k \in 0 .. Len(s) - 1
  PROVE  /\ k + 1 \in 1 .. Len(s) /\ k + 1 \in 0 .. Len(s) /\ k \in 0 .. Len(s)
         /\ g[k] \in Seq(E) /\ s[k + 1] \in Seq(E) /\ Joins(g[k + 1], g[k], s[k + 1])
<1>0. s \in Seq(Seq(E)) /\ g \in [0 .. Len(s) -> Seq(E)]
  BY DEF Flattens
<1>1. Len(s) \in Nat /\ s \in [1 .. Len(s) -> Seq(E)]
  BY <1>0
<1>2. k + 1 \in 1 .. Len(s) /\ k + 1 \in 0 .. Len(s) /\ k \in 0 .. Len(s) /\ (k + 1) - 1 = k
  BY <1>1
<1>3. g[k + 1] = g[(k + 1) - 1] \o s[k + 1]
  BY <1>2, Zenon DEF Flattens
<1>4. g[k] \in Seq(E)
  BY <1>0, <1>2
<1>5. s[k + 1] \in Seq(E)
  BY <1>1, <1>2
<1> QED
  BY <1>2, <1>3, <1>4, <1>5, Zenon DEF Joins

\* What was read first stays at the front of what is read in the end.
LEMMA ReadFirst ==
  ASSUME NEW E, NEW s, NEW g, Flattens(g, s, E),
         NEW k \in 0 .. Len(s)
  PROVE  /\ Len(g[k]) <= Len(g[Len(s)])
         /\ \A i \in 1 .. Len(g[k]) : g[Len(s)][i] = g[k][i]
<1> DEFINE m == Len(s) - k
           Holds(j) == Len(g[k]) <= Len(g[k + j]) /\ \A i \in 1 .. Len(g[k]) : g[k + j][i] = g[k][i]
           S == {j \in 0 .. m : Holds(j)}
<1>0. s \in Seq(Seq(E)) /\ g \in [0 .. Len(s) -> Seq(E)]
  BY DEF Flattens
<1>1. m \in Nat /\ k + m = Len(s) /\ g[k] \in Seq(E)
  BY <1>0
<1>2. 0 \in S
  <2>1. k + 0 = k
    OBVIOUS
  <2>2. Holds(0)
    BY <1>1, <2>1
  <2> QED
    BY <1>1, <2>2
<1>3. ASSUME NEW j \in 0 .. m - 1, j \in S PROVE j + 1 \in S
  <2>1. k + j \in 0 .. Len(s) - 1
    BY <1>1
  <2>2. g[k + j] \in Seq(E) /\ s[k + j + 1] \in Seq(E) /\ g[k + j + 1] = g[k + j] \o s[k + j + 1]
    <3> DEFINE o == k + j
    <3>1. o \in 0 .. Len(s) - 1
      BY <2>1
    <3> HIDE DEF o
    <3>2. g[o] \in Seq(E) /\ s[o + 1] \in Seq(E) /\ Joins(g[o + 1], g[o], s[o + 1])
      BY <3>1, Reading
    <3>3. g[o + 1] = g[o] \o s[o + 1]
      BY <3>2, Zenon DEF Joins
    <3> QED
      BY <3>2, <3>3, Zenon DEF o
  <2>3. Holds(j)
    BY <1>3
  <2>4. k + (j + 1) = k + j + 1 /\ j + 1 \in 0 .. m
    BY <1>1
  <2> HIDE DEF m
  <2>7. /\ Len(g[k + j]) \in Nat /\ Len(g[k + j]) <= Len(g[k + j + 1])
        /\ \A i \in 1 .. Len(g[k + j]) : g[k + j + 1][i] = g[k + j][i]
    <3> DEFINE a == g[k + j]
               b == s[k + j + 1]
    <3>1. a \in Seq(E) /\ b \in Seq(E) /\ g[k + j + 1] = a \o b
      BY <2>2
    <3> HIDE DEF a, b
    <3>2. Len(a \o b) = Len(a) + Len(b) /\ Len(a) \in Nat /\ Len(b) \in Nat /\ \A i \in 1 .. Len(a) : (a \o b)[i] = a[i]
      BY <3>1
    <3>3. Len(a) <= Len(a \o b)
      BY <3>2
    <3> QED
      BY <3>1, <3>2, <3>3 DEF a
  <2>5. Len(g[k]) <= Len(g[k + j + 1])
    <3>1. Len(g[k]) \in Nat
      BY <1>1
    <3> QED
      BY <2>3, <2>7, <3>1
  <2>6. ASSUME NEW i \in 1 .. Len(g[k]) PROVE g[k + j + 1][i] = g[k][i]
    <3>1. i \in 1 .. Len(g[k + j])
      BY <1>1, <2>7, <2>3
    <3>2. g[k + j + 1][i] = g[k + j][i]
      BY <2>7, <3>1
    <3> QED
      BY <2>3, <3>2
  <2> QED
    BY <2>4, <2>5, <2>6
<1> HIDE DEF S, m
<1>4. m \in S
  <2>1. \A j \in 0 .. m : j \in S
    BY <1>1, <1>2, <1>3, UpTo, Zenon
  <2> QED
    BY <1>1, <2>1
<1> QED
  BY <1>1, <1>4 DEF S

\* Nothing is read exactly when every list is empty.
LEMMA FlatEmpty ==
  ASSUME NEW E, NEW s \in Seq(Seq(E))
  PROVE  FlattenSeq(s) = <<>> <=> \A k \in 1 .. Len(s) : s[k] = <<>>
<1>1. PICK g : Flattens(g, s, E) /\ FlattenSeq(s) = g[Len(s)]
  BY FlattenIs
<1> DEFINE S == {k \in 0 .. Len(s) : g[k] = <<>> <=> \A i \in 1 .. k : s[i] = <<>>}
<1>2. Len(s) \in Nat
  OBVIOUS
<1>3. 0 \in S
  <2>1. g[0] = <<>> /\ 1 .. 0 = {}
    BY <1>1 DEF Flattens
  <2> QED
    BY <1>2, <2>1
<1>4. ASSUME NEW k \in 0 .. Len(s) - 1, k \in S PROVE k + 1 \in S
  <2>1. /\ k + 1 \in 0 .. Len(s) /\ k + 1 \in 1 .. Len(s)
        /\ g[k] \in Seq(E) /\ s[k + 1] \in Seq(E) /\ Joins(g[k + 1], g[k], s[k + 1])
    BY <1>1, Reading
  <2>2. g[k + 1] = <<>> <=> g[k] = <<>> /\ s[k + 1] = <<>>
    BY <2>1 DEF Joins
  <2>3. 1 .. k + 1 = (1 .. k) \cup {k + 1}
    BY <1>2
  <2> QED
    BY <1>4, <2>1, <2>2, <2>3
<1> HIDE DEF S
<1>5. Len(s) \in S
  <2>1. \A k \in 0 .. Len(s) : k \in S
    BY <1>2, <1>3, <1>4, UpTo, Zenon
  <2> QED
    BY <1>2, <2>1
<1> QED
  BY <1>1, <1>5 DEF S

\* Joining is associative.
LEMMA JoinsOn ==
  ASSUME NEW E, NEW a \in Seq(E), NEW b \in Seq(E), NEW c \in Seq(E), NEW ab, NEW abc, NEW bc,
         Joins(ab, a, b), Joins(abc, ab, c), Joins(bc, b, c)
  PROVE  Joins(abc, a, bc)
<1>1. abc = (a \o b) \o c /\ bc = b \o c
  BY Zenon DEF Joins
<1>2. (a \o b) \o c = a \o (b \o c)
  BY ConcatAssociative
<1> QED
  BY <1>1, <1>2, Zenon DEF Joins

\* The empty list adds nothing.
LEMMA JoinsNone ==
  ASSUME NEW E, NEW a \in Seq(E)
  PROVE  Joins(a, a, <<>>)
<1>1. a \o <<>> = a
  BY ConcatEmptySeq
<1> QED
  BY <1>1, Zenon DEF Joins

\* A stretch of lists, read on its own, continues what was read before it.
LEMMA OnePiece ==
  ASSUME NEW E, NEW W, NEW g, Flattens(g, W, E), NEW c \in Nat, NEW p \in Seq(Seq(E)),
         c + Len(p) <= Len(W), \A i \in 1 .. Len(p) : p[i] = W[c + i]
  PROVE  Joins(g[c + Len(p)], g[c], FlattenSeq(p))
<1>1. PICK q : Flattens(q, p, E) /\ FlattenSeq(p) = q[Len(p)]
  BY FlattenIs
<1> DEFINE S == {i \in 0 .. Len(p) : Joins(g[c + i], g[c], q[i])}
<1>2. Len(p) \in Nat /\ W \in Seq(Seq(E)) /\ g \in [0 .. Len(W) -> Seq(E)] /\ Len(W) \in Nat
  BY DEF Flattens
<1>3. g[c] \in Seq(E)
  <2>1. c \in 0 .. Len(W)
    BY <1>2
  <2> QED
    BY <1>2, <2>1
<1>4. 0 \in S
  <2>1. q[0] = <<>> /\ c + 0 = c
    BY <1>1 DEF Flattens
  <2>2. Joins(g[c], g[c], <<>>)
    BY <1>3, JoinsNone
  <2>3. Joins(g[c + 0], g[c], q[0])
    BY <2>1, <2>2
  <2> QED
    BY <1>2, <2>3
<1>5. ASSUME NEW i \in 0 .. Len(p) - 1, i \in S PROVE i + 1 \in S
  <2>1. i + 1 \in 0 .. Len(p) /\ i + 1 \in 1 .. Len(p) /\ q[i] \in Seq(E) /\ p[i + 1] \in Seq(E)
        /\ Joins(q[i + 1], q[i], p[i + 1])
    BY <1>1, Reading
  <2> DEFINE o == c + i
  <2>2. o \in 0 .. Len(W) - 1
    BY <1>2
  <2>3. Joins(g[o], g[c], q[i])
    BY <1>5
  <2>4. o + 1 = c + (i + 1)
    BY <1>2
  <2> HIDE DEF o
  <2>5. Joins(g[o + 1], g[o], W[o + 1])
    BY <2>2, Reading
  <2>6. W[o + 1] = p[i + 1]
    BY <2>1, <2>4
  <2>7. Joins(g[o + 1], g[c], q[i + 1])
    BY <1>3, <2>1, <2>3, <2>5, <2>6, JoinsOn
  <2>8. Joins(g[c + (i + 1)], g[c], q[i + 1])
    BY <2>4, <2>7
  <2> QED
    BY <2>1, <2>8
<1> HIDE DEF S
<1>6. Len(p) \in S
  <2>1. \A i \in 0 .. Len(p) : i \in S
    BY <1>2, <1>4, <1>5, UpTo, Zenon
  <2> QED
    BY <1>2, <2>1
<1> QED
  BY <1>1, <1>6 DEF S

\* The readings F of the pieces P into which the lists W are cut.
Pieces(F, P, cut, nb, W, E) ==
  /\ W \in Seq(Seq(E)) /\ nb \in Nat /\ cut \in [0 .. nb -> 0 .. Len(W)] /\ cut[0] = 0 /\ cut[nb] = Len(W)
  /\ P \in [1 .. nb -> Seq(Seq(E))] /\ F \in [1 .. nb -> Seq(E)]
  /\ \A b \in 0 .. nb - 1 : /\ F[b + 1] = FlattenSeq(P[b + 1]) /\ cut[b + 1] = cut[b] + Len(P[b + 1])
                            /\ \A i \in 1 .. Len(P[b + 1]) : P[b + 1][i] = W[cut[b] + i]

\* Lists cut into pieces at any places read the same as the lists uncut.
LEMMA PiecesFlat ==
  ASSUME NEW E, NEW W, NEW nb, NEW cut, NEW P, NEW F, Pieces(F, P, cut, nb, W, E)
  PROVE  FlattenSeq(F) = FlattenSeq(W)
<1>0. /\ W \in Seq(Seq(E)) /\ nb \in Nat /\ cut \in [0 .. nb -> 0 .. Len(W)] /\ cut[0] = 0 /\ cut[nb] = Len(W)
      /\ P \in [1 .. nb -> Seq(Seq(E))] /\ F \in [1 .. nb -> Seq(E)]
      /\ \A b \in 0 .. nb - 1 : /\ F[b + 1] = FlattenSeq(P[b + 1]) /\ cut[b + 1] = cut[b] + Len(P[b + 1])
                                /\ \A i \in 1 .. Len(P[b + 1]) : P[b + 1][i] = W[cut[b] + i]
  BY Zenon DEF Pieces
<1>1. PICK g : Flattens(g, W, E) /\ FlattenSeq(W) = g[Len(W)]
  BY <1>0, FlattenIs
<1>2. F \in Seq(Seq(E)) /\ Len(F) = nb
  BY <1>0
<1>3. PICK h : Flattens(h, F, E) /\ FlattenSeq(F) = h[nb]
  BY <1>2, FlattenIs
<1> DEFINE S == {b \in 0 .. nb : h[b] = g[cut[b]]}
<1>4. 0 \in S
  <2>1. h[0] = <<>> /\ g[0] = <<>>
    BY <1>1, <1>3 DEF Flattens
  <2> QED
    BY <1>0, <2>1
<1>5. ASSUME NEW b \in 0 .. nb - 1, b \in S PROVE b + 1 \in S
  <2>1. b + 1 \in 0 .. nb /\ h[b] \in Seq(E) /\ F[b + 1] \in Seq(E) /\ Joins(h[b + 1], h[b], F[b + 1])
    BY <1>2, <1>3, Reading
  <2> DEFINE c == cut[b]
             p == P[b + 1]
  <2>3. p \in Seq(Seq(E)) /\ b \in 0 .. nb /\ b + 1 \in 1 .. nb
    BY <1>0, <2>1
  <2>4. h[b] = g[c]
    BY <1>5
  <2>7. c \in Nat /\ cut[b + 1] \in 0 .. Len(W) /\ Len(W) \in Nat
    <3> HIDE DEF p
    <3>1. cut \in [0 .. nb -> 0 .. Len(W)] /\ W \in Seq(Seq(E))
      BY <1>0
    <3>2. Len(W) \in Nat
      BY <3>1
    <3>3. cut[b] \in 0 .. Len(W) /\ cut[b + 1] \in 0 .. Len(W)
      BY <3>1, <2>1, <2>3
    <3> QED
      BY <3>2, <3>3
  <2>8. cut[b + 1] = c + Len(p) /\ F[b + 1] = FlattenSeq(p) /\ \A i \in 1 .. Len(p) : p[i] = W[c + i]
    BY <1>0, Zenon
  <2> HIDE DEF c, p
  <2>9. c + Len(p) <= Len(W)
    BY <2>7, <2>8
  <2>2. cut[b + 1] = c + Len(p) /\ F[b + 1] = FlattenSeq(p)
    BY <2>8
  <2>5. Joins(g[c + Len(p)], g[c], FlattenSeq(p))
    BY <1>1, <2>3, <2>7, <2>8, <2>9, OnePiece
  <2>6. h[b + 1] = g[cut[b + 1]]
    BY <2>1, <2>2, <2>4, <2>5, Zenon DEF Joins
  <2> QED
    BY <2>1, <2>6
<1> HIDE DEF S
<1>6. nb \in S
  <2>1. \A b \in 0 .. nb : b \in S
    BY <1>0, <1>4, <1>5, UpTo, Zenon
  <2> QED
    BY <1>0, <2>1
<1> QED
  BY <1>0, <1>1, <1>3, <1>6 DEF S

\* The cases a list of mismatches names.
Ats(u) == [i \in DOMAIN u |-> u[i].at]

\* They are those of its two halves, one after the other.
LEMMA AtsJoin ==
  ASSUME NEW C, NEW M, \A m \in M : m.at \in C, NEW a \in Seq(M), NEW b \in Seq(M), NEW w, Joins(w, a, b)
  PROVE  Joins(Ats(w), Ats(a), Ats(b))
<1>1. w = a \o b
  BY Zenon DEF Joins
<1> DEFINE x == Ats(a)
           y == Ats(b)
<1>2. x \in Seq(C) /\ Len(x) = Len(a) /\ \A i \in 1 .. Len(a) : x[i] = a[i].at
  BY DEF Ats
<1>3. y \in Seq(C) /\ Len(y) = Len(b) /\ \A i \in 1 .. Len(b) : y[i] = b[i].at
  BY DEF Ats
<1> HIDE DEF x, y
<1>4. DOMAIN (a \o b) = 1 .. Len(a) + Len(b)
  OBVIOUS
<1>5. DOMAIN (x \o y) = 1 .. Len(a) + Len(b)
  <2>1. x \o y \in Seq(C) /\ Len(x \o y) = Len(x) + Len(y)
    BY <1>2, <1>3, ConcatProperties
  <2>2. DOMAIN (x \o y) = 1 .. Len(x \o y)
    BY <2>1
  <2> QED
    BY <1>2, <1>3, <2>1, <2>2
<1>6. ASSUME NEW i \in 1 .. Len(a) + Len(b) PROVE (x \o y)[i] = (a \o b)[i].at
  <2>1. CASE i <= Len(a)
    BY <1>2, <1>3, <2>1
  <2>2. CASE i > Len(a)
    <3>1. i - Len(a) \in 1 .. Len(b)
      BY <2>2
    <3>2. (a \o b)[i] = b[i - Len(a)]
      BY <2>2
    <3>3. (x \o y)[i] = y[i - Len(a)]
      BY <1>2, <1>3, <2>2
    <3> QED
      BY <1>3, <3>1, <3>2, <3>3
  <2>3. i <= Len(a) \/ i > Len(a)
    OBVIOUS
  <2> QED
    BY <2>1, <2>2, <2>3
<1>7. x \o y = [i \in 1 .. Len(a) + Len(b) |-> (a \o b)[i].at]
  <2>1. x \o y \in Seq(C)
    BY <1>2, <1>3
  <2> DEFINE z == x \o y
  <2>5. z \in Seq(C) /\ DOMAIN z = 1 .. Len(a) + Len(b)
    BY <2>1, <1>5
  <2> HIDE DEF z
  <2>2. z = [i \in 1 .. Len(a) + Len(b) |-> z[i]]
    BY <2>5
  <2>3. \A i \in 1 .. Len(a) + Len(b) : z[i] = (a \o b)[i].at
    BY <1>6 DEF z
  <2>4. z = [i \in 1 .. Len(a) + Len(b) |-> (a \o b)[i].at]
    BY <2>2, <2>3
  <2> QED
    BY <2>4 DEF z
<1>8. Ats(w) = x \o y
  BY <1>1, <1>4, <1>7, Zenon DEF Ats
<1> QED
  BY <1>8, Zenon DEF Joins, x, y

\* And those of a list of lists are those of each, one after the other.
LEMMA AtsFlat ==
  ASSUME NEW C, NEW M, \A m \in M : m.at \in C, NEW s \in Seq(Seq(M)), NEW t \in Seq(Seq(C)),
         Len(t) = Len(s), \A k \in 1 .. Len(s) : t[k] = Ats(s[k])
  PROVE  Ats(FlattenSeq(s)) = FlattenSeq(t)
<1>1. PICK g : Flattens(g, s, M) /\ FlattenSeq(s) = g[Len(s)]
  BY FlattenIs
<1>2. PICK h : Flattens(h, t, C) /\ FlattenSeq(t) = h[Len(t)]
  BY FlattenIs
<1> DEFINE S == {k \in 0 .. Len(s) : h[k] = Ats(g[k])}
<1>3. Len(s) \in Nat
  OBVIOUS
<1>4. 0 \in S
  <2>1. g[0] = <<>> /\ h[0] = <<>>
    BY <1>1, <1>2 DEF Flattens
  <2>2. Ats(<<>>) = <<>>
    BY DEF Ats
  <2> QED
    BY <1>3, <2>1, <2>2
<1>5. ASSUME NEW k \in 0 .. Len(s) - 1, k \in S PROVE k + 1 \in S
  <2>1. k + 1 \in 0 .. Len(s) /\ k + 1 \in 1 .. Len(s) /\ g[k] \in Seq(M) /\ s[k + 1] \in Seq(M)
        /\ Joins(g[k + 1], g[k], s[k + 1])
    BY <1>1, Reading
  <2>2. k \in 0 .. Len(t) - 1
    OBVIOUS
  <2>3. Joins(h[k + 1], h[k], t[k + 1])
    BY <1>2, <2>2, Reading
  <2>4. h[k] = Ats(g[k]) /\ t[k + 1] = Ats(s[k + 1])
    BY <1>5, <2>1
  <2>5. Joins(Ats(g[k + 1]), Ats(g[k]), Ats(s[k + 1]))
    BY <2>1, AtsJoin
  <2>6. h[k + 1] = Ats(g[k + 1])
    BY <2>3, <2>4, <2>5, Zenon DEF Joins
  <2> QED
    BY <2>1, <2>6
<1> HIDE DEF S
<1>6. Len(s) \in S
  <2>1. \A k \in 0 .. Len(s) : k \in S
    BY <1>3, <1>4, <1>5, UpTo, Zenon
  <2> QED
    BY <1>3, <2>1
<1> QED
  BY <1>1, <1>2, <1>6 DEF S

\* An answer cut where a reading of its outputs ends one and starts the next.
CutWhere(d, blob, cases, g) ==
  /\ d.refused <=> Len(blob) < Len(g[Len(cases)])
  /\ d.parts = [k \in DOMAIN cases |-> SubSeq(blob, Len(g[k - 1]) + 1, Min({Len(g[k]), Len(blob)}))]

\* That is where decode_response cuts.
LEMMA DecodeIs ==
  ASSUME NEW Cs, NEW cases \in Seq(Cs), NEW blob \in Seq(Nat), NEW A, NEW g, Flattens(g, A, Nat), Len(A) = Len(cases),
         \A k \in 1 .. Len(A) : Len(A[k]) = Asked(cases[k].length)
  PROVE  CutWhere(decode_response(blob, cases), blob, cases, g)
<1> DEFINE Rec(pos) == pos = [k \in 0 .. Len(cases) |-> IF k = 0 THEN 0 ELSE pos[k - 1] + Asked(cases[k].length)]
           w == [k \in 0 .. Len(cases) |-> Len(g[k])]
           pos == CHOOSE p : Rec(p)
           n == Len(cases)
<1>1. n \in Nat /\ g \in [0 .. n -> Seq(Nat)] /\ g[0] = <<>>
  BY DEF Flattens
<1>2. /\ decode_response(blob, cases).refused = (Len(blob) < pos[n])
      /\ decode_response(blob, cases).parts =
           [k \in DOMAIN cases |-> SubSeq(blob, pos[k - 1] + 1, Min({pos[k], Len(blob)}))]
  BY DEF decode_response

<1>3. ASSUME NEW k \in 1 .. n PROVE Len(g[k]) = Len(g[k - 1]) + Asked(cases[k].length)
  <2>1. k - 1 \in 0 .. Len(A) - 1
    OBVIOUS
  <2> DEFINE o == k - 1
  <2>2. o + 1 = k
    OBVIOUS
  <2>3. o \in 0 .. Len(A) - 1
    BY <2>1
  <2> HIDE DEF o
  <2>4. g[o] \in Seq(Nat) /\ A[o + 1] \in Seq(Nat) /\ Joins(g[o + 1], g[o], A[o + 1])
    BY <2>3, Reading
  <2>5. Len(g[o + 1]) = Len(g[o]) + Len(A[o + 1])
    BY <2>4 DEF Joins
  <2>6. Len(g[k]) = Len(g[o]) + Len(A[k])
    BY <2>2, <2>5
  <2> QED
    BY <2>6 DEF o
<1> HIDE DEF n
<1>4. Rec(w)
  <2>1. ASSUME NEW k \in 0 .. n PROVE w[k] = IF k = 0 THEN 0 ELSE w[k - 1] + Asked(cases[k].length)
    <3>1. CASE k = 0
      BY <1>1, <3>1 DEF n
    <3>2. CASE k # 0
      <4>1. k \in 1 .. n /\ k - 1 \in 0 .. n
        BY <3>2, <1>1
      <4>2. w[k] = Len(g[k]) /\ w[k - 1] = Len(g[k - 1])
        BY <4>1 DEF n
      <4> HIDE DEF w
      <4> QED
        BY <4>1, <4>2, <3>2, <1>3
    <3> QED
      BY <3>1, <3>2
  <2> QED
    BY <2>1 DEF n
<1>5. Rec(pos)
  BY <1>4
<1> HIDE DEF pos, w
<1>6. ASSUME NEW k \in 0 .. n PROVE pos[k] = IF k = 0 THEN 0 ELSE pos[k - 1] + Asked(cases[k].length)
  BY <1>5 DEF n
<1>7. \A k \in 0 .. n : pos[k] = Len(g[k])
  <2> DEFINE S == {k \in 0 .. n : pos[k] = Len(g[k])}
  <2>1. 0 \in S
    BY <1>1, <1>6
  <2>2. ASSUME NEW k \in 0 .. n - 1, k \in S PROVE k + 1 \in S
    <3>1. k + 1 \in 0 .. n /\ k + 1 \in 1 .. n /\ (k + 1) - 1 = k /\ k + 1 # 0
      BY <1>1
    <3>2. pos[k + 1] = pos[k] + Asked(cases[k + 1].length)
      BY <3>1, <1>6
    <3>3. Len(g[k + 1]) = Len(g[k]) + Asked(cases[k + 1].length)
      BY <3>1, <1>3
    <3>4. pos[k] = Len(g[k])
      BY <2>2
    <3> QED
      BY <3>1, <3>2, <3>3, <3>4
  <2> HIDE DEF S
  <2>3. \A k \in 0 .. n : k \in S
    BY <1>1, <2>1, <2>2, UpTo, Zenon
  <2> QED
    BY <2>3 DEF S
<1>8. n \in 0 .. n /\ DOMAIN cases = 1 .. n
  BY <1>1 DEF n
<1>9. \A k \in DOMAIN cases : pos[k] = Len(g[k]) /\ pos[k - 1] = Len(g[k - 1])
  <2> SUFFICES ASSUME NEW k \in 1 .. n PROVE pos[k] = Len(g[k]) /\ pos[k - 1] = Len(g[k - 1])
    BY <1>8
  <2>1. k \in 0 .. n /\ k - 1 \in 0 .. n
    BY <1>1
  <2> QED
    BY <1>7, <2>1
<1>10. pos[n] = Len(g[n])
  BY <1>7, <1>8 DEF n
<1>11. [k \in DOMAIN cases |-> SubSeq(blob, pos[k - 1] + 1, Min({pos[k], Len(blob)}))]
         = [k \in DOMAIN cases |-> SubSeq(blob, Len(g[k - 1]) + 1, Min({Len(g[k]), Len(blob)}))]
  BY <1>9
<1> QED
  BY <1>2, <1>10, <1>11, Zenon DEF CutWhere, n

\* A whole answer is cut into the outputs it was made of.
LEMMA DecodeWhole ==
  ASSUME NEW Cs, NEW cases \in Seq(Cs), NEW A, NEW g, Flattens(g, A, Nat), Len(A) = Len(cases),
         \A k \in 1 .. Len(A) : Len(A[k]) = Asked(cases[k].length)
  PROVE  /\ ~decode_response(g[Len(A)], cases).refused
         /\ decode_response(g[Len(A)], cases).parts = A
<1> DEFINE blob == g[Len(A)]
           parts == decode_response(blob, cases).parts
<1>1. A \in Seq(Seq(Nat)) /\ g \in [0 .. Len(A) -> Seq(Nat)] /\ Len(A) \in Nat /\ DOMAIN cases = 1 .. Len(A)
  BY DEF Flattens
<1>2. blob \in Seq(Nat)
  BY <1>1
<1>3. /\ decode_response(blob, cases).refused <=> Len(blob) < Len(g[Len(A)])
      /\ parts = [k \in 1 .. Len(A) |-> SubSeq(blob, Len(g[k - 1]) + 1, Min({Len(g[k]), Len(blob)}))]
  <2> HIDE DEF blob
  <2>1. CutWhere(decode_response(blob, cases), blob, cases, g)
    BY <1>2, DecodeIs
  <2> QED
    BY <1>1, <2>1, Zenon DEF CutWhere
<1>4. ASSUME NEW k \in 1 .. Len(A)
      PROVE  SubSeq(blob, Len(g[k - 1]) + 1, Min({Len(g[k]), Len(blob)})) = A[k]
  <2> DEFINE o == k - 1
  <2>1. o \in 0 .. Len(A) - 1 /\ o + 1 = k /\ k \in 0 .. Len(A)
    BY <1>1
  <2>2. Joins(g[o + 1], g[o], A[o + 1]) /\ g[o] \in Seq(Nat) /\ A[o + 1] \in Seq(Nat)
    <3> HIDE DEF o
    <3> QED
      BY <2>1, Reading
  <2>3. Joins(g[k], g[o], A[k]) /\ g[o] \in Seq(Nat) /\ A[k] \in Seq(Nat) /\ g[k] \in Seq(Nat)
    <3> HIDE DEF o
    <3> QED
      BY <2>1, <2>2, <1>1
  <2>4. Len(g[k]) <= Len(blob) /\ \A i \in 1 .. Len(g[k]) : blob[i] = g[k][i]
    BY <2>1, ReadFirst
  <2> HIDE DEF o, blob
  <2>5. Len(g[k]) \in Nat /\ Len(blob) \in Nat
    BY <1>2, <2>3
  <2>6. Min({Len(g[k]), Len(blob)}) = Len(g[k])
    <3> DEFINE T == {Len(g[k]), Len(blob)}
    <3>1. T \in SUBSET Nat /\ Len(g[k]) \in T /\ \A y \in T : Len(g[k]) <= y
      BY <2>4, <2>5
    <3> HIDE DEF T
    <3>2. Min(T) = Len(g[k])
      BY <3>1, MinIs
    <3> QED
      BY <3>2 DEF T
  <2> DEFINE a == g[o]
             b == A[k]
             c == g[k]
  <2>7. c = a \o b /\ a \in Seq(Nat) /\ b \in Seq(Nat)
    BY <2>3, Zenon DEF Joins
  <2>8. \A i \in 1 .. Len(c) : blob[i] = c[i]
    BY <2>4
  <2> HIDE DEF a, b, c
  <2>9. Len(c) = Len(a) + Len(b) /\ Len(a) \in Nat /\ Len(b) \in Nat
    BY <2>7
  <2>10. ASSUME NEW i \in 1 .. Len(b) PROVE blob[Len(a) + i] = b[i]
    <3>1. Len(a) + i \in 1 .. Len(c)
      BY <2>9
    <3>2. c[Len(a) + i] = b[i]
      BY <2>7, <2>9
    <3> QED
      BY <2>8, <3>1, <3>2
  <2>11. SubSeq(blob, Len(a) + 1, Len(c)) = b
    <3>1. Len(c) <= Len(blob)
      BY <2>4 DEF c
    <3> DEFINE d == SubSeq(blob, Len(a) + 1, Len(c))
    <3>2. /\ d \in Seq(Nat)
          /\ Len(d) = IF Len(a) + 1 <= Len(c) THEN Len(c) - (Len(a) + 1) + 1 ELSE 0
          /\ \A i \in 1 .. Len(c) - (Len(a) + 1) + 1 : d[i] = blob[(Len(a) + 1) + i - 1]
      <4>1. Len(a) + 1 \in 1 .. Len(blob) + 1 /\ Len(c) \in (Len(a) + 1) - 1 .. Len(blob)
        BY <2>5, <2>9, <3>1
      <4> QED
        BY <1>2, <4>1, SubSeqProperties
    <3> HIDE DEF d
    <3>4. Len(d) = Len(b)
      BY <2>9, <3>2
    <3>5. \A i \in 1 .. Len(b) : d[i] = blob[Len(a) + i]
      <4> SUFFICES ASSUME NEW i \in 1 .. Len(b) PROVE d[i] = blob[Len(a) + i]
        OBVIOUS
      <4>1. i \in 1 .. Len(c) - (Len(a) + 1) + 1 /\ (Len(a) + 1) + i - 1 = Len(a) + i
        BY <2>9
      <4> QED
        BY <3>2, <4>1
    <3>6. d = [i \in 1 .. Len(b) |-> d[i]]
      BY <3>2, <3>4
    <3>7. b = [i \in 1 .. Len(b) |-> b[i]]
      BY <2>7
    <3>3. d = b
      BY <2>10, <3>5, <3>6, <3>7
    <3> QED
      BY <3>3 DEF d
  <2> QED
    BY <2>6, <2>11, Zenon DEF a, b, c, o
<1> HIDE DEF blob, parts
<1>5. parts = [k \in 1 .. Len(A) |-> A[k]]
  BY <1>3, <1>4
<1>6. A = [k \in 1 .. Len(A) |-> A[k]]
  BY <1>1
<1>7. Len(blob) = Len(g[Len(A)])
  BY DEF blob
<1>8. Len(blob) \in Nat
  BY <1>2
<1> QED
  <2>2. ~(Len(blob) < Len(g[Len(A)]))
    BY <1>7, <1>8
  <2>3. parts = A
    BY <1>5, <1>6
  <2>1. ~decode_response(blob, cases).refused /\ parts = A
    BY <1>3, <2>2, <2>3, Zenon
  <2> QED
    BY <2>1, Zenon DEF blob, parts

-----------------------------------------------------------------------------
(* What the doctor says of a machine *)

\* A dump is well exactly if there is a digest for it and it has one of them,
\* or nothing is published of it.
LEMMA WellDump ==
  ASSUME NEW m, NEW a
  PROVE  /\ diagnose(m, a) \in {"ok", "no digest published"}
              <=> (Accepted[a] # {} => m.dumps[a] # Absent /\ m.dumps[a].is \in Accepted[a])
         /\ Accepted[a] # {} => diagnose(m, a) # "no digest published"
         /\ ~blocking(diagnose(m, a)) => diagnose(m, a) \in {"ok", "no digest published", "missing"}
  BY DEF diagnose, blocking, BLOCKING_STATES, strip_copier_stub

\* The findings of doctor.examine are all well exactly if each part is.
LEMMA AllWell ==
  ASSUME NEW m, IsMachine(m)
  PROVE  (report(m).unwell = {}) <=>
           /\ m.python
           /\ \A p \in PACKAGES : is_checked_out(m, p) /\ m.imports[p]
           /\ m.manifest /\ \A a \in Artifacts : diagnose(m, a) \in {"ok", "no digest published"}
           /\ is_checked_out(m, "sdd1") /\ m.imports["sdd1"] /\ m.decodes
           /\ "docker" \in m.tools
           /\ ~ask_each(m).raised /\ \A p \in ask_each(m).found : m.inner[p] = "well"
<1> DEFINE Well(S) == \A f \in S : f.ok
<1>1. (report(m).unwell = {}) <=> Well(examine(m))
  BY DEF report
<1>2. Well(examine(m)) <=>
        /\ Well(python(m)) /\ \A p \in PACKAGES : model(m, p).ok
        /\ Well(cartridges(m)) /\ decompressor(m).ok /\ Well(tools(m)) /\ Well(beneath(m))
  BY Zenon DEF examine
<1>3. m.python \in BOOLEAN /\ m.manifest \in BOOLEAN
  BY DEF IsMachine
<1>4. Well(python(m)) <=> m.python
  BY <1>3 DEF python, Finding
<1>5. \A p \in PACKAGES : model(m, p).ok <=> is_checked_out(m, p) /\ m.imports[p]
  BY DEF model, install, Finding
<1>6. Well(cartridges(m)) <=>
        m.manifest /\ \A a \in Artifacts : diagnose(m, a) \in {"ok", "no digest published"}
  <2>1. CASE ~m.manifest
    BY <1>3, <2>1 DEF cartridges, Finding
  <2>2. CASE m.manifest
    <3>1. cartridges(m) = {Finding(<<"cartridge", a>>, diagnose(m, a) \in {"ok", "no digest published"}) : a \in Artifacts}
      BY <2>2 DEF cartridges
    <3>2. \A a \in Artifacts :
            Finding(<<"cartridge", a>>, diagnose(m, a) \in {"ok", "no digest published"}).ok
              <=> diagnose(m, a) \in {"ok", "no digest published"}
      BY DEF Finding
    <3> QED
      BY <2>2, <3>1, <3>2, Zenon
  <2> QED
    BY <1>3, <2>1, <2>2
<1>7. decompressor(m).ok <=> is_checked_out(m, "sdd1") /\ m.imports["sdd1"] /\ m.decodes
  BY DEF decompressor, Finding
<1>8. Well(tools(m)) <=> "docker" \in m.tools
  <2>1. Finding(<<"tool", "docker">>, "docker" \in m.tools).ok <=> "docker" \in m.tools
    BY DEF Finding
  <2> QED
    BY <2>1, Zenon DEF tools
<1>9. Well(beneath(m)) <=> ~ask_each(m).raised /\ \A p \in ask_each(m).found : m.inner[p] = "well"
  <2>1. \A p : Finding(<<"beneath", p>>, m.inner[p] = "well").ok <=> m.inner[p] = "well"
    BY DEF Finding
  <2>2. Finding(<<"beneath", "all">>, FALSE).ok = FALSE
    BY DEF Finding
  <2>3. CASE ask_each(m).raised
    BY <2>2, <2>3, Zenon DEF beneath
  <2>4. CASE ~ask_each(m).raised
    <3>1. beneath(m) = {Finding(<<"beneath", p>>, m.inner[p] = "well") : p \in ask_each(m).found}
      BY <2>4, Zenon DEF beneath
    <3> QED
      BY <2>1, <2>4, <3>1, Zenon
  <2> QED
    BY <2>3, <2>4
<1> HIDE DEF Well
<1> QED
  BY <1>1, <1>2, <1>4, <1>5, <1>6, <1>7, <1>8, <1>9, Zenon

\* All of it is well exactly on a machine that is ready.
LEMMA ReadyIsWell ==
  ASSUME NEW m, IsMachine(m)
  PROVE  /\ Ready(m) => ~load(m, "romimage").raised
         /\ ~load(m, "romimage").raised => ((report(m).unwell = {}) <=> Ready(m))
<1> DEFINE Usable(p) == is_checked_out(m, p) /\ m.imports[p]
<1>1. \A p : ~load(m, p).raised <=> Usable(p)
  BY DEF load, install
<1>2. {"romimage", "sdd1"} \subseteq PACKAGES
  BY DoctorPackages
<1>3. Ready(m) <=>
        /\ m.python /\ m.manifest /\ m.decodes /\ "docker" \in m.tools
        /\ \A p \in PACKAGES : Usable(p) /\ m.inner[p] \notin {"raises", "unwell"}
        /\ \A a \in Artifacts : diagnose(m, a) \in {"ok", "no digest published"}
  <2> HIDE DEF Usable
  <2>1. \A a \in Artifacts : diagnose(m, a) \in {"ok", "no digest published"}
          <=> (Accepted[a] # {} => m.dumps[a] # Absent /\ m.dumps[a].is \in Accepted[a])
    BY WellDump, Zenon
  <2> QED
    BY <1>1, <2>1 DEF Ready
<1>4. ASSUME \A p \in PACKAGES : Usable(p)
      PROVE  (~ask_each(m).raised /\ \A p \in ask_each(m).found : m.inner[p] = "well")
               <=> \A p \in PACKAGES : m.inner[p] \notin {"raises", "unwell"}
  <2>1. \A p \in PACKAGES : is_checked_out(m, p) /\ m.imports[p] /\ m.dir[p] # "absent"
    BY <1>4 DEF is_checked_out
  <2>2. ask_each(m).found = {p \in PACKAGES : m.inner[p] \notin {"none", "lacks"}}
    BY <2>1 DEF ask_each
  <2>3. ask_each(m).raised <=> \E p \in ask_each(m).found : m.inner[p] = "raises"
    BY <2>1 DEF ask_each
  <2>4. \A p \in PACKAGES : m.inner[p] \in {"none", "lacks", "raises", "unwell", "well"}
    BY DEF IsMachine
  <2> HIDE DEF Usable
  <2> QED
    BY <2>2, <2>3, <2>4
<1>5. (report(m).unwell = {}) <=>
        /\ m.python /\ (\A p \in PACKAGES : Usable(p))
        /\ m.manifest /\ (\A a \in Artifacts : diagnose(m, a) \in {"ok", "no digest published"})
        /\ Usable("sdd1") /\ m.decodes /\ "docker" \in m.tools
        /\ ~ask_each(m).raised /\ \A p \in ask_each(m).found : m.inner[p] = "well"
  BY AllWell
<1> HIDE DEF Usable
<1> QED
  BY <1>1, <1>2, <1>3, <1>4, <1>5

\* Nothing but the dumps is reported as a cartridge.
LEMMA CartridgesOnly ==
  ASSUME NEW m, NEW f \in examine(m), f.about[1] = "cartridge"
  PROVE  f \in cartridges(m)
<1>1. f \notin python(m)
  BY DEF python, Finding
<1>2. \A p \in PACKAGES : f # model(m, p)
  BY DEF model, Finding
<1>3. f # decompressor(m)
  BY DEF decompressor, Finding
<1>4. f \notin tools(m)
  BY DEF tools, Finding
<1>5. f \notin beneath(m)
  BY DEF beneath, Finding
<1> QED
  BY <1>1, <1>2, <1>3, <1>4, <1>5, Zenon DEF examine

\* The doctor's answer means what the build needs, on every machine.
LEMMA DoctorIsRight ==
  ASSUME NEW m, IsMachine(m)
  PROVE  DoctorForesees(m)
<1>1. (doctor(m) = 0) <=> ~load(m, "romimage").raised /\ report(m).unwell = {}
  BY DEF doctor, DIED
<1>2. (doctor(m) = DIED) <=> load(m, "romimage").raised
  BY DEF doctor, DIED
<1>3. (doctor(m) = 0) <=> Ready(m)
  BY <1>1, ReadyIsWell
<1>4. ASSUME doctor(m) = 0, NEW a \in Artifacts, Accepted[a] # {} PROVE identify(m, {a}) = 0
  <2>1. diagnose(m, a) = "ok"
    <3>1. Accepted[a] # {} => m.dumps[a] # Absent /\ m.dumps[a].is \in Accepted[a]
      BY <1>3, <1>4 DEF Ready
    <3>2. diagnose(m, a) \in {"ok", "no digest published"} /\ diagnose(m, a) # "no digest published"
      BY <1>4, <3>1, WellDump, Zenon
    <3> QED
      BY <3>2
  <2>2. Artifacts \cap {a} = {a} /\ {a} # {}
    BY <1>4
  <2>3. ~load(m, "romimage").raised
    BY <1>1, <1>4
  <2> QED
    BY <2>1, <2>2, <2>3 DEF identify, blocking, BLOCKING_STATES
<1>5. ASSUME identify(m, {}) = 0, m.manifest, NEW f \in examine(m), f.about[1] = "cartridge"
      PROVE  f.ok \/ diagnose(m, f.about[2]) = "missing"
  <2>1. \A a \in Artifacts : ~blocking(diagnose(m, a))
    BY <1>5 DEF identify, DIED
  <2>2. PICK a \in Artifacts : f = Finding(<<"cartridge", a>>, diagnose(m, a) \in {"ok", "no digest published"})
    BY <1>5, CartridgesOnly DEF cartridges
  <2>3. f.about[2] = a /\ (f.ok <=> diagnose(m, a) \in {"ok", "no digest published"})
    BY <2>2 DEF Finding
  <2> QED
    BY <2>1, <2>3, WellDump
<1> QED
  BY <1>2, <1>3, <1>4, <1>5 DEF DoctorForesees

-----------------------------------------------------------------------------
(* What the report says of the machine itself *)

\* What LookAt keeps count of.
Counts == [looked : Nat, converted : Nat]

\* The files read among the first k.
ReadAmong(m, k) == {j \in 1 .. k : m.files[j] # "unreadable"}

\* line_endings reads the files one by one: this is every count on the way.
LEMMA EndingsFold ==
  ASSUME NEW m, IsMachine(m)
  PROVE  \E c \in [0 .. Len(m.files) -> Counts] :
           /\ c[0] = [looked |-> 0, converted |-> 0]
           /\ \A k \in 1 .. Len(m.files) : c[k] = LookAt(c[k - 1], m.files[k], m.sample)
           /\ line_endings(m) <=> m.belowDot \/ c[Len(m.files)].converted = 0
<1> DEFINE n == Len(m.files)
           base == [looked |-> 0, converted |-> 0]
           H == [k \in 1 .. n |-> [d \in Counts |-> LookAt(d, m.files[k], m.sample)]]
<1>1. n \in Nat /\ m.files \in Seq({"lf", "crlf", "unreadable"}) /\ DOMAIN m.files = 1 .. n
  BY DEF IsMachine
<1>2. base \in Counts
  BY DEF Counts
<1>3. \A d \in Counts : \A k : LookAt(d, m.files[k], m.sample) \in Counts
  BY DEF Counts, LookAt
<1>4. H \in [1 .. n -> [Counts -> Counts]]
  BY <1>3
<1>5. \A k \in 1 .. n, d \in Counts : H[k][d] = LookAt(d, m.files[k], m.sample)
  OBVIOUS
<1> DEFINE G == FoldLeft(LAMBDA acc, file : LookAt(acc, file, m.sample), base, m.files)
<1> DEFINE Next(r) == [s \in SUBSET (1 .. n) |->
                         IF s = {} THEN base ELSE LookAt(r[s \ {Max(s)}], m.files[Max(s)], m.sample)]
           iter == CHOOSE r : r = Next(r)
<1>6. G = iter[1 .. n]
  <2>1. G = MapThenFoldSet(LAMBDA x, y : LookAt(y, x, m.sample), base, LAMBDA i : m.files[i], LAMBDA s : Max(s), 1 .. n)
    BY <1>1 DEF FoldLeft
  <2> QED
    BY <2>1 DEF MapThenFoldSet
<1>7. iter = Next(iter)
  <2>1. PICK g \in [SUBSET (1 .. n) -> Counts] : Folds(g, n, base, H)
    <3> HIDE DEF H, base
    <3> QED
      BY <1>1, <1>2, <1>4, FoldExists
  <2>2. ASSUME NEW s \in SUBSET (1 .. n), s # {}
        PROVE  H[Max(s)][g[s \ {Max(s)}]] = LookAt(g[s \ {Max(s)}], m.files[Max(s)], m.sample)
    <3>1. Max(s) \in 1 .. n
      BY <1>1, <2>2, MaxWithin
    <3>2. s \ {Max(s)} \in SUBSET (1 .. n)
      OBVIOUS
    <3>3. g[s \ {Max(s)}] \in Counts
      BY <3>2
    <3> QED
      BY <1>5, <3>1, <3>3
  <2>3. g = Next(g)
    <3> HIDE DEF H, base
    <3>1. g = [s \in SUBSET (1 .. n) |-> IF s = {} THEN base ELSE H[Max(s)][g[s \ {Max(s)}]]]
      BY <2>1 DEF Folds
    <3> QED
      BY <2>2, <3>1
  <2> HIDE DEF Next
  <2> QED
    BY <2>3
<1> DEFINE c == [k \in 0 .. n |-> iter[1 .. k]]
<1>8. c[0] = base
  <2>1. 1 .. 0 = {} /\ {} \in SUBSET (1 .. n) /\ 0 \in 0 .. n
    BY <1>1
  <2>2. Next(iter)[{}] = base
    BY <2>1
  <2>3. c[0] = iter[1 .. 0]
    BY <2>1
  <2> HIDE DEF Next, iter, c, base
  <2> QED
    BY <1>7, <2>1, <2>2, <2>3, Zenon
<1>9. ASSUME NEW k \in 1 .. n PROVE c[k] = LookAt(c[k - 1], m.files[k], m.sample)
  <2>1. Max(1 .. k) = k
    <3>1. 1 .. k \in SUBSET Int /\ k \in 1 .. k /\ \A y \in 1 .. k : y <= k
      OBVIOUS
    <3> QED
      BY <3>1, MaxIs
  <2>2. (1 .. k) \ {k} = 1 .. k - 1 /\ 1 .. k # {} /\ 1 .. k \in SUBSET (1 .. n) /\ k \in 0 .. n /\ k - 1 \in 0 .. n
    <3> HIDE DEF n, iter, Next, c, base
    <3>1. n \in Nat /\ k \in Nat /\ 1 <= k /\ k <= n
      BY <1>1
    <3>2. k \in 0 .. n /\ k - 1 \in 0 .. n /\ 1 .. k \in SUBSET (1 .. n) /\ k \in 1 .. k
      BY <3>1
    <3>3. (1 .. k) \ {k} = 1 .. k - 1
      BY <3>1
    <3> QED
      BY <3>2, <3>3
  <2>3. Next(iter)[1 .. k] = LookAt(iter[1 .. k - 1], m.files[k], m.sample)
    <3> HIDE DEF iter
    <3> QED
      BY <2>1, <2>2
  <2> HIDE DEF Next, iter
  <2> QED
    BY <1>7, <2>2, <2>3
<1>10. line_endings(m) <=> m.belowDot \/ c[n].converted = 0
  <2>1. c[n] = G
    <3>1. n \in 0 .. n
      BY <1>1
    <3> QED
      BY <1>6, <3>1
  <2>2. m.belowDot \in BOOLEAN
    BY DEF IsMachine
  <2>3. line_endings(m) <=> m.belowDot \/ G.converted = 0
    BY DEF line_endings
  <2> HIDE DEF G, c
  <2> QED
    BY <2>1, <2>3
<1>11. \A k \in 0 .. n : c[k] \in Counts
  <2> DEFINE T == {k \in Nat : k <= n /\ c[k] \notin Counts}
  <2> HIDE DEF c, base, H, n
  <2> SUFFICES ASSUME NEW i \in 0 .. n, c[i] \notin Counts PROVE FALSE
    OBVIOUS
  <2>0. i \in T
    BY <1>1
  <2>1. PICK k \in T : \A j \in T : k <= j
    <3>1. T \in SUBSET Nat
      OBVIOUS
    <3> HIDE DEF T
    <3> QED
      BY <2>0, <3>1, LeastNatural
  <2>2. k # 0
    BY <1>2, <1>8
  <2>3. k - 1 \in Nat /\ k \in 1 .. n /\ k - 1 \notin T
    BY <1>1, <2>1, <2>2
  <2>4. c[k - 1] \in Counts
    BY <1>1, <2>3
  <2> QED
    BY <1>3, <1>9, <2>1, <2>3, <2>4
<1>12. c \in [0 .. n -> Counts]
  <2>1. c = [k \in 0 .. n |-> c[k]]
    OBVIOUS
  <2> HIDE DEF c
  <2> QED
    BY <1>11, <2>1
<1>13. n = Len(m.files) /\ base = [looked |-> 0, converted |-> 0]
  OBVIOUS
<1> HIDE DEF c, n, base, H, Next, iter, G
<1> QED
  BY <1>8, <1>9, <1>10, <1>12, <1>13

\* On the way, the count of the files looked at is that of those read, up to
\* the sample, and a converted one that was looked at stays counted.
LEMMA EndingsCounted ==
  ASSUME NEW m, IsMachine(m), line_endings(m), ~m.belowDot
  PROVE  \A k \in DOMAIN m.files : m.files[k] = "crlf" =>
           Cardinality({j \in 1 .. k - 1 : m.files[j] # "unreadable"}) >= m.sample
<1> DEFINE n == Len(m.files)
<1>1. n \in Nat /\ DOMAIN m.files = 1 .. n /\ m.sample \in Nat
      /\ \A k \in 1 .. n : m.files[k] \in {"lf", "crlf", "unreadable"}
  BY DEF IsMachine
<1>2. PICK c \in [0 .. n -> Counts] :
        /\ c[0] = [looked |-> 0, converted |-> 0]
        /\ \A k \in 1 .. n : c[k] = LookAt(c[k - 1], m.files[k], m.sample)
        /\ line_endings(m) <=> m.belowDot \/ c[n].converted = 0
  BY EndingsFold
<1> HIDE DEF n
<1>3. c[n].converted = 0
  BY <1>2
<1>4. \A k \in 0 .. n : c[k] \in Counts
  BY <1>2
<1>5. ASSUME NEW k \in 1 .. n
      PROVE  /\ c[k].converted >= c[k - 1].converted
             /\ c[k - 1].looked < m.sample /\ m.files[k] # "unreadable" => c[k].looked = c[k - 1].looked + 1
             /\ c[k - 1].looked < m.sample /\ m.files[k] = "crlf" => c[k].converted > 0
             /\ c[k].looked \in {c[k - 1].looked, c[k - 1].looked + 1}
             /\ m.files[k] = "unreadable" => c[k].looked = c[k - 1].looked
  <2>1. c[k - 1] \in Counts /\ c[k] = LookAt(c[k - 1], m.files[k], m.sample)
    <3>1. k - 1 \in 0 .. n
      BY <1>1
    <3> QED
      BY <1>2, <1>4, <3>1
  <2>2. c[k - 1].looked \in Nat /\ c[k - 1].converted \in Nat
    BY <2>1 DEF Counts
  <2>3. CASE c[k - 1].looked >= m.sample \/ m.files[k] = "unreadable"
    <3>1. c[k] = c[k - 1]
      BY <2>1, <2>3 DEF LookAt
    <3> QED
      BY <1>1, <2>2, <2>3, <3>1
  <2>4. CASE ~(c[k - 1].looked >= m.sample \/ m.files[k] = "unreadable")
    <3>1. /\ c[k].looked = c[k - 1].looked + 1
          /\ c[k].converted = c[k - 1].converted + (IF m.files[k] = "crlf" THEN 1 ELSE 0)
      BY <2>1, <2>4 DEF LookAt
    <3> QED
      BY <1>1, <2>2, <2>4, <3>1
  <2> QED
    BY <2>3, <2>4
<1>6. \A k \in 0 .. n : c[k].converted = 0
  <2> DEFINE T == {i \in Nat : i <= n /\ c[n - i].converted # 0}
  <2> SUFFICES ASSUME NEW k \in 0 .. n, c[k].converted # 0 PROVE FALSE
    OBVIOUS
  <2>1. n - k \in T
    <3>1. n - (n - k) = k /\ n - k \in Nat /\ n - k <= n
      BY <1>1
    <3> QED
      BY <3>1
  <2>2. PICK i \in T : \A j \in T : i <= j
    <3>1. T \in SUBSET Nat
      OBVIOUS
    <3> HIDE DEF T
    <3> QED
      BY <2>1, <3>1, LeastNatural
  <2>3. i # 0
    <3>1. n - 0 = n
      BY <1>1
    <3> QED
      BY <1>3, <3>1
  <2>9. i \in Nat /\ i <= n /\ i - 1 \notin T
    BY <2>2
  <2>4. i - 1 \in Nat /\ i - 1 <= n /\ i - 1 \notin T /\ n - i + 1 \in 1 .. n /\ n - i \in 0 .. n
        /\ n - (i - 1) = n - i + 1 /\ (n - i + 1) - 1 = n - i
    <3> HIDE DEF T
    <3> QED
      BY <1>1, <2>3, <2>9
  <2>5. c[n - i + 1].converted = 0
    BY <2>4
  <2>6. c[n - i].converted # 0
    BY <2>2
  <2>7. c[n - i + 1].converted >= c[n - i].converted
    BY <1>5, <2>4
  <2>8. c[n - i].converted \in Nat
    BY <1>1, <1>4, <2>4 DEF Counts
  <2> QED
    BY <2>5, <2>6, <2>7, <2>8
<1>7. \A k \in 0 .. n : IsFiniteSet(ReadAmong(m, k)) /\ c[k].looked <= Cardinality(ReadAmong(m, k))
  <2> DEFINE Fine(k) == IsFiniteSet(ReadAmong(m, k)) /\ c[k].looked <= Cardinality(ReadAmong(m, k))
             T == {k \in Nat : k <= n /\ ~Fine(k)}
  <2> SUFFICES ASSUME NEW j \in 0 .. n, ~Fine(j) PROVE FALSE
    OBVIOUS
  <2>1. j \in T
    OBVIOUS
  <2>2. PICK k \in T : \A i \in T : k <= i
    <3>1. T \in SUBSET Nat
      OBVIOUS
    <3> HIDE DEF T
    <3> QED
      BY <2>1, <3>1, LeastNatural
  <2>3. Fine(0)
    <3>1. ReadAmong(m, 0) = {}
      BY DEF ReadAmong
    <3>2. IsFiniteSet({}) /\ Cardinality({}) = 0
      BY FS_EmptySet
    <3>3. c[0].looked = 0
      BY <1>2
    <3>5. Cardinality(ReadAmong(m, 0)) = 0
      BY <3>1, <3>2, Zenon
    <3>6. 0 <= 0
      OBVIOUS
    <3>4. c[0].looked <= Cardinality(ReadAmong(m, 0))
      BY <3>3, <3>5, <3>6, Zenon
    <3> QED
      BY <3>1, <3>2, <3>4, Zenon
  <2>4. k # 0
    BY <2>2, <2>3
  <2>5. k - 1 \in Nat /\ k \in 1 .. n /\ k - 1 \notin T /\ k - 1 <= n
    BY <1>1, <2>2, <2>4
  <2>6. Fine(k - 1)
    BY <2>5
  <2>7. ReadAmong(m, k) = ReadAmong(m, k - 1) \cup (IF m.files[k] = "unreadable" THEN {} ELSE {k})
    BY <2>5 DEF ReadAmong
  <2>8. k \notin ReadAmong(m, k - 1)
    BY <2>5 DEF ReadAmong
  <2>9. IsFiniteSet(ReadAmong(m, k))
        /\ Cardinality(ReadAmong(m, k)) = Cardinality(ReadAmong(m, k - 1)) + (IF m.files[k] = "unreadable" THEN 0 ELSE 1)
    <3>1. CASE m.files[k] = "unreadable"
      <4>1. ReadAmong(m, k) = ReadAmong(m, k - 1)
        BY <2>7, <3>1
      <4>2. Cardinality(ReadAmong(m, k - 1)) \in Nat
        BY <2>6, FS_CardinalityType
      <4> QED
        BY <2>6, <3>1, <4>1, <4>2
    <3>2. CASE m.files[k] # "unreadable"
      <4>1. ReadAmong(m, k) = ReadAmong(m, k - 1) \cup {k}
        BY <2>7, <3>2
      <4>2. Cardinality(ReadAmong(m, k - 1) \cup {k}) = Cardinality(ReadAmong(m, k - 1)) + 1
            /\ IsFiniteSet(ReadAmong(m, k - 1) \cup {k})
        BY <2>6, <2>8, FS_AddElement
      <4> QED
        BY <3>2, <4>1, <4>2
    <3> QED
      BY <3>1, <3>2
  <2>10. Cardinality(ReadAmong(m, k - 1)) \in Nat
    BY <2>6, FS_CardinalityType
  <2>11. c[k - 1].looked \in Nat
    BY <1>4, <2>5 DEF Counts
  <2>12. Fine(k)
    BY <1>5, <2>5, <2>6, <2>9, <2>10, <2>11
  <2> QED
    BY <2>2, <2>12
<1>8. ASSUME NEW k \in 1 .. n, m.files[k] = "crlf" PROVE Cardinality(ReadAmong(m, k - 1)) >= m.sample
  <2>1. ~(c[k - 1].looked < m.sample)
    <3>1. c[k].converted = 0
      BY <1>6
    <3> QED
      BY <1>5, <1>8, <3>1
  <2>2. k - 1 \in 0 .. n
    BY <1>1
  <2>3. c[k - 1].looked \in Nat /\ c[k - 1].looked <= Cardinality(ReadAmong(m, k - 1))
    BY <1>4, <1>7, <2>2 DEF Counts
  <2>4. Cardinality(ReadAmong(m, k - 1)) \in Nat
    BY <1>7, <2>2, FS_CardinalityType
  <2> QED
    BY <1>1, <2>1, <2>3, <2>4
<1> QED
  BY <1>1, <1>8 DEF ReadAmong

\* The machine's own report means what it says, on every machine.
LEMMA MachineIsRight ==
  ASSUME NEW m, IsMachine(m)
  PROVE  MachineForeseen(m)
<1> SUFFICES ASSUME environment(m) = 0
             PROVE  /\ m.raising = {} /\ "git" \in m.tools
                    /\ m.belowDot \/ \A k \in DOMAIN m.files : m.files[k] = "crlf" =>
                         Cardinality({j \in 1 .. k - 1 : m.files[j] # "unreadable"}) >= m.sample
                    /\ m.tracked + m.room < m.limit \/ m.generated > m.tracked
  BY DEF MachineForeseen
<1>1. \A check \in DOMAIN observations(m) : observations(m)[check]
  BY DEF environment
<1>2. DOMAIN observations(m) = Checks
  BY DEF observations, Checks
<1>3. \A check \in Checks : check \notin m.raising
  <2>1. \A check : \A ok : guarded(m, check, ok) => check \notin m.raising
    BY DEF guarded
  <2>2. /\ \E ok : observations(m)["machine"] <=> guarded(m, "machine", ok)
        /\ \E ok : observations(m)["interpreter"] <=> guarded(m, "interpreter", ok)
        /\ \E ok : observations(m)["output"] <=> guarded(m, "output", ok)
        /\ \E ok : observations(m)["default"] <=> guarded(m, "default", ok)
        /\ \E ok : observations(m)["case"] <=> guarded(m, "case", ok)
        /\ \E ok : observations(m)["endings"] <=> guarded(m, "endings", ok)
        /\ \E ok : observations(m)["path"] <=> guarded(m, "path", ok)
        /\ \E ok : observations(m)["space"] <=> guarded(m, "space", ok)
        /\ \E ok : observations(m)["git"] <=> guarded(m, "git", ok)
    BY DEF observations
  <2> QED
    BY <1>1, <1>2, <2>1, <2>2 DEF Checks
<1>4. m.raising = {}
  BY <1>3 DEF IsMachine
<1>5. tool(m, "git", TRUE) /\ line_endings(m) /\ path_budget(m)
  <2>1. observations(m)["git"] /\ observations(m)["endings"] /\ observations(m)["path"]
    BY <1>1, <1>2 DEF Checks
  <2> QED
    BY <2>1 DEF observations, guarded
<1>6. m.belowDot \/ \A k \in DOMAIN m.files : m.files[k] = "crlf" =>
        Cardinality({j \in 1 .. k - 1 : m.files[j] # "unreadable"}) >= m.sample
  BY <1>5, EndingsCounted
<1>7. m.tracked + m.room < m.limit \/ m.generated > m.tracked
  <2>1. m.tracked \in Int /\ m.generated \in Int /\ m.limit \in Int /\ m.room \in Int
    BY DEF IsMachine
  <2> SUFFICES ASSUME ~(m.generated > m.tracked) PROVE m.tracked + m.room < m.limit
    OBVIOUS
  <2>2. Max({m.tracked, m.generated}) = m.tracked
    <3>1. {m.tracked, m.generated} \in SUBSET Int /\ \A y \in {m.tracked, m.generated} : y <= m.tracked
      BY <2>1
    <3> QED
      BY <3>1, MaxIs
  <2>3. m.limit - m.tracked > m.room
    BY <1>5, <2>2 DEF path_budget
  <2> QED
    BY <2>1, <2>3
<1> QED
  BY <1>4, <1>5, <1>6, <1>7 DEF tool

-----------------------------------------------------------------------------
(* A sample in its bank *)

\* Where block k of a chain starts, and the blocks a walk may stop at.
Place(start, k) == start + k * BLOCK_BYTES
Stops(ram, start) ==
  {k \in 0 .. MAX_BLOCKS - 1 : Place(start, k) + BLOCK_BYTES > APU_RAM \/ ram[Place(start, k)] = EndFlag}
Address == Span(0, APU_RAM)

\* Blocks follow one another.
LEMMA Places ==
  ASSUME NEW start \in Nat
  PROVE  /\ \A k \in Nat : Place(start, k) \in Nat /\ Place(start, k) >= start
                           /\ Place(start, k + 1) = Place(start, k) + BLOCK_BYTES
         /\ \A j, k \in Nat : j < k => Place(start, j) + BLOCK_BYTES <= Place(start, k)
         /\ \A j, k \in Nat : Place(Place(start, j), k) = Place(start, j + k)
<1>1. BLOCK_BYTES \in Nat \ {0}
  BY BankSizes
<1>2. \A k \in Nat : k * BLOCK_BYTES \in Nat
  BY <1>1
<1>3. \A k \in Nat : (k + 1) * BLOCK_BYTES = k * BLOCK_BYTES + BLOCK_BYTES
  BY <1>1
<1>4. \A j, k \in Nat : (j + k) * BLOCK_BYTES = j * BLOCK_BYTES + k * BLOCK_BYTES
  BY <1>1
<1>5. ASSUME NEW k \in Nat
      PROVE  /\ Place(start, k) \in Nat /\ Place(start, k) >= start
             /\ Place(start, k + 1) = Place(start, k) + BLOCK_BYTES
  <2> DEFINE b == k * BLOCK_BYTES
  <2>1. b \in Nat /\ (k + 1) * BLOCK_BYTES = b + BLOCK_BYTES
    BY <1>2, <1>3
  <2>2. Place(start, k) = start + b /\ Place(start, k + 1) = start + (b + BLOCK_BYTES)
    BY <2>1 DEF Place
  <2> HIDE DEF b
  <2> QED
    BY <1>1, <2>1, <2>2
<1>6. ASSUME NEW j \in Nat, NEW k \in Nat
      PROVE  Place(Place(start, j), k) = Place(start, j + k)
  <2> DEFINE b == j * BLOCK_BYTES
             c == k * BLOCK_BYTES
  <2>1. b \in Nat /\ c \in Nat /\ (j + k) * BLOCK_BYTES = b + c
    BY <1>2, <1>4
  <2>2. Place(Place(start, j), k) = (start + b) + c /\ Place(start, j + k) = start + (b + c)
    BY <2>1 DEF Place
  <2> HIDE DEF b, c
  <2> QED
    BY <2>1, <2>2
<1>7. ASSUME NEW j \in Nat, NEW k \in Nat, j < k
      PROVE  Place(start, j) + BLOCK_BYTES <= Place(start, k)
  <2>1. k - (j + 1) \in Nat /\ j + 1 \in Nat /\ (j + 1) + (k - (j + 1)) = k
    BY <1>7
  <2>2. Place(start, k) = Place(Place(start, j + 1), k - (j + 1))
    BY <1>6, <2>1
  <2>3. Place(start, j + 1) = Place(start, j) + BLOCK_BYTES /\ Place(start, j + 1) \in Nat
    BY <1>5, <2>1
  <2> DEFINE c == (k - (j + 1)) * BLOCK_BYTES
  <2>4. c \in Nat /\ Place(start, k) = Place(start, j + 1) + c
    BY <1>2, <2>1, <2>2 DEF Place
  <2> HIDE DEF c
  <2> QED
    BY <2>3, <2>4
<1> QED
  BY <1>5, <1>6, <1>7

\* The walk in terms of the blocks it may stop at.
LEMMA ChainIs ==
  ASSUME NEW ram, NEW start
  PROVE  chain(ram, start) =
           LET k == Min(Stops(ram, start))
           IN  IF Stops(ram, start) = {}
               THEN [blocks |-> MAX_BLOCKS, reach |-> Span(start, APU_RAM), runsOff |-> TRUE]
               ELSE IF Place(start, k) + BLOCK_BYTES > APU_RAM
               THEN [blocks |-> k, reach |-> Span(start, Min({Place(start, k), APU_RAM})), runsOff |-> TRUE]
               ELSE [blocks |-> k + 1, reach |-> Span(start, Place(start, k + 1)), runsOff |-> FALSE]
  BY DEF chain, Stops, Place

\* What a walk reaches is memory from where it starts: all of it if it never
\* stops, and otherwise up to the end of the last whole block.
LEMMA Reached ==
  ASSUME NEW ram, NEW start \in Address
  PROVE  /\ Stops(ram, start) \in SUBSET Nat
         /\ chain(ram, start).reach \in SUBSET Address
         /\ Stops(ram, start) = {} => chain(ram, start).reach = Span(start, APU_RAM)
         /\ Stops(ram, start) # {} =>
              LET k == Min(Stops(ram, start))
              IN  /\ k \in 0 .. MAX_BLOCKS - 1 /\ k \in Stops(ram, start)
                  /\ \A j \in Stops(ram, start) : k <= j
                  /\ chain(ram, start).runsOff <=> Place(start, k) + BLOCK_BYTES > APU_RAM
                  /\ ~chain(ram, start).runsOff => chain(ram, start).reach = Span(start, Place(start, k + 1))
                  /\ chain(ram, start).runsOff =>
                       chain(ram, start).reach = Span(start, Min({Place(start, k), APU_RAM}))
         /\ chain(ram, start).runsOff \in BOOLEAN
         /\ Stops(ram, start) = {} => chain(ram, start).runsOff
<1> DEFINE S == Stops(ram, start)
           k == Min(S)
<1>1. APU_RAM \in Nat /\ BLOCK_BYTES \in Nat /\ start \in Nat /\ start < APU_RAM
  BY BankSizes DEF Address, Span
<1>2. S \in SUBSET Nat /\ \A j \in S : j \in 0 .. MAX_BLOCKS - 1
  BY DEF Stops
<1>3. CASE S = {}
  <2>1. chain(ram, start) = [blocks |-> MAX_BLOCKS, reach |-> Span(start, APU_RAM), runsOff |-> TRUE]
    BY <1>3, ChainIs
  <2>2. Span(start, APU_RAM) \in SUBSET Address
    BY <1>1 DEF Address, Span
  <2> QED
    BY <1>2, <1>3, <2>1, <2>2
<1>4. CASE S # {}
  <2>1. k \in S /\ \A j \in S : k <= j
    <3> HIDE DEF S
    <3> QED
      BY <1>2, <1>4, MinMember
  <2>2. k \in Nat /\ k \in 0 .. MAX_BLOCKS - 1
    BY <1>2, <2>1
  <2>3. Place(start, k) \in Nat /\ Place(start, k + 1) = Place(start, k) + BLOCK_BYTES
    <3> HIDE DEF k, S
    <3> QED
      BY <1>1, <2>2, Places
  <2>4. CASE Place(start, k) + BLOCK_BYTES > APU_RAM
    <3>1. chain(ram, start) = [blocks |-> k, reach |-> Span(start, Min({Place(start, k), APU_RAM})), runsOff |-> TRUE]
      BY <1>4, <2>4, ChainIs
    <3>2. Min({Place(start, k), APU_RAM}) \in Nat /\ Min({Place(start, k), APU_RAM}) <= APU_RAM
      <4>1. {Place(start, k), APU_RAM} \in SUBSET Nat
        BY <1>1, <2>3
      <4> QED
        BY <1>1, <4>1, MinMember
    <3>3. Span(start, Min({Place(start, k), APU_RAM})) \in SUBSET Address
      BY <1>1, <3>2 DEF Address, Span
    <3>4. chain(ram, start).reach = Span(start, Min({Place(start, k), APU_RAM})) /\ chain(ram, start).runsOff = TRUE
      <4> HIDE DEF k
      <4> QED
        BY <3>1
    <3> QED
      BY <1>2, <1>4, <2>1, <2>2, <2>4, <3>3, <3>4
  <2>5. CASE ~(Place(start, k) + BLOCK_BYTES > APU_RAM)
    <3>1. chain(ram, start) = [blocks |-> k + 1, reach |-> Span(start, Place(start, k + 1)), runsOff |-> FALSE]
      BY <1>4, <2>5, ChainIs
    <3>2. Span(start, Place(start, k + 1)) \in SUBSET Address
      BY <1>1, <2>3, <2>5 DEF Address, Span
    <3> QED
      BY <1>2, <1>4, <2>1, <2>2, <2>5, <3>1, <3>2
  <2> QED
    BY <2>4, <2>5
<1> QED
  BY <1>3, <1>4

\* As long as a walk has not stopped, and its block is whole, the header it
\* looks at is among the cells it reaches.
LEMMA LookedAt ==
  ASSUME NEW ram, NEW start \in Address, NEW j \in 0 .. MAX_BLOCKS - 1,
         Place(start, j) + BLOCK_BYTES <= APU_RAM,
         Stops(ram, start) = {} \/ j <= Min(Stops(ram, start))
  PROVE  Place(start, j) \in chain(ram, start).reach
<1> DEFINE k == Min(Stops(ram, start))
<1>1. APU_RAM \in Nat /\ BLOCK_BYTES \in Nat /\ BLOCK_BYTES > 0 /\ start \in Nat /\ start < APU_RAM
  BY BankSizes DEF Address, Span
<1>2. Place(start, j) \in Nat /\ Place(start, j) >= start /\ Place(start, j + 1) = Place(start, j) + BLOCK_BYTES
  BY <1>1, Places
<1>3. CASE Stops(ram, start) = {}
  <2>1. chain(ram, start).reach = Span(start, APU_RAM)
    BY <1>3, Reached
  <2> QED
    BY <1>1, <1>2, <2>1 DEF Span
<1>4. CASE Stops(ram, start) # {}
  <2>1. /\ k \in 0 .. MAX_BLOCKS - 1
        /\ chain(ram, start).runsOff <=> Place(start, k) + BLOCK_BYTES > APU_RAM
        /\ ~chain(ram, start).runsOff => chain(ram, start).reach = Span(start, Place(start, k + 1))
        /\ chain(ram, start).runsOff =>
             chain(ram, start).reach = Span(start, Min({Place(start, k), APU_RAM}))
    BY <1>4, Reached
  <2> HIDE DEF k
  <2>2. k \in Nat /\ j \in Nat
    BY <2>1
  <2>3. Place(start, k) \in Nat /\ Place(start, k + 1) = Place(start, k) + BLOCK_BYTES
        /\ (j < k => Place(start, j) + BLOCK_BYTES <= Place(start, k))
    BY <1>1, <2>2, Places
  <2>4. j <= k
    BY <1>4 DEF k
  <2>5. CASE ~chain(ram, start).runsOff
    <3>1. Place(start, j) < Place(start, k + 1)
      BY <1>1, <1>2, <2>2, <2>3, <2>4
    <3>2. chain(ram, start).reach = Span(start, Place(start, k + 1))
      BY <2>1, <2>5, Zenon
    <3>3. Place(start, k + 1) \in Nat
      BY <1>1, <2>3
    <3>4. Place(start, j) \in start .. Place(start, k + 1) - 1
      BY <1>1, <1>2, <3>1, <3>3
    <3> QED
      BY <3>2, <3>4 DEF Span
  <2>6. CASE chain(ram, start).runsOff
    <3>0. Place(start, k) + BLOCK_BYTES > APU_RAM
      BY <2>1, <2>6, Zenon
    <3>1. j < k
      BY <1>1, <1>2, <2>2, <2>3, <2>4, <3>0
    <3>2. {Place(start, k), APU_RAM} \in SUBSET Nat
      BY <1>1, <2>3
    <3>3. Min({Place(start, k), APU_RAM}) \in {Place(start, k), APU_RAM}
      BY <3>2, MinMember
    <3>4. Place(start, j) < Min({Place(start, k), APU_RAM}) /\ Min({Place(start, k), APU_RAM}) \in Nat
      BY <1>1, <1>2, <2>3, <3>1, <3>3
    <3> QED
      BY <1>1, <1>2, <2>1, <2>6, <3>4 DEF Span
  <2> QED
    BY <2>5, <2>6
<1> QED
  BY <1>3, <1>4

\* Where a walk first stops is given by being where it first stops.
LEMMA StopsFirst ==
  ASSUME NEW ram, NEW start \in Address, NEW k \in Stops(ram, start),
         \A j \in 0 .. k - 1 : j \notin Stops(ram, start)
  PROVE  Min(Stops(ram, start)) = k
<1>1. Stops(ram, start) \in SUBSET Nat
  BY Reached
<1>2. \A j \in Stops(ram, start) : k <= j
  BY <1>1
<1> QED
  BY <1>1, <1>2, MinIs

\* A walk depends on nothing but the cells it reaches.
LEMMA SameWalk ==
  ASSUME NEW ram, NEW other, NEW start \in Address,
         \A n \in chain(ram, start).reach : other[n] = ram[n]
  PROVE  chain(other, start) = chain(ram, start)
<1> DEFINE k == Min(Stops(ram, start))
<1>1. ASSUME NEW j \in 0 .. MAX_BLOCKS - 1, Stops(ram, start) = {} \/ j <= k
      PROVE  j \in Stops(other, start) <=> j \in Stops(ram, start)
  <2>1. CASE Place(start, j) + BLOCK_BYTES > APU_RAM
    BY <2>1 DEF Stops
  <2>2. CASE ~(Place(start, j) + BLOCK_BYTES > APU_RAM)
    <3>1. Place(start, j) \in Nat
      <4>1. j \in Nat /\ start \in Nat
        BY DEF Address, Span
      <4> QED
        BY <4>1, Places
    <3>2. Place(start, j) + BLOCK_BYTES <= APU_RAM
      BY <2>2, <3>1, BankSizes
    <3>3. Place(start, j) \in chain(ram, start).reach
      BY <1>1, <3>2, LookedAt
    <3> QED
      BY <3>3 DEF Stops
  <2> QED
    BY <2>1, <2>2
<1>2. CASE Stops(ram, start) = {}
  <2>1. Stops(other, start) = {}
    BY <1>1, <1>2 DEF Stops
  <2> QED
    BY <1>2, <2>1, ChainIs
<1>3. CASE Stops(ram, start) # {}
  <2>1. k \in 0 .. MAX_BLOCKS - 1 /\ k \in Stops(ram, start) /\ \A j \in Stops(ram, start) : k <= j
    BY <1>3, Reached
  <2>2. k \in Stops(other, start)
    BY <1>1, <2>1
  <2>3. \A j \in 0 .. k - 1 : j \notin Stops(other, start)
    <3> SUFFICES ASSUME NEW j \in 0 .. k - 1 PROVE j \notin Stops(other, start)
      OBVIOUS
    <3> HIDE DEF k
    <3>0. MAX_BLOCKS \in Int
      BY BankSizes, DivNat DEF MAX_BLOCKS
    <3>1. j \in 0 .. MAX_BLOCKS - 1 /\ j <= k /\ j \notin Stops(ram, start)
      BY <2>1, <3>0
    <3> QED
      BY <1>1, <3>1
  <2>4. Min(Stops(other, start)) = k
    BY <2>2, <2>3, StopsFirst
  <2> QED
    BY <1>3, <2>2, <2>4, ChainIs
<1> QED
  BY <1>2, <1>3

\* The two words of the first two entries.
LEMMA EntryIs ==
  ASSUME NEW s \in Samples
  PROVE  /\ At(0, s) = 2 * s /\ 2 * s \in Address /\ 2 * s + 1 \in Address
         /\ \A ram : entry(ram, 0, s) = [start |-> ram[2 * s], loop |-> ram[2 * s + 1]]
         /\ Span(At(0, s), At(0, s) + DIRECTORY_BYTES) = {2 * s, 2 * s + 1}
<1>1. APU_RAM \in Nat /\ APU_RAM >= 4 /\ DIRECTORY_BYTES = 2 /\ DIRECTORY_BYTES \div 2 = 1
  BY BankSizes
<1>2. s \in {0, 1}
  BY DEF Samples
<1>3. (0 + s * DIRECTORY_BYTES) % APU_RAM = 2 * s
  <2>1. 0 + s * DIRECTORY_BYTES = 2 * s /\ 2 * s \in 0 .. APU_RAM - 1
    BY <1>1, <1>2
  <2> QED
    BY <1>1, <2>1, ModSmall
<1>4. (2 * s + 1) % APU_RAM = 2 * s + 1
  <2>1. 2 * s + 1 \in 0 .. APU_RAM - 1
    BY <1>1, <1>2
  <2> QED
    BY <1>1, <2>1, ModSmall
<1>5. At(0, s) = 2 * s
  BY <1>3 DEF At
<1> QED
  BY <1>1, <1>2, <1>4, <1>5 DEF entry, Address, Span

\* What collisions says of one sample.
LEMMA Collides ==
  ASSUME NEW ram, NEW s \in Samples, NEW written
  PROVE  LET struck == written \cap Walked(ram, 0, s).reach
             c == collisions(ram, 0, {s}, written)
         IN  /\ written \cap {2 * s, 2 * s + 1} # {} => c = {BankFault(s, "directory written", 2 * s)}
             /\ written \cap {2 * s, 2 * s + 1} = {} /\ struck # {} => c = {BankFault(s, "overwritten", Min(struck))}
             /\ written \cap {2 * s, 2 * s + 1} = {} /\ struck = {} => c = {}
<1>1. At(0, s) = 2 * s /\ Span(At(0, s), At(0, s) + DIRECTORY_BYTES) = {2 * s, 2 * s + 1}
  BY EntryIs
<1> QED
  BY <1>1 DEF collisions

\* An upload that does not collide leaves a sample as it was, and one that does
\* can be heard.
LEMMA CollisionsHeard ==
  ASSUME NEW ram, Readable(ram), NEW written, IsBank(ram), NEW s \in Samples
  PROVE  LET c == collisions(ram, 0, {s}, written)
         IN  /\ c = {} => \A v : play(Uploaded(ram, written, v), 0, s) = play(ram, 0, s)
             /\ c # {} => \E v \in Address : play(Uploaded(ram, written, v), 0, s) # play(ram, 0, s)
<1> DEFINE c == collisions(ram, 0, {s}, written)
           start == ram[2 * s]
           reach == chain(ram, start).reach
           struck == written \cap reach
           up(v) == Uploaded(ram, written, v)
<1>1. DOMAIN ram = Address /\ start \in Address
  BY EntryIs DEF Readable, IsBank, Address
<1>2. 2 * s \in Address /\ 2 * s + 1 \in Address
      /\ \A r : entry(r, 0, s) = [start |-> r[2 * s], loop |-> r[2 * s + 1]]
  BY EntryIs
<1>3. Walked(ram, 0, s) = chain(ram, start)
  BY <1>2 DEF Walked
<1>4. reach \in SUBSET Address
  BY <1>1, Reached
<1>5. \A v : DOMAIN up(v) = Address /\ \A n \in Address : up(v)[n] = IF n \in written THEN v ELSE ram[n]
  BY <1>1 DEF Uploaded
<1>6. ASSUME c = {}, NEW v PROVE play(up(v), 0, s) = play(ram, 0, s)
  <2>1. written \cap {2 * s, 2 * s + 1} = {} /\ struck = {}
    <3>1. Walked(ram, 0, s).reach = reach
      BY <1>3
    <3> HIDE DEF start, reach, c
    <3>2. /\ written \cap {2 * s, 2 * s + 1} # {} => c = {BankFault(s, "directory written", 2 * s)}
          /\ written \cap {2 * s, 2 * s + 1} = {} /\ struck # {} => c = {BankFault(s, "overwritten", Min(struck))}
      BY <3>1, Collides DEF c
    <3>3. \A x : {x} # {}
      OBVIOUS
    <3> QED
      BY <1>6, <3>2, <3>3, Zenon
  <2>2. up(v)[2 * s] = ram[2 * s] /\ up(v)[2 * s + 1] = ram[2 * s + 1]
    BY <1>2, <1>5, <2>1
  <2>3. \A n \in reach : up(v)[n] = ram[n]
    BY <1>4, <1>5, <2>1
  <2> HIDE DEF up, start, reach
  <2>4. entry(up(v), 0, s) = entry(ram, 0, s)
    BY <1>2, <2>2
  <2>5. chain(up(v), start) = chain(ram, start)
    BY <1>1, <2>3, SameWalk DEF reach
  <2>6. Walked(up(v), 0, s) = chain(up(v), start)
    BY <1>2, <2>2 DEF Walked, start
  <2> QED
    BY <1>3, <2>3, <2>4, <2>5, <2>6 DEF play, reach
<1>7. ASSUME c # {} PROVE \E v \in Address : play(up(v), 0, s) # play(ram, 0, s)
  <2>0. \A n : \E v \in Address : v # ram[n]
    <3>1. 0 \in Address /\ 1 \in Address
      BY BankSizes DEF Address, Span
    <3> QED
      BY <3>1
  <2>1. CASE written \cap {2 * s, 2 * s + 1} # {}
    <3>1. PICK n \in {2 * s, 2 * s + 1} : n \in written
      BY <2>1
    <3>2. PICK v \in Address : v # ram[n]
      BY <2>0
    <3>3. up(v)[n] = v
      BY <1>2, <1>5, <3>1
    <3> HIDE DEF up
    <3>4. entry(up(v), 0, s) # entry(ram, 0, s)
      BY <1>2, <3>1, <3>2, <3>3
    <3>5. play(up(v), 0, s) # play(ram, 0, s)
      BY <3>4 DEF play
    <3> QED
      BY <3>2, <3>5
  <2>2. CASE written \cap {2 * s, 2 * s + 1} = {}
    <3>1. struck # {}
      <4>1. Walked(ram, 0, s).reach = reach
        BY <1>3
      <4> HIDE DEF start, reach
      <4> QED
        BY <1>7, <2>2, <4>1, Collides
    <3>2. PICK n \in reach : n \in written
      BY <3>1
    <3>3. PICK v \in Address : v # ram[n]
      BY <2>0
    <3>4. up(v)[n] = v
      BY <1>4, <1>5, <3>2
    <3> HIDE DEF up, start, reach
    <3>5. ASSUME play(up(v), 0, s) = play(ram, 0, s) PROVE FALSE
      <4>1. [i \in Walked(up(v), 0, s).reach |-> up(v)[i]] = [i \in reach |-> ram[i]]
        BY <1>3, <3>5 DEF play, reach
      <4>2. Walked(up(v), 0, s).reach = reach
        BY <4>1
      <4>3. [i \in reach |-> up(v)[i]] = [i \in reach |-> ram[i]]
        BY <4>1, <4>2
      <4>4. up(v)[n] = ram[n]
        BY <3>2, <4>3
      <4> QED
        BY <3>3, <3>4, <4>4
    <3> QED
      BY <3>3, <3>5
  <2> QED
    BY <2>1, <2>2
<1> QED
  BY <1>6, <1>7

\* When a sample is called sound.
LEMMA NoFault ==
  ASSUME NEW ram, NEW s \in Samples, bank_faults(ram, 0, {s}) = {},
         Walked(ram, 0, s).runsOff \in BOOLEAN
  PROVE  /\ ~Walked(ram, 0, s).runsOff
         /\ entry(ram, 0, s).loop \in Walked(ram, 0, s).reach
         /\ (entry(ram, 0, s).loop - entry(ram, 0, s).start) % BLOCK_BYTES = 0
<1> DEFINE e == entry(ram, 0, s)
           w == Walked(ram, 0, s)
           found == CASE w.runsOff -> {BankFault(s, "runs off", e.start)}
                      [] ~w.runsOff /\ e.loop \notin w.reach -> {BankFault(s, "loop outside", e.loop)}
                      [] ~w.runsOff /\ e.loop \in w.reach /\ (e.loop - e.start) % BLOCK_BYTES # 0 ->
                           {BankFault(s, "loop unaligned", e.loop)}
                      [] OTHER -> {}
<1>1. bank_faults(ram, 0, {s}) = found
  BY DEF bank_faults
<1>2. \A x : {x} # {}
  OBVIOUS
<1> HIDE DEF e, w
<1>3. found = {} => ~w.runsOff /\ e.loop \in w.reach /\ (e.loop - e.start) % BLOCK_BYTES = 0
  BY <1>2 DEF w
<1> QED
  BY <1>1, <1>3 DEF e, w

\* A chain that loops onto one of its own blocks ends where it ends anyway.
LEMMA LoopInside ==
  ASSUME NEW ram, NEW start \in Address, ~chain(ram, start).runsOff,
         NEW loop \in chain(ram, start).reach, (loop - start) % BLOCK_BYTES = 0
  PROVE  ~chain(ram, loop).runsOff /\ chain(ram, loop).reach \subseteq chain(ram, start).reach
<1> DEFINE k == Min(Stops(ram, start))
           q == (loop - start) \div BLOCK_BYTES
           i == k - q
<1>1. APU_RAM \in Nat /\ BLOCK_BYTES \in Nat \ {0} /\ start \in Nat /\ MAX_BLOCKS \in Nat
  BY BankSizes, DivNat DEF Address, Span, MAX_BLOCKS
<1>2. Stops(ram, start) # {}
  BY Reached
<1>3. /\ k \in 0 .. MAX_BLOCKS - 1 /\ k \in Stops(ram, start) /\ \A j \in Stops(ram, start) : k <= j
      /\ ~(Place(start, k) + BLOCK_BYTES > APU_RAM)
      /\ chain(ram, start).reach = Span(start, Place(start, k + 1))
  BY <1>2, Reached
<1>4. loop \in Address
  BY Reached
<1> HIDE DEF k
<1>5. k \in Nat /\ Place(start, k) \in Nat /\ Place(start, k + 1) = Place(start, k) + BLOCK_BYTES
  <2>1. k \in Nat
    BY <1>3
  <2> QED
    BY <1>1, <2>1, Places
<1>6. loop \in Nat /\ start <= loop /\ loop < Place(start, k) + BLOCK_BYTES
  BY <1>1, <1>3, <1>5 DEF Span
<1>7. q \in Nat /\ loop = Place(start, q)
  <2>1. loop - start \in Nat
    BY <1>1, <1>6
  <2>2. q \in Nat
    BY <1>1, <2>1, DivNat
  <2>3. loop - start = BLOCK_BYTES * q + 0
    BY <1>1, <2>1, DivMod
  <2>4. BLOCK_BYTES * q = q * BLOCK_BYTES
    BY <1>1, <2>2
  <2> DEFINE b == q * BLOCK_BYTES
  <2>5. b \in Nat
    BY <1>1, <2>2
  <2>6. loop - start = b
    BY <2>3, <2>4, <2>5
  <2>7. Place(start, q) = start + b
    BY DEF Place
  <2> HIDE DEF q, b
  <2> QED
    BY <1>1, <1>6, <2>2, <2>5, <2>6, <2>7
<1> HIDE DEF q
<1>8. q <= k
  <2>1. k < q => Place(start, k) + BLOCK_BYTES <= Place(start, q)
    BY <1>1, <1>5, <1>7, Places
  <2> QED
    BY <1>1, <1>5, <1>6, <1>7, <2>1
<1>9. \A j \in Nat : Place(loop, j) = Place(start, q + j)
  BY <1>1, <1>7, Places
<1>10. i \in Nat /\ i \in 0 .. MAX_BLOCKS - 1 /\ q + i = k /\ q + (i + 1) = k + 1
  BY <1>1, <1>3, <1>5, <1>7, <1>8
<1> HIDE DEF i
<1>11. Place(loop, i) = Place(start, k) /\ Place(loop, i + 1) = Place(start, k + 1)
  <2>1. i + 1 \in Nat
    BY <1>10
  <2> QED
    BY <1>9, <1>10, <2>1
<1>12. i \in Stops(ram, loop)
  BY <1>3, <1>10, <1>11 DEF Stops
<1>13. \A j \in 0 .. i - 1 : j \notin Stops(ram, loop)
  <2> SUFFICES ASSUME NEW j \in 0 .. i - 1 PROVE j \notin Stops(ram, loop)
    OBVIOUS
  <2>1. j \in Nat /\ q + j \in 0 .. MAX_BLOCKS - 1 /\ q + j < k
    BY <1>1, <1>3, <1>7, <1>10
  <2>2. q + j \notin Stops(ram, start)
    BY <1>3, <1>5, <1>7, <2>1
  <2>3. Place(loop, j) = Place(start, q + j)
    BY <1>9, <2>1
  <2> QED
    BY <2>1, <2>2, <2>3 DEF Stops
<1>14. Min(Stops(ram, loop)) = i
  BY <1>4, <1>12, <1>13, StopsFirst
<1>15. chain(ram, loop) = [blocks |-> i + 1, reach |-> Span(loop, Place(loop, i + 1)), runsOff |-> FALSE]
  <2>1. Stops(ram, loop) # {}
    BY <1>12
  <2> QED
    BY <1>3, <1>11, <1>14, <2>1, ChainIs
<1>16. Place(start, k + 1) \in Nat
  BY <1>1, <1>5
<1>17. Span(loop, Place(start, k + 1)) \subseteq Span(start, Place(start, k + 1))
  BY <1>1, <1>6, <1>16 DEF Span
<1> QED
  BY <1>3, <1>11, <1>15, <1>17

\* A walk goes forward.
LEMMA ReachAfter ==
  ASSUME NEW ram, NEW start \in Address, NEW n \in chain(ram, start).reach
  PROVE  n >= start
<1>1. start \in Int
  BY DEF Address, Span
<1>2. \E next : chain(ram, start).reach = Span(start, next)
  <2>1. CASE Stops(ram, start) = {}
    BY <2>1, Reached
  <2>2. CASE Stops(ram, start) # {}
    BY <2>2, ChainIs
  <2> QED
    BY <2>1, <2>2
<1>3. PICK next : n \in start .. next - 1
  BY <1>2 DEF Span
<1> QED
  BY <1>1, <1>3

\* Two samples past the directory overlap exactly if the one would collide
\* with an upload of the other.
LEMMA OverlapsCollide ==
  ASSUME NEW ram, Readable(ram), IsBank(ram),
         \A s \in Samples : entry(ram, 0, s).start >= 2 * DIRECTORY_BYTES
  PROVE  (overlaps(ram, 0, Samples) # {}) =
           (/\ \A s \in Samples : ~Walked(ram, 0, s).runsOff
            /\ entry(ram, 0, 0).start # entry(ram, 0, 1).start
            /\ \E f \in collisions(ram, 0, {1}, Walked(ram, 0, 0).reach \ Span(0, 2 * DIRECTORY_BYTES)) :
                 f.fault = "overwritten")
<1> DEFINE w(s) == Walked(ram, 0, s)
           e(s) == entry(ram, 0, s)
           shared == w(0).reach \cap w(1).reach
           written == w(0).reach \ Span(0, 2 * DIRECTORY_BYTES)
<1>1. Samples = {0, 1} /\ 2 * DIRECTORY_BYTES = 4
  BY BankSizes DEF Samples
<1>2. \A s \in Samples : e(s).start \in Address /\ w(s) = chain(ram, e(s).start)
  BY EntryIs DEF Readable, IsBank, Address, Walked
<1>3. \A n \in w(1).reach : n >= 4 /\ n \notin Span(0, 4)
  <2> SUFFICES ASSUME NEW n \in w(1).reach PROVE n >= 4 /\ n \notin Span(0, 4)
    OBVIOUS
  <2>1. e(1).start \in Address /\ e(1).start >= 4 /\ w(1) = chain(ram, e(1).start)
    BY <1>1, <1>2
  <2> HIDE DEF w, e
  <2>2. n >= e(1).start /\ n \in Address
    BY <2>1, Reached, ReachAfter
  <2> QED
    BY <2>1, <2>2 DEF Address, Span
<1>4. written \cap w(1).reach = shared
  BY <1>1, <1>3
<1>5. written \cap {2 * 1, 2 * 1 + 1} = {}
  BY <1>1 DEF Span
<1>6. (\E f \in collisions(ram, 0, {1}, written) : f.fault = "overwritten") <=> shared # {}
  <2>1. 1 \in Samples
    BY <1>1
  <2> HIDE DEF written, w, shared
  <2>2. written \cap Walked(ram, 0, 1).reach = shared
    BY <1>4 DEF w
  <2>3. shared # {} => collisions(ram, 0, {1}, written) = {BankFault(1, "overwritten", Min(shared))}
    BY <1>5, <2>1, <2>2, Collides
  <2>4. shared = {} => collisions(ram, 0, {1}, written) = {}
    BY <1>5, <2>1, <2>2, Collides
  <2>5. BankFault(1, "overwritten", Min(shared)).fault = "overwritten"
    BY DEF BankFault
  <2> QED
    BY <2>3, <2>4, <2>5
<1>7. (overlaps(ram, 0, Samples) # {}) <=>
        (\A s \in Samples : ~w(s).runsOff) /\ e(0).start # e(1).start /\ shared # {}
  <2> DEFINE whole == {s \in Samples : ~w(s).runsOff}
             Pairs == {p \in whole \X whole :
                         /\ p[1] < p[2] /\ w(p[1]).reach \cap w(p[2]).reach # {}
                         /\ e(p[1]).start # e(p[2]).start}
  <2>1. overlaps(ram, 0, Samples) = {<<p[1], p[2], Min(w(p[1]).reach \cap w(p[2]).reach)>> : p \in Pairs}
    BY DEF overlaps
  <2>2. (overlaps(ram, 0, Samples) # {}) <=> Pairs # {}
    BY <2>1
  <2>3. ASSUME NEW p \in Pairs
        PROVE  (\A s \in Samples : ~w(s).runsOff) /\ e(0).start # e(1).start /\ shared # {}
    <3>1. p[1] \in whole /\ p[2] \in whole /\ p[1] < p[2]
          /\ w(p[1]).reach \cap w(p[2]).reach # {} /\ e(p[1]).start # e(p[2]).start
      OBVIOUS
    <3>2. p[1] = 0 /\ p[2] = 1
      BY <1>1, <3>1
    <3> QED
      BY <1>1, <3>1, <3>2
  <2>4. ASSUME \A s \in Samples : ~w(s).runsOff, e(0).start # e(1).start, shared # {}
        PROVE  <<0, 1>> \in Pairs
    BY <1>1, <2>4
  <2> QED
    BY <2>2, <2>3, <2>4
<1> QED
  BY <1>6, <1>7

\* The audit is right about every bank and every upload.
LEMMA AuditIsRight ==
  ASSUME NEW ram, Readable(ram), NEW written, IsBank(ram)
  PROVE  AuditSound(ram, written)
<1>2. {0, 1} \subseteq Address /\ Address = 0 .. APU_RAM - 1
  BY BankSizes DEF Address, Span
<1>3. ASSUME NEW s \in Samples
      PROVE  LET c == collisions(ram, 0, {s}, written)
             IN  /\ c = {} => \A v \in {0, 1} : play(Uploaded(ram, written, v), 0, s) = play(ram, 0, s)
                 /\ c # {} => \E v \in 0 .. APU_RAM - 1 : play(Uploaded(ram, written, v), 0, s) # play(ram, 0, s)
  BY <1>2, CollisionsHeard
<1>4. ASSUME NEW s \in Samples, bank_faults(ram, 0, {s}) = {}
      PROVE  LET again == chain(ram, entry(ram, 0, s).loop)
             IN  ~again.runsOff /\ again.reach \subseteq Walked(ram, 0, s).reach
  <2>1. entry(ram, 0, s).start \in Address /\ Walked(ram, 0, s) = chain(ram, entry(ram, 0, s).start)
    BY EntryIs DEF Readable, IsBank, Address, Walked
  <2>2. Walked(ram, 0, s).runsOff \in BOOLEAN
    BY <2>1, Reached
  <2>3. /\ ~Walked(ram, 0, s).runsOff
        /\ entry(ram, 0, s).loop \in Walked(ram, 0, s).reach
        /\ (entry(ram, 0, s).loop - entry(ram, 0, s).start) % BLOCK_BYTES = 0
    BY <1>4, <2>2, NoFault
  <2> QED
    BY <2>1, <2>3, LoopInside
<1> QED
  BY <1>3, <1>4, OverlapsCollide, Zenon DEF AuditSound

-----------------------------------------------------------------------------
(* Freezing what the assembler makes *)

\* A cartridge, and the stretches in which two of them differ.
Cartridges == [1 .. CHECKSUM_FIELD -> Int]
Stretch(old, after, a, b) ==
  /\ a <= b /\ \A k \in a .. b : Differs(old, after, k)
  /\ ~Differs(old, after, a - 1) /\ ~Differs(old, after, b + 1)
RunOf(after, a, b) == [at |-> a, data |-> SubSeq(after, a, b)]

\* The runs are those of the stretches, and no stretch has the checksum field.
LEMMA RunsAre ==
  ASSUME NEW old, NEW after \in Cartridges
  PROVE  /\ \A run \in differing_runs(old, after) :
              \E a, b \in 1 .. Cells : Stretch(old, after, a, b) /\ run = RunOf(after, a, b)
         /\ \A a, b \in 1 .. Cells :
              Stretch(old, after, a, b) => RunOf(after, a, b) \in differing_runs(old, after)
<1> DEFINE Q == {q \in (DOMAIN after) \X (DOMAIN after) :
                   /\ q[1] <= q[2] /\ \A k \in q[1] .. q[2] : Differs(old, after, k)
                   /\ ~Differs(old, after, q[1] - 1) /\ ~Differs(old, after, q[2] + 1)}
<1>1. differing_runs(old, after) = {RunOf(after, q[1], q[2]) : q \in Q}
  BY DEF differing_runs, RunsWhere, RunOf
<1>2. DOMAIN after = 1 .. Cells + 1 /\ Cells \in Nat
  BY FreezeSizes DEF Cartridges, CHECKSUM_FIELD
<1>3. ASSUME NEW run \in differing_runs(old, after)
      PROVE  \E a, b \in 1 .. Cells : Stretch(old, after, a, b) /\ run = RunOf(after, a, b)
  <2>1. PICK q \in Q : run = RunOf(after, q[1], q[2])
    BY <1>1
  <2>2. /\ q[1] \in 1 .. Cells + 1 /\ q[2] \in 1 .. Cells + 1 /\ q[1] <= q[2]
        /\ \A k \in q[1] .. q[2] : Differs(old, after, k)
        /\ ~Differs(old, after, q[1] - 1) /\ ~Differs(old, after, q[2] + 1)
    BY <1>2
  <2>3. Differs(old, after, q[2]) /\ Differs(old, after, q[1])
    BY <2>2
  <2>4. q[1] \in 1 .. Cells /\ q[2] \in 1 .. Cells
    BY <2>3 DEF Differs
  <2> QED
    BY <2>1, <2>2, <2>4 DEF Stretch
<1>4. ASSUME NEW a \in 1 .. Cells, NEW b \in 1 .. Cells, Stretch(old, after, a, b)
      PROVE  RunOf(after, a, b) \in differing_runs(old, after)
  <2>1. <<a, b>> \in (DOMAIN after) \X (DOMAIN after)
    BY <1>2
  <2>2. <<a, b>> \in Q
    BY <1>4, <2>1 DEF Stretch
  <2>3. RunOf(after, a, b) = RunOf(after, <<a, b>>[1], <<a, b>>[2])
    OBVIOUS
  <2> HIDE DEF Q
  <2> QED
    BY <1>1, <2>2, <2>3
<1> QED
  BY <1>3, <1>4

\* Every cell that differs lies in a stretch.
LEMMA InStretch ==
  ASSUME NEW old, NEW after, NEW n \in 1 .. Cells, Differs(old, after, n)
  PROVE  \E a, b \in 1 .. Cells : Stretch(old, after, a, b) /\ n \in a .. b
<1> DEFINE T == {i \in Nat : i >= 1 /\ i <= n /\ \A k \in i .. n : Differs(old, after, k)}
           U == {i \in Nat : ~Differs(old, after, n + i + 1)}
<1>1. Cells \in Nat /\ n \in Nat /\ n >= 1 /\ n <= Cells
  BY FreezeSizes
<1>2. \A k : Differs(old, after, k) => k \in 1 .. Cells
  BY DEF Differs
<1>3. PICK a \in T : \A i \in T : a <= i
  <2>1. n \in T
    BY <1>1
  <2>2. T \in SUBSET Nat
    OBVIOUS
  <2> HIDE DEF T
  <2> QED
    BY <2>1, <2>2, LeastNatural
<1>4. a \in Nat /\ a >= 1 /\ a <= n /\ \A k \in a .. n : Differs(old, after, k)
  OBVIOUS
<1>5. ~Differs(old, after, a - 1)
  <2> SUFFICES ASSUME Differs(old, after, a - 1) PROVE FALSE
    OBVIOUS
  <2>1. a - 1 \in Nat /\ a - 1 >= 1 /\ a - 1 <= n
    BY <1>1, <1>2, <1>4
  <2>2. \A k \in a - 1 .. n : k = a - 1 \/ k \in a .. n
    BY <1>1, <1>4
  <2>3. a - 1 \in T
    BY <1>4, <2>1, <2>2
  <2> HIDE DEF T
  <2> QED
    BY <1>3, <1>4, <2>3
<1>6. PICK u \in U : \A i \in U : u <= i
  <2>1. Cells - n \in U
    <3>1. n + (Cells - n) + 1 \notin 1 .. Cells /\ Cells - n \in Nat
      BY <1>1
    <3> QED
      BY <1>2, <3>1
  <2>2. U \in SUBSET Nat
    OBVIOUS
  <2> HIDE DEF U
  <2> QED
    BY <2>1, <2>2, LeastNatural
<1>7. u \in Nat /\ ~Differs(old, after, (n + u) + 1)
  OBVIOUS
<1>8. \A k \in n .. n + u : Differs(old, after, k)
  <2> SUFFICES ASSUME NEW k \in n .. n + u, ~Differs(old, after, k) PROVE FALSE
    OBVIOUS
  <2>1. k # n
    OBVIOUS
  <2>2. k - n - 1 \in Nat /\ n + (k - n - 1) + 1 = k /\ k - n - 1 < u
    BY <1>1, <1>7, <2>1
  <2>3. k - n - 1 \in U
    BY <2>2
  <2> HIDE DEF U
  <2> QED
    BY <1>6, <1>7, <2>2, <2>3
<1>9. n + u \in 1 .. Cells
  <2>1. n + u \in n .. n + u
    BY <1>1, <1>7
  <2> QED
    BY <1>2, <1>8, <2>1
<1>10. a \in 1 .. Cells /\ a <= n + u /\ n \in a .. n + u
  BY <1>1, <1>4, <1>7
<1>11. \A k \in a .. n + u : Differs(old, after, k)
  <2>1. \A k \in a .. n + u : k \in a .. n \/ k \in n .. n + u
    BY <1>1, <1>4, <1>7
  <2> QED
    BY <1>4, <1>8, <2>1
<1> HIDE DEF T, U
<1> QED
  BY <1>5, <1>7, <1>9, <1>10, <1>11 DEF Stretch

\* What the run of a stretch holds.
LEMMA RunHolds ==
  ASSUME NEW after \in Cartridges, NEW a \in 1 .. Cells, NEW b \in 1 .. Cells, a <= b
  PROVE  /\ RunOf(after, a, b).at = a
         /\ RunOf(after, a, b).data \in [1 .. b - a + 1 -> Int] /\ Len(RunOf(after, a, b).data) = b - a + 1
         /\ DOMAIN RunOf(after, a, b).data = 1 .. b - a + 1
         /\ \A k \in 1 .. b - a + 1 : RunOf(after, a, b).data[k] = after[a + k - 1]
<1>1. Cells \in Nat
  BY FreezeSizes
<1>2. \A i \in a .. b : after[i] \in Int
  BY <1>1 DEF Cartridges, CHECKSUM_FIELD
<1> DEFINE d == SubSeq(after, a, b)
<1>3. /\ d \in Seq(Int) /\ Len(d) = IF a <= b THEN b - a + 1 ELSE 0
      /\ \A i \in 1 .. b - a + 1 : d[i] = after[a + i - 1]
  BY <1>2, SubSeqProperties
<1>4. RunOf(after, a, b) = [at |-> a, data |-> d]
  BY DEF RunOf
<1> HIDE DEF d
<1> QED
  BY <1>3, <1>4

\* Patching with the runs makes every cell but the checksum field what the
\* assembler made it.
LEMMA RunsReproduce ==
  ASSUME NEW old \in Cartridges, NEW after \in Cartridges
  PROVE  LET x == Overwritten(old, differing_runs(old, after))
         IN  /\ x \in Cartridges
             /\ \A n \in 1 .. Cells : x[n] = after[n]
             /\ x[CHECKSUM_FIELD] = old[CHECKSUM_FIELD]
<1> DEFINE runs == differing_runs(old, after)
           touching(n) == {run \in runs : n \in run.at .. run.at + Len(run.data) - 1}
           one(n) == CHOOSE run \in touching(n) : TRUE
           x == Overwritten(old, runs)
<1>1. DOMAIN old = 1 .. Cells + 1 /\ Cells \in Nat /\ CHECKSUM_FIELD = Cells + 1
  BY FreezeSizes DEF Cartridges, CHECKSUM_FIELD
<1>2. /\ DOMAIN x = 1 .. Cells + 1
      /\ \A n \in 1 .. Cells + 1 : x[n] = IF touching(n) = {} THEN old[n] ELSE one(n).data[n - one(n).at + 1]
  <2>1. x = [n \in DOMAIN old |-> IF touching(n) = {} THEN old[n] ELSE one(n).data[n - one(n).at + 1]]
    BY DEF Overwritten
  <2> HIDE DEF x, touching, one
  <2> QED
    BY <1>1, <2>1
<1>3. ASSUME NEW n \in 1 .. Cells + 1, NEW run \in touching(n)
      PROVE  n \in 1 .. Cells /\ run.data[n - run.at + 1] = after[n]
  <2>1. PICK a \in 1 .. Cells, b \in 1 .. Cells : Stretch(old, after, a, b) /\ run = RunOf(after, a, b)
    BY RunsAre
  <2>2. a <= b
    BY <2>1 DEF Stretch
  <2>3. run.at = a /\ Len(run.data) = b - a + 1 /\ \A k \in 1 .. b - a + 1 : run.data[k] = after[a + k - 1]
    <3>1. /\ RunOf(after, a, b).at = a /\ Len(RunOf(after, a, b).data) = b - a + 1
          /\ \A k \in 1 .. b - a + 1 : RunOf(after, a, b).data[k] = after[a + k - 1]
      BY <2>2, RunHolds, Zenon
    <3> QED
      BY <2>1, <3>1, Zenon
  <2>4. n \in a .. b
    <3>1. n \in run.at .. run.at + Len(run.data) - 1
      OBVIOUS
    <3>2. n \in a .. a + (b - a + 1) - 1
      BY <2>3, <3>1
    <3> QED
      BY <3>2
  <2>5. n - a + 1 \in 1 .. b - a + 1 /\ a + (n - a + 1) - 1 = n
    BY <2>4
  <2> QED
    BY <1>1, <2>3, <2>4, <2>5
<1>4. \A n \in 1 .. Cells + 1 : touching(n) # {} => one(n) \in touching(n)
  OBVIOUS
<1>5. ASSUME NEW n \in 1 .. Cells PROVE x[n] = after[n]
  <2>0. n \in 1 .. Cells + 1
    BY <1>1
  <2>1. CASE touching(n) # {}
    <3>1. one(n) \in touching(n)
      BY <1>4, <2>0, <2>1
    <3>2. one(n).data[n - one(n).at + 1] = after[n]
      BY <1>3, <2>0, <3>1
    <3> HIDE DEF touching, one, x
    <3> QED
      BY <1>2, <2>0, <2>1, <3>2
  <2>2. CASE touching(n) = {}
    <3>1. ~Differs(old, after, n)
      <4> SUFFICES ASSUME Differs(old, after, n) PROVE FALSE
        OBVIOUS
      <4>1. PICK a \in 1 .. Cells, b \in 1 .. Cells : Stretch(old, after, a, b) /\ n \in a .. b
        BY InStretch
      <4>2. RunOf(after, a, b) \in runs
        BY <4>1, RunsAre
      <4>3. a <= b
        BY <4>1 DEF Stretch
      <4>4. RunOf(after, a, b).at = a /\ Len(RunOf(after, a, b).data) = b - a + 1
        BY <4>3, RunHolds
      <4>5. n \in RunOf(after, a, b).at .. RunOf(after, a, b).at + Len(RunOf(after, a, b).data) - 1
        BY <4>1, <4>4
      <4> QED
        BY <2>2, <4>2, <4>5
    <3>2. old[n] = after[n]
      BY <3>1 DEF Differs
    <3> HIDE DEF touching, one, x
    <3> QED
      BY <1>2, <2>0, <2>2, <3>2
  <2> QED
    BY <2>1, <2>2
<1>6. x[CHECKSUM_FIELD] = old[CHECKSUM_FIELD]
  <2>1. Cells + 1 \in 1 .. Cells + 1 /\ Cells + 1 \notin 1 .. Cells
    BY <1>1
  <2>2. touching(Cells + 1) = {}
    BY <1>3, <2>1
  <2> HIDE DEF touching, one, x
  <2> QED
    BY <1>1, <1>2, <2>1, <2>2
<1>7. x \in Cartridges
  <2>1. \A n \in 1 .. Cells + 1 : x[n] \in Int
    <3>1. \A n \in 1 .. Cells + 1 : n \in 1 .. Cells \/ n = CHECKSUM_FIELD
      BY <1>1
    <3>2. \A n \in 1 .. Cells + 1 : old[n] \in Int /\ after[n] \in Int
      BY <1>1 DEF Cartridges
    <3> HIDE DEF x
    <3> QED
      BY <1>1, <1>5, <1>6, <3>1, <3>2
  <2>2. x = [n \in DOMAIN x |-> x[n]]
    BY DEF Overwritten
  <2> HIDE DEF x
  <2> QED
    BY <1>1, <1>2, <2>1, <2>2 DEF Cartridges
<1> HIDE DEF x
<1> QED
  BY <1>5, <1>6, <1>7 DEF x

\* The checksum of a cartridge depends on the cells before it.
LEMMA SameChecksum ==
  ASSUME NEW x \in Cartridges, NEW y \in Cartridges, \A n \in 1 .. Cells : x[n] = y[n]
  PROVE  write_checksum(x) = write_checksum(y)
<1> DEFINE v == SumOf([n \in 1 .. Cells |-> x[n]]) % CellValues
<1>1. [n \in 1 .. Cells |-> x[n]] = [n \in 1 .. Cells |-> y[n]]
  OBVIOUS
<1>2. write_checksum(x) = [x EXCEPT ![CHECKSUM_FIELD] = v] /\ write_checksum(y) = [y EXCEPT ![CHECKSUM_FIELD] = v]
  BY <1>1 DEF write_checksum
<1>3. \A n \in 1 .. CHECKSUM_FIELD : n # CHECKSUM_FIELD => n \in 1 .. Cells
  BY FreezeSizes DEF CHECKSUM_FIELD
<1>4. DOMAIN x = 1 .. CHECKSUM_FIELD /\ DOMAIN y = 1 .. CHECKSUM_FIELD
  BY DEF Cartridges
<1> HIDE DEF v
<1>5. [x EXCEPT ![CHECKSUM_FIELD] = v] = [y EXCEPT ![CHECKSUM_FIELD] = v]
  BY <1>3, <1>4
<1> QED
  BY <1>2, <1>5

\* Two cartridges with right checksums that agree before it are the same.
LEMMA SameCartridge ==
  ASSUME NEW x \in Cartridges, NEW y \in Cartridges, \A n \in 1 .. Cells : x[n] = y[n],
         write_checksum(x) = x, write_checksum(y) = y
  PROVE  x = y
  BY SameChecksum

\* The same edits of both cartridges are found as the same runs.
LEMMA SameRuns ==
  ASSUME NEW j, IsFreeze(j), Edits(j, "jp") = Edits(j, "usa")
  PROVE  differing_runs(j.retail["jp"], j.assembled["jp"]) = differing_runs(j.retail["usa"], j.assembled["usa"])
<1> DEFINE ds(r, n) == Differs(j.retail[r], j.assembled[r], n)
<1>1. \A r \in Regions : j.retail[r] \in Cartridges /\ j.assembled[r] \in Cartridges
  BY DEF IsFreeze, Cartridges
<1>2. ASSUME NEW r \in Regions, NEW p \in Regions, Edits(j, r) = Edits(j, p), NEW n, ds(r, n)
      PROVE  ds(p, n) /\ j.assembled[p][n] = j.assembled[r][n]
  <2>1. n \in 1 .. Cells /\ j.assembled[r][n] # j.retail[r][n]
    BY <1>2 DEF Differs
  <2>2. <<n, j.assembled[r][n]>> \in Edits(j, r)
    BY <2>1 DEF Edits
  <2>3. PICK k \in {i \in 1 .. Cells : j.assembled[p][i] # j.retail[p][i]} :
          <<n, j.assembled[r][n]>> = <<k, j.assembled[p][k]>>
    BY <1>2, <2>2 DEF Edits
  <2> QED
    BY <2>3 DEF Differs
<1>3. ASSUME NEW r \in Regions, NEW p \in Regions, Edits(j, r) = Edits(j, p),
             NEW run \in differing_runs(j.retail[r], j.assembled[r])
      PROVE  run \in differing_runs(j.retail[p], j.assembled[p])
  <2>1. PICK a \in 1 .. Cells, b \in 1 .. Cells :
          Stretch(j.retail[r], j.assembled[r], a, b) /\ run = RunOf(j.assembled[r], a, b)
    BY <1>1, RunsAre
  <2>2. \A n : ds(r, n) <=> ds(p, n)
    BY <1>2, <1>3
  <2>3. Stretch(j.retail[p], j.assembled[p], a, b)
    BY <2>1, <2>2 DEF Stretch
  <2>4. a <= b /\ \A k \in a .. b : j.assembled[p][k] = j.assembled[r][k]
    BY <1>2, <1>3, <2>1 DEF Stretch
  <2>5. RunOf(j.assembled[p], a, b) = RunOf(j.assembled[r], a, b)
    <3>1. \A k \in 1 .. b - a + 1 : a + k - 1 \in a .. b
      OBVIOUS
    <3> DEFINE d == RunOf(j.assembled[p], a, b).data
               e == RunOf(j.assembled[r], a, b).data
    <3>2. /\ d \in [1 .. b - a + 1 -> Int] /\ e \in [1 .. b - a + 1 -> Int]
          /\ \A k \in 1 .. b - a + 1 : d[k] = j.assembled[p][a + k - 1] /\ e[k] = j.assembled[r][a + k - 1]
      <4>1. j.assembled[p] \in Cartridges /\ j.assembled[r] \in Cartridges
        BY <1>1
      <4>2. /\ d \in [1 .. b - a + 1 -> Int]
            /\ \A k \in 1 .. b - a + 1 : d[k] = j.assembled[p][a + k - 1]
        BY <2>4, <4>1, RunHolds, Zenon
      <4>3. /\ e \in [1 .. b - a + 1 -> Int]
            /\ \A k \in 1 .. b - a + 1 : e[k] = j.assembled[r][a + k - 1]
        BY <2>4, <4>1, RunHolds, Zenon
      <4> QED
        BY <4>2, <4>3
    <3>3. RunOf(j.assembled[p], a, b) = [at |-> a, data |-> d] /\ RunOf(j.assembled[r], a, b) = [at |-> a, data |-> e]
      BY DEF RunOf
    <3> HIDE DEF d, e
    <3>4. \A k \in 1 .. b - a + 1 : d[k] = e[k]
      BY <2>4, <3>1, <3>2
    <3>5. d = e
      BY <3>2, <3>4
    <3> QED
      BY <3>3, <3>5
  <2> QED
    BY <1>1, <2>1, <2>3, <2>5, RunsAre
<1>4. "jp" \in Regions /\ "usa" \in Regions
  BY DEF Regions
<1> DEFINE runs(r) == differing_runs(j.retail[r], j.assembled[r])
<1>5. \A run : run \in runs("jp") => run \in runs("usa")
  BY <1>3, <1>4, Zenon
<1>6. \A run : run \in runs("usa") => run \in runs("jp")
  BY <1>3, <1>4, Zenon
<1> HIDE DEF runs
<1>7. runs("jp") = runs("usa")
  BY <1>5, <1>6
<1> QED
  BY <1>7, Zenon DEF runs

\* A table that has just the runs of a cartridge, applied to it, gives what
\* the assembler made of it, patched before or not.
LEMMA TableReproduces ==
  ASSUME NEW old \in Cartridges, NEW after \in Cartridges, NEW t, t.hook = {},
         t.patch = differing_runs(old, after),
         write_checksum(old) = old, write_checksum(after) = after
  PROVE  applied(t, old) = after
<1>1. hook_runs(t, old) = {} /\ runs_for(t, old) = t.patch
  BY DEF hook_runs, runs_for
<1>2. CASE is_patched(t, old)
  <2>1. \A n \in 1 .. Cells : old[n] = after[n]
    <3> SUFFICES ASSUME NEW n \in 1 .. Cells, old[n] # after[n] PROVE FALSE
      OBVIOUS
    <3>1. Differs(old, after, n)
      BY DEF Differs
    <3>2. PICK a \in 1 .. Cells, b \in 1 .. Cells : Stretch(old, after, a, b) /\ n \in a .. b
      BY <3>1, InStretch
    <3>3. RunOf(after, a, b) \in t.patch /\ a <= b
      BY <3>2, RunsAre DEF Stretch
    <3>4. Reads(old, RunOf(after, a, b))
      BY <1>1, <1>2, <3>3 DEF is_patched
    <3>5. 1 \in 1 .. b - a + 1 /\ a + 1 - 1 = a /\ a \in a .. b
      BY <3>3
    <3>6. RunOf(after, a, b).at = a /\ 1 \in DOMAIN RunOf(after, a, b).data /\ RunOf(after, a, b).data[1] = after[a]
      BY <3>3, <3>5, RunHolds
    <3>7. old[a] = after[a]
      BY <3>4, <3>5, <3>6 DEF Reads
    <3>8. Differs(old, after, a)
      BY <3>2, <3>5 DEF Stretch
    <3> QED
      BY <3>7, <3>8 DEF Differs
  <2>2. old = after
    BY <2>1, SameCartridge
  <2> QED
    BY <1>2, <2>2 DEF applied
<1>3. CASE ~is_patched(t, old)
  <2> DEFINE x == Overwritten(old, t.patch)
  <2>1. x \in Cartridges /\ \A n \in 1 .. Cells : x[n] = after[n]
    BY RunsReproduce
  <2>2. Overwritten(x, {}) = x
    <3>1. Overwritten(x, {}) = [n \in DOMAIN x |-> x[n]]
      BY DEF Overwritten
    <3> HIDE DEF x
    <3> QED
      BY <2>1, <3>1 DEF Cartridges
  <2>3. applied(t, old) = write_checksum(x)
    BY <1>1, <1>3, <2>2 DEF applied
  <2> HIDE DEF x
  <2>4. write_checksum(x) = write_checksum(after)
    BY <2>1, SameChecksum
  <2> QED
    BY <2>3, <2>4
<1> QED
  BY <1>2, <1>3

\* The parts of freeze_spcfast.main: the runs of a region, those of both, what
\* is left of each, the bodies of these, and the table that is then tried.
Found(j, r) == differing_runs(j.retail[r], j.assembled[r])
Shared(j) == Found(j, "jp") \cap Found(j, "usa")
Extra(j, r) == Found(j, r) \ Shared(j)
Counted(j) == {Cardinality(Extra(j, r)) : r \in Regions}
Bodies(j) == {run.data : run \in Extra(j, "jp") \cup Extra(j, "usa")}
Sites(j) == {run.at : run \in Extra(j, "jp") \cup Extra(j, "usa")}
Refuses(j) == Cardinality(Counted(j)) # 1 \/ Max(Counted(j)) > 1 \/ Cardinality(Bodies(j)) > 1
Unfrozen(j) == IF j.check THEN j.source ELSE rewrite(j.source, Shared(j), Bodies(j), Sites(j))
Reproduced(j, t) == \A r \in Regions : applied(t, j.retail[r]) = j.assembled[r]

\* What main makes of them.
LEMMA FreezeIs ==
  ASSUME NEW j
  PROVE  freeze(j) =
           IF Refuses(j) THEN [exit |-> 1, source |-> j.source]
           ELSE IF \E r \in Regions : Raises(Unfrozen(j), j.retail[r]) THEN [exit |-> DIES, source |-> Unfrozen(j)]
           ELSE [exit |-> IF Reproduced(j, Unfrozen(j)) THEN 0 ELSE 1, source |-> Unfrozen(j)]
<1>1. \A r \in Regions :
        Found(j, r) = [p \in Regions |-> differing_runs(j.retail[p], j.assembled[p])][r]
  BY DEF Found
<1>2. "jp" \in Regions /\ "usa" \in Regions
  BY DEF Regions
<1> QED
  BY <1>2 DEF freeze, Found, Shared, Extra, Counted, Bodies, Sites, Refuses, Unfrozen, Reproduced

\* freeze_spcfast.main is faithful, for every pair of cartridges and table.
LEMMA FreezeIsFaithful ==
  ASSUME NEW j, IsFreeze(j)
  PROVE  FreezeFaithful(j)
<1> DEFINE end == freeze(j)
           t == Unfrozen(j)
<1>1. \A r \in Regions : j.retail[r] \in Cartridges /\ j.assembled[r] \in Cartridges
  BY DEF IsFreeze, Cartridges
<1>2. end.exit = 0 => /\ ~Refuses(j) /\ end.source = t
                      /\ \A r \in Regions : ~Raises(t, j.retail[r])
                      /\ Reproduced(j, t)
  BY FreezeIs DEF DIES
<1>3. ASSUME end.exit = 0 PROVE freeze([j EXCEPT !.source = end.source, !.check = TRUE]).exit = 0
  <2> DEFINE again == [j EXCEPT !.source = end.source, !.check = TRUE]
  <2>1. again.retail = j.retail /\ again.assembled = j.assembled /\ again.check = TRUE /\ again.source = end.source
    <3> HIDE DEF end
    <3> QED
      BY DEF IsFreeze
  <2> HIDE DEF again, end
  <2>2. \A r : Found(again, r) = Found(j, r)
    BY <2>1 DEF Found
  <2>3. Shared(again) = Shared(j) /\ \A r : Extra(again, r) = Extra(j, r)
    BY <2>2 DEF Shared, Extra
  <2>4. Counted(again) = Counted(j) /\ Bodies(again) = Bodies(j)
    BY <2>3 DEF Counted, Bodies
  <2>5. ~Refuses(again) /\ Unfrozen(again) = t
    BY <1>2, <1>3, <2>1, <2>4 DEF Refuses, Unfrozen
  <2>6. Reproduced(again, t)
    BY <1>2, <1>3, <2>1 DEF Reproduced
  <2>7. freeze(again) = [exit |-> 0, source |-> t]
    BY <1>2, <1>3, <2>1, <2>5, <2>6, FreezeIs
  <2> QED
    BY <2>7 DEF again
<1>4. j.check => end.source = j.source
  <2>1. end.source \in {j.source, t}
    BY FreezeIs
  <2> QED
    BY <2>1 DEF Unfrozen
<1>5. ASSUME ~j.check, Edits(j, "jp") = Edits(j, "usa"),
             \A r \in Regions :
               /\ is_stock(j.retail[r])
               /\ \A rom \in {j.retail[r], j.assembled[r]} : write_checksum(rom) = rom
      PROVE  end.exit = 0
  <2>1. Found(j, "jp") = Found(j, "usa")
    BY <1>5, SameRuns DEF Found
  <2>2. Regions = {"jp", "usa"}
    BY DEF Regions
  <2>3. Shared(j) = Found(j, "jp") /\ \A r \in Regions : Found(j, r) = Shared(j) /\ Extra(j, r) = {}
    BY <2>1, <2>2 DEF Shared, Extra
  <2>4. Counted(j) = {0} /\ Bodies(j) = {}
    <3>1. Cardinality({}) = 0
      BY FS_EmptySet
    <3> QED
      BY <2>2, <2>3, <3>1 DEF Counted, Bodies
  <2>5. ~Refuses(j)
    <3>1. Max({0}) = 0
      <4>1. {0} \in SUBSET Int /\ 0 \in {0} /\ \A y \in {0} : y <= 0
        OBVIOUS
      <4> QED
        BY <4>1, MaxIs
    <3>2. Cardinality({0}) = 1 /\ Cardinality({}) = 0
      BY FS_EmptySet, FS_Singleton
    <3> QED
      BY <2>4, <3>1, <3>2 DEF Refuses
  <2>6. t.hook = {} /\ t.patch = Shared(j)
    <3> DEFINE p == add_plumbing(j.source)
    <3>1. DOMAIN p = {"patch", "hook", "sites", "plumbed"}
      BY DEF add_plumbing, IsFreeze
    <3>2. t = [p EXCEPT !.patch = Shared(j), !.hook = Bodies(j), !.sites = IF Bodies(j) = {} THEN @ ELSE Sites(j)]
      BY <1>5 DEF Unfrozen, rewrite
    <3> HIDE DEF p, t
    <3> QED
      BY <2>4, <3>1, <3>2
  <2>7. \A r \in Regions : ~Raises(t, j.retail[r])
    BY <1>5, <2>6 DEF Raises
  <2>8. Reproduced(j, t)
    <3> SUFFICES ASSUME NEW r \in Regions PROVE applied(t, j.retail[r]) = j.assembled[r]
      BY DEF Reproduced
    <3>1. t.patch = differing_runs(j.retail[r], j.assembled[r])
      BY <2>3, <2>6 DEF Found
    <3>2. write_checksum(j.retail[r]) = j.retail[r] /\ write_checksum(j.assembled[r]) = j.assembled[r]
      BY <1>5
    <3> HIDE DEF t
    <3> QED
      BY <1>1, <2>6, <3>1, <3>2, TableReproduces
  <2> QED
    BY <2>5, <2>7, <2>8, FreezeIs
<1>6. end.exit = 0 =>
        \A r \in Regions : ~Raises(end.source, j.retail[r]) /\ applied(end.source, j.retail[r]) = j.assembled[r]
  <2> HIDE DEF end, t
  <2> QED
    BY <1>2 DEF Reproduced
<1> QED
  BY <1>3, <1>4, <1>5, <1>6, Zenon DEF FreezeFaithful

-----------------------------------------------------------------------------
(* sdd1ref.py and verify_streams.py: the verdict *)

Case(romSize) == [offset : 0 .. romSize - 1, length : 0 .. MAX_LENGTH]
\* A reference that can fill a whole block from any offset.
Filled(outs, romSize) ==
  \A o \in 0 .. romSize - 1 : outs[o] \in Seq(Nat) /\ Len(outs[o]) >= MAX_LENGTH
\* What the reference makes of a case.
Wanted(c, outs) == SubSeq(outs[c.offset], 1, Asked(c.length))

\* It is as long as the case asks, and never empty.
LEMMA WantedIs ==
  ASSUME NEW romSize \in Nat, NEW outs, Filled(outs, romSize), NEW c \in Case(romSize)
  PROVE  /\ Wanted(c, outs) \in Seq(Nat) /\ Len(Wanted(c, outs)) = Asked(c.length)
         /\ Asked(c.length) \in Nat \ {0} /\ Asked(c.length % MAX_LENGTH) = Asked(c.length)
<1>1. c.offset \in 0 .. romSize - 1 /\ c.length \in 0 .. MAX_LENGTH /\ MAX_LENGTH \in Nat \ {0}
  BY ReferenceSizes DEF Case
<1>2. Asked(c.length) \in Nat \ {0} /\ Asked(c.length) <= MAX_LENGTH
  BY <1>1 DEF Asked
<1>3. Asked(c.length % MAX_LENGTH) = Asked(c.length)
  <2>1. CASE c.length \in 0 .. MAX_LENGTH - 1
    <3>1. c.length % MAX_LENGTH = c.length
      BY <1>1, <2>1, ModSmall, Zenon
    <3> QED
      BY <3>1
  <2>2. CASE c.length = MAX_LENGTH
    <3>1. MAX_LENGTH % MAX_LENGTH = 0
      BY <1>1
    <3> QED
      BY <1>1, <2>2, <3>1 DEF Asked
  <2> QED
    BY <1>1, <2>1, <2>2
<1> DEFINE s == outs[c.offset]
           n == Asked(c.length)
<1>4. s \in Seq(Nat) /\ n \in Nat \ {0} /\ n <= Len(s)
  <2>1. s \in Seq(Nat) /\ Len(s) >= MAX_LENGTH
    BY <1>1 DEF Filled
  <2>2. Len(s) \in Nat
    BY <2>1
  <2> HIDE DEF s
  <2> QED
    BY <1>1, <1>2, <2>1, <2>2
<1>5. SubSeq(s, 1, n) \in Seq(Nat) /\ Len(SubSeq(s, 1, n)) = n
  <2> HIDE DEF s, n
  <2> QED
    BY <1>4
<1> QED
  BY <1>2, <1>3, <1>5, Zenon DEF Wanted

\* A request for cases of the cartridge is not refused, and is answered by
\* what each case wants, one after the other.
LEMMA AnswerIs ==
  ASSUME NEW romSize \in Nat, NEW size \in Nat, romSize <= size, NEW outs, Filled(outs, romSize),
         NEW cases \in Seq(Case(romSize))
  PROVE  /\ ~encode_request(size, cases).refused
         /\ Answer(encode_request(size, cases), outs) = FlattenSeq([k \in DOMAIN cases |-> Wanted(cases[k], outs)])
<1>1. \A k \in DOMAIN cases : cases[k] \in Case(romSize)
  OBVIOUS
<1>2. ASSUME NEW k \in DOMAIN cases PROVE CaseOk(size, cases[k])
  <2>1. cases[k].offset \in 0 .. romSize - 1 /\ cases[k].length \in 0 .. MAX_LENGTH
    BY <1>1 DEF Case
  <2> QED
    BY <2>1 DEF CaseOk
<1>3. ~encode_request(size, cases).refused
  <2>1. encode_request(size, cases).refused = \E k \in DOMAIN cases : ~CaseOk(size, cases[k])
    BY DEF encode_request
  <2> QED
    BY <1>2, <2>1, Zenon
<1> DEFINE asked == encode_request(size, cases).cases
<1>4. asked = [k \in DOMAIN cases |-> [offset |-> cases[k].offset, length |-> cases[k].length % MAX_LENGTH]]
  BY DEF encode_request
<1> HIDE DEF asked
<1>5. DOMAIN asked = DOMAIN cases
  BY <1>4
<1>6. ASSUME NEW k \in DOMAIN cases
      PROVE  SubSeq(outs[asked[k].offset], 1, Asked(asked[k].length)) = Wanted(cases[k], outs)
  <2>1. asked[k].offset = cases[k].offset /\ asked[k].length = cases[k].length % MAX_LENGTH
    BY <1>4
  <2>2. Asked(asked[k].length) = Asked(cases[k].length)
    BY <1>1, <2>1, WantedIs
  <2> QED
    BY <2>1, <2>2, Zenon DEF Wanted
<1>7. [k \in DOMAIN asked |-> SubSeq(outs[asked[k].offset], 1, Asked(asked[k].length))]
        = [k \in DOMAIN cases |-> Wanted(cases[k], outs)]
  BY <1>5, <1>6
<1>8. Answer(encode_request(size, cases), outs)
        = FlattenSeq([k \in DOMAIN asked |-> SubSeq(outs[asked[k].offset], 1, Asked(asked[k].length))])
  BY DEF Answer, asked
<1> QED
  BY <1>3, <1>7, <1>8, Zenon

\* A container that exits with an error, or stops before the end of what it
\* was asked for, is refused; any other gives each case what it wants.
CutShort(cases, run) == run.exit # 0 \/ (run.lost # 0 /\ cases # <<>>)

\* That is what reference_outputs makes of a run.
LEMMA OutputsAre ==
  ASSUME NEW romSize \in Nat, NEW size \in Nat, romSize <= size, NEW outs, Filled(outs, romSize),
         NEW cases \in Seq(Case(romSize)), NEW run, run.exit \in Nat, run.lost \in Nat
  PROVE  /\ reference_outputs(size, cases, outs, run).raised <=> CutShort(cases, run)
         /\ ~CutShort(cases, run) => reference_outputs(size, cases, outs, run).parts = [k \in DOMAIN cases |-> Wanted(cases[k], outs)]
<1> DEFINE A == [k \in DOMAIN cases |-> Wanted(cases[k], outs)]
           n == Len(cases)
           answer == Answer(encode_request(size, cases), outs)
           blob == Received(answer, run)
           decoded == decode_response(blob, cases)
<1>1. n \in Nat /\ DOMAIN cases = 1 .. n /\ \A k \in 1 .. n : cases[k] \in Case(romSize)
  OBVIOUS
<1>2. ASSUME NEW k \in 1 .. n
      PROVE  A[k] = Wanted(cases[k], outs) /\ A[k] \in Seq(Nat) /\ Len(A[k]) = Asked(cases[k].length) /\ Len(A[k]) \in Nat \ {0}
  <2>1. A[k] = Wanted(cases[k], outs)
    BY <1>1
  <2>2. Wanted(cases[k], outs) \in Seq(Nat) /\ Len(Wanted(cases[k], outs)) = Asked(cases[k].length)
        /\ Asked(cases[k].length) \in Nat \ {0}
    BY <1>1, WantedIs
  <2> HIDE DEF A
  <2> QED
    BY <2>1, <2>2
<1>3. A \in Seq(Seq(Nat)) /\ Len(A) = n
  <2>1. A = [k \in 1 .. n |-> A[k]]
    BY <1>1
  <2> HIDE DEF A
  <2>2. \A k \in 1 .. n : A[k] \in Seq(Nat)
    BY <1>2
  <2> HIDE DEF n
  <2>3. n \in Nat
    BY <1>1
  <2>4. A \in [1 .. n -> Seq(Nat)]
    BY <2>1, <2>2
  <2> QED
    BY <2>3, <2>4
<1>4. answer = FlattenSeq(A) /\ ~encode_request(size, cases).refused
  BY AnswerIs
<1>5. /\ reference_outputs(size, cases, outs, run).raised
           <=> encode_request(size, cases).refused \/ run.exit # 0 \/ decoded.refused
      /\ reference_outputs(size, cases, outs, run).parts = decoded.parts
  BY Zenon DEF reference_outputs, Outputs
<1> HIDE DEF A
<1>6. PICK g : Flattens(g, A, Nat) /\ FlattenSeq(A) = g[Len(A)]
  BY <1>3, FlattenIs
<1>7. answer \in Seq(Nat) /\ answer = g[n] /\ Len(answer) \in Nat
  <2>1. g[n] \in Seq(Nat)
    BY <1>1, <1>3, <1>6 DEF Flattens
  <2> QED
    BY <1>3, <1>4, <1>6, <2>1
<1>8. answer = <<>> <=> cases = <<>>
  <2>1. answer = <<>> <=> \A k \in 1 .. n : A[k] = <<>>
    BY <1>3, <1>4, FlatEmpty
  <2>2. \A k \in 1 .. n : A[k] # <<>>
    BY <1>2
  <2>3. cases = <<>> <=> n = 0
    OBVIOUS
  <2> HIDE DEF n
  <2>4. n = 0 <=> 1 .. n = {}
    BY <1>1
  <2> HIDE DEF answer
  <2> QED
    BY <2>1, <2>2, <2>3, <2>4
<1> HIDE DEF answer
<1>9. CASE run.lost = 0
  <2>1. blob = g[Len(A)]
    <3>1. SubSeq(answer, 1, Len(answer) - run.lost) = answer
      BY <1>7, <1>9
    <3> QED
      BY <1>3, <1>7, <3>1 DEF Received
  <2>2. ~decoded.refused /\ decoded.parts = A
    <3> HIDE DEF blob
    <3>1. /\ ~decode_response(g[Len(A)], cases).refused
          /\ decode_response(g[Len(A)], cases).parts = A
      BY <1>2, <1>3, <1>6, DecodeWhole
    <3> QED
      BY <2>1, <3>1, Zenon
  <2> HIDE DEF decoded
  <2> QED
    BY <1>4, <1>5, <1>9, <2>2, Zenon DEF CutShort, A
<1>10. CASE run.lost # 0
  <2>1. blob \in Seq(Nat) /\ Len(blob) = IF 1 <= Len(answer) - run.lost THEN Len(answer) - run.lost ELSE 0
    <3>1. \A i \in 1 .. Len(answer) - run.lost : answer[i] \in Nat
      BY <1>7
    <3>2. 1 \in Int /\ Len(answer) - run.lost \in Int
      BY <1>7
    <3> DEFINE d == SubSeq(answer, 1, Len(answer) - run.lost)
    <3>3. d \in Seq(Nat) /\ Len(d) = IF 1 <= Len(answer) - run.lost THEN Len(answer) - run.lost - 1 + 1 ELSE 0
      BY <3>1, <3>2, SubSeqProperties
    <3>4. blob = d
      BY DEF Received
    <3> HIDE DEF d, blob
    <3> QED
      BY <1>7, <3>3, <3>4
  <2> HIDE DEF blob
  <2>2. CutWhere(decoded, blob, cases, g)
    BY <1>2, <1>3, <1>6, <2>1, DecodeIs
  <2>3. decoded.refused <=> Len(blob) < Len(answer)
    BY <1>7, <2>2, Zenon DEF CutWhere
  <2>4. Len(blob) < Len(answer) <=> answer # <<>>
    BY <1>7, <1>10, <2>1
  <2>5. decoded.refused <=> cases # <<>>
    BY <1>8, <2>3, <2>4, Zenon
  <2>6. cases = <<>> => decoded.parts = A
    <3> SUFFICES ASSUME cases = <<>> PROVE decoded.parts = A
      OBVIOUS
    <3>1. DOMAIN cases = {} /\ DOMAIN A = {}
      BY DEF A
    <3>2. decoded.parts = [k \in DOMAIN cases |-> SubSeq(blob, Len(g[k - 1]) + 1, Min({Len(g[k]), Len(blob)}))]
      BY <2>2, Zenon DEF CutWhere
    <3> QED
      BY <1>1, <3>1, <3>2 DEF A
  <2> HIDE DEF decoded
  <2> QED
    BY <1>4, <1>5, <1>10, <2>5, <2>6, Zenon DEF CutShort, A
<1> QED
  BY <1>9, <1>10

\* What compare says of one case.
Missed(c, mine, outs) == Mismatch(c, Got(mine, c), Wanted(c, outs), Short(mine, c))
Miss(c, mine, outs) ==
  [at |-> c, why |-> IF Short(mine, c) THEN -1 ELSE FirstDiffering(Got(mine, c), Wanted(c, outs))]
Misses(romSize, mine, outs) == {Miss(c, mine, outs) : c \in Case(romSize)}
AllMissed(cases, mine, outs) == [k \in DOMAIN cases |-> Missed(cases[k], mine, outs)]

\* Nothing when the two agree, and one line naming the case when not.
LEMMA MissedIs ==
  ASSUME NEW c, NEW mine, NEW outs
  PROVE  Missed(c, mine, outs) = IF Same(c, mine, outs) THEN <<>> ELSE <<Miss(c, mine, outs)>>
<1>1. Same(c, mine, outs) <=> ~Short(mine, c) /\ Got(mine, c) = Wanted(c, outs)
  BY Zenon DEF Same, Wanted
<1>2. CASE Short(mine, c)
  BY <1>1, <1>2 DEF Missed, Mismatch, Miss
<1>3. CASE ~Short(mine, c) /\ Got(mine, c) = Wanted(c, outs)
  <2>1. Same(c, mine, outs)
    BY <1>1, <1>3
  <2> QED
    BY <1>3, <2>1, Zenon DEF Missed, Mismatch
<1>4. CASE ~Short(mine, c) /\ Got(mine, c) # Wanted(c, outs)
  <2>1. ~Same(c, mine, outs)
    BY <1>1, <1>4
  <2> QED
    BY <1>4, <2>1, Zenon DEF Missed, Mismatch, Miss
<1> QED
  BY <1>2, <1>3, <1>4, Zenon

\* So of a list of cases they are lists of misses, and all are empty exactly
\* when no case differs.
LEMMA AllMissedIs ==
  ASSUME NEW romSize \in Nat, NEW cases \in Seq(Case(romSize)), NEW mine, NEW outs
  PROVE  /\ AllMissed(cases, mine, outs) \in Seq(Seq(Misses(romSize, mine, outs)))
         /\ Len(AllMissed(cases, mine, outs)) = Len(cases)
         /\ \A k \in 1 .. Len(cases) : AllMissed(cases, mine, outs)[k] = Missed(cases[k], mine, outs)
         /\ FlattenSeq(AllMissed(cases, mine, outs)) = <<>> <=> \A k \in DOMAIN cases : Same(cases[k], mine, outs)
<1> DEFINE A == AllMissed(cases, mine, outs)
           M == Misses(romSize, mine, outs)
           n == Len(cases)
<1>1. n \in Nat /\ DOMAIN cases = 1 .. n /\ \A k \in 1 .. n : cases[k] \in Case(romSize)
  OBVIOUS
<1>2. A = [k \in 1 .. n |-> Missed(cases[k], mine, outs)]
  BY <1>1, Zenon DEF AllMissed
<1>3. ASSUME NEW k \in 1 .. n PROVE Missed(cases[k], mine, outs) \in Seq(M)
  <2> DEFINE m == Miss(cases[k], mine, outs)
  <2>1. m \in M
    BY <1>1 DEF Misses
  <2>2. Missed(cases[k], mine, outs) = <<>> \/ Missed(cases[k], mine, outs) = <<m>>
    BY MissedIs, Zenon
  <2> HIDE DEF m, M
  <2>3. <<>> \in Seq(M) /\ <<m>> \in Seq(M)
    BY <2>1
  <2> QED
    BY <2>2, <2>3, Zenon
<1> HIDE DEF A, M
<1>4. A \in Seq(Seq(M)) /\ Len(A) = n /\ \A k \in 1 .. n : A[k] = Missed(cases[k], mine, outs)
  <2> HIDE DEF n
  <2>1. \A k \in 1 .. n : A[k] = Missed(cases[k], mine, outs)
    BY <1>2
  <2>2. A \in [1 .. n -> Seq(M)]
    BY <1>2, <1>3
  <2>3. A \in Seq(Seq(M)) /\ Len(A) = n
    BY <1>1, <2>2
  <2> QED
    BY <2>1, <2>3
<1>5. FlattenSeq(A) = <<>> <=> \A k \in 1 .. n : A[k] = <<>>
  <2>1. FlattenSeq(A) = <<>> <=> \A k \in 1 .. Len(A) : A[k] = <<>>
    BY <1>4, FlatEmpty
  <2> QED
    BY <1>4, <2>1, Zenon
<1>6. ASSUME NEW k \in 1 .. n PROVE A[k] = <<>> <=> Same(cases[k], mine, outs)
  <2>1. A[k] = IF Same(cases[k], mine, outs) THEN <<>> ELSE <<Miss(cases[k], mine, outs)>>
    BY <1>4, MissedIs, Zenon
  <2>2. <<Miss(cases[k], mine, outs)>> # <<>>
    OBVIOUS
  <2> QED
    BY <2>1, <2>2, Zenon
<1> QED
  BY <1>1, <1>4, <1>5, <1>6, Zenon DEF A, M

\* What compare finds: nothing of a run cut short, and otherwise what it says
\* of each case.
LEMMA CompareIs ==
  ASSUME NEW romSize \in Nat, NEW size \in Nat, romSize <= size, NEW outs, Filled(outs, romSize),
         NEW cases \in Seq(Case(romSize)), NEW run, run.exit \in Nat, run.lost \in Nat, NEW mine
  PROVE  /\ compare_cases(size, cases, mine, outs, run).raised <=> CutShort(cases, run)
         /\ compare_cases(size, cases, mine, outs, run).mismatches =
              IF CutShort(cases, run) THEN <<>> ELSE FlattenSeq(AllMissed(cases, mine, outs))
<1> DEFINE expected == reference_outputs(size, cases, outs, run)
<1>1. /\ expected.raised <=> CutShort(cases, run)
      /\ ~CutShort(cases, run) => expected.parts = [k \in DOMAIN cases |-> Wanted(cases[k], outs)]
  BY OutputsAre
<1>2. /\ compare_cases(size, cases, mine, outs, run).raised = expected.raised
      /\ compare_cases(size, cases, mine, outs, run).mismatches =
           IF expected.raised THEN <<>>
           ELSE FlattenSeq([k \in DOMAIN cases |->
                  Mismatch(cases[k], Got(mine, cases[k]), expected.parts[k], Short(mine, cases[k]))])
  BY Zenon DEF compare_cases, Mismatches
<1> HIDE DEF expected
<1>3. ASSUME ~CutShort(cases, run)
      PROVE  [k \in DOMAIN cases |-> Mismatch(cases[k], Got(mine, cases[k]), expected.parts[k], Short(mine, cases[k]))]
               = AllMissed(cases, mine, outs)
  <2>1. ASSUME NEW k \in DOMAIN cases
        PROVE  Mismatch(cases[k], Got(mine, cases[k]), expected.parts[k], Short(mine, cases[k])) = Missed(cases[k], mine, outs)
    <3>1. expected.parts[k] = Wanted(cases[k], outs)
      BY <1>1, <1>3
    <3> QED
      BY <3>1, Zenon DEF Missed
  <2> QED
    BY <2>1 DEF AllMissed
<1> QED
  BY <1>1, <1>2, <1>3, Zenon

\* Where verify_streams.py cuts its list: at every BATCH cases and at the end.
BatchEnd(cases, b) == IF b * BATCH <= Len(cases) THEN b * BATCH ELSE Len(cases)
Batches(cases) == (Len(cases) + BATCH - 1) \div BATCH

\* The cuts start at nothing and end with the list, each batch holds at least
\* one case, and its cases are those between two cuts.
LEMMA BatchesAre ==
  ASSUME NEW C, NEW cases \in Seq(C)
  PROVE  /\ Batches(cases) \in Nat /\ DOMAIN batches(cases) = 1 .. Batches(cases)
         /\ BatchEnd(cases, 0) = 0 /\ BatchEnd(cases, Batches(cases)) = Len(cases)
         /\ \A b \in 0 .. Batches(cases) : BatchEnd(cases, b) \in 0 .. Len(cases)
         /\ \A b \in 0 .. Batches(cases) - 1 :
              LET cut == batches(cases)[b + 1]
              IN  /\ cut \in Seq(C) /\ Len(cut) >= 1
                  /\ BatchEnd(cases, b + 1) = BatchEnd(cases, b) + Len(cut)
                  /\ \A i \in 1 .. Len(cut) : cut[i] = cases[BatchEnd(cases, b) + i]
<1> DEFINE n == Len(cases)
           nb == Batches(cases)
           End(b) == BatchEnd(cases, b)
<1>1. n \in Nat /\ BATCH \in Nat \ {0}
  BY ReferenceSizes
<1>2. nb \in Nat /\ nb * BATCH >= n /\ (nb - 1) * BATCH < n
  <2> DEFINE x == n + BATCH - 1
             r == x % BATCH
             q == x \div BATCH
  <2>1. x \in Nat
    BY <1>1
  <2> HIDE DEF x
  <2>2. x = BATCH * q + r /\ q \in Nat /\ r \in 0 .. BATCH - 1
    BY <1>1, <2>1, DivMod, DivNat, ModRange
  <2> HIDE DEF q, r
  <2>3. BATCH * q \in Nat /\ BATCH * q = q * BATCH /\ (q - 1) * BATCH = BATCH * q - BATCH
    BY <1>1, <2>2
  <2>4. q * BATCH >= n /\ (q - 1) * BATCH < n
    BY <1>1, <2>2, <2>3 DEF x
  <2>5. nb = q
    BY Zenon DEF Batches, q, x
  <2> HIDE DEF nb
  <2> QED
    BY <2>2, <2>4, <2>5
<1> HIDE DEF nb
<1>3. ASSUME NEW b \in 0 .. nb
      PROVE  b * BATCH \in Nat /\ (b < nb => b * BATCH < n) /\ (b + 1) * BATCH = b * BATCH + BATCH
  <2>1. b * BATCH \in Nat /\ (b + 1) * BATCH = b * BATCH + BATCH
    BY <1>1, <1>2
  <2>2. ASSUME b < nb PROVE b * BATCH < n
    <3>1. b <= nb - 1
      BY <1>2, <2>2
    <3>2. b * BATCH <= (nb - 1) * BATCH
      <4>1. (nb - 1) - b \in Nat
        BY <1>2, <3>1
      <4>2. ((nb - 1) - b) * BATCH \in Nat
        BY <4>1, <1>1
      <4>3. ((nb - 1) - b) * BATCH = (nb - 1) * BATCH - b * BATCH
        BY <1>1, <1>2
      <4> QED
        BY <4>2, <4>3, <1>1, <1>2
    <3>3. (nb - 1) * BATCH \in Int
      BY <1>1, <1>2
    <3> QED
      BY <1>1, <1>2, <2>1, <3>2, <3>3
  <2> QED
    BY <2>1, <2>2
<1>4. DOMAIN batches(cases) = 1 .. nb
  BY Zenon DEF batches, nb, Batches
<1>5. End(0) = 0
  <2>1. 0 * BATCH = 0
    BY <1>1
  <2> QED
    BY <1>1, <2>1 DEF BatchEnd
<1>6. End(nb) = n
  <2>1. nb * BATCH \in Nat
    BY <1>1, <1>2
  <2>2. CASE nb * BATCH <= n
    BY <1>1, <1>2, <2>1, <2>2 DEF BatchEnd
  <2>3. CASE ~(nb * BATCH <= n)
    BY <2>3 DEF BatchEnd
  <2> QED
    BY <2>2, <2>3
<1>7. ASSUME NEW b \in 0 .. nb PROVE End(b) \in 0 .. n
  BY <1>1, <1>3 DEF BatchEnd
<1>8. ASSUME NEW b \in 0 .. nb - 1
      PROVE  LET cut == batches(cases)[b + 1]
             IN  /\ cut \in Seq(C) /\ Len(cut) >= 1
                 /\ End(b + 1) = End(b) + Len(cut)
                 /\ \A i \in 1 .. Len(cut) : cut[i] = cases[End(b) + i]
  <2> DEFINE cut == batches(cases)[b + 1]
             first == b * BATCH
             last == (b + 1) * BATCH
             T == {last, n}
             end == IF last <= n THEN last ELSE n
  <2>1. b \in 0 .. nb /\ b < nb /\ b + 1 \in 1 .. nb /\ (b + 1) - 1 = b
    BY <1>2
  <2>2. first \in Nat /\ first < n /\ last = first + BATCH
    BY <1>3, <2>1
  <2>3. cut = SubSeq(cases, first + 1, Min(T))
    <3>1. batches(cases)[b + 1] = SubSeq(cases, ((b + 1) - 1) * BATCH + 1, Min({(b + 1) * BATCH, Len(cases)}))
      BY <2>1, <1>4 DEF batches, nb, Batches
    <3> QED
      BY <3>1, <2>1, Zenon
  <2>4. End(b) = first
    BY <2>2, <1>1 DEF BatchEnd
  <2>5. End(b + 1) = end
    BY Zenon DEF BatchEnd
  <2> HIDE DEF cut, first, last, n
  <2>6. end \in Nat /\ first + 1 <= end /\ end <= n
    BY <1>1, <2>2
  <2>7. Min(T) = end
    <3>1. T \in SUBSET Nat /\ end \in T /\ \A y \in T : end <= y
      BY <1>1, <2>2
    <3> HIDE DEF T, end
    <3> QED
      BY <3>1, MinIs
  <2> HIDE DEF T, end
  <2>8. \A i \in first + 1 .. end : cases[i] \in C
    BY <2>2, <2>6 DEF n
  <2> DEFINE d == SubSeq(cases, first + 1, end)
  <2>9. /\ d \in Seq(C) /\ Len(d) = IF first + 1 <= end THEN end - (first + 1) + 1 ELSE 0
        /\ \A i \in 1 .. end - (first + 1) + 1 : d[i] = cases[(first + 1) + i - 1]
    <3>1. first + 1 \in Int /\ end \in Int
      BY <2>2, <2>6
    <3> QED
      BY <2>8, <3>1, SubSeqProperties
  <2>10. cut = d
    BY <2>3, <2>7, Zenon
  <2> HIDE DEF d
  <2>11. Len(d) = end - first /\ Len(d) >= 1
    BY <2>2, <2>6, <2>9
  <2>12. ASSUME NEW i \in 1 .. Len(d) PROVE d[i] = cases[first + i]
    <3>1. i \in 1 .. end - (first + 1) + 1 /\ (first + 1) + i - 1 = first + i
      BY <2>2, <2>6, <2>11
    <3> QED
      BY <2>9, <3>1
  <2>13. end = first + Len(d)
    BY <2>2, <2>6, <2>11
  <2>14. /\ cut \in Seq(C) /\ Len(cut) >= 1
         /\ End(b + 1) = End(b) + Len(cut)
         /\ \A i \in 1 .. Len(cut) : cut[i] = cases[End(b) + i]
    <3> HIDE DEF End
    <3> QED
      BY <2>4, <2>5, <2>9, <2>10, <2>11, <2>12, <2>13, Zenon
  <2> QED
    BY <2>14, Zenon DEF cut
<1> QED
  BY <1>2, <1>4, <1>5, <1>6, <1>7, <1>8, Zenon DEF nb

\* What verify_streams.py makes of a table: the batches are compared one by
\* one and found together what one comparison of the whole table would.
LEMMA VerifyIs ==
  ASSUME NEW romSize \in Nat, NEW outs, Filled(outs, romSize),
         NEW cases \in Seq(Case(romSize)), NEW run, run.exit \in Nat, run.lost \in Nat, NEW mine
  PROVE  /\ verify(romSize, cases, mine, outs, run).raised <=> cases # <<>> /\ (run.exit # 0 \/ run.lost # 0)
         /\ ~verify(romSize, cases, mine, outs, run).raised =>
              verify(romSize, cases, mine, outs, run).mismatches = FlattenSeq(AllMissed(cases, mine, outs))
<1> DEFINE C == Case(romSize)
           M == Misses(romSize, mine, outs)
           n == Len(cases)
           nb == Batches(cases)
           cut == batches(cases)
           found == [b \in DOMAIN cut |-> compare_cases(romSize, cut[b], mine, outs, run)]
           v == verify(romSize, cases, mine, outs, run)
           W == AllMissed(cases, mine, outs)
           F == [b \in DOMAIN found |-> found[b].mismatches]
           P == [b \in 1 .. nb |-> AllMissed(cut[b], mine, outs)]
           ends == [b \in 0 .. nb |-> BatchEnd(cases, b)]
<1>1. /\ nb \in Nat /\ DOMAIN cut = 1 .. nb
      /\ BatchEnd(cases, 0) = 0 /\ BatchEnd(cases, nb) = n
      /\ \A b \in 0 .. nb : BatchEnd(cases, b) \in 0 .. n
      /\ \A b \in 0 .. nb - 1 :
           /\ cut[b + 1] \in Seq(C) /\ Len(cut[b + 1]) >= 1
           /\ BatchEnd(cases, b + 1) = BatchEnd(cases, b) + Len(cut[b + 1])
           /\ \A i \in 1 .. Len(cut[b + 1]) : cut[b + 1][i] = cases[BatchEnd(cases, b) + i]
  BY BatchesAre, Zenon
<1>2. v.raised = (\E b \in DOMAIN found : found[b].raised) /\ v.mismatches = FlattenSeq(F)
  BY Zenon DEF verify, Batched, Joined
<1>3. n \in Nat /\ (cases = <<>> <=> n = 0)
  OBVIOUS
<1>4. DOMAIN found = 1 .. nb
  BY <1>1
<1> HIDE DEF cut, nb, n, v, C
<1>5. ASSUME NEW b \in 1 .. nb PROVE cut[b] \in Seq(C) /\ Len(cut[b]) >= 1 /\ cut[b] # <<>>
  <2> DEFINE o == b - 1
  <2>1. o \in 0 .. nb - 1 /\ o + 1 = b
    BY <1>1
  <2> HIDE DEF o
  <2>2. cut[o + 1] \in Seq(C) /\ Len(cut[o + 1]) >= 1
    BY <1>1, <2>1
  <2> QED
    BY <2>1, <2>2
<1>6. ASSUME NEW b \in 1 .. nb
      PROVE  /\ found[b].raised <=> CutShort(cut[b], run)
             /\ found[b].mismatches = IF CutShort(cut[b], run) THEN <<>> ELSE FlattenSeq(AllMissed(cut[b], mine, outs))
  <2>1. found[b] = compare_cases(romSize, cut[b], mine, outs, run)
    BY <1>1
  <2> HIDE DEF found
  <2>2. cut[b] \in Seq(Case(romSize))
    BY <1>5 DEF C
  <2>3. romSize <= romSize
    OBVIOUS
  <2>4. /\ compare_cases(romSize, cut[b], mine, outs, run).raised <=> CutShort(cut[b], run)
        /\ compare_cases(romSize, cut[b], mine, outs, run).mismatches =
             IF CutShort(cut[b], run) THEN <<>> ELSE FlattenSeq(AllMissed(cut[b], mine, outs))
    BY <2>2, <2>3, CompareIs
  <2> QED
    BY <2>1, <2>4, Zenon
<1>7. ASSUME NEW b \in 1 .. nb PROVE CutShort(cut[b], run) <=> run.exit # 0 \/ run.lost # 0
  BY <1>5, Zenon DEF CutShort
<1>8. nb = 0 <=> n = 0
  <2>1. CASE nb = 0
    BY <1>1, <2>1
  <2>2. CASE nb # 0
    <3>1. 0 \in 0 .. nb - 1 /\ 0 + 1 = 1 /\ 1 \in 0 .. nb /\ 1 \in 1 .. nb
      BY <1>1, <2>2
    <3>2. BatchEnd(cases, 1) = BatchEnd(cases, 0) + Len(cut[1])
      <4>1. BatchEnd(cases, 0 + 1) = BatchEnd(cases, 0) + Len(cut[0 + 1])
        BY <1>1, <3>1, Zenon
      <4> QED
        BY <3>1, <4>1, Zenon
    <3>3. BatchEnd(cases, 1) \in 0 .. n /\ Len(cut[1]) >= 1 /\ BatchEnd(cases, 0) = 0
      BY <1>1, <1>5, <3>1
    <3>4. Len(cut[1]) \in Nat
      BY <1>5, <3>1
    <3> QED
      BY <2>2, <3>2, <3>3, <3>4, <1>3 DEF n
  <2> QED
    BY <2>1, <2>2
<1>9. v.raised <=> cases # <<>> /\ (run.exit # 0 \/ run.lost # 0)
  <2>1. v.raised <=> \E b \in 1 .. nb : found[b].raised
    BY <1>2, <1>4, Zenon
  <2> HIDE DEF found
  <2>2. v.raised <=> \E b \in 1 .. nb : run.exit # 0 \/ run.lost # 0
    BY <2>1, <1>6, <1>7, Zenon
  <2>3. (\E b \in 1 .. nb : TRUE) <=> nb # 0
    <3>1. nb \in Nat
      BY <1>1
    <3>2. nb # 0 => 1 \in 1 .. nb
      BY <3>1
    <3>3. nb = 0 => 1 .. nb = {}
      BY <3>1
    <3> QED
      BY <3>2, <3>3, Zenon
  <2> QED
    BY <2>2, <2>3, <1>3, <1>8, Zenon
<1>10. ASSUME ~v.raised PROVE v.mismatches = FlattenSeq(W)
  <2>1. W \in Seq(Seq(M)) /\ Len(W) = n /\ \A k \in 1 .. n : W[k] = Missed(cases[k], mine, outs)
    <3>1. cases \in Seq(Case(romSize))
      OBVIOUS
    <3> HIDE DEF W, M
    <3>2. /\ AllMissed(cases, mine, outs) \in Seq(Seq(Misses(romSize, mine, outs)))
          /\ Len(AllMissed(cases, mine, outs)) = Len(cases)
          /\ \A k \in 1 .. Len(cases) : AllMissed(cases, mine, outs)[k] = Missed(cases[k], mine, outs)
      BY <3>1, AllMissedIs
    <3> QED
      BY <3>2, Zenon DEF n, W, M
  <2>2. F = [b \in 1 .. nb |-> FlattenSeq(P[b])]
    <3>1. ASSUME NEW b \in 1 .. nb PROVE found[b].mismatches = FlattenSeq(P[b])
      <4>1. ~found[b].raised
        BY <1>2, <1>4, <1>10, Zenon
      <4>2. ~CutShort(cut[b], run)
        BY <1>6, <4>1, Zenon
      <4>3. P[b] = AllMissed(cut[b], mine, outs)
        OBVIOUS
      <4> HIDE DEF found, P
      <4> QED
        BY <1>6, <4>2, <4>3, Zenon
    <3> HIDE DEF found, P
    <3> QED
      BY <1>4, <3>1
  <2>3. ASSUME NEW b \in 1 .. nb
        PROVE  /\ P[b] \in Seq(Seq(M)) /\ Len(P[b]) = Len(cut[b])
               /\ \A i \in 1 .. Len(cut[b]) : P[b][i] = Missed(cut[b][i], mine, outs)
    <3>1. P[b] = AllMissed(cut[b], mine, outs)
      OBVIOUS
    <3>2. cut[b] \in Seq(Case(romSize))
      BY <1>5 DEF C
    <3>3. /\ AllMissed(cut[b], mine, outs) \in Seq(Seq(Misses(romSize, mine, outs)))
          /\ Len(AllMissed(cut[b], mine, outs)) = Len(cut[b])
          /\ \A i \in 1 .. Len(cut[b]) : AllMissed(cut[b], mine, outs)[i] = Missed(cut[b][i], mine, outs)
      BY <3>2, AllMissedIs
    <3> HIDE DEF P, M
    <3> QED
      BY <3>1, <3>3, Zenon DEF M
  <2> HIDE DEF P, F, W, M
  <2>4. ASSUME NEW b \in 1 .. nb PROVE FlattenSeq(P[b]) \in Seq(M)
    <3>1. PICK g : Flattens(g, P[b], M) /\ FlattenSeq(P[b]) = g[Len(P[b])]
      BY <2>3, FlattenIs
    <3>2. g \in [0 .. Len(P[b]) -> Seq(M)] /\ Len(P[b]) \in Nat
      BY <2>3, <3>1 DEF Flattens
    <3>3. g[Len(P[b])] \in Seq(M)
      BY <3>2
    <3> QED
      BY <3>1, <3>3, Zenon
  <2>5. P \in [1 .. nb -> Seq(Seq(M))]
    <3>1. P = [b \in 1 .. nb |-> P[b]]
      BY DEF P
    <3> QED
      BY <2>3, <3>1
  <2>6. F \in [1 .. nb -> Seq(M)] /\ \A b \in 1 .. nb : F[b] = FlattenSeq(P[b])
    BY <2>2, <2>4
  <2>7. ends \in [0 .. nb -> 0 .. Len(W)] /\ ends[0] = 0 /\ ends[nb] = Len(W)
        /\ \A b \in 0 .. nb : ends[b] = BatchEnd(cases, b)
    BY <1>1, <2>1
  <2> HIDE DEF ends
  <2>8. ASSUME NEW b \in 0 .. nb - 1
        PROVE  /\ F[b + 1] = FlattenSeq(P[b + 1]) /\ ends[b + 1] = ends[b] + Len(P[b + 1])
               /\ \A i \in 1 .. Len(P[b + 1]) : P[b + 1][i] = W[ends[b] + i]
    <3>1. b + 1 \in 1 .. nb /\ b + 1 \in 0 .. nb /\ b \in 0 .. nb
      BY <1>1
    <3>2. ends[b] = BatchEnd(cases, b) /\ ends[b + 1] = BatchEnd(cases, b + 1)
      BY <2>7, <3>1
    <3>3. /\ BatchEnd(cases, b + 1) = BatchEnd(cases, b) + Len(cut[b + 1])
          /\ \A i \in 1 .. Len(cut[b + 1]) : cut[b + 1][i] = cases[BatchEnd(cases, b) + i]
      BY <1>1
    <3>4. F[b + 1] = FlattenSeq(P[b + 1]) /\ Len(P[b + 1]) = Len(cut[b + 1])
      BY <2>3, <2>6, <3>1
    <3>5. ASSUME NEW i \in 1 .. Len(P[b + 1]) PROVE P[b + 1][i] = W[ends[b] + i]
      <4>1. i \in 1 .. Len(cut[b + 1])
        BY <3>4
      <4>2. P[b + 1][i] = Missed(cases[BatchEnd(cases, b) + i], mine, outs)
        BY <2>3, <3>1, <3>3, <4>1
      <4>3. BatchEnd(cases, b) \in 0 .. n /\ BatchEnd(cases, b + 1) \in 0 .. n
        BY <1>1, <3>1
      <4>4. Len(cut[b + 1]) \in Nat
        BY <1>5, <3>1
      <4>5. BatchEnd(cases, b) + i \in 1 .. n
        <5> DEFINE from == BatchEnd(cases, b)
                   to == BatchEnd(cases, b + 1)
                   size == Len(cut[b + 1])
        <5>1. from \in 0 .. n /\ to \in 0 .. n /\ size \in Nat /\ to = from + size /\ i \in 1 .. size /\ n \in Nat
          BY <1>1, <3>3, <4>1, <4>3, <4>4
        <5> HIDE DEF from, to, size, n
        <5>2. from + i \in 1 .. n
          BY <5>1
        <5> QED
          BY <5>2 DEF from
      <4> QED
        BY <2>1, <3>2, <4>2, <4>5
    <3> QED
      BY <3>2, <3>3, <3>4, <3>5
  <2>10. Pieces(F, P, ends, nb, W, M)
    BY <1>1, <2>1, <2>5, <2>6, <2>7, <2>8, Zenon DEF Pieces
  <2>9. FlattenSeq(F) = FlattenSeq(W)
    BY <2>10, PiecesFlat
  <2> QED
    BY <1>2, <2>9, Zenon
<1> QED
  BY <1>9, <1>10, Zenon DEF v, W

\* The inputs: what IsCompared says of a job, in the terms used here.
LEMMA ComparedIs ==
  ASSUME NEW j, IsCompared(j)
  PROVE  LET romSize == Cardinality(DOMAIN j.mine)
         IN  /\ romSize \in Nat /\ Filled(j.outs, romSize) /\ j.cases \in Seq(Case(romSize))
             /\ j.run.exit \in Nat /\ j.run.lost \in Nat
<1> DEFINE romSize == Cardinality(DOMAIN j.mine)
<1>1. /\ romSize \in Nat /\ j.run.exit \in Nat /\ j.run.lost \in Nat
      /\ j.cases \in Seq([offset : 0 .. romSize - 1, length : 0 .. MAX_LENGTH])
      /\ j.outs \in [0 .. romSize - 1 -> Seq(Nat)]
      /\ \A o \in 0 .. romSize - 1 : Len(j.outs[o]) >= MAX_LENGTH
  BY Zenon DEF IsCompared
<1>2. Filled(j.outs, romSize)
  <2> HIDE DEF romSize
  <2> QED
    BY <1>1 DEF Filled
<1> QED
  BY <1>1, <1>2, Zenon DEF Case

\* The verdict is exact: batches, framing, truncation and the two lengths of a
\* whole block included.
LEMMA VerdictIsExact ==
  ASSUME NEW j, IsCompared(j)
  PROVE  VerdictExact(j.cases, j.mine, j.outs, j.run)
<1> DEFINE romSize == Cardinality(DOMAIN j.mine)
           cases == j.cases
           mine == j.mine
           outs == j.outs
           run == j.run
           C == Case(romSize)
           M == Misses(romSize, mine, outs)
           W == AllMissed(cases, mine, outs)
           v == verify(romSize, cases, mine, outs, run)
           complete == run.exit = 0 /\ run.lost = 0
           same == \A k \in DOMAIN cases : Same(cases[k], mine, outs)
<1>1. romSize \in Nat /\ Filled(outs, romSize) /\ cases \in Seq(C) /\ run.exit \in Nat /\ run.lost \in Nat
  BY ComparedIs, Zenon
<1> HIDE DEF romSize, cases, mine, outs, run
<1>2. /\ v.raised <=> cases # <<>> /\ (run.exit # 0 \/ run.lost # 0)
      /\ ~v.raised => v.mismatches = FlattenSeq(W)
  BY <1>1, VerifyIs
<1>3. /\ W \in Seq(Seq(M)) /\ Len(W) = Len(cases)
      /\ \A k \in 1 .. Len(cases) : W[k] = Missed(cases[k], mine, outs)
  BY <1>1, AllMissedIs
<1>4. FlattenSeq(W) = <<>> <=> same
  BY <1>1, AllMissedIs
<1>5. FlattenSeq(W) \in Seq(M)
  <2> HIDE DEF W, M
  <2>1. PICK g : Flattens(g, W, M) /\ FlattenSeq(W) = g[Len(W)]
    BY <1>3, FlattenIs
  <2>2. g \in [0 .. Len(W) -> Seq(M)] /\ Len(W) \in Nat
    BY <1>3, <2>1 DEF Flattens
  <2>3. g[Len(W)] \in Seq(M)
    BY <2>2
  <2> QED
    BY <2>1, <2>3, Zenon
<1> HIDE DEF v, W, M
<1>6. (VerifyExit(TRUE, romSize, <<cases>>, mine, outs, run) = 0) <=> ~v.raised /\ v.mismatches = <<>>
  <2> DEFINE found == [r \in DOMAIN <<cases>> |-> verify(romSize, <<cases>>[r], mine, outs, run)]
             lists == [b \in DOMAIN found |-> found[b].mismatches]
             joined == Joined(found)
  <2>1. VerifyExit(TRUE, romSize, <<cases>>, mine, outs, run) = Verdict(joined)
    BY Zenon DEF VerifyExit
  <2>2. DOMAIN <<cases>> = {1} /\ <<cases>>[1] = cases
    OBVIOUS
  <2>3. DOMAIN found = {1} /\ found[1] = v
    BY <2>2 DEF v
  <2> HIDE DEF found
  <2>4. lists = [b \in {1} |-> v.mismatches]
    BY <2>3
  <2>5. joined.raised = (\E b \in DOMAIN found : found[b].raised) /\ joined.mismatches = FlattenSeq(lists)
    BY Zenon DEF Joined
  <2>6. joined.raised <=> v.raised
    BY <2>3, <2>5, Zenon
  <2> HIDE DEF lists, joined
  <2>7. v.mismatches \in Seq(M) => (joined.mismatches = <<>> <=> v.mismatches = <<>>)
    <3> SUFFICES ASSUME v.mismatches \in Seq(M) PROVE joined.mismatches = <<>> <=> v.mismatches = <<>>
      OBVIOUS
    <3>1. lists \in Seq(Seq(M)) /\ Len(lists) = 1 /\ lists[1] = v.mismatches
      <4>1. {1} = 1 .. 1
        OBVIOUS
      <4>2. lists \in [1 .. 1 -> Seq(M)]
        BY <2>4, <4>1
      <4>6. \A n \in Nat : [1 .. n -> Seq(M)] \subseteq Seq(Seq(M))
        OBVIOUS
      <4>7. lists \in Seq(Seq(M))
        BY <4>2, <4>6
      <4>3. lists \in Seq(Seq(M)) /\ DOMAIN lists = 1 .. 1
        BY <4>2, <4>7
      <4>4. Len(lists) = 1
        BY <4>3
      <4>5. lists[1] = v.mismatches
        BY <2>4
      <4> QED
        BY <4>3, <4>4, <4>5
    <3>2. FlattenSeq(lists) = <<>> <=> \A k \in 1 .. Len(lists) : lists[k] = <<>>
      BY <3>1, FlatEmpty
    <3>3. \A k : k \in 1 .. Len(lists) <=> k = 1
      BY <3>1
    <3> QED
      BY <2>5, <3>1, <3>2, <3>3, Zenon
  <2>8. Verdict(joined) = 0 <=> ~joined.raised /\ joined.mismatches = <<>>
    BY DEF Verdict
  <2>9. CASE v.raised
    BY <2>1, <2>6, <2>8, <2>9, Zenon
  <2>10. CASE ~v.raised
    BY <1>2, <1>5, <2>1, <2>6, <2>7, <2>8, <2>10, Zenon
  <2> QED
    BY <2>9, <2>10
<1>7. (VerifyExit(TRUE, romSize, <<cases>>, mine, outs, run) = 0) <=> (cases = <<>> \/ (complete /\ same))
  <2>1. cases = <<>> => same
    BY <1>1
  <2> HIDE DEF same
  <2> QED
    BY <1>2, <1>4, <1>6, <2>1, Zenon
<1>8. RefExit(2, TRUE, romSize + MAX_LENGTH, cases, mine, outs, run) = 0 => same
  <2> DEFINE size == romSize + MAX_LENGTH
             found == compare_cases(size, cases, mine, outs, run)
  <2>1. size \in Nat /\ romSize <= size
    BY <1>1, ReferenceSizes
  <2> HIDE DEF size
  <2>2. /\ found.raised <=> CutShort(cases, run)
        /\ found.mismatches = IF CutShort(cases, run) THEN <<>> ELSE FlattenSeq(W)
    BY <1>1, <2>1, CompareIs DEF W
  <2>3. sample_cases(size, cases).cases = cases
    BY DEF sample_cases
  <2> HIDE DEF found
  <2>4. RefExit(2, TRUE, size, cases, mine, outs, run) = IF sample_cases(size, cases).refused THEN 70 ELSE Verdict(found)
    BY <2>3 DEF RefExit, found
  <2>5. RefExit(2, TRUE, size, cases, mine, outs, run) = 0 => ~found.raised /\ found.mismatches = <<>>
    <3>1. 70 # 0 /\ 1 # 0
      OBVIOUS
    <3> QED
      BY <2>4, <3>1, Zenon DEF Verdict
  <2> QED
    BY <1>4, <2>2, <2>5, Zenon DEF size
<1>9. complete => NamesAll(v, Differing(cases, mine, outs))
  <2> SUFFICES ASSUME complete PROVE NamesAll(v, Differing(cases, mine, outs))
    OBVIOUS
  <2>1. ~v.raised /\ v.mismatches = FlattenSeq(W)
    BY <1>2, Zenon
  <2> DEFINE t == [k \in DOMAIN cases |-> IF Same(cases[k], mine, outs) THEN <<>> ELSE <<cases[k]>>]
             n == Len(cases)
  <2>2. n \in Nat /\ DOMAIN cases = 1 .. n /\ \A k \in 1 .. n : cases[k] \in C
    BY <1>1
  <2> HIDE DEF n, C
  <2>3. t \in Seq(Seq(C)) /\ Len(t) = n
    <3>1. ASSUME NEW k \in 1 .. n PROVE (IF Same(cases[k], mine, outs) THEN <<>> ELSE <<cases[k]>>) \in Seq(C)
      BY <2>2
    <3>2. t = [k \in 1 .. n |-> IF Same(cases[k], mine, outs) THEN <<>> ELSE <<cases[k]>>]
      BY <2>2, Zenon
    <3> HIDE DEF t
    <3>3. t \in [1 .. n -> Seq(C)]
      BY <3>1, <3>2
    <3> QED
      BY <2>2, <3>3
  <2>4. ASSUME NEW k \in 1 .. n PROVE t[k] = Ats(W[k])
    <3>1. t[k] = IF Same(cases[k], mine, outs) THEN <<>> ELSE <<cases[k]>>
      BY <2>2, Zenon
    <3>2. W[k] = IF Same(cases[k], mine, outs) THEN <<>> ELSE <<Miss(cases[k], mine, outs)>>
      BY <1>3, MissedIs, Zenon DEF n
    <3>3. Ats(<<>>) = <<>>
      BY DEF Ats
    <3>4. Ats(<<Miss(cases[k], mine, outs)>>) = <<cases[k]>>
      <4> DEFINE m == Miss(cases[k], mine, outs)
      <4>1. m.at = cases[k]
        BY DEF Miss
      <4> HIDE DEF m
      <4>2. Ats(<<m>>) = <<m.at>>
        BY DEF Ats
      <4> QED
        BY <4>1, <4>2 DEF m
    <3> HIDE DEF t
    <3> QED
      BY <3>1, <3>2, <3>3, <3>4, Zenon
  <2>5. \A m \in M : m.at \in C
    <3> SUFFICES ASSUME NEW c \in C PROVE Miss(c, mine, outs).at \in C
      BY DEF M, Misses, C
    <3> QED
      BY DEF Miss
  <2> HIDE DEF t
  <2>6. Ats(FlattenSeq(W)) = FlattenSeq(t)
    BY <1>3, <2>3, <2>4, <2>5, AtsFlat DEF n
  <2> QED
    BY <2>1, <2>6, Zenon DEF NamesAll, Ats, Differing, t
<1> QED
  BY <1>7, <1>8, <1>9, Zenon DEF VerdictExact, v, romSize, cases, mine, outs, run

-----------------------------------------------------------------------------
(* The numbers of a set in their order *)

\* How many numbers of a set are no greater than this one.
Rank(K, x) == Cardinality({m \in K : m <= x})

\* A greater number of the set has more numbers up to it.
LEMMA RankGrows ==
  ASSUME NEW K \in SUBSET Int, IsFiniteSet(K), NEW x \in K, NEW y \in K, x < y
  PROVE  Rank(K, x) < Rank(K, y)
<1> DEFINE A == {m \in K : m <= x}
           B == {m \in K : m <= y}
<1>1. IsFiniteSet(B)
  BY FS_Subset
<1>2. A \in SUBSET B /\ y \in B /\ y \notin A
  <2>1. \A m \in K : m <= x => m <= y
    OBVIOUS
  <2>2. ~(y <= x) /\ y <= y
    OBVIOUS
  <2> QED
    BY <2>1, <2>2
<1> HIDE DEF A, B
<1>3. IsFiniteSet(A) /\ Cardinality(A) <= Cardinality(B) /\ (Cardinality(B) = Cardinality(A) => B = A)
  BY <1>1, <1>2, FS_Subset
<1>4. Cardinality(A) \in Nat /\ Cardinality(B) \in Nat
  BY <1>1, <1>3, FS_CardinalityType
<1>5. Cardinality(A) < Cardinality(B)
  BY <1>2, <1>3, <1>4
<1> QED
  BY <1>5 DEF Rank, A, B

\* Ranks are the numbers from one to as many as there are.
LEMMA RankIn ==
  ASSUME NEW K \in SUBSET Int, IsFiniteSet(K), NEW x \in K
  PROVE  Cardinality(K) \in Nat /\ Rank(K, x) \in 1 .. Cardinality(K)
<1> DEFINE A == {m \in K : m <= x}
<1>1. A \in SUBSET K /\ x \in A
  OBVIOUS
<1> HIDE DEF A
<1>2. IsFiniteSet(A) /\ Cardinality(A) <= Cardinality(K)
  BY <1>1, FS_Subset
<1>3. Cardinality(A) \in Nat /\ Cardinality(K) \in Nat /\ Cardinality(A) # 0
  BY <1>1, <1>2, FS_CardinalityType, FS_EmptySet
<1> QED
  BY <1>2, <1>3 DEF Rank, A

\* No two numbers have one rank.
LEMMA RankOne ==
  ASSUME NEW K \in SUBSET Int, IsFiniteSet(K), NEW x \in K, NEW y \in K, Rank(K, x) = Rank(K, y)
  PROVE  x = y
<1> SUFFICES ASSUME x # y PROVE FALSE
  OBVIOUS
<1>1. x < y \/ y < x
  OBVIOUS
<1>2. Rank(K, x) < Rank(K, y) \/ Rank(K, y) < Rank(K, x)
  BY <1>1, RankGrows
<1>3. Rank(K, x) \in Int /\ Rank(K, y) \in Int
  BY RankIn
<1> QED
  BY <1>2, <1>3

\* Each of them is the rank of a number.
LEMMA RankOnto ==
  ASSUME NEW K \in SUBSET Int, IsFiniteSet(K), NEW k \in 1 .. Cardinality(K)
  PROVE  \E x \in K : Rank(K, x) = k
<1> DEFINE n == Cardinality(K)
           r == [x \in K |-> Rank(K, x)]
<1>1. n \in Nat
  BY FS_CardinalityType
<1>2. \A x \in K : Rank(K, x) \in 1 .. n
  BY RankIn
<1>3. \A x, y \in K : Rank(K, x) = Rank(K, y) => x = y
  BY RankOne
<1>4. r \in Injection(K, 1 .. n)
  BY <1>2, <1>3 DEF Injection, IsInjective
<1>5. IsFiniteSet(1 .. n) /\ Cardinality(1 .. n) = n
  BY <1>1, FS_Interval
<1>6. r \in Surjection(K, 1 .. n)
  <2> HIDE DEF r
  <2> QED
    BY <1>4, <1>5, FS_Injection
<1> QED
  BY <1>6 DEF Surjection

\* InOrder lists the set, each number once, the smaller before the greater.
LEMMA OrderIs ==
  ASSUME NEW K \in SUBSET Int, IsFiniteSet(K)
  PROVE  /\ Cardinality(K) \in Nat
         /\ InOrder(K) \in [1 .. Cardinality(K) -> K]
         /\ \A i, j \in 1 .. Cardinality(K) : i < j => InOrder(K)[i] < InOrder(K)[j]
         /\ \A x \in K : \E i \in 1 .. Cardinality(K) : InOrder(K)[i] = x
<1> DEFINE n == Cardinality(K)
           q == InOrder(K)
<1>1. n \in Nat
  BY FS_CardinalityType
<1>2. ASSUME NEW i \in 1 .. n PROVE Nth(K, i) \in K /\ Rank(K, Nth(K, i)) = i
  BY RankOnto DEF Nth, Rank
<1>3. q \in [1 .. n -> K] /\ \A i \in 1 .. n : Rank(K, q[i]) = i
  BY <1>2 DEF InOrder
<1> HIDE DEF q
<1>4. ASSUME NEW i \in 1 .. n, NEW j \in 1 .. n, i < j PROVE q[i] < q[j]
  <2>1. q[i] \in K /\ q[j] \in K /\ q[i] \in Int /\ q[j] \in Int
    BY <1>3
  <2>2. SUFFICES ASSUME q[j] < q[i] PROVE FALSE
    BY <1>3, <1>4, <2>1
  <2>3. Rank(K, q[j]) < Rank(K, q[i])
    BY <2>1, <2>2, RankGrows
  <2> QED
    BY <1>3, <1>4, <2>3
<1>5. ASSUME NEW x \in K PROVE \E i \in 1 .. n : q[i] = x
  <2>1. PICK i \in 1 .. n : i = Rank(K, x)
    BY RankIn
  <2>2. q[i] \in K /\ Rank(K, q[i]) = Rank(K, x)
    BY <1>3, <2>1
  <2>3. q[i] = x
    <3>1. PICK y \in K : y = q[i]
      BY <2>2
    <3>2. x \in K /\ Rank(K, y) = Rank(K, x)
      BY <1>5, <2>2, <3>1
    <3> QED
      BY <3>1, <3>2, RankOne
  <2> QED
    BY <2>3
<1> QED
  BY <1>1, <1>3, <1>4, <1>5 DEF q

\* As many numbers of a set are among its first b as there are, up to b.
LEMMA FirstRanks ==
  ASSUME NEW K \in SUBSET Int, IsFiniteSet(K), NEW b \in Nat
  PROVE  /\ IsFiniteSet({x \in K : Rank(K, x) <= b})
         /\ Cardinality({x \in K : Rank(K, x) <= b}) = IF b <= Cardinality(K) THEN b ELSE Cardinality(K)
<1> DEFINE n == Cardinality(K)
           c == IF b <= n THEN b ELSE n
           T == {x \in K : Rank(K, x) <= b}
           r == [x \in T |-> Rank(K, x)]
<1>1. n \in Nat /\ c \in Nat /\ c <= n
  BY FS_CardinalityType
<1>2. \A x \in K : Rank(K, x) \in 1 .. n
  BY RankIn
<1>3. \A x \in T : Rank(K, x) \in 1 .. c
  BY <1>1, <1>2
<1>4. \A x, y \in T : Rank(K, x) = Rank(K, y) => x = y
  <2> SUFFICES ASSUME NEW x \in T, NEW y \in T, Rank(K, x) = Rank(K, y) PROVE x = y
    OBVIOUS
  <2>1. x \in K /\ y \in K
    OBVIOUS
  <2> QED
    BY <2>1, RankOne
<1>5. r \in Injection(T, 1 .. c)
  BY <1>3, <1>4 DEF Injection, IsInjective
<1>6. ASSUME NEW k \in 1 .. c PROVE \E x \in T : r[x] = k
  <2>1. k \in 1 .. Cardinality(K) /\ k <= b
    BY <1>1
  <2>2. PICK x \in K : Rank(K, x) = k
    BY <2>1, RankOnto
  <2> QED
    BY <2>1, <2>2
<1>7. r \in Surjection(T, 1 .. c)
  BY <1>3, <1>6 DEF Surjection
<1>8. IsFiniteSet(1 .. c) /\ Cardinality(1 .. c) = c
  <2> HIDE DEF c
  <2> QED
    BY <1>1, FS_Interval
<1>9. IsFiniteSet(T) /\ Cardinality(T) = c
  <2> HIDE DEF r, T, c
  <2> QED
    BY <1>5, <1>7, <1>8, FS_Injection
<1> QED
  BY <1>9

-----------------------------------------------------------------------------
(* analyse.py: chunks that are new *)

\* A chunk that lies in the original is one of its chunks still when more is
\* added behind.
LEMMA ChunkOld ==
  ASSUME NEW original \in Seq(Nat), NEW added \in Seq(Nat), NEW i \in Nat, i + 2 <= Len(original)
  PROVE  Slice(original \o added, i, 2) = Slice(original, i, 2)
<1> DEFINE c == original \o added
<1>1. c \in Seq(Nat) /\ Len(c) = Len(original) + Len(added) /\ \A k \in 1 .. Len(original) : c[k] = original[k]
  OBVIOUS
<1>2. Len(original) \in Nat /\ Len(added) \in Nat
  OBVIOUS
<1> HIDE DEF c
<1>3. Min({i + 2, Len(original)}) = i + 2
  <2>1. {i + 2, Len(original)} \in SUBSET Nat /\ i + 2 \in {i + 2, Len(original)}
        /\ \A y \in {i + 2, Len(original)} : i + 2 <= y
    BY <1>2
  <2> QED
    BY <2>1, MinIs
<1>4. Min({i + 2, Len(c)}) = i + 2
  <2>1. {i + 2, Len(c)} \in SUBSET Nat /\ i + 2 \in {i + 2, Len(c)}
        /\ \A y \in {i + 2, Len(c)} : i + 2 <= y
    BY <1>1, <1>2
  <2> QED
    BY <2>1, MinIs
<1>5. SubSeq(c, i + 1, i + 2) = SubSeq(original, i + 1, i + 2)
  <2>1. \A k \in 1 .. 2 : c[i + k] = original[i + k]
    <3> SUFFICES ASSUME NEW k \in 1 .. 2 PROVE c[i + k] = original[i + k]
      OBVIOUS
    <3>1. i + k \in 1 .. Len(original)
      BY <1>2
    <3> QED
      BY <1>1, <3>1
  <2>2. SubSeq(c, i + 1, i + 2) = [k \in 1 .. 2 |-> c[i + k]]
    BY <1>1, <1>2
  <2>3. SubSeq(original, i + 1, i + 2) = [k \in 1 .. 2 |-> original[i + k]]
    BY <1>1, <1>2
  <2> QED
    BY <2>1, <2>2, <2>3
<1> QED
  BY <1>3, <1>4, <1>5 DEF Slice, c

\* NoveltyBounded, for chunks of two bytes looked for at every place.
LEMMA NoveltyIsBounded ==
  ASSUME NEW original \in Seq(Nat), NEW added \in Seq(Nat)
  PROVE  NoveltyBounded(original, added, 2, 1)
<1> DEFINE c == original \o added
           h == Len(original) \div 2
           starts == {i \in 0 .. Len(c) - 2 : i % 2 = 0}
           G == {2 * t : t \in 0 .. h - 1}
           N == {i \in starts : Slice(c, i, 2) \notin chunk_index(original, 2, 1)}
<1>1. Len(c) = Len(original) + Len(added) /\ Len(original) \in Nat /\ Len(added) \in Nat
  OBVIOUS
<1>2. h \in Nat /\ 2 * h <= Len(original)
  BY <1>1
<1> HIDE DEF c, h
<1>3. \A t \in 0 .. h - 1 : 2 * t \in Nat /\ 2 * t + 2 <= Len(original) /\ (2 * t) % 2 = 0
  BY <1>1, <1>2
<1>4. G \in SUBSET starts
  BY <1>1, <1>3
<1>5. ASSUME NEW i \in G PROVE Slice(c, i, 2) \in chunk_index(original, 2, 1)
  <2>1. i \in Nat /\ i + 2 <= Len(original)
    BY <1>3, <1>5
  <2>2. Slice(c, i, 2) = Slice(original, i, 2)
    BY <2>1, ChunkOld DEF c
  <2>3. i \in 0 .. Len(original) - 2 /\ i % 1 = 0
    BY <1>1, <2>1
  <2> QED
    BY <2>2, <2>3 DEF chunk_index
<1>6. IsFiniteSet(starts)
  <2>1. IsFiniteSet(0 .. Len(c) - 2)
    BY <1>1, FS_Interval
  <2> QED
    BY <2>1, FS_Subset
<1>7. IsFiniteSet(G) /\ Cardinality(G) = h
  <2> DEFINE f == [t \in 0 .. h - 1 |-> 2 * t]
  <2>1. f \in Bijection(0 .. h - 1, G)
    <3>1. \A s, t \in 0 .. h - 1 : f[s] = f[t] => s = t
      BY <1>2
    <3>2. f \in [0 .. h - 1 -> G] /\ \A x \in G : \E t \in 0 .. h - 1 : f[t] = x
      OBVIOUS
    <3> HIDE DEF f, G
    <3> QED
      BY <3>1, <3>2 DEF Bijection, Injection, IsInjective, Surjection
  <2>2. IsFiniteSet(0 .. h - 1) /\ Cardinality(0 .. h - 1) = h
    <3>1. 0 \in Int /\ h - 1 \in Int /\ (0 > h - 1 => h = 0) /\ (h - 1) - 0 + 1 = h
      BY <1>2
    <3> QED
      BY <3>1, FS_Interval
  <2>3. ExistsBijection(0 .. h - 1, G)
    <3> HIDE DEF f, G
    <3> QED
      BY <2>1 DEF ExistsBijection
  <2> HIDE DEF f, G
  <2> QED
    BY <2>2, <2>3, FS_Bijection
<1>8. N \in SUBSET (starts \ G)
  BY <1>5
<1> HIDE DEF G, N, starts
<1>9. IsFiniteSet(starts \ G) /\ Cardinality(starts \ G) = Cardinality(starts) - h
  <2>1. starts \cap G = G
    BY <1>4
  <2> QED
    BY <1>6, <1>7, <2>1, FS_Difference
<1>10. Cardinality(N) <= Cardinality(starts \ G) /\ IsFiniteSet(N)
  BY <1>8, <1>9, FS_Subset
<1>11. Cardinality(N) <= Cardinality(starts) - h
  BY <1>9, <1>10
<1>12. novelty(c, original, 2, 1).new = Cardinality(N) /\ novelty(c, original, 2, 1).total = Cardinality(starts)
  BY DEF novelty, N, starts
<1> QED
  BY <1>11, <1>12 DEF NoveltyBounded, c, h

-----------------------------------------------------------------------------
(* sdd1find.py: a stream is found where it is *)

\* A slice that does not run over the end is that part of the data.
LEMMA SliceInside ==
  ASSUME NEW data \in Seq(Nat), NEW i \in Nat, NEW n \in Nat, i + n <= Len(data)
  PROVE  Slice(data, i, n) = SubSeq(data, i + 1, i + n)
<1>1. Len(data) \in Nat /\ i + n \in Nat
  OBVIOUS
<1>2. {i + n, Len(data)} \in SUBSET Nat /\ i + n \in {i + n, Len(data)} /\ \A y \in {i + n, Len(data)} : i + n <= y
  BY <1>1
<1>3. Min({i + n, Len(data)}) = i + n
  BY <1>2, MinIs
<1> QED
  BY <1>3 DEF Slice

\* Find finds a window where there is one.
LEMMA FindIs ==
  ASSUME NEW data \in Seq(Nat), NEW blob \in Seq(Nat)
  PROVE  /\ Find(data, blob) \in Int
         /\ ~(Find(data, blob) < 0) <=> blob \in Windows(data, Len(blob))
         /\ ~(Find(data, blob) < 0) => /\ Find(data, blob) \in Nat /\ Find(data, blob) + Len(blob) <= Len(data)
                                       /\ SubSeq(data, Find(data, blob) + 1, Find(data, blob) + Len(blob)) = blob
<1> DEFINE n == Len(blob)
           at == {i \in 0 .. Len(data) - n : Slice(data, i, n) = blob}
<1>1. n \in Nat /\ Len(data) \in Nat
  OBVIOUS
<1> HIDE DEF n
<1>2. \A i \in 0 .. Len(data) - n : Slice(data, i, n) = SubSeq(data, i + 1, i + n)
  BY <1>1, SliceInside
<1>3. at # {} <=> blob \in Windows(data, n)
  <2>1. ASSUME NEW i \in at PROVE blob \in Windows(data, n)
    <3>1. i + 1 \in 1 .. Len(data) - n + 1 /\ (i + 1) + n - 1 = i + n
      BY <1>1
    <3>2. blob = SubSeq(data, i + 1, (i + 1) + n - 1)
      BY <1>2, <3>1
    <3> QED
      BY <3>1, <3>2 DEF Windows
  <2>2. ASSUME blob \in Windows(data, n) PROVE at # {}
    <3>1. PICK i \in 1 .. Len(data) - n + 1 : blob = SubSeq(data, i, i + n - 1)
      BY <2>2 DEF Windows
    <3>2. i - 1 \in 0 .. Len(data) - n /\ (i - 1) + 1 = i /\ (i - 1) + n = i + n - 1
      BY <1>1
    <3>3. Slice(data, i - 1, n) = blob
      BY <1>2, <3>1, <3>2
    <3> QED
      BY <3>2, <3>3
  <2> QED
    BY <2>1, <2>2
<1>4. Find(data, blob) = IF at = {} THEN -1 ELSE Min(at)
  BY DEF Find, n
<1>5. at # {} => Min(at) \in at
  <2>1. at \in SUBSET Nat
    OBVIOUS
  <2> HIDE DEF at
  <2> QED
    BY <2>1, MinMember
<1>6. CASE at = {}
  <2> HIDE DEF at
  <2> QED
    BY <1>3, <1>4, <1>6 DEF n
<1>7. CASE at # {}
  <2> DEFINE m == Min(at)
  <2>1. m \in 0 .. Len(data) - n /\ Slice(data, m, n) = blob
    BY <1>5, <1>7
  <2> HIDE DEF m
  <2>2. m \in Nat /\ m + n <= Len(data) /\ SubSeq(data, m + 1, m + n) = blob /\ ~(m < 0)
    BY <1>1, <1>2, <2>1
  <2>3. Find(data, blob) = m
    BY <1>4, <1>7 DEF m
  <2> HIDE DEF at
  <2> QED
    BY <1>3, <1>7, <2>2, <2>3 DEF n
<1> QED
  BY <1>6, <1>7

\* The lengths tried begin with the one confirmed and stay in bounds.
LEMMA LengthsAre ==
  /\ Lengths[0] = CONFIRM_LENGTH
  /\ \A k \in 0 .. EXTEND_LENGTH : Lengths[k] \in CONFIRM_LENGTH .. EXTEND_LENGTH
<1> DEFINE D == CONFIRM_LENGTH .. EXTEND_LENGTH
           n == EXTEND_LENGTH
           H == [k \in 1 .. n |-> [d \in D |-> Doubled(d)]]
           Rec(f) == f = [k \in 0 .. n |-> IF k = 0 THEN CONFIRM_LENGTH ELSE Doubled(f[k - 1])]
           f == CHOOSE g : Rec(g)
<1>1. n \in Nat /\ CONFIRM_LENGTH \in D /\ CONFIRM_LENGTH \in Nat
  BY SearchLengths
<1>2. ASSUME NEW d \in D PROVE Doubled(d) \in D
  <2>1. d \in Nat /\ d * 2 \in Nat /\ EXTEND_LENGTH \in Nat /\ d <= d * 2
    BY <1>1
  <2>2. CASE d * 2 <= EXTEND_LENGTH
    <3>1. {d * 2, EXTEND_LENGTH} \in SUBSET Nat /\ d * 2 \in {d * 2, EXTEND_LENGTH}
          /\ \A y \in {d * 2, EXTEND_LENGTH} : d * 2 <= y
      BY <2>1, <2>2
    <3>2. Doubled(d) = d * 2
      BY <3>1, MinIs DEF Doubled
    <3> QED
      BY <1>1, <2>1, <2>2, <3>2
  <2>3. CASE EXTEND_LENGTH <= d * 2
    <3>1. {d * 2, EXTEND_LENGTH} \in SUBSET Nat /\ EXTEND_LENGTH \in {d * 2, EXTEND_LENGTH}
          /\ \A y \in {d * 2, EXTEND_LENGTH} : EXTEND_LENGTH <= y
      BY <2>1, <2>3
    <3>2. Doubled(d) = EXTEND_LENGTH
      BY <3>1, MinIs DEF Doubled
    <3> QED
      BY <1>1, <2>1, <3>2
  <2> QED
    BY <2>1, <2>2, <2>3
<1>3. H \in [1 .. n -> [D -> D]]
  BY <1>2
<1>4. \A k \in 1 .. n, d \in D : H[k][d] = Doubled(d)
  OBVIOUS
<1>5. Lengths = f
  BY DEF Lengths
<1> HIDE DEF D, n, H
<1>6. PICK iter \in [SUBSET (1 .. n) -> D] : Folds(iter, n, CONFIRM_LENGTH, H)
  BY <1>1, <1>3, FoldExists
<1>7. iter[1 .. 0] = CONFIRM_LENGTH /\ \A k \in 1 .. n : iter[1 .. k] = H[k][iter[1 .. k - 1]]
  BY <1>1, <1>6, FoldStep
<1> DEFINE g == [k \in 0 .. n |-> iter[1 .. k]]
<1>8. \A k \in 0 .. n : g[k] \in D
  BY <1>1, <1>6
<1>9. Rec(g)
  <2>1. ASSUME NEW k \in 0 .. n, k # 0 PROVE g[k] = Doubled(g[k - 1])
    <3>1. k \in 1 .. n /\ k - 1 \in 0 .. n
      BY <1>1, <2>1
    <3>2. g[k] = H[k][g[k - 1]]
      BY <1>7, <3>1
    <3> QED
      BY <1>4, <1>8, <3>1, <3>2
  <2>2. 0 \in 0 .. n /\ g[0] = CONFIRM_LENGTH
    BY <1>1, <1>7
  <2>3. g = [k \in 0 .. n |-> g[k]]
    OBVIOUS
  <2> HIDE DEF g
  <2> QED
    BY <2>1, <2>2, <2>3
<1>10. Rec(f)
  <2> HIDE DEF Rec, g
  <2> QED
    BY <1>9
<1> HIDE DEF f
<1>11. f[0] = CONFIRM_LENGTH /\ \A k \in 1 .. n : f[k] = Doubled(f[k - 1])
  BY <1>1, <1>10
<1> HIDE DEF Rec
<1> DEFINE S == {k \in 0 .. n : f[k] \in D}
<1>12. 0 \in S
  BY <1>1, <1>11
<1>13. \A k \in 0 .. n - 1 : k \in S => k + 1 \in S
  <2> SUFFICES ASSUME NEW k \in 0 .. n - 1, k \in S PROVE k + 1 \in S
    OBVIOUS
  <2>1. k + 1 \in 1 .. n /\ (k + 1) - 1 = k /\ k + 1 \in 0 .. n
    BY <1>1
  <2>2. f[k + 1] = Doubled(f[k])
    BY <1>11, <2>1
  <2> QED
    BY <1>2, <2>1, <2>2
<1>14. \A k \in 0 .. n : k \in S
  <2> HIDE DEF S
  <2> QED
    BY <1>1, <1>12, <1>13, UpTo
<1> QED
  BY <1>5, <1>11, <1>14 DEF D, n

\* What extend() confirms is there, to the last byte.
LEMMA ExtendIs ==
  ASSUME NEW out \in Seq(Nat), NEW reference \in Seq(Nat), NEW target \in Nat,
         ~Truncated(out, CONFIRM_LENGTH), target + CONFIRM_LENGTH <= Len(reference),
         SubSeq(reference, target + 1, target + CONFIRM_LENGTH) = SubSeq(out, 1, CONFIRM_LENGTH)
  PROVE  LET length == extend(out, reference, target)
         IN  /\ length \in CONFIRM_LENGTH .. EXTEND_LENGTH /\ target + length <= Len(reference)
             /\ SubSeq(reference, target + 1, target + length) = SubSeq(out, 1, length)
<1> DEFINE agrees(k) == /\ ~Truncated(out, Lengths[k])
                        /\ Slice(reference, target, Lengths[k]) = SubSeq(out, 1, Lengths[k])
           steps == {k \in 0 .. EXTEND_LENGTH : \A j \in 1 .. k : agrees(j)}
           m == Max(steps)
           L == Lengths[m]
<1>1. EXTEND_LENGTH \in Nat /\ CONFIRM_LENGTH \in Nat \ {0} /\ CONFIRM_LENGTH <= EXTEND_LENGTH
  BY SearchLengths
<1>2. 0 \in steps
  BY <1>1
<1>3. m \in steps
  <2>1. \E x \in steps : \A y \in steps : y <= x
    <3> DEFINE T == {EXTEND_LENGTH - k : k \in steps}
    <3>1. T \in SUBSET Nat /\ T # {}
      <4>1. \A k \in steps : EXTEND_LENGTH - k \in Nat
        BY <1>1
      <4> HIDE DEF steps
      <4> QED
        BY <1>2, <4>1
    <3>2. PICK t \in T : \A u \in T : t <= u
      <4> HIDE DEF T
      <4> QED
        BY <3>1, LeastNatural
    <3>3. PICK x \in steps : t = EXTEND_LENGTH - x
      <4> HIDE DEF steps
      <4> QED
        BY <3>2
    <3>4. \A y \in steps : y \in Int
      OBVIOUS
    <3> HIDE DEF steps
    <3>5. \A y \in steps : EXTEND_LENGTH - x <= EXTEND_LENGTH - y
      BY <3>2, <3>3
    <3> QED
      BY <1>1, <3>3, <3>4, <3>5
  <2>2. steps \in SUBSET Int
    OBVIOUS
  <2>3. PICK x \in steps : \A y \in steps : y <= x
    BY <2>1
  <2> HIDE DEF steps
  <2>4. m = x
    BY <2>2, <2>3, MaxIs
  <2> QED
    BY <2>3, <2>4
<1>4. extend(out, reference, target) = L
  BY DEF extend
<1>5. m \in 0 .. EXTEND_LENGTH /\ \A j \in 1 .. m : agrees(j)
  BY <1>3
<1> HIDE DEF m, steps
<1>6. L \in CONFIRM_LENGTH .. EXTEND_LENGTH
  BY <1>5, LengthsAre
<1>7. CASE m = 0
  <2>1. L = CONFIRM_LENGTH
    BY <1>7, LengthsAre
  <2> HIDE DEF L
  <2> QED
    BY <1>4, <1>6, <2>1
<1>8. CASE m # 0
  <2>1. agrees(m)
    BY <1>5, <1>8
  <2>2. ~Truncated(out, L) /\ Slice(reference, target, L) = SubSeq(out, 1, L)
    BY <2>1
  <2> HIDE DEF L, agrees
  <2>3. L \in Nat /\ L > 0 /\ Len(reference) \in Nat /\ Len(out) \in Nat /\ L <= Len(out)
    BY <1>1, <1>6, <2>2 DEF Truncated
  <2>4. target + L <= Len(reference)
    <3> SUFFICES ASSUME Len(reference) < target + L PROVE FALSE
      BY <2>3
    <3>1. {target + L, Len(reference)} \in SUBSET Nat /\ Len(reference) \in {target + L, Len(reference)}
          /\ \A y \in {target + L, Len(reference)} : Len(reference) <= y
      BY <2>3
    <3>2. Slice(reference, target, L) = SubSeq(reference, target + 1, Len(reference))
      BY <3>1, MinIs DEF Slice
    <3>3. Len(SubSeq(reference, target + 1, Len(reference))) = Len(reference) - target
      BY <1>1, <2>3
    <3>4. Len(SubSeq(out, 1, L)) = L
      BY <2>3
    <3> QED
      BY <2>2, <2>3, <3>2, <3>3, <3>4
  <2>5. Slice(reference, target, L) = SubSeq(reference, target + 1, target + L)
    BY <2>3, <2>4, SliceInside
  <2> QED
    BY <1>4, <1>6, <2>2, <2>4, <2>5
<1> QED
  BY <1>7, <1>8

\* What is found in the reference is seen by both maps, whatever the hash.
LEMMA SeenByMaps ==
  ASSUME NEW data \in Seq(Nat), NEW blob, NEW out \in Seq(Nat), NEW n \in Nat, NEW c \in Nat, NEW slots,
         n <= c, blob = SubSeq(out, 1, c), ~Truncated(out, c), blob \in Windows(data, c)
  PROVE  probe(build_bitmap(data, n, slots), SubSeq(out, 1, n), slots)
<1>0. Len(data) \in Nat /\ Len(out) \in Nat /\ c <= Len(out)
  BY DEF Truncated
<1>1. PICK i \in 1 .. Len(data) - c + 1 : blob = SubSeq(data, i, i + c - 1)
  BY DEF Windows
<1>2. i \in 1 .. Len(data) - n + 1
  BY <1>0, <1>1
<1>3. \A k \in 1 .. n : data[i + k - 1] = out[k]
  <2> SUFFICES ASSUME NEW k \in 1 .. n PROVE data[i + k - 1] = out[k]
    OBVIOUS
  <2>1. SubSeq(data, i, i + c - 1)[k] = data[i + k - 1]
    BY <1>0, <1>1
  <2>2. SubSeq(out, 1, c)[k] = out[k]
    BY <1>0
  <2> QED
    BY <1>1, <2>1, <2>2
<1>4. SubSeq(data, i, i + n - 1) = SubSeq(out, 1, n)
  <2>1. SubSeq(data, i, i + n - 1) = [k \in 1 .. n |-> data[i + k - 1]]
    BY <1>0, <1>2
  <2>2. SubSeq(out, 1, n) = [k \in 1 .. n |-> out[k]]
    BY <1>0
  <2> QED
    BY <1>3, <2>1, <2>2
<1>5. SubSeq(out, 1, n) \in Windows(data, n)
  BY <1>2, <1>4 DEF Windows
<1> QED
  BY <1>5 DEF probe, build_bitmap

\* What makes an offset a stream, without the maps.
IsStream(out, reference) ==
  /\ Len(out) >= CONFIRM_LENGTH
  /\ is_distinctive(SubSeq(out, 1, PROBE_LENGTH), MIN_PROBE_DISTINCT)
  /\ is_distinctive(SubSeq(out, 1, CONFIRM_LENGTH), MIN_DISTINCT)
  /\ SubSeq(out, 1, CONFIRM_LENGTH) \in Windows(reference, CONFIRM_LENGTH)

\* A hit that is really in the reference.
Verbatim(h, o, out, reference) ==
  /\ h \in [source : Nat, target : Nat, length : Nat] /\ h.source = o
  /\ h.target + h.length <= Len(reference) /\ h.length \in CONFIRM_LENGTH .. EXTEND_LENGTH
  /\ SubSeq(reference, h.target + 1, h.target + h.length) = SubSeq(out, 1, h.length)

\* One offset gives one such hit, or none where there is no stream.
LEMMA FoundWhere ==
  ASSUME NEW o \in Nat, NEW out \in Seq(Nat), NEW reference \in Seq(Nat), NEW probes, NEW confirms
  PROVE  /\ ~IsStream(out, reference) => find_stream(o, out, reference, probes, confirms) = <<>>
         /\ IsStream(out, reference) =>
              \E h : find_stream(o, out, reference, probes, confirms) = <<h>> /\ Verbatim(h, o, out, reference)
<1> DEFINE head == SubSeq(out, 1, PROBE_LENGTH)
           blob == SubSeq(out, 1, CONFIRM_LENGTH)
           found == find_stream(o, out, reference, probes, confirms)
           at == Find(reference, blob)
           drop == \/ Truncated(out, PROBE_LENGTH) \/ ~is_distinctive(head, MIN_PROBE_DISTINCT)
                   \/ ~probe(build_bitmap(reference, PROBE_LENGTH, probes), head, probes)
                   \/ Truncated(out, CONFIRM_LENGTH) \/ ~is_distinctive(blob, MIN_DISTINCT)
                   \/ ~probe(build_bitmap(reference, CONFIRM_LENGTH, confirms), blob, confirms)
                   \/ at < 0
           h == Hit(o, at, extend(out, reference, at))
<1>0. /\ PROBE_LENGTH \in Nat \ {0} /\ CONFIRM_LENGTH \in Nat \ {0} /\ PROBE_LENGTH <= CONFIRM_LENGTH
      /\ EXTEND_LENGTH \in Nat /\ CONFIRM_LENGTH <= EXTEND_LENGTH /\ Len(out) \in Nat
  BY SearchLengths
<1>1. found = IF drop THEN <<>> ELSE <<h>>
  BY DEF find_stream
<1>2. Len(out) >= CONFIRM_LENGTH => ~Truncated(out, CONFIRM_LENGTH) /\ ~Truncated(out, PROBE_LENGTH) /\ Len(blob) = CONFIRM_LENGTH
                                    /\ blob \in Seq(Nat)
  BY <1>0 DEF Truncated
<1>3. ~Truncated(out, CONFIRM_LENGTH) => Len(out) >= CONFIRM_LENGTH
  BY <1>0 DEF Truncated
<1>4. Len(out) >= CONFIRM_LENGTH => (~(at < 0) <=> blob \in Windows(reference, CONFIRM_LENGTH))
  BY <1>2, FindIs
<1>5. CASE ~IsStream(out, reference)
  <2>1. drop
    BY <1>3, <1>4, <1>5 DEF IsStream
  <2> HIDE DEF drop, h
  <2> QED
    BY <1>1, <1>5, <2>1
<1>6. CASE IsStream(out, reference)
  <2>1. Len(out) >= CONFIRM_LENGTH /\ blob \in Windows(reference, CONFIRM_LENGTH)
        /\ is_distinctive(head, MIN_PROBE_DISTINCT) /\ is_distinctive(blob, MIN_DISTINCT)
    BY <1>6 DEF IsStream
  <2>2. probe(build_bitmap(reference, PROBE_LENGTH, probes), head, probes)
    BY <1>0, <1>2, <2>1, SeenByMaps
  <2>3. probe(build_bitmap(reference, CONFIRM_LENGTH, confirms), blob, confirms)
    <3>1. CONFIRM_LENGTH <= CONFIRM_LENGTH /\ CONFIRM_LENGTH \in Nat /\ ~Truncated(out, CONFIRM_LENGTH)
      BY <1>0, <1>2, <2>1
    <3> QED
      BY <2>1, <3>1, SeenByMaps
  <2>4. ~drop
    BY <1>2, <1>4, <2>1, <2>2, <2>3
  <2>5. at \in Nat /\ at + CONFIRM_LENGTH <= Len(reference) /\ SubSeq(reference, at + 1, at + CONFIRM_LENGTH) = blob
    BY <1>2, <1>4, <2>1, FindIs
  <2> HIDE DEF at, drop
  <2>6. LET length == extend(out, reference, at)
        IN  /\ length \in CONFIRM_LENGTH .. EXTEND_LENGTH /\ at + length <= Len(reference)
            /\ SubSeq(reference, at + 1, at + length) = SubSeq(out, 1, length)
    BY <1>2, <2>1, <2>5, ExtendIs
  <2> DEFINE e == extend(out, reference, at)
  <2> HIDE DEF e
  <2>7. /\ e \in CONFIRM_LENGTH .. EXTEND_LENGTH /\ at + e <= Len(reference)
        /\ SubSeq(reference, at + 1, at + e) = SubSeq(out, 1, e)
    BY <2>6 DEF e
  <2>8. h.source = o /\ h.target = at /\ h.length = e /\ h \in [source : Nat, target : Nat, length : Nat]
    BY <1>0, <2>5, <2>7 DEF Hit, e
  <2> HIDE DEF h
  <2>9. Verbatim(h, o, out, reference)
    BY <2>7, <2>8 DEF Verbatim
  <2>10. found = <<h>>
    BY <1>1, <2>4
  <2> QED
    BY <1>6, <2>9, <2>10, Zenon
<1> QED
  BY <1>5, <1>6

HitRecords == [source : Nat, target : Nat, length : Nat]

\* The hits up to an offset: in order, verbatim, and one for each stream.
HitsUpTo(q, k, outs, reference) ==
  /\ q \in Seq(HitRecords)
  /\ \A i, j \in 1 .. Len(q) : i < j => q[i].source < q[j].source
  /\ \A i \in 1 .. Len(q) : /\ q[i].source \in 1 .. k /\ IsStream(outs[q[i].source], reference)
                            /\ Verbatim(q[i], q[i].source, outs[q[i].source], reference)
  /\ \A o \in 1 .. k : IsStream(outs[o], reference) => \E i \in 1 .. Len(q) : q[i].source = o

\* One offset more.
LEMMA HitsOn ==
  ASSUME NEW k \in Nat, NEW outs, NEW reference, NEW q, HitsUpTo(q, k, outs, reference), NEW found,
         ~IsStream(outs[k + 1], reference) => found = <<>>,
         IsStream(outs[k + 1], reference) => \E h : found = <<h>> /\ Verbatim(h, k + 1, outs[k + 1], reference)
  PROVE  HitsUpTo(q \o found, k + 1, outs, reference)
<1>0. /\ q \in Seq(HitRecords) /\ Len(q) \in Nat
      /\ \A i, j \in 1 .. Len(q) : i < j => q[i].source < q[j].source
      /\ \A i \in 1 .. Len(q) : /\ q[i].source \in 1 .. k /\ IsStream(outs[q[i].source], reference)
                                /\ Verbatim(q[i], q[i].source, outs[q[i].source], reference)
      /\ \A o \in 1 .. k : IsStream(outs[o], reference) => \E i \in 1 .. Len(q) : q[i].source = o
  BY DEF HitsUpTo
<1>1. CASE ~IsStream(outs[k + 1], reference)
  <2>1. q \o found = q
    BY <1>0, <1>1, ConcatEmptySeq
  <2>2. \A o \in 1 .. k + 1 : IsStream(outs[o], reference) => o \in 1 .. k
    BY <1>1
  <2>3. \A i \in 1 .. Len(q) : q[i].source \in 1 .. k + 1
    BY <1>0
  <2>4. HitsUpTo(q, k + 1, outs, reference)
    BY <1>0, <2>2, <2>3 DEF HitsUpTo
  <2> QED
    BY <2>1, <2>4
<1>2. CASE IsStream(outs[k + 1], reference)
  <2>1. PICK h : found = <<h>> /\ Verbatim(h, k + 1, outs[k + 1], reference)
    BY <1>2
  <2>2. h \in HitRecords /\ h.source = k + 1
    BY <2>1 DEF Verbatim, HitRecords
  <2> DEFINE r == Append(q, h)
  <2>3. q \o found = r
    BY <1>0, <2>1, <2>2
  <2>4. r \in Seq(HitRecords) /\ Len(r) = Len(q) + 1 /\ r[Len(q) + 1] = h /\ \A i \in 1 .. Len(q) : r[i] = q[i]
    BY <1>0, <2>2
  <2> HIDE DEF r
  <2>5. ASSUME NEW i \in 1 .. Len(r)
        PROVE  /\ r[i].source \in 1 .. k + 1 /\ IsStream(outs[r[i].source], reference)
               /\ Verbatim(r[i], r[i].source, outs[r[i].source], reference)
    <3>1. CASE i \in 1 .. Len(q)
      <4>1. r[i] = q[i] /\ q[i].source \in 1 .. k + 1
        BY <1>0, <2>4, <3>1
      <4> QED
        BY <1>0, <3>1, <4>1
    <3>2. CASE i = Len(q) + 1
      <4>1. r[i] = h /\ k + 1 \in 1 .. k + 1
        BY <2>4, <3>2
      <4> QED
        BY <1>2, <2>1, <2>2, <4>1
    <3> QED
      BY <1>0, <2>4, <2>5, <3>1, <3>2
  <2>6. ASSUME NEW i \in 1 .. Len(r), NEW j \in 1 .. Len(r), i < j PROVE r[i].source < r[j].source
    <3>1. i \in 1 .. Len(q) /\ r[i] = q[i]
      BY <1>0, <2>4, <2>6
    <3>2. CASE j \in 1 .. Len(q)
      BY <1>0, <2>4, <2>6, <3>1, <3>2
    <3>3. CASE j = Len(q) + 1
      <4>1. q[i].source \in 1 .. k /\ r[j].source = k + 1
        BY <1>0, <2>2, <2>4, <3>1, <3>3
      <4> QED
        BY <3>1, <4>1
    <3> QED
      BY <1>0, <2>4, <2>6, <3>2, <3>3
  <2>7. ASSUME NEW o \in 1 .. k + 1, IsStream(outs[o], reference) PROVE \E i \in 1 .. Len(r) : r[i].source = o
    <3>1. CASE o \in 1 .. k
      <4>1. PICK i \in 1 .. Len(q) : q[i].source = o
        BY <1>0, <2>7, <3>1
      <4>2. i \in 1 .. Len(r) /\ r[i] = q[i]
        BY <1>0, <2>4
      <4> QED
        BY <4>1, <4>2
    <3>2. CASE o = k + 1
      <4>1. Len(q) + 1 \in 1 .. Len(r)
        BY <1>0, <2>4
      <4> QED
        BY <2>2, <2>4, <3>2, <4>1
    <3> QED
      BY <3>1, <3>2
  <2>8. HitsUpTo(r, k + 1, outs, reference)
    BY <2>4, <2>5, <2>6, <2>7 DEF HitsUpTo
  <2> QED
    BY <2>3, <2>8
<1> QED
  BY <1>1, <1>2

\* find_streams reports what there is to be found.
LEMMA HitsAre ==
  ASSUME NEW outs \in Seq(Seq(Nat)), NEW reference \in Seq(Nat), NEW probes, NEW confirms
  PROVE  HitsUpTo(find_streams(outs, reference, probes, confirms), Len(outs), outs, reference)
<1> DEFINE n == Len(outs)
           s == [o \in DOMAIN outs |-> find_stream(o, outs[o], reference, probes, confirms)]
<1>1. n \in Nat /\ DOMAIN outs = 1 .. n /\ \A o \in 1 .. n : o \in Nat /\ outs[o] \in Seq(Nat)
  OBVIOUS
<1>2. \A o \in 1 .. n : /\ ~IsStream(outs[o], reference) => s[o] = <<>>
                        /\ IsStream(outs[o], reference) => \E h : s[o] = <<h>> /\ Verbatim(h, o, outs[o], reference)
  <2> SUFFICES ASSUME NEW o \in 1 .. n
               PROVE  /\ ~IsStream(outs[o], reference) => s[o] = <<>>
                      /\ IsStream(outs[o], reference) => \E h : s[o] = <<h>> /\ Verbatim(h, o, outs[o], reference)
    OBVIOUS
  <2>1. s[o] = find_stream(o, outs[o], reference, probes, confirms)
    BY <1>1
  <2>2. o \in Nat /\ outs[o] \in Seq(Nat)
    BY <1>1
  <2> HIDE DEF s
  <2> DEFINE out == outs[o]
  <2>3. out \in Seq(Nat)
    BY <2>2
  <2> HIDE DEF out
  <2>4. /\ ~IsStream(out, reference) => find_stream(o, out, reference, probes, confirms) = <<>>
        /\ IsStream(out, reference) =>
             \E h : find_stream(o, out, reference, probes, confirms) = <<h>> /\ Verbatim(h, o, out, reference)
    BY <2>2, <2>3, FoundWhere
  <2> QED
    BY <2>1, <2>4, Zenon DEF out
<1>3. DOMAIN s = 1 .. n
  BY <1>1
<1>4. find_streams(outs, reference, probes, confirms) = FlattenSeq(s)
  BY DEF find_streams
<1>5. s = [o \in 1 .. n |-> s[o]]
  BY <1>1
<1> HIDE DEF s
<1>6. \A o \in 1 .. n : s[o] \in Seq(HitRecords)
  <2> SUFFICES ASSUME NEW o \in 1 .. n PROVE s[o] \in Seq(HitRecords)
    OBVIOUS
  <2>1. CASE ~IsStream(outs[o], reference)
    <3>1. s[o] = <<>> /\ <<>> \in Seq(HitRecords)
      BY <1>2, <2>1
    <3> QED
      BY <3>1
  <2>2. CASE IsStream(outs[o], reference)
    <3>1. PICK h : s[o] = <<h>> /\ Verbatim(h, o, outs[o], reference)
      BY <1>2, <2>2
    <3>2. h \in HitRecords
      BY <3>1 DEF Verbatim, HitRecords
    <3> QED
      BY <3>1, <3>2
  <2> QED
    BY <2>1, <2>2
<1>7. s \in Seq(Seq(HitRecords)) /\ Len(s) = n
  BY <1>1, <1>5, <1>6
<1>8. PICK g : Flattens(g, s, HitRecords) /\ FlattenSeq(s) = g[Len(s)]
  BY <1>7, FlattenIs
<1>9. g[0] = <<>> /\ \A k \in 1 .. n : g[k] = g[k - 1] \o s[k]
  BY <1>7, <1>8 DEF Flattens
<1> DEFINE S == {k \in 0 .. n : HitsUpTo(g[k], k, outs, reference)}
<1>10. 0 \in S
  <2>1. g[0] = <<>> /\ Len(<<>>) = 0 /\ <<>> \in Seq(HitRecords) /\ 0 \in 0 .. n
    BY <1>1, <1>9
  <2>2. HitsUpTo(<<>>, 0, outs, reference)
    BY <2>1 DEF HitsUpTo
  <2> QED
    BY <2>1, <2>2
<1>11. \A k \in 0 .. n - 1 : k \in S => k + 1 \in S
  <2> SUFFICES ASSUME NEW k \in 0 .. n - 1, k \in S PROVE k + 1 \in S
    OBVIOUS
  <2>1. k + 1 \in 1 .. n /\ (k + 1) - 1 = k /\ k \in Nat /\ k + 1 \in 0 .. n
    BY <1>1
  <2>2. g[k + 1] = g[k] \o s[k + 1]
    BY <1>9, <2>1
  <2>3. HitsUpTo(g[k], k, outs, reference)
    OBVIOUS
  <2>4. HitsUpTo(g[k] \o s[k + 1], k + 1, outs, reference)
    BY <1>2, <2>1, <2>3, HitsOn
  <2> QED
    BY <2>1, <2>2, <2>4
<1>12. n \in S
  <2> HIDE DEF S
  <2>1. \A k \in 0 .. n : k \in S
    BY <1>1, <1>10, <1>11, UpTo
  <2> QED
    BY <1>1, <2>1
<1> QED
  BY <1>4, <1>7, <1>8, <1>12

-----------------------------------------------------------------------------
(* Chains of hits *)

\* Hits that are in order stay where they are.
LEMMA BySourceSame ==
  ASSUME NEW q \in Seq(HitRecords), \A i, j \in 1 .. Len(q) : i < j => q[i].source < q[j].source
  PROVE  BySource(q) = q
<1>1. Len(q) \in Nat /\ DOMAIN q = 1 .. Len(q) /\ \A i \in 1 .. Len(q) : q[i].source \in Nat
  <2>1. \A i \in 1 .. Len(q) : q[i] \in HitRecords
    OBVIOUS
  <2>2. \A h \in HitRecords : h.source \in Nat
    BY DEF HitRecords
  <2> QED
    BY <2>1, <2>2
<1>2. ASSUME NEW k \in 1 .. Len(q) PROVE Cardinality(Before(q, k)) = k
  <2>1. ASSUME NEW j \in 1 .. Len(q) PROVE j \in Before(q, k) <=> j \in 1 .. k
    <3>1. q[j].source \in Nat /\ q[k].source \in Nat
      BY <1>1
    <3>2. CASE j < k
      BY <1>1, <3>1, <3>2 DEF Before
    <3>3. CASE j = k
      BY <1>1, <3>1, <3>3 DEF Before
    <3>4. CASE k < j
      <4>1. q[k].source < q[j].source
        BY <3>4
      <4> QED
        BY <1>1, <3>1, <3>4, <4>1 DEF Before
    <3> QED
      BY <1>1, <3>2, <3>3, <3>4
  <2>2. Before(q, k) = 1 .. k
    <3>1. Before(q, k) \subseteq 1 .. Len(q) /\ 1 .. k \subseteq 1 .. Len(q)
      BY <1>1 DEF Before
    <3> QED
      BY <2>1, <3>1
  <2>3. Cardinality(1 .. k) = k
    <3>1. 1 \in Int /\ k \in Int /\ ~(1 > k) /\ k - 1 + 1 = k
      BY <1>1
    <3> QED
      BY <3>1, FS_Interval
  <2> QED
    BY <2>2, <2>3
<1>3. ASSUME NEW n \in 1 .. Len(q)
      PROVE  (CHOOSE k \in DOMAIN q : Cardinality(Before(q, k)) = n) = n
  <2> DEFINE k == CHOOSE k \in DOMAIN q : Cardinality(Before(q, k)) = n
  <2>1. n \in DOMAIN q /\ Cardinality(Before(q, n)) = n
    BY <1>1, <1>2
  <2>2. k \in DOMAIN q /\ Cardinality(Before(q, k)) = n
    BY <2>1
  <2> HIDE DEF k
  <2>3. Cardinality(Before(q, k)) = k
    BY <1>1, <1>2, <2>2
  <2>4. k = n
    BY <2>2, <2>3
  <2> QED
    BY <2>4 DEF k
<1> DEFINE at(n) == CHOOSE k \in DOMAIN q : Cardinality(Before(q, k)) = n
<1>4. BySource(q) = [n \in 1 .. Len(q) |-> q[n]]
  <2>1. BySource(q) = [n \in 1 .. Len(q) |-> q[at(n)]]
    BY <1>1 DEF BySource
  <2>2. \A n \in 1 .. Len(q) : at(n) = n
    BY <1>3
  <2> HIDE DEF at
  <2> QED
    BY <2>1, <2>2
<1>5. q = [n \in 1 .. Len(q) |-> q[n]]
  BY <1>1
<1> QED
  BY <1>4, <1>5

\* A list of lists with one list more reads that much further.
LEMMA FlatAppend ==
  ASSUME NEW E, NEW p \in Seq(Seq(E)), NEW x \in Seq(E)
  PROVE  FlattenSeq(Append(p, x)) = FlattenSeq(p) \o x
<1> DEFINE s == Append(p, x)
<1>1. s \in Seq(Seq(E)) /\ Len(s) = Len(p) + 1 /\ s[Len(p) + 1] = x /\ Len(p) \in Nat
      /\ \A i \in 1 .. Len(p) : s[i] = p[i]
  OBVIOUS
<1> HIDE DEF s
<1>2. PICK g : Flattens(g, s, E) /\ FlattenSeq(s) = g[Len(s)]
  BY <1>1, FlattenIs
<1>3. g[0] = <<>> /\ g[Len(p) + 1] = g[Len(p)] \o x /\ g[Len(p)] \in Seq(E)
  <2>1. Len(p) + 1 \in 1 .. Len(s) /\ (Len(p) + 1) - 1 = Len(p) /\ Len(p) \in 0 .. Len(s)
    BY <1>1
  <2> QED
    BY <1>1, <1>2, <2>1 DEF Flattens
<1>4. FlattenSeq(p) = g[Len(p)]
  <2>1. 0 \in Nat /\ 0 + Len(p) <= Len(s) /\ 0 + Len(p) = Len(p) /\ \A i \in 1 .. Len(p) : p[i] = s[0 + i]
    BY <1>1
  <2>2. Joins(g[0 + Len(p)], g[0], FlattenSeq(p))
    BY <1>2, <2>1, OnePiece
  <2>3. PICK f : Flattens(f, p, E) /\ FlattenSeq(p) = f[Len(p)]
    BY FlattenIs
  <2>4. FlattenSeq(p) \in Seq(E)
    <3>1. Len(p) \in 0 .. Len(p)
      BY <1>1
    <3> QED
      BY <2>3, <3>1 DEF Flattens
  <2>5. g[Len(p)] = <<>> \o FlattenSeq(p)
    BY <1>3, <2>1, <2>2 DEF Joins
  <2> QED
    BY <2>4, <2>5, ConcatEmptySeq
<1> QED
  BY <1>1, <1>2, <1>3, <1>4 DEF s

\* A list that is not empty is its front and its last.
LEMMA FrontLast ==
  ASSUME NEW E, NEW s \in Seq(E), s # <<>>
  PROVE  /\ Front(s) \in Seq(E) /\ Last(s) \in E /\ s = Append(Front(s), Last(s))
         /\ Len(s) \in Nat \ {0} /\ Len(Front(s)) = Len(s) - 1 /\ Last(s) = s[Len(s)]
         /\ \A i \in 1 .. Len(s) - 1 : Front(s)[i] = s[i]
<1>1. Len(s) \in Nat \ {0}
  OBVIOUS
<1>2. Last(s) = s[Len(s)] /\ Last(s) \in E
  BY <1>1 DEF Last
<1>3. Front(s) = SubSeq(s, 1, Len(s) - 1)
  BY DEF Front
<1>4. Front(s) \in Seq(E) /\ Len(Front(s)) = Len(s) - 1 /\ \A i \in 1 .. Len(s) - 1 : Front(s)[i] = s[i]
  <2> DEFINE n == Len(s) - 1
  <2>1. n \in Nat /\ n <= Len(s) /\ \A i \in 1 .. n : s[i] \in E
    BY <1>1
  <2>2. SubSeq(s, 1, n) = [i \in 1 .. n |-> s[i]]
    BY <1>1
  <2> HIDE DEF n
  <2>3. [i \in 1 .. n |-> s[i]] \in Seq(E) /\ Len([i \in 1 .. n |-> s[i]]) = n
    BY <2>1
  <2>4. \A i \in 1 .. n : [j \in 1 .. n |-> s[j]][i] = s[i]
    OBVIOUS
  <2> QED
    BY <1>3, <2>2, <2>3, <2>4 DEF n
<1> DEFINE f == Front(s)
           l == Last(s)
<1> HIDE DEF f, l
<1>5. Append(f, l) \in Seq(E) /\ Len(Append(f, l)) = Len(s) /\ \A i \in 1 .. Len(s) : Append(f, l)[i] = s[i]
  BY <1>1, <1>2, <1>4 DEF f, l
<1>6. Append(f, l) = s
  BY <1>5
<1> QED
  BY <1>1, <1>2, <1>4, <1>6 DEF f, l

ChainLists == Seq(Seq(HitRecords))
Strung(q, tolerance) == FoldLeft(LAMBDA runs, hit : Chained(runs, hit, tolerance), <<>>, q)

\* A hit makes lists of chains out of lists of chains.
LEMMA ChainedTyped ==
  ASSUME NEW d \in ChainLists, NEW h \in HitRecords, NEW tolerance
  PROVE  Chained(d, h, tolerance) \in ChainLists
<1>1. d \in Seq(Seq(HitRecords))
  BY DEF ChainLists
<1>2. Append(d, <<h>>) \in Seq(Seq(HitRecords))
  BY <1>1
<1>3. d # <<>> => Append(Front(d), Append(Last(d), h)) \in Seq(Seq(HitRecords))
  <2> SUFFICES ASSUME d # <<>> PROVE Append(Front(d), Append(Last(d), h)) \in Seq(Seq(HitRecords))
    OBVIOUS
  <2>1. Front(d) \in Seq(Seq(HitRecords)) /\ Last(d) \in Seq(HitRecords)
    BY <1>1, FrontLast
  <2>2. Append(Last(d), h) \in Seq(HitRecords)
    BY <2>1
  <2> QED
    BY <2>1, <2>2
<1> QED
  BY <1>2, <1>3 DEF Chained, ChainLists

\* The chains after each hit.
LEMMA ChainsFold ==
  ASSUME NEW q \in Seq(HitRecords), NEW tolerance
  PROVE  \E c \in [0 .. Len(q) -> ChainLists] :
           /\ c[0] = <<>>
           /\ \A k \in 1 .. Len(q) : c[k] = Chained(c[k - 1], q[k], tolerance)
           /\ Strung(q, tolerance) = c[Len(q)]
<1> DEFINE n == Len(q)
           H == [k \in 1 .. n |-> [d \in ChainLists |-> Chained(d, q[k], tolerance)]]
<1>1. n \in Nat /\ DOMAIN q = 1 .. n /\ \A k \in 1 .. n : q[k] \in HitRecords
  OBVIOUS
<1>2. <<>> \in ChainLists
  BY DEF ChainLists
<1>3. \A d \in ChainLists : \A k \in 1 .. n : Chained(d, q[k], tolerance) \in ChainLists
  BY <1>1, ChainedTyped
<1>4. H \in [1 .. n -> [ChainLists -> ChainLists]]
  BY <1>3
<1>5. \A k \in 1 .. n, d \in ChainLists : H[k][d] = Chained(d, q[k], tolerance)
  OBVIOUS
<1> DEFINE Next(r) == [s \in SUBSET (1 .. n) |-> IF s = {} THEN <<>> ELSE Chained(r[s \ {Max(s)}], q[Max(s)], tolerance)]
           iter == CHOOSE r : r = Next(r)
<1>6. Strung(q, tolerance) = iter[1 .. n]
  <2>1. Strung(q, tolerance) = MapThenFoldSet(LAMBDA x, y : Chained(y, x, tolerance), <<>>, LAMBDA i : q[i], LAMBDA s : Max(s), 1 .. n)
    BY <1>1 DEF FoldLeft, Strung
  <2> QED
    BY <2>1 DEF MapThenFoldSet
<1>7. iter = Next(iter)
  <2>1. PICK g \in [SUBSET (1 .. n) -> ChainLists] : Folds(g, n, <<>>, H)
    <3> HIDE DEF H
    <3> QED
      BY <1>1, <1>2, <1>4, FoldExists
  <2>2. ASSUME NEW s \in SUBSET (1 .. n), s # {}
        PROVE  H[Max(s)][g[s \ {Max(s)}]] = Chained(g[s \ {Max(s)}], q[Max(s)], tolerance)
    <3>1. Max(s) \in 1 .. n
      BY <1>1, <2>2, MaxWithin
    <3>2. s \ {Max(s)} \in SUBSET (1 .. n)
      OBVIOUS
    <3>3. g[s \ {Max(s)}] \in ChainLists
      BY <3>2
    <3> QED
      BY <1>5, <3>1, <3>3
  <2>3. g = Next(g)
    <3> HIDE DEF H
    <3>1. g = [s \in SUBSET (1 .. n) |-> IF s = {} THEN <<>> ELSE H[Max(s)][g[s \ {Max(s)}]]]
      BY <2>1 DEF Folds
    <3> QED
      BY <2>2, <3>1
  <2> HIDE DEF Next
  <2> QED
    BY <2>3
<1> DEFINE c == [k \in 0 .. n |-> iter[1 .. k]]
<1>8. c[0] = <<>>
  <2>1. 1 .. 0 = {} /\ {} \in SUBSET (1 .. n) /\ 0 \in 0 .. n
    BY <1>1
  <2>2. Next(iter)[{}] = <<>>
    BY <2>1
  <2>3. c[0] = iter[1 .. 0]
    BY <2>1
  <2> HIDE DEF Next, iter, c
  <2> QED
    BY <1>7, <2>1, <2>2, <2>3, Zenon
<1>9. ASSUME NEW k \in 1 .. n PROVE c[k] = Chained(c[k - 1], q[k], tolerance)
  <2>1. Max(1 .. k) = k
    <3>1. 1 .. k \in SUBSET Int /\ k \in 1 .. k /\ \A y \in 1 .. k : y <= k
      OBVIOUS
    <3> QED
      BY <3>1, MaxIs
  <2>2. (1 .. k) \ {k} = 1 .. k - 1 /\ 1 .. k # {} /\ 1 .. k \in SUBSET (1 .. n) /\ k \in 0 .. n /\ k - 1 \in 0 .. n
    <3> HIDE DEF n, iter, Next, c
    <3>1. n \in Nat /\ k \in Nat /\ 1 <= k /\ k <= n
      BY <1>1
    <3>2. k \in 0 .. n /\ k - 1 \in 0 .. n /\ 1 .. k \in SUBSET (1 .. n) /\ k \in 1 .. k
      BY <3>1
    <3>3. (1 .. k) \ {k} = 1 .. k - 1
      BY <3>1
    <3> QED
      BY <3>2, <3>3
  <2>3. Next(iter)[1 .. k] = Chained(iter[1 .. k - 1], q[k], tolerance)
    <3> HIDE DEF iter
    <3> QED
      BY <2>1, <2>2
  <2> HIDE DEF Next, iter
  <2> QED
    BY <1>7, <2>2, <2>3
<1>10. Strung(q, tolerance) = c[n]
  <2>1. n \in 0 .. n
    BY <1>1
  <2> QED
    BY <1>6, <2>1
<1> HIDE DEF c, H, Next, iter
<1>11. \A k \in 0 .. n : c[k] \in ChainLists
  <2> DEFINE S == {k \in 0 .. n : c[k] \in ChainLists}
  <2>1. 0 \in S
    BY <1>1, <1>2, <1>8
  <2>2. ASSUME NEW k \in 0 .. n - 1, k \in S PROVE k + 1 \in S
    <3>1. k + 1 \in 1 .. n /\ (k + 1) - 1 = k
      BY <1>1
    <3>2. c[k + 1] = Chained(c[k], q[k + 1], tolerance)
      BY <1>9, <3>1
    <3> QED
      BY <1>1, <1>3, <2>2, <3>1, <3>2
  <2>3. \A k \in 0 .. n : k \in S
    <3> HIDE DEF S, n
    <3> QED
      BY <1>1, <2>1, <2>2, UpTo
  <2> QED
    BY <2>3
<1>12. c = [k \in 0 .. n |-> c[k]]
  BY DEF c
<1>13. c \in [0 .. n -> ChainLists]
  BY <1>11, <1>12
<1> QED
  BY <1>8, <1>9, <1>10, <1>13

\* Chains cut where the next hit does not follow, and only there.
WellChained(c, tolerance) ==
  /\ c \in ChainLists /\ \A r \in 1 .. Len(c) : c[r] # <<>>
  /\ \A r \in 1 .. Len(c) - 1 : ~Follows(Last(c[r]), c[r + 1][1], tolerance)
  /\ \A r \in 1 .. Len(c) : \A k \in 1 .. Len(c[r]) - 1 : Follows(c[r][k], c[r][k + 1], tolerance)

\* A hit that does not follow begins a chain.
LEMMA ChainBegun ==
  ASSUME NEW c, NEW tolerance, WellChained(c, tolerance), NEW h \in HitRecords,
         c # <<>> => ~Follows(Last(Last(c)), h, tolerance)
  PROVE  WellChained(Append(c, <<h>>), tolerance) /\ FlattenSeq(Append(c, <<h>>)) = FlattenSeq(c) \o <<h>>
<1> DEFINE d == Append(c, <<h>>)
<1>0. /\ c \in Seq(Seq(HitRecords)) /\ Len(c) \in Nat /\ \A r \in 1 .. Len(c) : c[r] # <<>>
      /\ \A r \in 1 .. Len(c) - 1 : ~Follows(Last(c[r]), c[r + 1][1], tolerance)
      /\ \A r \in 1 .. Len(c) : \A k \in 1 .. Len(c[r]) - 1 : Follows(c[r][k], c[r][k + 1], tolerance)
  BY DEF WellChained, ChainLists
<1>1. <<h>> \in Seq(HitRecords) /\ <<h>> # <<>> /\ Len(<<h>>) = 1 /\ <<h>>[1] = h
  OBVIOUS
<1>2. d \in Seq(Seq(HitRecords)) /\ Len(d) = Len(c) + 1 /\ d[Len(c) + 1] = <<h>> /\ \A r \in 1 .. Len(c) : d[r] = c[r]
  BY <1>0, <1>1
<1>3. FlattenSeq(d) = FlattenSeq(c) \o <<h>>
  BY <1>0, <1>1, FlatAppend
<1> HIDE DEF d
<1>4. ASSUME NEW r \in 1 .. Len(d)
      PROVE  d[r] # <<>> /\ \A k \in 1 .. Len(d[r]) - 1 : Follows(d[r][k], d[r][k + 1], tolerance)
  <2>1. CASE r \in 1 .. Len(c)
    <3>1. d[r] = c[r]
      BY <1>2, <2>1
    <3> QED
      BY <1>0, <2>1, <3>1
  <2>2. CASE r = Len(c) + 1
    <3>1. d[r] = <<h>> /\ Len(d[r]) = 1
      BY <1>1, <1>2, <2>2
    <3>2. \A k \in 1 .. Len(d[r]) - 1 : FALSE
      BY <3>1
    <3> QED
      BY <1>1, <3>1, <3>2
  <2> QED
    BY <1>0, <1>2, <1>4, <2>1, <2>2
<1>5. ASSUME NEW r \in 1 .. Len(d) - 1 PROVE ~Follows(Last(d[r]), d[r + 1][1], tolerance)
  <2>1. r \in 1 .. Len(c) /\ d[r] = c[r]
    BY <1>0, <1>2
  <2>2. CASE r + 1 \in 1 .. Len(c)
    <3>1. d[r + 1] = c[r + 1] /\ r \in 1 .. Len(c) - 1
      BY <1>0, <1>2, <2>2
    <3> QED
      BY <1>0, <2>1, <3>1
  <2>3. CASE r = Len(c)
    <3>1. c # <<>> /\ Last(c) = c[r] /\ d[r + 1][1] = h
      BY <1>0, <1>1, <1>2, <2>1, <2>3 DEF Last
    <3> QED
      BY <2>1, <3>1
  <2> QED
    BY <1>0, <2>1, <2>2, <2>3
<1>6. WellChained(d, tolerance)
  BY <1>2, <1>4, <1>5 DEF WellChained, ChainLists
<1> QED
  BY <1>3, <1>6 DEF d

\* One that follows continues the last chain.
LEMMA ChainContinued ==
  ASSUME NEW c, NEW tolerance, WellChained(c, tolerance), NEW h \in HitRecords,
         c # <<>>, Follows(Last(Last(c)), h, tolerance)
  PROVE  LET d == Append(Front(c), Append(Last(c), h))
         IN  WellChained(d, tolerance) /\ FlattenSeq(d) = FlattenSeq(c) \o <<h>>
<1> DEFINE f == Front(c)
           l == Last(c)
           m == Append(l, h)
           d == Append(f, m)
<1>0. /\ c \in Seq(Seq(HitRecords)) /\ Len(c) \in Nat /\ \A r \in 1 .. Len(c) : c[r] # <<>>
      /\ \A r \in 1 .. Len(c) - 1 : ~Follows(Last(c[r]), c[r + 1][1], tolerance)
      /\ \A r \in 1 .. Len(c) : \A k \in 1 .. Len(c[r]) - 1 : Follows(c[r][k], c[r][k + 1], tolerance)
  BY DEF WellChained, ChainLists
<1>1. /\ f \in Seq(Seq(HitRecords)) /\ l \in Seq(HitRecords) /\ c = Append(f, l)
      /\ Len(c) \in Nat \ {0} /\ Len(f) = Len(c) - 1 /\ l = c[Len(c)] /\ \A i \in 1 .. Len(c) - 1 : f[i] = c[i]
  BY <1>0, FrontLast
<1> DEFINE n == Len(c)
<1>2. n \in Nat \ {0} /\ n \in 1 .. n
  BY <1>1
<1>3. l # <<>> /\ Len(l) \in Nat \ {0} /\ Last(l) = l[Len(l)]
  <2>1. l # <<>>
    BY <1>0, <1>1, <1>2
  <2> HIDE DEF l
  <2> QED
    BY <1>1, <2>1, FrontLast
<1> HIDE DEF f, l
<1>4. m \in Seq(HitRecords) /\ Len(m) = Len(l) + 1 /\ m[Len(l) + 1] = h /\ \A k \in 1 .. Len(l) : m[k] = l[k]
  BY <1>1, <1>3
<1>5. m # <<>> /\ m[1] = l[1]
  BY <1>3, <1>4
<1>6. FlattenSeq(d) = FlattenSeq(c) \o <<h>>
  <2>1. FlattenSeq(d) = FlattenSeq(f) \o m
    BY <1>1, <1>4, FlatAppend
  <2>2. FlattenSeq(c) = FlattenSeq(f) \o l
    BY <1>1, FlatAppend
  <2>3. m = l \o <<h>>
    BY <1>1
  <2>4. FlattenSeq(f) \in Seq(HitRecords)
    <3>1. PICK g : Flattens(g, f, HitRecords) /\ FlattenSeq(f) = g[Len(f)]
      BY <1>1, FlattenIs
    <3>2. Len(f) \in 0 .. Len(f)
      BY <1>1, <1>2
    <3> QED
      BY <3>1, <3>2 DEF Flattens
  <2>5. <<h>> \in Seq(HitRecords)
    OBVIOUS
  <2> HIDE DEF m, d
  <2>6. FlattenSeq(f) \o (l \o <<h>>) = (FlattenSeq(f) \o l) \o <<h>>
    <3> DEFINE one == <<h>>
               a == FlattenSeq(f)
    <3>1. one \in Seq(HitRecords) /\ a \in Seq(HitRecords)
      BY <2>4, <2>5
    <3> HIDE DEF one, a
    <3>3. l \in Seq(HitRecords)
      BY <1>1
    <3>2. (a \o l) \o one = a \o (l \o one)
      BY ONLY <3>1, <3>3, ConcatAssociative, SMT
    <3> QED
      BY <3>2 DEF one, a
  <2> QED
    BY <2>1, <2>2, <2>3, <2>6
<1> HIDE DEF m
<1>7. d \in Seq(Seq(HitRecords)) /\ Len(d) = n /\ d[n] = m /\ \A r \in 1 .. n - 1 : d[r] = c[r]
  BY <1>1, <1>2, <1>4
<1> HIDE DEF d
<1>8. ASSUME NEW r \in 1 .. n
      PROVE  d[r] # <<>> /\ \A k \in 1 .. Len(d[r]) - 1 : Follows(d[r][k], d[r][k + 1], tolerance)
  <2>1. CASE r \in 1 .. n - 1
    <3>1. d[r] = c[r]
      BY <1>7, <2>1
    <3> QED
      BY <1>0, <1>8, <3>1
  <2>2. CASE r = n
    <3>1. d[r] = m
      BY <1>7, <2>2
    <3>2. ASSUME NEW k \in 1 .. Len(m) - 1 PROVE Follows(m[k], m[k + 1], tolerance)
      <4>1. k \in 1 .. Len(l) /\ m[k] = l[k]
        BY <1>3, <1>4
      <4>2. CASE k = Len(l)
        <5>1. m[k + 1] = h /\ m[k] = Last(l)
          BY <1>3, <1>4, <4>1, <4>2
        <5> QED
          BY <5>1 DEF l
      <4>3. CASE k # Len(l)
        <5>1. k \in 1 .. Len(l) - 1 /\ m[k + 1] = l[k + 1]
          BY <1>3, <1>4, <4>1, <4>3
        <5>2. l = c[n]
          BY <1>1
        <5>3. Follows(c[n][k], c[n][k + 1], tolerance)
          BY <1>0, <1>2, <5>1, <5>2
        <5> QED
          BY <4>1, <5>1, <5>2, <5>3
      <4> QED
        BY <4>2, <4>3
    <3> QED
      BY <1>5, <3>1, <3>2
  <2> QED
    BY <1>2, <1>8, <2>1, <2>2
<1>9. ASSUME NEW r \in 1 .. n - 1 PROVE ~Follows(Last(d[r]), d[r + 1][1], tolerance)
  <2>1. d[r] = c[r] /\ ~Follows(Last(c[r]), c[r + 1][1], tolerance)
    BY <1>0, <1>7
  <2>2. d[r + 1][1] = c[r + 1][1]
    <3>1. CASE r + 1 \in 1 .. n - 1
      BY <1>7, <3>1
    <3>2. CASE r + 1 = n
      BY <1>1, <1>5, <1>7, <3>2
    <3> QED
      BY <1>2, <3>1, <3>2
  <2> QED
    BY <2>1, <2>2
<1>10. WellChained(d, tolerance)
  BY <1>7, <1>8, <1>9 DEF WellChained, ChainLists
<1> QED
  BY <1>6, <1>10 DEF d, m, l, f

\* chains() loses no hit and breaks where a stream does not follow.
LEMMA ChainsAre ==
  ASSUME NEW q \in Seq(HitRecords), NEW tolerance, \A i, j \in 1 .. Len(q) : i < j => q[i].source < q[j].source
  PROVE  WellChained(chains(q, tolerance), tolerance) /\ FlattenSeq(chains(q, tolerance)) = q
<1> DEFINE n == Len(q)
<1>1. chains(q, tolerance) = Strung(q, tolerance)
  BY BySourceSame DEF chains, Strung
<1>2. PICK c \in [0 .. n -> ChainLists] :
        c[0] = <<>> /\ (\A k \in 1 .. n : c[k] = Chained(c[k - 1], q[k], tolerance)) /\ Strung(q, tolerance) = c[n]
  BY ChainsFold
<1>3. n \in Nat /\ \A k \in 1 .. n : q[k] \in HitRecords
  OBVIOUS
<1> DEFINE S == {k \in 0 .. n : WellChained(c[k], tolerance) /\ FlattenSeq(c[k]) = SubSeq(q, 1, k)}
<1>4. 0 \in S
  <2>1. <<>> \in ChainLists /\ Len(<<>>) = 0
    BY DEF ChainLists
  <2>2. WellChained(<<>>, tolerance)
    BY <2>1 DEF WellChained
  <2>3. FlattenSeq(<<>>) = <<>>
    BY DEF FlattenSeq
  <2>4. SubSeq(q, 1, 0) = <<>> /\ 0 \in 0 .. n
    BY <1>3
  <2> QED
    BY <1>2, <2>2, <2>3, <2>4
<1>5. \A k \in 0 .. n - 1 : k \in S => k + 1 \in S
  <2> SUFFICES ASSUME NEW k \in 0 .. n - 1, k \in S PROVE k + 1 \in S
    OBVIOUS
  <2> DEFINE h == q[k + 1]
             d == c[k]
  <2>1. k + 1 \in 1 .. n /\ (k + 1) - 1 = k /\ k + 1 \in 0 .. n /\ k \in 0 .. n
    BY <1>3
  <2>2. c[k + 1] = Chained(d, h, tolerance) /\ h \in HitRecords
    BY <1>2, <1>3, <2>1
  <2>3. WellChained(d, tolerance) /\ FlattenSeq(d) = SubSeq(q, 1, k)
    OBVIOUS
  <2>4. SubSeq(q, 1, k) \o <<h>> = SubSeq(q, 1, k + 1)
    <3> DEFINE a == SubSeq(q, 1, k)
    <3>1. a \in Seq(HitRecords) /\ Len(a) = k /\ \A i \in 1 .. k : a[i] = q[i]
      BY <1>3, <2>1
    <3>2. SubSeq(q, 1, k + 1) = [i \in 1 .. k + 1 |-> q[i]]
      BY <1>3, <2>1
    <3> HIDE DEF a, h
    <3>3. a \o <<h>> = Append(a, h)
      BY <2>2, <3>1
    <3>4. Append(a, h) = [i \in 1 .. k + 1 |-> q[i]]
      BY <2>1, <2>2, <3>1 DEF h
    <3> QED
      BY <3>2, <3>3, <3>4 DEF a
  <2> HIDE DEF h, d
  <2>5. CASE d # <<>> /\ Follows(Last(Last(d)), h, tolerance)
    <3>1. Chained(d, h, tolerance) = Append(Front(d), Append(Last(d), h))
      BY <2>5 DEF Chained
    <3>2. WellChained(Append(Front(d), Append(Last(d), h)), tolerance)
          /\ FlattenSeq(Append(Front(d), Append(Last(d), h))) = FlattenSeq(d) \o <<h>>
      BY <2>2, <2>3, <2>5, ChainContinued
    <3> QED
      BY <2>1, <2>2, <2>3, <2>4, <3>1, <3>2
  <2>6. CASE ~(d # <<>> /\ Follows(Last(Last(d)), h, tolerance))
    <3>1. Chained(d, h, tolerance) = Append(d, <<h>>)
      BY <2>6 DEF Chained
    <3>2. WellChained(Append(d, <<h>>), tolerance) /\ FlattenSeq(Append(d, <<h>>)) = FlattenSeq(d) \o <<h>>
      BY <2>2, <2>3, <2>6, ChainBegun
    <3> QED
      BY <2>1, <2>2, <2>3, <2>4, <3>1, <3>2
  <2> QED
    BY <2>5, <2>6
<1>6. n \in S
  <2> HIDE DEF S
  <2>1. \A k \in 0 .. n : k \in S
    BY <1>3, <1>4, <1>5, UpTo
  <2> QED
    BY <1>3, <2>1
<1>7. SubSeq(q, 1, n) = q
  BY <1>3
<1> QED
  BY <1>1, <1>2, <1>6, <1>7

\* The members of a list, by their places.
LEMMA RangeOf ==
  ASSUME NEW E, NEW s \in Seq(E)
  PROVE  /\ DOMAIN s = 1 .. Len(s) /\ Len(s) \in Nat
         /\ \A e \in Range(s) : \E i \in 1 .. Len(s) : e = s[i]
         /\ \A i \in 1 .. Len(s) : s[i] \in Range(s) /\ s[i] \in E
<1>1. DOMAIN s = 1 .. Len(s) /\ Len(s) \in Nat /\ \A i \in 1 .. Len(s) : s[i] \in E
  OBVIOUS
<1> QED
  BY <1>1, Zenon DEF Range

\* SearchExact on all outputs, whatever the reference and the width of the maps.
LEMMA SearchIsExact ==
  ASSUME NEW outs \in Seq(Seq(Nat)), NEW reference \in Seq(Nat), NEW probes, NEW confirms
  PROVE  SearchExact(outs, reference, probes, confirms)
<1> DEFINE q == find_streams(outs, reference, probes, confirms)
           n == Len(outs)
           found(o) == /\ Len(outs[o]) >= CONFIRM_LENGTH
                       /\ is_distinctive(SubSeq(outs[o], 1, PROBE_LENGTH), MIN_PROBE_DISTINCT)
                       /\ is_distinctive(SubSeq(outs[o], 1, CONFIRM_LENGTH), MIN_DISTINCT)
                       /\ SubSeq(outs[o], 1, CONFIRM_LENGTH) \in Windows(reference, CONFIRM_LENGTH)
<1>1. HitsUpTo(q, n, outs, reference)
  BY HitsAre
<1> HIDE DEF q
<1>2. /\ q \in Seq(HitRecords)
      /\ \A i, j \in 1 .. Len(q) : i < j => q[i].source < q[j].source
      /\ \A i \in 1 .. Len(q) : /\ q[i].source \in 1 .. n /\ IsStream(outs[q[i].source], reference)
                                /\ Verbatim(q[i], q[i].source, outs[q[i].source], reference)
      /\ \A o \in 1 .. n : IsStream(outs[o], reference) => \E i \in 1 .. Len(q) : q[i].source = o
  BY <1>1 DEF HitsUpTo
<1>3. /\ \A h \in Range(q) : \E i \in 1 .. Len(q) : h = q[i]
      /\ \A i \in 1 .. Len(q) : q[i] \in Range(q)
      /\ DOMAIN outs = 1 .. n
  BY <1>2, RangeOf
<1>4. \A o \in 1 .. n : found(o) <=> IsStream(outs[o], reference)
  BY DEF IsStream
<1>5. {h.source : h \in Range(q)} = {o \in DOMAIN outs : found(o)}
  <2> HIDE DEF found
  <2>1. ASSUME NEW o \in {h.source : h \in Range(q)} PROVE o \in {p \in DOMAIN outs : found(p)}
    BY <1>2, <1>3, <1>4, <2>1
  <2>2. ASSUME NEW o \in {p \in DOMAIN outs : found(p)} PROVE o \in {h.source : h \in Range(q)}
    BY <1>2, <1>3, <1>4, <2>2
  <2> QED
    BY <2>1, <2>2
<1>6. \A h \in Range(q) :
        /\ h.target + h.length <= Len(reference) /\ h.length \in CONFIRM_LENGTH .. EXTEND_LENGTH
        /\ SubSeq(reference, h.target + 1, h.target + h.length) = SubSeq(outs[h.source], 1, h.length)
  BY <1>2, <1>3 DEF Verbatim
<1>7. ASSUME NEW tolerance \in {0, 1}
      PROVE  LET runs == chains(q, tolerance)
             IN  /\ FlattenSeq(runs) = q
                 /\ \A k \in 1 .. Len(runs) - 1 : ~Follows(Last(runs[k]), runs[k + 1][1], tolerance)
                 /\ \A r \in Range(runs), k \in 1 .. Len(q) - 1 :
                      k + 1 <= Len(r) => Follows(r[k], r[k + 1], tolerance)
  <2> DEFINE runs == chains(q, tolerance)
  <2>1. WellChained(runs, tolerance) /\ FlattenSeq(runs) = q
    BY <1>2, ChainsAre
  <2> HIDE DEF runs
  <2>2. /\ runs \in Seq(Seq(HitRecords))
        /\ \A r \in 1 .. Len(runs) - 1 : ~Follows(Last(runs[r]), runs[r + 1][1], tolerance)
        /\ \A r \in 1 .. Len(runs) : \A k \in 1 .. Len(runs[r]) - 1 : Follows(runs[r][k], runs[r][k + 1], tolerance)
    BY <2>1 DEF WellChained, ChainLists
  <2>3. ASSUME NEW r \in Range(runs), NEW k \in 1 .. Len(q) - 1, k + 1 <= Len(r)
        PROVE  Follows(r[k], r[k + 1], tolerance)
    <3>1. PICK i \in 1 .. Len(runs) : r = runs[i]
      BY <2>2, RangeOf
    <3>2. r \in Seq(HitRecords) /\ Len(r) \in Nat /\ Len(q) \in Nat
      BY <1>2, <2>2, <3>1
    <3>3. k \in 1 .. Len(r) - 1
      BY <2>3, <3>2
    <3> QED
      BY <2>2, <3>1, <3>3
  <2> QED
    BY <2>1, <2>2, <2>3 DEF runs
<1> QED
  BY <1>5, <1>6, <1>7 DEF SearchExact, q

-----------------------------------------------------------------------------
(* sdd1map.py: maps, and the graphics put together *)

\* The tagged places in order, and how many there are.
MarkPlaces(tagged) == InOrder(Marked(tagged))
HowMany(tagged) == Cardinality(Marked(tagged))

\* Neighbours that grow make all grow.
LEMMA Growing ==
  ASSUME NEW n \in Nat, NEW t \in [1 .. n -> Int], \A k \in 1 .. n - 1 : t[k] < t[k + 1]
  PROVE  \A i, j \in 1 .. n : i < j => t[i] < t[j]
<1> SUFFICES ASSUME NEW i \in 1 .. n PROVE \A j \in 1 .. n : i < j => t[i] < t[j]
  OBVIOUS
<1> DEFINE S == {d \in 0 .. n - i : d > 0 => t[i] < t[i + d]}
<1>1. 0 \in S /\ n - i \in Nat
  OBVIOUS
<1>2. \A d \in 0 .. (n - i) - 1 : d \in S => d + 1 \in S
  <2> SUFFICES ASSUME NEW d \in 0 .. (n - i) - 1, d \in S PROVE d + 1 \in S
    OBVIOUS
  <2>1. i + d \in 1 .. n - 1 /\ (i + d) + 1 = i + (d + 1) /\ i + d \in 1 .. n /\ (i + d) + 1 \in 1 .. n
    OBVIOUS
  <2>2. t[i + d] < t[i + (d + 1)] /\ t[i + d] \in Int /\ t[i + (d + 1)] \in Int /\ t[i] \in Int
    BY <2>1
  <2>3. t[i] <= t[i + d]
    <3>1. CASE d = 0
      BY <2>2, <3>1
    <3>2. CASE d # 0
      BY <2>2, <3>2
    <3> QED
      BY <3>1, <3>2
  <2> QED
    BY <2>2, <2>3
<1>3. \A d \in 0 .. n - i : d \in S
  <2> HIDE DEF S
  <2> QED
    BY <1>1, <1>2, UpTo
<1>4. ASSUME NEW j \in 1 .. n, i < j PROVE t[i] < t[j]
  <2>1. j - i \in 0 .. n - i /\ j - i > 0 /\ i + (j - i) = j
    BY <1>4
  <2> QED
    BY <1>3, <2>1
<1> QED
  BY <1>4

\* The markers are the tagged places in order.
LEMMA MarkersAre ==
  ASSUME NEW tagged \in Seq(Nat)
  PROVE  /\ HowMany(tagged) \in Nat /\ Marked(tagged) \in SUBSET Int /\ IsFiniteSet(Marked(tagged))
         /\ MarkPlaces(tagged) \in [1 .. HowMany(tagged) -> 1 .. Len(tagged)]
         /\ \A i, j \in 1 .. HowMany(tagged) : i < j => MarkPlaces(tagged)[i] < MarkPlaces(tagged)[j]
         /\ {MarkPlaces(tagged)[k] : k \in 1 .. HowMany(tagged)} = Marked(tagged)
         /\ \A k \in 1 .. HowMany(tagged) : tagged[MarkPlaces(tagged)[k]] - 1 \in Nat
         /\ find_markers(tagged) = [k \in 1 .. HowMany(tagged) |->
                                      [source |-> MarkPlaces(tagged)[k], target |-> tagged[MarkPlaces(tagged)[k]] - 1]]
<1> DEFINE K == Marked(tagged)
<1>1. K \in SUBSET (1 .. Len(tagged)) /\ Len(tagged) \in Nat /\ \A x \in K : tagged[x] \in Nat \ {0}
  BY DEF Marked
<1>2. IsFiniteSet(K) /\ K \in SUBSET Int
  <2>1. IsFiniteSet(1 .. Len(tagged))
    BY <1>1, FS_Interval
  <2> QED
    BY <1>1, <2>1, FS_Subset
<1> HIDE DEF K
<1>3. /\ Cardinality(K) \in Nat
      /\ InOrder(K) \in [1 .. Cardinality(K) -> K]
      /\ \A i, j \in 1 .. Cardinality(K) : i < j => InOrder(K)[i] < InOrder(K)[j]
      /\ \A x \in K : \E i \in 1 .. Cardinality(K) : InOrder(K)[i] = x
  BY <1>2, OrderIs
<1> DEFINE s == InOrder(K)
           n == Cardinality(K)
<1> HIDE DEF s, n
<1>4. n \in Nat /\ s \in [1 .. n -> K] /\ (\A i, j \in 1 .. n : i < j => s[i] < s[j]) /\ \A x \in K : \E i \in 1 .. n : s[i] = x
  BY <1>3 DEF s, n
<1>5. {s[k] : k \in 1 .. n} = K
  BY <1>4
<1>6. s \in [1 .. n -> 1 .. Len(tagged)] /\ \A k \in 1 .. n : tagged[s[k]] - 1 \in Nat
  <2>1. \A k \in 1 .. n : s[k] \in K
    BY <1>4
  <2>2. \A k \in 1 .. n : s[k] \in 1 .. Len(tagged)
    BY <1>1, <2>1
  <2>3. s \in [1 .. n -> 1 .. Len(tagged)]
    BY <1>4, <2>2
  <2>4. ASSUME NEW k \in 1 .. n PROVE tagged[s[k]] - 1 \in Nat
    <3>1. tagged[s[k]] \in Nat \ {0}
      BY <1>1, <2>1
    <3> QED
      BY <3>1
  <2> QED
    BY <2>3, <2>4
<1>7. MarkPlaces(tagged) = s /\ HowMany(tagged) = n
  BY DEF MarkPlaces, HowMany, s, n, K
<1>8. find_markers(tagged) = [k \in 1 .. HowMany(tagged) |->
                                      [source |-> MarkPlaces(tagged)[k], target |-> tagged[MarkPlaces(tagged)[k]] - 1]]
  BY DEF find_markers, MarkPlaces, HowMany
<1>9. Marked(tagged) \in SUBSET Int /\ IsFiniteSet(Marked(tagged)) /\ Marked(tagged) = K
  BY <1>2 DEF K
<1> QED
  BY <1>4, <1>5, <1>6, <1>7, <1>8, <1>9

\* Streams side by side, from t[1] to t[m + 1].
IsMap(e, m, src, t) ==
  /\ m \in Nat /\ src \in [1 .. m -> Nat] /\ t \in [1 .. m + 1 -> Nat]
  /\ \A i, j \in 1 .. m : i < j => src[i] < src[j]
  /\ \A i, j \in 1 .. m + 1 : i < j => t[i] < t[j]
  /\ e = [k \in 1 .. m |-> Hit(src[k], t[k], t[k + 1] - t[k])]

\* Where they start, and where the last of them ends.
Starts(tagged, size) ==
  [k \in 1 .. HowMany(tagged) + 1 |-> IF k <= HowMany(tagged) THEN tagged[MarkPlaces(tagged)[k]] - 1 ELSE size]

\* A map of the markers that is not refused has its streams side by side.
LEMMA MapBuilt ==
  ASSUME NEW tagged \in Seq(Nat), NEW size \in Nat, ~build_map(tagged, size).refused
  PROVE  IsMap(build_map(tagged, size).entries, HowMany(tagged), MarkPlaces(tagged), Starts(tagged, size))
<1> DEFINE m == HowMany(tagged)
           src == MarkPlaces(tagged)
           t == Starts(tagged, size)
           markers == find_markers(tagged)
           e == build_map(tagged, size).entries
           after(k) == IF k < Len(markers) THEN markers[k + 1].target ELSE size
<1>1. /\ m \in Nat /\ src \in [1 .. m -> 1 .. Len(tagged)]
      /\ \A i, j \in 1 .. m : i < j => src[i] < src[j]
      /\ \A k \in 1 .. m : tagged[src[k]] - 1 \in Nat
      /\ markers = [k \in 1 .. m |-> [source |-> src[k], target |-> tagged[src[k]] - 1]]
  BY MarkersAre
<1>2. ~MapRefused(markers, size)
  BY DEF build_map
<1>3. e = [k \in DOMAIN markers |->
             Hit(markers[k].source, markers[k].target,
                 IF after(k) = UnknownLength THEN UnknownLength ELSE after(k) - markers[k].target)]
  BY DEF build_map
<1>4. t = [k \in 1 .. m + 1 |-> IF k <= m THEN tagged[src[k]] - 1 ELSE size]
  BY DEF Starts
<1> HIDE DEF m, src, t, markers, e
<1>5. Len(markers) = m /\ DOMAIN markers = 1 .. m /\ \A k \in 1 .. m : markers[k].source = src[k] /\ markers[k].target = t[k]
  BY <1>1, <1>4
<1>6. t \in [1 .. m + 1 -> Nat] /\ t[m + 1] = size
  BY <1>1, <1>4
<1>7. \A k \in 1 .. (m + 1) - 1 : t[k] < t[k + 1]
  <2> SUFFICES ASSUME NEW k \in 1 .. m PROVE t[k] < t[k + 1]
    BY <1>1
  <2>1. t[k] \in Nat /\ t[k + 1] \in Nat
    BY <1>1, <1>6
  <2>2. CASE k < m
    <3>1. k \in 1 .. m - 1 /\ k + 1 \in 1 .. m
      BY <1>1, <2>2
    <3>2. ~(markers[k].target >= markers[k + 1].target)
      BY <1>2, <1>5, <3>1 DEF MapRefused
    <3> QED
      BY <1>5, <2>1, <3>1, <3>2
  <2>3. CASE k = m
    <3>1. markers # <<>> /\ Last(markers) = markers[m]
      BY <1>1, <1>5, <2>3 DEF Last
    <3>2. size # UnknownLength
      BY DEF UnknownLength
    <3>3. ~(size <= Last(markers).target)
      BY <1>2, <3>1, <3>2 DEF MapRefused
    <3>4. Last(markers).target = t[m]
      BY <1>5, <2>3, <3>1
    <3> QED
      BY <1>6, <2>1, <2>3, <3>3, <3>4
  <2> QED
    BY <1>1, <2>2, <2>3
<1>8. \A i, j \in 1 .. m + 1 : i < j => t[i] < t[j]
  <2>1. m + 1 \in Nat /\ t \in [1 .. m + 1 -> Int]
    BY <1>1, <1>6
  <2> QED
    BY <1>7, <2>1, Growing
<1>9. \A k \in 1 .. m : after(k) = t[k + 1] /\ after(k) # UnknownLength
  <2> SUFFICES ASSUME NEW k \in 1 .. m PROVE after(k) = t[k + 1] /\ after(k) # UnknownLength
    OBVIOUS
  <2>1. after(k) = t[k + 1]
    <3>1. CASE k < m
      BY <1>1, <1>5, <3>1
    <3>2. CASE k = m
      BY <1>1, <1>5, <1>6, <3>2
    <3> QED
      BY <1>1, <3>1, <3>2
  <2>2. t[k + 1] \in Nat
    BY <1>1, <1>6
  <2> QED
    BY <2>1, <2>2 DEF UnknownLength
<1>10. e = [k \in 1 .. m |-> Hit(src[k], t[k], t[k + 1] - t[k])]
  <2> DEFINE f == [k \in DOMAIN markers |->
             Hit(markers[k].source, markers[k].target,
                 IF after(k) = UnknownLength THEN UnknownLength ELSE after(k) - markers[k].target)]
             g == [k \in 1 .. m |-> Hit(src[k], t[k], t[k + 1] - t[k])]
  <2>1. ASSUME NEW k \in 1 .. m PROVE f[k] = g[k]
    <3> DEFINE a == after(k)
    <3>1. a = t[k + 1] /\ a # UnknownLength
      BY <1>9
    <3> HIDE DEF a
    <3>2. f[k] = Hit(markers[k].source, markers[k].target, IF a = UnknownLength THEN UnknownLength ELSE a - markers[k].target)
      BY <1>5 DEF a
    <3>3. f[k] = Hit(src[k], t[k], a - t[k])
      BY <1>5, <3>1, <3>2
    <3> QED
      BY <3>1, <3>3
  <2>2. DOMAIN f = 1 .. m /\ DOMAIN g = 1 .. m
    BY <1>5
  <2> HIDE DEF f, g
  <2>3. f = g
    <3>1. f = [k \in DOMAIN f |-> f[k]] /\ g = [k \in DOMAIN g |-> g[k]]
      BY DEF f, g
    <3> QED
      BY <2>1, <2>2, <3>1
  <2> QED
    BY <1>3, <2>3 DEF f, g
<1>11. src \in [1 .. m -> Nat]
  BY <1>1
<1>12. IsMap(e, m, src, t)
  BY <1>1, <1>6, <1>8, <1>10, <1>11 DEF IsMap
<1> QED
  BY <1>12 DEF e, m, src, t

\* A map whose end is not known: the streams but the last are side by side.
LEMMA MapPlain ==
  ASSUME NEW tagged \in Seq(Nat), ~build_map(tagged, UnknownLength).refused, HowMany(tagged) > 0
  PROVE  /\ build_map(tagged, UnknownLength).entries # <<>>
         /\ Last(build_map(tagged, UnknownLength).entries).target = tagged[MarkPlaces(tagged)[HowMany(tagged)]] - 1
         /\ Last(build_map(tagged, UnknownLength).entries).length = UnknownLength
         /\ IsMap(Front(build_map(tagged, UnknownLength).entries), HowMany(tagged) - 1,
                  [k \in 1 .. HowMany(tagged) - 1 |-> MarkPlaces(tagged)[k]],
                  [k \in 1 .. (HowMany(tagged) - 1) + 1 |-> tagged[MarkPlaces(tagged)[k]] - 1])
<1> DEFINE m == HowMany(tagged)
           src == MarkPlaces(tagged)
           markers == find_markers(tagged)
           e == build_map(tagged, UnknownLength).entries
           after(k) == IF k < Len(markers) THEN markers[k + 1].target ELSE UnknownLength
           t == [k \in 1 .. m |-> tagged[src[k]] - 1]
           E == [source : Nat, target : Nat, length : Int]
<1>1. /\ m \in Nat \ {0} /\ src \in [1 .. m -> 1 .. Len(tagged)]
      /\ \A i, j \in 1 .. m : i < j => src[i] < src[j]
      /\ \A k \in 1 .. m : tagged[src[k]] - 1 \in Nat
      /\ markers = [k \in 1 .. m |-> [source |-> src[k], target |-> tagged[src[k]] - 1]]
  BY MarkersAre
<1>2. ~MapRefused(markers, UnknownLength)
  BY DEF build_map
<1>3. e = [k \in DOMAIN markers |->
             Hit(markers[k].source, markers[k].target,
                 IF after(k) = UnknownLength THEN UnknownLength ELSE after(k) - markers[k].target)]
  BY DEF build_map
<1> HIDE DEF m, src, markers, e
<1>4. t \in [1 .. m -> Nat]
  BY <1>1
<1>5. Len(markers) = m /\ DOMAIN markers = 1 .. m /\ \A k \in 1 .. m : markers[k].source = src[k] /\ markers[k].target = t[k]
  BY <1>1
<1> HIDE DEF t
<1>6. \A k \in 1 .. m - 1 : t[k] < t[k + 1]
  <2> SUFFICES ASSUME NEW k \in 1 .. m - 1 PROVE t[k] < t[k + 1]
    OBVIOUS
  <2>1. k \in 1 .. m /\ k + 1 \in 1 .. m
    BY <1>1
  <2>2. ~(markers[k].target >= markers[k + 1].target)
    BY <1>2, <1>5 DEF MapRefused
  <2>3. t[k] \in Nat /\ t[k + 1] \in Nat
    BY <1>4, <2>1
  <2> QED
    BY <1>5, <2>1, <2>2, <2>3
<1>7. \A i, j \in 1 .. m : i < j => t[i] < t[j]
  <2>1. m \in Nat /\ t \in [1 .. m -> Int]
    BY <1>1, <1>4
  <2> QED
    BY <1>6, <2>1, Growing
<1>8. ASSUME NEW k \in 1 .. m
      PROVE  e[k] = Hit(src[k], t[k], IF k < m THEN t[k + 1] - t[k] ELSE UnknownLength)
  <2> DEFINE a == after(k)
  <2>1. a = IF k < m THEN t[k + 1] ELSE UnknownLength
    <3>1. k < m => k + 1 \in 1 .. m
      BY <1>1
    <3> QED
      BY <1>5, <3>1
  <2>2. k < m => t[k + 1] \in Nat
    <3>1. k < m => k + 1 \in 1 .. m
      BY <1>1
    <3> QED
      BY <1>4, <3>1
  <2> HIDE DEF a
  <2>3. e[k] = Hit(markers[k].source, markers[k].target, IF a = UnknownLength THEN UnknownLength ELSE a - markers[k].target)
    BY <1>3, <1>5 DEF a
  <2>4. e[k] = Hit(src[k], t[k], IF a = UnknownLength THEN UnknownLength ELSE a - t[k])
    BY <1>5, <2>3
  <2>5. (a = UnknownLength) <=> ~(k < m)
    BY <2>1, <2>2 DEF UnknownLength
  <2> QED
    BY <2>1, <2>4, <2>5
<1>9. e \in Seq(E) /\ Len(e) = m
  <2>1. e = [k \in 1 .. m |-> e[k]]
    BY <1>3, <1>5
  <2>2. ASSUME NEW k \in 1 .. m PROVE e[k] \in E
    <3>1. src[k] \in Nat /\ t[k] \in Nat
      BY <1>1, <1>4
    <3>2. k < m => t[k + 1] \in Nat
      <4>1. k < m => k + 1 \in 1 .. m
        BY <1>1
      <4> QED
        BY <1>4, <4>1
    <3> DEFINE l == IF k < m THEN t[k + 1] - t[k] ELSE UnknownLength
    <3>3. l \in Int
      BY <3>1, <3>2 DEF UnknownLength
    <3>4. e[k] = Hit(src[k], t[k], l)
      BY <1>8
    <3> HIDE DEF l
    <3> QED
      BY <3>1, <3>3, <3>4 DEF Hit
  <2>3. m \in Nat
    BY <1>1
  <2> HIDE DEF E
  <2> QED
    BY <2>1, <2>2, <2>3
<1>10. e # <<>>
  BY <1>1, <1>9
<1>11. /\ Front(e) \in Seq(E) /\ Last(e) = e[m] /\ Len(Front(e)) = m - 1
       /\ \A i \in 1 .. m - 1 : Front(e)[i] = e[i]
  <2> HIDE DEF E
  <2> QED
    BY <1>9, <1>10, FrontLast
<1>12. Last(e).target = t[m] /\ Last(e).length = UnknownLength
  <2>1. m \in 1 .. m /\ ~(m < m)
    BY <1>1
  <2>2. e[m] = Hit(src[m], t[m], UnknownLength)
    BY <1>8, <2>1
  <2> QED
    BY <1>11, <2>2 DEF Hit
<1>13. (m - 1) + 1 = m /\ m - 1 \in Nat
  BY <1>1
<1> DEFINE f == [k \in 1 .. m - 1 |-> src[k]]
<1>14. Front(e) = [k \in 1 .. m - 1 |-> Hit(f[k], t[k], t[k + 1] - t[k])]
  <2>1. Front(e) = [k \in 1 .. m - 1 |-> Front(e)[k]]
    BY <1>11
  <2>2. ASSUME NEW k \in 1 .. m - 1 PROVE Front(e)[k] = Hit(f[k], t[k], t[k + 1] - t[k])
    <3>1. k \in 1 .. m /\ k < m
      BY <1>1
    <3>2. e[k] = Hit(src[k], t[k], t[k + 1] - t[k])
      BY <1>8, <3>1
    <3> QED
      BY <1>11, <3>2
  <2> HIDE DEF f
  <2> DEFINE g == Front(e)
  <2>3. g = [k \in 1 .. m - 1 |-> g[k]] /\ \A k \in 1 .. m - 1 : g[k] = Hit(f[k], t[k], t[k + 1] - t[k])
    BY <2>1, <2>2
  <2> HIDE DEF g
  <2>4. g = [k \in 1 .. m - 1 |-> Hit(f[k], t[k], t[k + 1] - t[k])]
    BY <2>3
  <2> QED
    BY <2>4 DEF g
<1>15. f \in [1 .. m - 1 -> Nat] /\ \A i, j \in 1 .. m - 1 : i < j => f[i] < f[j]
  BY <1>1
<1> HIDE DEF f
<1>16. IsMap(Front(e), m - 1, f, t)
  BY <1>4, <1>7, <1>13, <1>14, <1>15 DEF IsMap
<1>17. t = [k \in 1 .. (m - 1) + 1 |-> tagged[src[k]] - 1] /\ t[m] = tagged[src[m]] - 1
  BY <1>1, <1>13 DEF t
<1> QED
  BY <1>10, <1>12, <1>16, <1>17 DEF e, m, src, f

\* What a build puts together: a byte for each place.
Blobs(size) == [0 .. size - 1 -> Int \X Int]
Gathered(base, q) == FoldLeft(Placed, base, q)

\* A stream is put into graphics, which stay of their size.
LEMMA PlacedTyped ==
  ASSUME NEW size, NEW blob \in Blobs(size), NEW h \in HitRecords
  PROVE  Placed(blob, h) \in Blobs(size)
<1>1. h.source \in Int /\ h.target \in Int /\ h.length \in Int
  BY DEF HitRecords
<1>2. DOMAIN blob = 0 .. size - 1 /\ \A n \in 0 .. size - 1 : blob[n] \in Int \X Int
  BY DEF Blobs
<1>3. ASSUME NEW n \in 0 .. size - 1
      PROVE  (IF n \in h.target .. h.target + h.length - 1 THEN <<h.source, n - h.target>> ELSE blob[n]) \in Int \X Int
  BY <1>1, <1>2
<1> QED
  BY <1>2, <1>3 DEF Placed, Blobs

\* The graphics before any stream, and after each of them.
Gathers(c, size, base, q) ==
  /\ c \in [0 .. Len(q) -> Blobs(size)]
  /\ c[0] = base
  /\ \A k \in 1 .. Len(q) : c[k] = Placed(c[k - 1], q[k])
  /\ Gathered(base, q) = c[Len(q)]

\* A build goes through such steps.
LEMMA PlacedFold ==
  ASSUME NEW size, NEW base \in Blobs(size), NEW q \in Seq(HitRecords)
  PROVE  \E c : Gathers(c, size, base, q)
<1> DEFINE n == Len(q)
           H == [k \in 1 .. n |-> [d \in Blobs(size) |-> Placed(d, q[k])]]
<1>1. n \in Nat /\ DOMAIN q = 1 .. n /\ \A k \in 1 .. n : q[k] \in HitRecords
  OBVIOUS
<1>2. base \in Blobs(size)
  OBVIOUS
<1>3. \A d \in Blobs(size) : \A k \in 1 .. n : Placed(d, q[k]) \in Blobs(size)
  BY <1>1, PlacedTyped
<1>4. H \in [1 .. n -> [Blobs(size) -> Blobs(size)]]
  BY <1>3
<1>5. \A k \in 1 .. n, d \in Blobs(size) : H[k][d] = Placed(d, q[k])
  OBVIOUS
<1> DEFINE Next(r) == [s \in SUBSET (1 .. n) |-> IF s = {} THEN base ELSE Placed(r[s \ {Max(s)}], q[Max(s)])]
           iter == CHOOSE r : r = Next(r)
<1>6. Gathered(base, q) = iter[1 .. n]
  <2>1. Gathered(base, q) = MapThenFoldSet(LAMBDA x, y : Placed(y, x), base, LAMBDA i : q[i], LAMBDA s : Max(s), 1 .. n)
    BY <1>1 DEF FoldLeft, Gathered
  <2> QED
    BY <2>1 DEF MapThenFoldSet
<1>7. iter = Next(iter)
  <2>1. PICK g \in [SUBSET (1 .. n) -> Blobs(size)] : Folds(g, n, base, H)
    <3> HIDE DEF H
    <3> QED
      BY <1>1, <1>2, <1>4, FoldExists
  <2>2. ASSUME NEW s \in SUBSET (1 .. n), s # {}
        PROVE  H[Max(s)][g[s \ {Max(s)}]] = Placed(g[s \ {Max(s)}], q[Max(s)])
    <3>1. Max(s) \in 1 .. n
      BY <1>1, <2>2, MaxWithin
    <3>2. s \ {Max(s)} \in SUBSET (1 .. n)
      OBVIOUS
    <3>3. g[s \ {Max(s)}] \in Blobs(size)
      BY <3>2
    <3> QED
      BY <1>5, <3>1, <3>3
  <2>3. g = Next(g)
    <3> HIDE DEF H
    <3>1. g = [s \in SUBSET (1 .. n) |-> IF s = {} THEN base ELSE H[Max(s)][g[s \ {Max(s)}]]]
      BY <2>1 DEF Folds
    <3> QED
      BY <2>2, <3>1
  <2> HIDE DEF Next
  <2> QED
    BY <2>3
<1> DEFINE c == [k \in 0 .. n |-> iter[1 .. k]]
<1>8. c[0] = base
  <2>1. 1 .. 0 = {} /\ {} \in SUBSET (1 .. n) /\ 0 \in 0 .. n
    BY <1>1
  <2>2. Next(iter)[{}] = base
    BY <2>1
  <2>3. c[0] = iter[1 .. 0]
    BY <2>1
  <2> HIDE DEF Next, iter, c
  <2> QED
    BY <1>7, <2>1, <2>2, <2>3, Zenon
<1>9. ASSUME NEW k \in 1 .. n PROVE c[k] = Placed(c[k - 1], q[k])
  <2>1. Max(1 .. k) = k
    <3>1. 1 .. k \in SUBSET Int /\ k \in 1 .. k /\ \A y \in 1 .. k : y <= k
      OBVIOUS
    <3> QED
      BY <3>1, MaxIs
  <2>2. (1 .. k) \ {k} = 1 .. k - 1 /\ 1 .. k # {} /\ 1 .. k \in SUBSET (1 .. n) /\ k \in 0 .. n /\ k - 1 \in 0 .. n
    <3> HIDE DEF n, iter, Next, c
    <3>1. n \in Nat /\ k \in Nat /\ 1 <= k /\ k <= n
      BY <1>1
    <3>2. k \in 0 .. n /\ k - 1 \in 0 .. n /\ 1 .. k \in SUBSET (1 .. n) /\ k \in 1 .. k
      BY <3>1
    <3>3. (1 .. k) \ {k} = 1 .. k - 1
      BY <3>1
    <3> QED
      BY <3>2, <3>3
  <2>3. Next(iter)[1 .. k] = Placed(iter[1 .. k - 1], q[k])
    <3> HIDE DEF iter
    <3> QED
      BY <2>1, <2>2
  <2> HIDE DEF Next, iter
  <2> QED
    BY <1>7, <2>2, <2>3
<1>10. Gathered(base, q) = c[n]
  <2>1. n \in 0 .. n
    BY <1>1
  <2> QED
    BY <1>6, <2>1
<1> HIDE DEF c, H, Next, iter
<1>11. \A k \in 0 .. n : c[k] \in Blobs(size)
  <2> DEFINE S == {k \in 0 .. n : c[k] \in Blobs(size)}
  <2>1. 0 \in S
    BY <1>1, <1>2, <1>8
  <2>2. ASSUME NEW k \in 0 .. n - 1, k \in S PROVE k + 1 \in S
    <3>1. k + 1 \in 1 .. n /\ (k + 1) - 1 = k
      BY <1>1
    <3>2. c[k + 1] = Placed(c[k], q[k + 1])
      BY <1>9, <3>1
    <3> QED
      BY <1>1, <1>3, <2>2, <3>1, <3>2
  <2>3. \A k \in 0 .. n : k \in S
    <3> HIDE DEF S, n
    <3> QED
      BY <1>1, <2>1, <2>2, UpTo
  <2> QED
    BY <2>3
<1>12. c = [k \in 0 .. n |-> c[k]]
  BY DEF c
<1>13. c \in [0 .. n -> Blobs(size)]
  BY <1>11, <1>12
<1> QED
  BY <1>8, <1>9, <1>10, <1>13 DEF n, Gathers

\* A map put together: nothing ahead of the first stream, and then each byte
\* from the stream it is in.
LEMMA RebuildIs ==
  ASSUME NEW e, NEW m, NEW src, NEW t, IsMap(e, m, src, t), NEW g, GraphicsSize(e, g) = t[m + 1]
  PROVE  /\ ~rebuild(e, g).refused /\ DOMAIN rebuild(e, g).blob = 0 .. t[m + 1] - 1
         /\ \A n \in 0 .. t[m + 1] - 1 : n < t[1] => rebuild(e, g).blob[n] = Blank
         /\ \A n \in 0 .. t[m + 1] - 1 : \A k \in 1 .. m :
              t[k] <= n /\ n < t[k + 1] => rebuild(e, g).blob[n] = <<src[k], n - t[k]>>
<1> DEFINE size == t[m + 1]
           base == [n \in 0 .. size - 1 |-> Blank]
<1>1. /\ m \in Nat /\ src \in [1 .. m -> Nat] /\ t \in [1 .. m + 1 -> Nat]
      /\ \A i, j \in 1 .. m + 1 : i < j => t[i] < t[j]
      /\ e = [k \in 1 .. m |-> Hit(src[k], t[k], t[k + 1] - t[k])]
  BY DEF IsMap
<1>2. size \in Nat
  BY <1>1
<1>3. ASSUME NEW k \in 1 .. m
      PROVE  /\ k \in 1 .. m + 1 /\ k + 1 \in 1 .. m + 1 /\ t[k] \in Nat /\ t[k + 1] \in Nat /\ src[k] \in Nat
             /\ t[k] < t[k + 1] /\ t[k + 1] <= size
             /\ e[k].source = src[k] /\ e[k].target = t[k] /\ e[k].length = t[k + 1] - t[k]
             /\ e[k] = [source |-> src[k], target |-> t[k], length |-> t[k + 1] - t[k]]
             /\ e[k] \in HitRecords
  <2>1. k \in 1 .. m + 1 /\ k + 1 \in 1 .. m + 1 /\ m + 1 \in 1 .. m + 1 /\ k < k + 1
    BY <1>1
  <2>2. t[k] \in Nat /\ t[k + 1] \in Nat /\ src[k] \in Nat /\ t[k] < t[k + 1]
    BY <1>1, <2>1
  <2>3. t[k + 1] <= size
    <3>1. CASE k = m
      BY <1>2, <3>1
    <3>2. CASE k # m
      <4>1. k + 1 < m + 1
        BY <1>1, <3>2
      <4>2. t[k + 1] < t[m + 1]
        BY <1>1, <2>1, <4>1
      <4> QED
        BY <1>2, <2>2, <4>2
    <3> QED
      BY <3>1, <3>2
  <2>4. e[k] = [source |-> src[k], target |-> t[k], length |-> t[k + 1] - t[k]]
    BY <1>1 DEF Hit
  <2>5. t[k + 1] - t[k] \in Nat
    BY <2>2
  <2>6. e[k] \in HitRecords
    BY <2>2, <2>4, <2>5 DEF HitRecords
  <2> QED
    BY <2>1, <2>2, <2>3, <2>4, <2>6
<1> HIDE DEF size, base
<1>4. DOMAIN e = 1 .. m /\ e \in Seq(HitRecords) /\ Len(e) = m
  <2>1. DOMAIN e = 1 .. m /\ e = [k \in 1 .. m |-> e[k]]
    BY <1>1
  <2>2. \A k \in 1 .. m : e[k] \in HitRecords
    BY <1>3
  <2>3. m \in Nat
    BY <1>1
  <2> QED
    BY ONLY <2>1, <2>2, <2>3, SMT
<1>5. GraphicsSize(e, g) = size
  BY DEF size
<1>6. ~rebuild(e, g).refused /\ rebuild(e, g).blob = Gathered(base, e)
  <2>1. ~\E k \in DOMAIN e : e[k].length = UnknownLength
    BY <1>3, <1>4 DEF UnknownLength
  <2>2. ~\E k \in Known(e) : e[k].target + e[k].length > size
    <3>1. \A k \in Known(e) : k \in 1 .. m
      BY <1>4 DEF Known
    <3>2. ASSUME NEW k \in 1 .. m PROVE ~(e[k].target + e[k].length > size)
      <4>1. t[k] \in Nat /\ t[k + 1] \in Nat /\ t[k + 1] <= size /\ e[k].target = t[k] /\ e[k].length = t[k + 1] - t[k]
        BY <1>3
      <4>2. e[k].target + e[k].length = t[k + 1]
        BY <4>1
      <4> QED
        BY <1>2, <4>1, <4>2
    <3> QED
      BY <3>1, <3>2
  <2> QED
    BY <1>5, <2>1, <2>2 DEF rebuild, base, Gathered
<1>7. base \in Blobs(size)
  BY <1>2 DEF base, Blobs, Blank
<1>8. PICK b \in [0 .. m -> Blobs(size)] :
        b[0] = base /\ (\A k \in 1 .. m : b[k] = Placed(b[k - 1], e[k])) /\ Gathered(base, e) = b[m]
  <2>1. PICK b : Gathers(b, size, base, e)
    BY <1>4, <1>7, PlacedFold
  <2> QED
    BY <1>4, <2>1 DEF Gathers
<1> DEFINE Right(k) == /\ \A n \in 0 .. size - 1 : n < t[1] => b[k][n] = Blank
                       /\ \A n \in 0 .. size - 1 : \A j \in 1 .. k :
                            t[j] <= n /\ n < t[j + 1] => b[k][n] = <<src[j], n - t[j]>>
           S == {k \in 0 .. m : Right(k)}
<1>9. 0 \in S
  <2>1. 0 \in 0 .. m /\ b[0] = base /\ 1 .. 0 = {}
    BY <1>1, <1>8
  <2>2. \A n \in 0 .. size - 1 : base[n] = Blank
    BY DEF base
  <2> QED
    BY <2>1, <2>2
<1>10. \A k \in 0 .. m - 1 : k \in S => k + 1 \in S
  <2> SUFFICES ASSUME NEW k \in 0 .. m - 1, k \in S PROVE k + 1 \in S
    OBVIOUS
  <2>1. k + 1 \in 1 .. m /\ (k + 1) - 1 = k /\ k + 1 \in 0 .. m /\ k \in 0 .. m /\ (k + 1) + 1 \in 1 .. m + 1 /\ 1 \in 1 .. m + 1
    BY <1>1
  <2>2. b[k + 1] = Placed(b[k], e[k + 1]) /\ b[k] \in Blobs(size)
    BY <1>8, <2>1
  <2> DEFINE lo == t[k + 1]
             hi == t[(k + 1) + 1]
             s == src[k + 1]
  <2>3. lo \in Nat /\ hi \in Nat /\ lo < hi /\ e[k + 1].source = s /\ e[k + 1].target = lo /\ e[k + 1].length = hi - lo
    BY <1>3, <2>1
  <2>4. DOMAIN b[k] = 0 .. size - 1
    BY <2>2 DEF Blobs
  <2>5. t[1] \in Nat /\ t[1] <= lo
    <3>1. t[1] \in Nat /\ k + 1 \in 1 .. m + 1
      BY <1>1, <2>1
    <3>2. CASE k + 1 = 1
      BY <2>3, <3>2
    <3>3. CASE k + 1 # 1
      <4>1. 1 < k + 1
        BY <2>1, <3>3
      <4>2. t[1] < t[k + 1]
        BY <1>1, <2>1, <3>1, <4>1
      <4> QED
        BY <2>3, <3>1, <4>2
    <3> QED
      BY <3>2, <3>3
  <2> HIDE DEF lo, hi, s
  <2>6. ASSUME NEW n \in 0 .. size - 1
        PROVE  b[k + 1][n] = IF lo <= n /\ n < hi THEN <<s, n - lo>> ELSE b[k][n]
    <3>1. lo + (hi - lo) - 1 = hi - 1
      BY <2>3
    <3>2. n \in lo .. hi - 1 <=> lo <= n /\ n < hi
      BY <1>2, <2>3
    <3>3. b[k + 1][n] = IF n \in lo .. lo + (hi - lo) - 1 THEN <<s, n - lo>> ELSE b[k][n]
      BY <2>2, <2>3, <2>4 DEF Placed
    <3> QED
      BY <3>1, <3>2, <3>3
  <2>7. ASSUME NEW n \in 0 .. size - 1, n < t[1] PROVE b[k + 1][n] = Blank
    <3>1. ~(lo <= n)
      BY <1>2, <2>3, <2>5, <2>7
    <3>2. b[k][n] = Blank
      BY <2>7
    <3> QED
      BY <2>6, <3>1, <3>2
  <2>8. ASSUME NEW n \in 0 .. size - 1, NEW j \in 1 .. k + 1, t[j] <= n, n < t[j + 1]
        PROVE  b[k + 1][n] = <<src[j], n - t[j]>>
    <3>1. CASE j = k + 1
      <4>1. t[j] = lo /\ t[j + 1] = hi /\ src[j] = s
        BY <3>1 DEF lo, hi, s
      <4> QED
        BY <2>6, <2>8, <4>1
    <3>2. CASE j # k + 1
      <4>1. j \in 1 .. k /\ j \in 1 .. m /\ j + 1 \in 1 .. m + 1 /\ k + 1 \in 1 .. m + 1
        BY <1>1, <2>1, <3>2
      <4>2. b[k][n] = <<src[j], n - t[j]>>
        BY <2>8, <4>1
      <4>3. t[j + 1] <= lo
        <5>1. CASE j = k
          BY <2>3, <5>1 DEF lo
        <5>2. CASE j # k
          <6>1. j + 1 < k + 1
            BY <4>1, <5>2
          <6>2. t[j + 1] < t[k + 1] /\ t[j + 1] \in Nat
            BY <1>1, <4>1, <6>1
          <6> QED
            BY <2>3, <6>2 DEF lo
        <5> QED
          BY <5>1, <5>2
      <4>4. ~(lo <= n)
        <5>1. t[j + 1] \in Nat /\ n \in Int
          <6>1. n \in Int
            BY <1>2, <2>8
          <6>2. t[j + 1] \in Nat
            BY <1>1, <4>1
          <6> QED
            BY <6>1, <6>2
        <5> QED
          BY <2>3, <2>8, <4>3, <5>1
      <4> QED
        BY <2>6, <4>2, <4>4
    <3> QED
      BY <3>1, <3>2
  <2> QED
    BY <2>1, <2>7, <2>8
<1>11. m \in S
  <2> HIDE DEF S
  <2>1. \A k \in 0 .. m : k \in S
    BY <1>1, <1>9, <1>10, UpTo
  <2> QED
    BY <1>1, <2>1
<1>12. DOMAIN b[m] = 0 .. size - 1
  <2>1. m \in 0 .. m
    BY <1>1
  <2>2. b[m] \in Blobs(size)
    BY <1>8, <2>1
  <2> QED
    BY <2>2 DEF Blobs
<1> QED
  BY <1>6, <1>8, <1>11, <1>12 DEF size

\* A byte ahead of the streams is in none, and another is in the last stream
\* that starts at or before it.
LEMMA LastBefore ==
  ASSUME NEW e, NEW m, NEW src, NEW t, IsMap(e, m, src, t), NEW n \in 0 .. t[m + 1] - 1
  PROVE  \/ n < t[1] /\ {x \in Range(e) : x.target <= n} = {}
         \/ \E k \in 1 .. m :
              /\ t[k] <= n /\ n < t[k + 1] /\ {x \in Range(e) : x.target <= n} # {}
              /\ (CHOOSE x \in {y \in Range(e) : y.target <= n} :
                    \A f \in {y \in Range(e) : y.target <= n} : f.target <= x.target) = Hit(src[k], t[k], t[k + 1] - t[k])
<1> DEFINE of == {x \in Range(e) : x.target <= n}
           K == {k \in 1 .. m : t[k] <= n}
<1>1. /\ m \in Nat /\ t \in [1 .. m + 1 -> Nat]
      /\ \A i, j \in 1 .. m + 1 : i < j => t[i] < t[j]
      /\ e = [k \in 1 .. m |-> Hit(src[k], t[k], t[k + 1] - t[k])]
  BY DEF IsMap
<1>2. DOMAIN e = 1 .. m /\ \A k \in 1 .. m : e[k].target = t[k] /\ e[k] = Hit(src[k], t[k], t[k + 1] - t[k])
  BY <1>1 DEF Hit
<1>3. Range(e) = {e[k] : k \in 1 .. m}
  BY <1>2, Zenon DEF Range
<1>4. n \in Int /\ n < t[m + 1] /\ n >= 0 /\ t[m + 1] \in Nat
  <2>1. m + 1 \in 1 .. m + 1
    BY <1>1
  <2>2. t[m + 1] \in Nat
    BY <1>1, <2>1
  <2> QED
    BY <2>2
<1>5. CASE K = {}
  <2>1. of = {}
    BY <1>2, <1>3, <1>5
  <2>2. n < t[1]
    <3>1. CASE m = 0
      BY <1>4, <3>1
    <3>2. CASE m # 0
      <4>1. 1 \in 1 .. m /\ 1 \in 1 .. m + 1
        BY <1>1, <3>2
      <4>2. ~(t[1] <= n) /\ t[1] \in Nat
        BY <1>1, <1>5, <4>1
      <4> QED
        BY <1>4, <4>2
    <3> QED
      BY <3>1, <3>2
  <2> QED
    BY <2>1, <2>2
<1>6. CASE K # {}
  <2> DEFINE k == Max(K)
  <2>1. k \in K /\ \A j \in K : j <= k
    BY <1>1, <1>6, MaxWithin
  <2> HIDE DEF k
  <2>2. k \in 1 .. m /\ t[k] <= n /\ k + 1 \in 1 .. m + 1 /\ k \in 1 .. m + 1
    BY <1>1, <2>1
  <2>3. n < t[k + 1]
    <3>1. CASE k = m
      BY <1>4, <3>1
    <3>2. CASE k # m
      <4>1. k + 1 \in 1 .. m
        BY <1>1, <2>2, <3>2
      <4>2. k + 1 \notin K
        BY <2>1, <2>2
      <4>3. t[k + 1] \in Nat
        BY <1>1, <2>2
      <4> QED
        BY <1>4, <4>1, <4>2, <4>3
    <3> QED
      BY <3>1, <3>2
  <2>4. e[k] \in of
    BY <1>2, <1>3, <2>2
  <2>5. ASSUME NEW f \in of PROVE f.target <= e[k].target /\ (f # e[k] => f.target < e[k].target)
    <3>1. PICK j \in 1 .. m : f = e[j]
      BY <1>3
    <3>2. j \in K /\ j \in 1 .. m + 1 /\ f.target = t[j] /\ e[k].target = t[k]
      BY <1>1, <1>2, <2>2, <3>1
    <3>3. j <= k /\ t[j] \in Nat /\ t[k] \in Nat
      BY <1>1, <2>1, <2>2, <3>2
    <3>4. CASE j = k
      BY <3>1, <3>2, <3>3, <3>4
    <3>5. CASE j # k
      <4>1. j < k
        BY <2>2, <3>3, <3>5
      <4>2. t[j] < t[k]
        BY <1>1, <2>2, <3>2, <4>1
      <4> QED
        BY <3>2, <3>3, <4>2
    <3> QED
      BY <3>4, <3>5
  <2> DEFINE top == CHOOSE x \in of : \A f \in of : f.target <= x.target
  <2> HIDE DEF of
  <2>6. top \in of /\ \A f \in of : f.target <= top.target
    BY <2>4, <2>5
  <2> HIDE DEF top
  <2>7. top = e[k]
    <3>1. e[k].target <= top.target /\ top.target <= e[k].target /\ (top # e[k] => top.target < e[k].target)
      BY <2>4, <2>5, <2>6
    <3>2. e[k].target \in Nat
      BY <1>1, <1>2, <2>2
    <3>3. top.target \in Nat
      <4>1. PICK j \in 1 .. m : top = e[j]
        BY <1>3, <2>6 DEF of
      <4>2. j \in 1 .. m + 1
        BY <1>1
      <4> QED
        BY <1>1, <1>2, <4>1, <4>2
    <3> QED
      BY <3>1, <3>2, <3>3
  <2>8. top = Hit(src[k], t[k], t[k + 1] - t[k])
    BY <1>2, <2>2, <2>7
  <2> QED
    BY <2>2, <2>3, <2>4, <2>8 DEF top, of
<1> QED
  BY <1>5, <1>6

\* A byte is that of the last stream to start at or before it.
FromLast(v, e, n) ==
  v = IF {x \in Range(e) : x.target <= n} = {} THEN Blank
      ELSE LET last == CHOOSE x \in {y \in Range(e) : y.target <= n} :
                         \A f \in {y \in Range(e) : y.target <= n} : f.target <= x.target
           IN  <<last.source, n - last.target>>

\* What the whole graphics are.
LEMMA WholeIs ==
  ASSUME NEW e, NEW m, NEW src, NEW t, IsMap(e, m, src, t), NEW g, GraphicsSize(e, g) = t[m + 1],
         NEW n \in 0 .. t[m + 1] - 1
  PROVE  FromLast(rebuild(e, g).blob[n], e, n)
<1> DEFINE of == {x \in Range(e) : x.target <= n}
           top == CHOOSE x \in of : \A f \in of : f.target <= x.target
           b == rebuild(e, g).blob
<1>1. /\ \A i \in 0 .. t[m + 1] - 1 : i < t[1] => b[i] = Blank
      /\ \A i \in 0 .. t[m + 1] - 1 : \A k \in 1 .. m :
           t[k] <= i /\ i < t[k + 1] => b[i] = <<src[k], i - t[k]>>
  BY RebuildIs
<1>2. \/ n < t[1] /\ of = {}
      \/ \E k \in 1 .. m : t[k] <= n /\ n < t[k + 1] /\ of # {} /\ top = Hit(src[k], t[k], t[k + 1] - t[k])
  BY LastBefore
<1> HIDE DEF of, top, b
<1>3. CASE n < t[1] /\ of = {}
  BY <1>1, <1>3 DEF b, of, FromLast
<1>4. CASE \E k \in 1 .. m : t[k] <= n /\ n < t[k + 1] /\ of # {} /\ top = Hit(src[k], t[k], t[k + 1] - t[k])
  <2>1. PICK k \in 1 .. m : t[k] <= n /\ n < t[k + 1] /\ of # {} /\ top = Hit(src[k], t[k], t[k + 1] - t[k])
    BY <1>4
  <2>2. b[n] = <<src[k], n - t[k]>>
    BY <1>1, <2>1
  <2>3. top.source = src[k] /\ top.target = t[k]
    BY <2>1 DEF Hit
  <2>4. b[n] = IF of = {} THEN Blank ELSE <<top.source, n - top.target>>
    BY <2>1, <2>2, <2>3
  <2> QED
    BY <2>4 DEF b, of, top, FromLast
<1> QED
  BY <1>2, <1>3, <1>4

\* How large the graphics of a map are when that is not given.
LEMMA SizeLast ==
  ASSUME NEW e, NEW m, NEW src, NEW t, IsMap(e, m, src, t), m > 0
  PROVE  GraphicsSize(e, UnknownLength) = t[m + 1]
<1>1. /\ m \in Nat \ {0} /\ t \in [1 .. m + 1 -> Nat]
      /\ \A i, j \in 1 .. m + 1 : i < j => t[i] < t[j]
      /\ e = [k \in 1 .. m |-> Hit(src[k], t[k], t[k + 1] - t[k])]
  BY DEF IsMap
<1>2. DOMAIN e = 1 .. m /\ \A k \in 1 .. m : e[k].target = t[k] /\ e[k].length = t[k + 1] - t[k]
  BY <1>1 DEF Hit
<1>3. ASSUME NEW k \in 1 .. m PROVE e[k].length > 0 /\ t[k] \in Nat /\ t[k + 1] \in Nat
  <2>1. k \in 1 .. m + 1 /\ k + 1 \in 1 .. m + 1 /\ k < k + 1
    BY <1>1
  <2>2. t[k] < t[k + 1] /\ t[k] \in Nat /\ t[k + 1] \in Nat
    BY <1>1, <2>1
  <2> QED
    BY <1>2, <2>2
<1>4. Known(e) = 1 .. m
  BY <1>2, <1>3 DEF Known
<1>5. Max(1 .. m) = m /\ m \in 1 .. m
  <2>1. 1 .. m \in SUBSET Int /\ m \in 1 .. m /\ \A y \in 1 .. m : y <= m
    BY <1>1
  <2> QED
    BY <2>1, MaxIs
<1>6. GraphicsSize(e, UnknownLength) = e[m].target + e[m].length
  <2>1. Known(e) # {} /\ Max(Known(e)) = m
    BY <1>4, <1>5
  <2> QED
    BY <2>1 DEF GraphicsSize
<1>7. e[m].target = t[m] /\ e[m].length = t[m + 1] - t[m] /\ t[m] \in Nat /\ t[m + 1] \in Nat
  BY <1>2, <1>3, <1>5
<1> QED
  BY <1>6, <1>7

\* No streams leave what was there.
LEMMA NothingGathered ==
  ASSUME NEW size, NEW base \in Blobs(size), NEW q \in Seq(HitRecords), Len(q) = 0
  PROVE  Gathered(base, q) = base
<1>1. PICK c : Gathers(c, size, base, q)
  BY PlacedFold
<1> QED
  BY <1>1 DEF Gathers

\* A map of no streams makes no graphics.
LEMMA NothingRebuilt ==
  ~rebuild(<<>>, UnknownLength).refused /\ DOMAIN rebuild(<<>>, UnknownLength).blob = {}
<1> DEFINE e == <<>>
           base == [n \in 0 .. 0 - 1 |-> Blank]
<1>1. Known(e) = {} /\ DOMAIN e = {} /\ Len(e) = 0 /\ e \in Seq(HitRecords)
  BY DEF Known
<1> HIDE DEF e
<1>2. GraphicsSize(e, UnknownLength) = 0
  BY <1>1 DEF GraphicsSize
<1>3. ~rebuild(e, UnknownLength).refused /\ rebuild(e, UnknownLength).blob = Gathered(base, e)
  BY <1>1, <1>2 DEF rebuild, Gathered
<1>4. base \in Blobs(0)
  BY DEF Blobs, Blank
<1> HIDE DEF base
<1>5. e \in Seq(HitRecords) /\ Len(e) = 0
  BY <1>1
<1>6. Gathered(base, e) = base
  BY ONLY <1>4, <1>5, NothingGathered
<1>7. DOMAIN base = {}
  BY DEF base
<1> QED
  BY <1>3, <1>6, <1>7 DEF e

\* The same streams without their last are put together the same.
LEMMA FrontRebuilt ==
  ASSUME NEW e, NEW m, NEW src, NEW t, IsMap(e, m, src, t), NEW g, GraphicsSize(e, g) = t[m + 1], m > 0,
         NEW f, NEW r, NEW u, IsMap(f, m - 1, r, u),
         \A k \in 1 .. m - 1 : r[k] = src[k], \A k \in 1 .. m : u[k] = t[k]
  PROVE  /\ ~rebuild(f, UnknownLength).refused
         /\ \A n \in DOMAIN rebuild(f, UnknownLength).blob : rebuild(f, UnknownLength).blob[n] = rebuild(e, g).blob[n]
<1> DEFINE b == rebuild(e, g).blob
           c == rebuild(f, UnknownLength).blob
<1>1. /\ m \in Nat \ {0} /\ t \in [1 .. m + 1 -> Nat]
      /\ \A i, j \in 1 .. m + 1 : i < j => t[i] < t[j]
  BY DEF IsMap
<1>2. CASE m = 1
  <2>1. f = <<>>
    <3>1. f = [k \in 1 .. 0 |-> Hit(r[k], u[k], u[k + 1] - u[k])]
      BY <1>2 DEF IsMap
    <3> QED
      BY <3>1
  <2> QED
    BY <2>1, NothingRebuilt
<1>3. CASE m # 1
  <2>1. m - 1 > 0 /\ (m - 1) + 1 = m /\ m \in 1 .. m /\ 1 \in 1 .. m /\ m - 1 \in Nat
    BY <1>1, <1>3
  <2>2. GraphicsSize(f, UnknownLength) = u[(m - 1) + 1]
    BY <2>1, SizeLast
  <2>3. /\ ~rebuild(f, UnknownLength).refused /\ DOMAIN c = 0 .. u[(m - 1) + 1] - 1
        /\ \A n \in 0 .. u[(m - 1) + 1] - 1 : n < u[1] => c[n] = Blank
        /\ \A n \in 0 .. u[(m - 1) + 1] - 1 : \A k \in 1 .. m - 1 :
             u[k] <= n /\ n < u[k + 1] => c[n] = <<r[k], n - u[k]>>
    BY <2>2, RebuildIs
  <2>4. /\ \A n \in 0 .. t[m + 1] - 1 : n < t[1] => b[n] = Blank
        /\ \A n \in 0 .. t[m + 1] - 1 : \A k \in 1 .. m :
             t[k] <= n /\ n < t[k + 1] => b[n] = <<src[k], n - t[k]>>
    BY RebuildIs
  <2> HIDE DEF b, c
  <2>5. u[(m - 1) + 1] = t[m] /\ u[1] = t[1] /\ t[m] < t[m + 1] /\ t[m] \in Nat /\ t[m + 1] \in Nat
    <3>1. m \in 1 .. m + 1 /\ m + 1 \in 1 .. m + 1 /\ m < m + 1
      BY <1>1
    <3>2. u[(m - 1) + 1] = u[m]
      BY <2>1
    <3> QED
      BY <1>1, <2>1, <3>1, <3>2
  <2>6. ASSUME NEW n \in DOMAIN c PROVE c[n] = b[n]
    <3>1. n \in 0 .. u[(m - 1) + 1] - 1
      BY <2>3, <2>6
    <3>2. n \in 0 .. t[m + 1] - 1
      BY <2>5, <3>1
    <3> DEFINE of == {x \in Range(f) : x.target <= n}
               top == CHOOSE x \in of : \A y \in of : y.target <= x.target
    <3>3. \/ n < u[1] /\ of = {}
          \/ \E k \in 1 .. m - 1 : /\ u[k] <= n /\ n < u[k + 1] /\ of # {}
                                   /\ top = Hit(r[k], u[k], u[k + 1] - u[k])
      BY <3>1, LastBefore
    <3> HIDE DEF of, top
    <3>4. CASE n < u[1]
      BY <2>3, <2>4, <2>5, <3>1, <3>2, <3>4
    <3>5. CASE \E k \in 1 .. m - 1 : u[k] <= n /\ n < u[k + 1]
      <4>1. PICK k \in 1 .. m - 1 : u[k] <= n /\ n < u[k + 1]
        BY <3>5
      <4>2. k \in 1 .. m /\ k + 1 \in 1 .. m
        BY <1>1
      <4>3. c[n] = <<r[k], n - u[k]>>
        BY <2>3, <3>1, <4>1
      <4>4. b[n] = <<src[k], n - t[k]>>
        <5>1. t[k] <= n /\ n < t[k + 1]
          BY <4>1, <4>2
        <5> QED
          BY <2>4, <3>2, <4>2, <5>1
      <4> QED
        BY <4>2, <4>3, <4>4
    <3> QED
      BY <3>3, <3>4, <3>5
  <2> QED
    BY <2>3, <2>6 DEF b, c
<1> QED
  BY <1>2, <1>3

\* A store is found exactly where no stream is.
LEMMA SitesAre ==
  ASSUME NEW rom \in Seq({1}), NEW e, NEW m, NEW src, NEW t, IsMap(e, m, src, t), NEW spent,
         spent = [k \in DOMAIN e |-> Max({0, e[k].length})]
  PROVE  {site.offset : site \in sites_report(3, find_register_writes(rom, compressed_mask(rom, e, spent), {1}), {1}).places[1]}
           = {n \in DOMAIN rom : \A x \in Range(e) : n \notin x.source .. x.source + x.length - 1}
<1> DEFINE mask == compressed_mask(rom, e, spent)
           found == find_register_writes(rom, mask, {1})
           size == Len(rom)
<1>1. /\ m \in Nat /\ src \in [1 .. m -> Nat] /\ t \in [1 .. m + 1 -> Nat]
      /\ \A i, j \in 1 .. m + 1 : i < j => t[i] < t[j]
      /\ e = [k \in 1 .. m |-> Hit(src[k], t[k], t[k + 1] - t[k])]
  BY DEF IsMap
<1>2. DOMAIN e = 1 .. m /\ \A k \in 1 .. m : e[k].source = src[k] /\ e[k].length = t[k + 1] - t[k]
  BY <1>1 DEF Hit
<1>3. ASSUME NEW k \in 1 .. m
      PROVE  /\ e[k].length \in Nat /\ e[k].length # UnknownLength /\ e[k].source \in Nat
             /\ spent[k] = e[k].length
  <2>1. k \in 1 .. m + 1 /\ k + 1 \in 1 .. m + 1 /\ k < k + 1
    BY <1>1
  <2>2. t[k] < t[k + 1] /\ t[k] \in Nat /\ t[k + 1] \in Nat /\ src[k] \in Nat
    BY <1>1, <2>1
  <2> DEFINE l == e[k].length
  <2>3. l \in Nat /\ e[k].source \in Nat
    BY <1>2, <2>2
  <2> HIDE DEF l
  <2>4. Max({0, l}) = l
    <3>1. {0, l} \in SUBSET Int /\ l \in {0, l} /\ \A y \in {0, l} : y <= l
      BY <2>3
    <3> QED
      BY <3>1, MaxIs
  <2>5. spent[k] = Max({0, l})
    BY <1>2 DEF l
  <2> QED
    BY <2>3, <2>4, <2>5 DEF l, UnknownLength
<1>4. DOMAIN rom = 1 .. size /\ size \in Nat /\ \A n \in 1 .. size : rom[n] = 1
  OBVIOUS
<1>5. Range(e) = {e[k] : k \in 1 .. m}
  BY <1>2, Zenon DEF Range
<1>6. {j \in DOMAIN e : e[j].length # UnknownLength} = 1 .. m
  BY <1>2, <1>3
<1>7. mask = UNION {e[k].source .. Min({e[k].source + spent[k], size + 1}) - 1 : k \in 1 .. m}
  BY <1>6 DEF compressed_mask
<1> HIDE DEF mask, size
<1>8. ASSUME NEW n \in 1 .. size
      PROVE  n \in mask <=> \E x \in Range(e) : n \in x.source .. x.source + x.length - 1
  <2>1. ASSUME NEW k \in 1 .. m
        PROVE  n \in e[k].source .. Min({e[k].source + spent[k], size + 1}) - 1
                 <=> n \in e[k].source .. e[k].source + e[k].length - 1
    <3> DEFINE a == e[k].source
               z == e[k].source + e[k].length
    <3>1. a \in Nat /\ z \in Nat /\ n \in Nat /\ n <= size /\ size \in Nat
      <4>1. e[k].length \in Nat /\ e[k].source \in Nat
        BY <1>3
      <4>2. size \in Nat /\ n \in Nat /\ n <= size
        BY <1>4, <1>8
      <4> QED
        BY <4>1, <4>2
    <3> HIDE DEF a, z
    <3>2. Min({z, size + 1}) = IF z <= size + 1 THEN z ELSE size + 1
      <4>1. {z, size + 1} \in SUBSET Nat
        BY <3>1
      <4>2. CASE z <= size + 1
        <5>1. z \in {z, size + 1} /\ \A y \in {z, size + 1} : z <= y
          BY <3>1, <4>2
        <5> QED
          BY <4>1, <4>2, <5>1, MinIs
      <4>3. CASE ~(z <= size + 1)
        <5>1. size + 1 \in {z, size + 1} /\ \A y \in {z, size + 1} : size + 1 <= y
          BY <3>1, <4>3
        <5>2. Min({z, size + 1}) = size + 1
          BY <4>1, <5>1, MinIs
        <5> QED
          BY <4>3, <5>2
      <4> QED
        BY <4>2, <4>3
    <3>3. n \in a .. Min({z, size + 1}) - 1 <=> n \in a .. z - 1
      BY <3>1, <3>2
    <3>4. e[k].source + spent[k] = z
      BY <1>3 DEF z
    <3>5. n \in e[k].source .. Min({e[k].source + spent[k], size + 1}) - 1 <=> n \in e[k].source .. z - 1
      BY <3>3, <3>4, Zenon DEF a
    <3>6. z - 1 = e[k].source + e[k].length - 1
      <4>1. e[k].length \in Nat /\ e[k].source \in Nat
        BY <1>3
      <4> QED
        BY <4>1 DEF z
    <3> QED
      BY <3>5, <3>6, Zenon
  <2>2. n \in mask <=> \E k \in 1 .. m : n \in e[k].source .. Min({e[k].source + spent[k], size + 1}) - 1
    BY <1>7
  <2> QED
    BY <1>5, <2>1, <2>2
<1>9. found = {[offset |-> at, register |-> rom[at]] : at \in {i \in 1 .. size : i \notin mask}}
  BY <1>4 DEF find_register_writes
<1>10. sites_report(3, found, {1}).places[1] = {f \in found : f.register = 1}
  BY DEF sites_report
<1> HIDE DEF found
<1>11. {site.offset : site \in {f \in found : f.register = 1}} = {i \in 1 .. size : i \notin mask}
  <2>1. ASSUME NEW o \in {site.offset : site \in {f \in found : f.register = 1}} PROVE o \in {i \in 1 .. size : i \notin mask}
    BY <1>9, <2>1
  <2>2. ASSUME NEW o \in {i \in 1 .. size : i \notin mask} PROVE o \in {site.offset : site \in {f \in found : f.register = 1}}
    <3> DEFINE s == [offset |-> o, register |-> rom[o]]
    <3>1. rom[o] = 1
      BY <1>4, <2>2
    <3>2. s \in found /\ s.register = 1 /\ s.offset = o
      BY <1>9, <2>2, <3>1
    <3> HIDE DEF s
    <3> QED
      BY <3>2
  <2> QED
    BY <2>1, <2>2
<1>12. {i \in 1 .. size : i \notin mask} = {n \in DOMAIN rom : \A x \in Range(e) : n \notin x.source .. x.source + x.length - 1}
  BY <1>4, <1>8
<1> QED
  BY <1>10, <1>11, <1>12 DEF found, mask

\* The audit puts every pair of streams in a column.
LEMMA AuditIsWhole ==
  ASSUME NEW e, NEW m, NEW src, NEW t, IsMap(e, m, src, t), NEW spent, NEW bank,
         \A k \in 1 .. m : spent[k] \in Nat
  PROVE  audit(e, bank, spent).packed \cup audit(e, bank, spent).padded \cup audit(e, bank, spent).overrun
           \cup audit(e, bank, spent).skipped = 1 .. Len(e) - 1
<1> DEFINE a == audit(e, bank, spent)
           pairs == 1 .. Len(e) - 1
           gap(k) == e[k + 1].source - (e[k].source + spent[k])
<1>1. /\ m \in Nat /\ src \in [1 .. m -> Nat]
      /\ e = [k \in 1 .. m |-> Hit(src[k], t[k], t[k + 1] - t[k])]
  BY DEF IsMap
<1>2. Len(e) = m /\ \A k \in 1 .. m : e[k].source = src[k]
  BY <1>1 DEF Hit
<1>3. \A k \in pairs : gap(k) \in Int
  <2> SUFFICES ASSUME NEW k \in pairs PROVE gap(k) \in Int
    OBVIOUS
  <2>1. k \in 1 .. m /\ k + 1 \in 1 .. m
    BY <1>1, <1>2
  <2>2. e[k].source \in Nat /\ e[k + 1].source \in Nat /\ spent[k] \in Nat
    BY <1>1, <1>2, <2>1
  <2> QED
    BY <2>2
<1> HIDE DEF pairs
<1>4. PICK measured \in SUBSET pairs :
        a = [measured |-> measured, skipped |-> pairs \ measured,
             packed |-> {k \in measured : gap(k) \in {-1, 0}},
             padded |-> {k \in measured : gap(k) > 0},
             overrun |-> {k \in measured : gap(k) < -1}]
  <2> DEFINE M == {k \in pairs : /\ e[k].length # UnknownLength
                                 /\ e[k + 1].source - e[k].source \in 1 .. bank - 1}
  <2>1. a = [measured |-> M, skipped |-> pairs \ M,
             packed |-> {k \in M : gap(k) \in {-1, 0}},
             padded |-> {k \in M : gap(k) > 0},
             overrun |-> {k \in M : gap(k) < -1}]
    BY Zenon DEF audit, pairs
  <2>2. M \in SUBSET pairs
    OBVIOUS
  <2> HIDE DEF M, a
  <2> QED
    BY <2>1, <2>2
<1> HIDE DEF a
<1>5. a.packed \cup a.padded \cup a.overrun \cup a.skipped = pairs
  <2>1. \A k \in measured : gap(k) \in {-1, 0} \/ gap(k) > 0 \/ gap(k) < -1
    <3> TAKE k \in measured
    <3> DEFINE d == gap(k)
    <3>1. d \in Int
      BY <1>3
    <3> HIDE DEF d
    <3>2. d \in {-1, 0} \/ d > 0 \/ d < -1
      BY <3>1
    <3> QED
      BY <3>2 DEF d
  <2> HIDE DEF gap
  <2> QED
    BY <1>4, <2>1
<1> QED
  BY <1>5 DEF a, pairs

\* What the build reads from a tagged cartridge is all its streams, side by side.
LEMMA LoadedIs ==
  ASSUME NEW tagged \in Seq(Nat), rombuild_exit(4, tagged) = 0
  PROVE  \E t : IsMap(load_entries(tagged).entries, HowMany(tagged), MarkPlaces(tagged), t)
<1> DEFINE m == HowMany(tagged)
           src == MarkPlaces(tagged)
           plain == build_map(tagged, UnknownLength)
<1>1. ~load_entries(tagged).refused
  BY DEF rombuild_exit
<1>2. load_entries(tagged) =
        IF plain.refused \/ plain.entries = <<>> \/ Last(plain.entries).length # UnknownLength THEN plain
        ELSE build_map(tagged, Last(plain.entries).target + FINAL_STREAM_LENGTH)
  BY DEF load_entries
<1>3. ~plain.refused
  <2> HIDE DEF plain
  <2> QED
    BY <1>1, <1>2
<1>4. /\ m \in Nat /\ src \in [1 .. m -> 1 .. Len(tagged)]
      /\ \A k \in 1 .. m : tagged[src[k]] - 1 \in Nat
      /\ find_markers(tagged) = [k \in 1 .. m |-> [source |-> src[k], target |-> tagged[src[k]] - 1]]
  BY MarkersAre
<1>5. CASE m = 0
  <2>1. DOMAIN find_markers(tagged) = {}
    <3> HIDE DEF m
    <3> QED
      BY <1>4, <1>5
  <2>2. plain.entries = [k \in {} |-> 0]
    BY <2>1 DEF build_map
  <2> HIDE DEF plain
  <2>3. plain.entries = <<>>
    BY <2>2
  <2>4. load_entries(tagged).entries = <<>>
    BY <1>2, <2>3
  <2> DEFINE t == [k \in 1 .. 1 |-> 0]
             f == [k \in 1 .. 0 |-> Hit(src[k], t[k], t[k + 1] - t[k])]
  <2>5. f = <<>>
    OBVIOUS
  <2>6. src \in [1 .. 0 -> Nat] /\ t \in [1 .. 0 + 1 -> Nat] /\ (\A i, j \in 1 .. 0 : i < j => src[i] < src[j])
        /\ \A i, j \in 1 .. 0 + 1 : i < j => t[i] < t[j]
    BY <1>4, <1>5
  <2>7. IsMap(<<>>, 0, src, t)
    BY <2>5, <2>6 DEF IsMap
  <2> QED
    BY <1>5, <2>4, <2>7
<1>6. CASE m # 0
  <2>1. /\ plain.entries # <<>>
        /\ Last(plain.entries).target = tagged[src[m]] - 1
        /\ Last(plain.entries).length = UnknownLength
    <3>1. HowMany(tagged) > 0
      BY <1>4, <1>6
    <3> QED
      BY <1>3, <3>1, MapPlain
  <2> DEFINE size == Last(plain.entries).target + FINAL_STREAM_LENGTH
  <2>2. size \in Nat
    <3>1. m \in 1 .. m
      BY <1>4, <1>6
    <3>2. Last(plain.entries).target \in Nat
      BY <1>4, <2>1, <3>1
    <3>3. FINAL_STREAM_LENGTH \in Nat
      BY SearchLengths
    <3> HIDE DEF plain
    <3> QED
      BY <3>2, <3>3
  <2>3. load_entries(tagged) = build_map(tagged, size)
    <3> HIDE DEF plain
    <3> QED
      BY <1>2, <1>3, <2>1
  <2> HIDE DEF size
  <2>4. IsMap(load_entries(tagged).entries, m, src, Starts(tagged, size))
    BY <1>1, <2>2, <2>3, MapBuilt
  <2> QED
    BY <2>4
<1> QED
  BY <1>5, <1>6

\* A build from the cartridge and one from a table frozen out of it agree.
Frozen(frozen, e, tagged) ==
  /\ Len(e) = Len(find_markers(tagged)) /\ \A x \in Range(e) : x.length > 0
  /\ [k \in DOMAIN e |-> Hit(e[k].source, UnknownLength, e[k].length)] = entries_from_map(frozen)

\* And a table frozen out of it lists the same streams in their order.
LEMMA FrozenSame ==
  ASSUME NEW tagged \in Seq(Nat), NEW e, NEW t, IsMap(e, HowMany(tagged), MarkPlaces(tagged), t),
         NEW frozen, frozen = [s \in {x.source : x \in Range(e)} |-> (CHOOSE x \in Range(e) : x.source = s).length]
  PROVE  Frozen(frozen, e, tagged)
<1> DEFINE m == HowMany(tagged)
           src == MarkPlaces(tagged)
           K == Marked(tagged)
<1>1. /\ m \in Nat /\ src \in [1 .. m -> Nat] /\ t \in [1 .. m + 1 -> Nat]
      /\ \A i, j \in 1 .. m : i < j => src[i] < src[j]
      /\ \A i, j \in 1 .. m + 1 : i < j => t[i] < t[j]
      /\ e = [k \in 1 .. m |-> Hit(src[k], t[k], t[k + 1] - t[k])]
  BY DEF IsMap
<1>2. /\ {src[k] : k \in 1 .. m} = K
      /\ find_markers(tagged) = [k \in 1 .. m |-> [source |-> src[k], target |-> tagged[src[k]] - 1]]
  BY MarkersAre
<1>3. src = InOrder(K) /\ m = Cardinality(K)
  BY DEF MarkPlaces, HowMany
<1> HIDE DEF m, src, K
<1>4. DOMAIN e = 1 .. m /\ Len(e) = m /\ \A k \in 1 .. m : e[k].source = src[k] /\ e[k].length = t[k + 1] - t[k]
  BY <1>1 DEF Hit
<1>5. Range(e) = {e[k] : k \in 1 .. m}
  BY <1>4, Zenon DEF Range
<1>6. ASSUME NEW x \in Range(e) PROVE x.length > 0
  <2>1. PICK k \in 1 .. m : x = e[k]
    BY <1>5
  <2>2. k \in 1 .. m + 1 /\ k + 1 \in 1 .. m + 1 /\ k < k + 1
    BY <1>1
  <2>3. t[k] < t[k + 1] /\ t[k] \in Nat /\ t[k + 1] \in Nat
    BY <1>1, <2>2
  <2> QED
    BY <1>4, <2>1, <2>3
<1>7. Len(find_markers(tagged)) = m
  BY <1>1, <1>2
<1>8. {x.source : x \in Range(e)} = K
  <2>1. {x.source : x \in Range(e)} = {e[k].source : k \in 1 .. m}
    BY <1>5
  <2>2. {e[k].source : k \in 1 .. m} = {src[k] : k \in 1 .. m}
    BY <1>4
  <2> QED
    BY <1>2, <2>1, <2>2
<1>9. DOMAIN frozen = K
  BY <1>8
<1>10. ASSUME NEW k \in 1 .. m PROVE frozen[src[k]] = e[k].length
  <2> DEFINE x == CHOOSE x \in Range(e) : x.source = src[k]
  <2>1. e[k] \in Range(e) /\ e[k].source = src[k]
    BY <1>4, <1>5
  <2>2. x \in Range(e) /\ x.source = src[k]
    BY <2>1
  <2>3. x = e[k]
    <3>1. PICK j \in 1 .. m : x = e[j]
      BY <1>5, <2>2
    <3>2. src[j] = src[k]
      BY <1>4, <2>2, <3>1
    <3>3. j = k
      <4>1. src[j] \in Nat /\ src[k] \in Nat /\ j \in Nat /\ k \in Nat
        BY <1>1
      <4>2. ~(j < k)
        <5>1. j < k => src[j] < src[k]
          BY <1>1, <3>1
        <5> QED
          BY <3>2, <4>1, <5>1
      <4>3. ~(k < j)
        <5>1. k < j => src[k] < src[j]
          BY <1>1, <3>1
        <5> QED
          BY <3>2, <4>1, <5>1
      <4> QED
        BY <4>1, <4>2, <4>3
    <3> QED
      BY <3>1, <3>3
  <2>4. src[k] \in {y.source : y \in Range(e)}
    BY <2>1
  <2>5. frozen[src[k]] = x.length
    BY <2>4
  <2> QED
    BY <2>3, <2>5
<1>11. entries_from_map(frozen) = [k \in 1 .. m |-> Hit(src[k], UnknownLength, frozen[src[k]])]
  <2>1. InOrder(DOMAIN frozen) = src /\ Cardinality(DOMAIN frozen) = m
    BY <1>3, <1>9
  <2>2. entries_from_map(frozen) =
          [k \in 1 .. Cardinality(DOMAIN frozen) |->
             Hit(InOrder(DOMAIN frozen)[k], UnknownLength, frozen[InOrder(DOMAIN frozen)[k]])]
    BY DEF entries_from_map
  <2> QED
    BY <2>1, <2>2, Zenon
<1>12. [k \in DOMAIN e |-> Hit(e[k].source, UnknownLength, e[k].length)]
         = [k \in 1 .. m |-> Hit(src[k], UnknownLength, frozen[src[k]])]
  BY <1>4, <1>10
<1> QED
  BY <1>4, <1>6, <1>7, <1>11, <1>12 DEF Frozen

\* MapWhole on every tagged image and size.
LEMMA MapIsWhole ==
  ASSUME NEW tagged \in Seq(Nat), NEW gfx_size \in Nat \cup {UnknownLength}
  PROVE  MapWhole(tagged, gfx_size)
<1> DEFINE map == build_map(tagged, gfx_size)
           e == map.entries
           m == HowMany(tagged)
           src == MarkPlaces(tagged)
           t == Starts(tagged, gfx_size)
           whole == rebuild(e, gfx_size)
           of(n) == {x \in Range(e) : x.target <= n}
           spent == [k \in DOMAIN e |-> Max({0, e[k].length})]
           stores == [n \in DOMAIN tagged |-> 1]
           sites == sites_report(3, find_register_writes(stores, compressed_mask(stores, e, spent), {1}), {1}).places[1]
           a == audit(e, 3, spent)
           loaded == load_entries(tagged).entries
           frozen == [s \in {x.source : x \in Range(loaded)} |-> (CHOOSE x \in Range(loaded) : x.source = s).length]
<1>1. ASSUME rombuild_exit(4, tagged) = 0
      PROVE  /\ Len(loaded) = Len(find_markers(tagged)) /\ \A x \in Range(loaded) : x.length > 0
             /\ [k \in DOMAIN loaded |-> Hit(loaded[k].source, UnknownLength, loaded[k].length)] = entries_from_map(frozen)
  <2>1. PICK u : IsMap(loaded, m, src, u)
    BY <1>1, LoadedIs
  <2>2. frozen = [s \in {x.source : x \in Range(loaded)} |-> (CHOOSE x \in Range(loaded) : x.source = s).length]
    OBVIOUS
  <2> HIDE DEF loaded, frozen
  <2>3. IsMap(loaded, HowMany(tagged), MarkPlaces(tagged), u)
    BY <2>1
  <2>4. Frozen(frozen, loaded, tagged)
    BY <2>2, <2>3, FrozenSame
  <2> QED
    BY <2>4 DEF Frozen
<1>2. ASSUME ~map.refused, gfx_size # UnknownLength
      PROVE  /\ ~whole.refused /\ DOMAIN whole.blob = 0 .. gfx_size - 1
             /\ \A n \in 0 .. gfx_size - 1 :
                  whole.blob[n] = IF of(n) = {} THEN Blank
                                  ELSE LET x == CHOOSE x \in of(n) : \A f \in of(n) : f.target <= x.target
                                       IN  <<x.source, n - x.target>>
             /\ e # <<>> => /\ ~Written(tagged).refused
                            /\ \A n \in DOMAIN Written(tagged).blob : Written(tagged).blob[n] = whole.blob[n]
             /\ a.packed \cup a.padded \cup a.overrun \cup a.skipped = 1 .. Len(e) - 1
             /\ {site.offset : site \in sites} =
                  {n \in DOMAIN tagged : \A x \in Range(e) : n \notin x.source .. x.source + x.length - 1}
  <2>1. gfx_size \in Nat
    BY <1>2
  <2>2. IsMap(e, m, src, t)
    BY <1>2, <2>1, MapBuilt
  <2>3. /\ m \in Nat /\ src \in [1 .. m -> Nat]
        /\ \A k \in 1 .. m : tagged[src[k]] - 1 \in Nat
    BY MarkersAre, <2>2 DEF IsMap
  <2>4. t[m + 1] = gfx_size /\ \A k \in 1 .. m : t[k] = tagged[src[k]] - 1
    <3> HIDE DEF m, src
    <3>1. t = [k \in 1 .. m + 1 |-> IF k <= m THEN tagged[src[k]] - 1 ELSE gfx_size]
      BY DEF Starts, m, src
    <3> HIDE DEF t
    <3> QED
      BY <2>3, <3>1
  <2>5. GraphicsSize(e, gfx_size) = gfx_size
    BY <1>2 DEF GraphicsSize
  <2>6. ~whole.refused /\ DOMAIN whole.blob = 0 .. gfx_size - 1
    BY <2>2, <2>4, <2>5, RebuildIs
  <2>7. \A n \in 0 .. gfx_size - 1 :
          whole.blob[n] = IF of(n) = {} THEN Blank
                          ELSE LET x == CHOOSE x \in of(n) : \A f \in of(n) : f.target <= x.target
                               IN  <<x.source, n - x.target>>
    <3> HIDE DEF e, m, src, t
    <3>1. GraphicsSize(e, gfx_size) = t[m + 1] /\ 0 .. gfx_size - 1 = 0 .. t[m + 1] - 1
      BY <2>4, <2>5
    <3>2. ASSUME NEW n \in 0 .. gfx_size - 1
          PROVE  whole.blob[n] = IF of(n) = {} THEN Blank
                                 ELSE LET x == CHOOSE x \in of(n) : \A f \in of(n) : f.target <= x.target
                                      IN  <<x.source, n - x.target>>
      <4>1. n \in 0 .. t[m + 1] - 1
        BY <3>1, <3>2
      <4>2. FromLast(whole.blob[n], e, n)
        BY <2>2, <3>1, <4>1, WholeIs
      <4> HIDE DEF whole
      <4> QED
        BY <4>2 DEF FromLast
    <3> HIDE DEF of, whole
    <3> QED
      BY <3>2, Zenon
  <2>8. ASSUME e # <<>>
        PROVE  /\ ~Written(tagged).refused
               /\ \A n \in DOMAIN Written(tagged).blob : Written(tagged).blob[n] = whole.blob[n]
    <3>1. m > 0
      <4>1. e = [k \in 1 .. m |-> Hit(src[k], t[k], t[k + 1] - t[k])]
        BY <2>2 DEF IsMap
      <4> HIDE DEF e, m, src, t
      <4>2. CASE m = 0
        BY <2>8, <4>1, <4>2
      <4> QED
        BY <2>3, <4>2
    <3> DEFINE plain == build_map(tagged, UnknownLength)
               r == [k \in 1 .. m - 1 |-> src[k]]
               u == [k \in 1 .. (m - 1) + 1 |-> tagged[src[k]] - 1]
    <3>2. ~plain.refused
      BY <1>2 DEF build_map, MapRefused
    <3>3. IsMap(Front(plain.entries), m - 1, r, u)
      BY <3>1, <3>2, MapPlain
    <3>4. \A k \in 1 .. m - 1 : r[k] = src[k]
      OBVIOUS
    <3>5. \A k \in 1 .. m : u[k] = t[k]
      <4>1. (m - 1) + 1 = m
        BY <2>3
      <4> HIDE DEF m, src, t
      <4> QED
        BY <2>4, <4>1
    <3>6. Written(tagged) = rebuild(Front(plain.entries), UnknownLength)
      BY DEF Written
    <3> DEFINE f == Front(plain.entries)
    <3> HIDE DEF f, r, u, plain, e, m, src, t
    <3>7. /\ ~rebuild(f, UnknownLength).refused
          /\ \A n \in DOMAIN rebuild(f, UnknownLength).blob : rebuild(f, UnknownLength).blob[n] = rebuild(e, gfx_size).blob[n]
      <4>1. IsMap(f, m - 1, r, u)
        BY <3>3 DEF f
      <4> QED
        BY <2>2, <2>4, <2>5, <3>1, <3>4, <3>5, <4>1, FrontRebuilt
    <3>8. Written(tagged) = rebuild(f, UnknownLength)
      BY <3>6 DEF f
    <3> QED
      BY <3>7, <3>8
  <2>9. a.packed \cup a.padded \cup a.overrun \cup a.skipped = 1 .. Len(e) - 1
    <3>1. \A k \in 1 .. m : spent[k] \in Nat
      <4> SUFFICES ASSUME NEW k \in 1 .. m PROVE spent[k] \in Nat
        OBVIOUS
      <4>1. e = [j \in 1 .. m |-> Hit(src[j], t[j], t[j + 1] - t[j])] /\ t \in [1 .. m + 1 -> Nat]
        BY <2>2 DEF IsMap
      <4> HIDE DEF e, m, src, t
      <4> DEFINE l == e[k].length
      <4>2. spent[k] = Max({0, l})
        BY <4>1
      <4>3. l \in Int
        <5>1. k \in 1 .. m + 1 /\ k + 1 \in 1 .. m + 1
          BY <2>3
        <5>2. t[k] \in Nat /\ t[k + 1] \in Nat
          BY <4>1, <5>1
        <5> QED
          BY <4>1, <5>2 DEF Hit
      <4> HIDE DEF l
      <4>4. Max({0, l}) \in Nat
        <5>1. CASE l <= 0
          <6>1. {0, l} \in SUBSET Int /\ 0 \in {0, l} /\ \A y \in {0, l} : y <= 0
            BY <4>3, <5>1
          <6>2. Max({0, l}) = 0
            BY <6>1, MaxIs
          <6> QED
            BY <6>2
        <5>2. CASE ~(l <= 0)
          <6>1. {0, l} \in SUBSET Int /\ l \in {0, l} /\ \A y \in {0, l} : y <= l
            BY <4>3, <5>2
          <6>2. Max({0, l}) = l
            BY <6>1, MaxIs
          <6> QED
            BY <4>3, <5>2, <6>2
        <5> QED
          BY <5>1, <5>2
      <4> QED
        BY <4>2, <4>4
    <3> HIDE DEF e, m, src, t, spent
    <3> QED
      BY <2>2, <3>1, AuditIsWhole
  <2>10. {site.offset : site \in sites} =
           {n \in DOMAIN tagged : \A x \in Range(e) : n \notin x.source .. x.source + x.length - 1}
    <3>1. stores \in Seq({1}) /\ DOMAIN stores = DOMAIN tagged
      <4>1. DOMAIN tagged = 1 .. Len(tagged) /\ Len(tagged) \in Nat
        OBVIOUS
      <4>2. stores = [n \in 1 .. Len(tagged) |-> 1]
        BY <4>1
      <4> QED
        BY <4>1, <4>2
    <3>2. spent = [k \in DOMAIN e |-> Max({0, e[k].length})]
      OBVIOUS
    <3> HIDE DEF e, m, src, t, spent, stores
    <3> QED
      BY <2>2, <3>1, <3>2, SitesAre
  <2> QED
    BY <2>6, <2>7, <2>8, <2>9, <2>10
<1> HIDE DEF a, of, sites, whole, frozen, loaded
<1> QED
  BY <1>1, <1>2, Zenon DEF MapWhole, map, e, spent, stores, a, of, sites, whole, frozen, loaded

-----------------------------------------------------------------------------
(* tile_shape.py: what repeats among the tiles *)

\* The k-th of n pieces of a length lies within them.
LEMMA PieceWithin ==
  ASSUME NEW m \in Nat \ {0}, NEW n \in Nat, NEW k \in 1 .. n
  PROVE  (k - 1) * m \in Nat /\ k * m = (k - 1) * m + m /\ k * m <= n * m
<1>1. (k - 1) * m \in Nat
  <2>1. \A a, b \in Nat : a * b \in Nat
    OBVIOUS
  <2> QED
    BY <2>1
<1>2. k * m = (k - 1) * m + m
  BY Z3
<1>3. (n - k) * m \in Nat
  <2>1. \A a, b \in Nat : a * b \in Nat
    OBVIOUS
  <2> QED
    BY <2>1
<1>4. n * m = k * m + (n - k) * m
  BY Z3
<1>5. k * m \in Int /\ n * m \in Int
  OBVIOUS
<1> QED
  BY <1>1, <1>2, <1>3, <1>4, <1>5

\* The tiles of whole tiles: each is the bytes at its place.
LEMMA TilesAre ==
  ASSUME NEW data \in Seq(Nat), Len(data) % TILE_BYTES = 0
  PROVE  /\ tiles(data) \in Seq(Seq(Nat)) /\ Len(tiles(data)) = Len(data) \div TILE_BYTES
         /\ Len(data) \div TILE_BYTES \in Nat
         /\ (tiles(data) # <<>> <=> Len(data) > 0)
         /\ \A j, k \in 1 .. Len(data) \div TILE_BYTES :
              tiles(data)[j] = tiles(data)[k]
                <=> \A b \in 1 .. TILE_BYTES : data[(j - 1) * TILE_BYTES + b] = data[(k - 1) * TILE_BYTES + b]
<1> DEFINE n == Len(data) \div TILE_BYTES
           cut == tiles(data)
           at(k) == (k - 1) * TILE_BYTES
<1>1. TILE_BYTES \in Nat \ {0} /\ Len(data) \in Nat
  BY TileSizes
<1>2. n \in Nat /\ Len(data) = TILE_BYTES * n
  <2>1. n \in Nat
    BY <1>1, DivNat
  <2>2. Len(data) = TILE_BYTES * n + (Len(data) % TILE_BYTES)
    BY <1>1, DivMod
  <2>3. TILE_BYTES * n \in Nat
    <3>1. \A a, b \in Nat : a * b \in Nat
      OBVIOUS
    <3> HIDE DEF n
    <3> QED
      BY <1>1, <2>1, <3>1
  <2> HIDE DEF n
  <2> QED
    BY <2>1, <2>2, <2>3
<1>3. cut = [k \in 1 .. n |-> SubSeq(data, (k - 1) * TILE_BYTES + 1, k * TILE_BYTES)]
  BY DEF tiles
<1> HIDE DEF n, cut
<1>4. n * TILE_BYTES = Len(data)
  BY <1>1, <1>2, Z3
<1>5. ASSUME NEW k \in 1 .. n
      PROVE  /\ at(k) \in Nat /\ at(k) + TILE_BYTES <= Len(data)
             /\ cut[k] \in Seq(Nat) /\ Len(cut[k]) = TILE_BYTES
             /\ \A b \in 1 .. TILE_BYTES : cut[k][b] = data[at(k) + b]
  <2>1. at(k) \in Nat /\ k * TILE_BYTES = at(k) + TILE_BYTES /\ k * TILE_BYTES <= n * TILE_BYTES
    BY <1>1, <1>2, PieceWithin
  <2> DEFINE a == at(k)
             z == k * TILE_BYTES
  <2>2. cut[k] = SubSeq(data, a + 1, z)
    BY <1>3
  <2>3. a \in Nat /\ z = a + TILE_BYTES /\ z <= Len(data)
    BY <1>4, <2>1
  <2> HIDE DEF a, z, at
  <2>4. SubSeq(data, a + 1, z) \in Seq(Nat) /\ Len(SubSeq(data, a + 1, z)) = TILE_BYTES
        /\ \A b \in 1 .. TILE_BYTES : SubSeq(data, a + 1, z)[b] = data[a + b]
    <3> DEFINE w == SubSeq(data, a + 1, z)
    <3>1. w \in Seq(Nat)
      <4>1. \A i \in a + 1 .. z : i \in 1 .. Len(data)
        BY <1>1, <2>3
      <4> QED
        BY <1>1, <2>3, <4>1
    <3>2. Len(w) = TILE_BYTES
      BY <1>1, <2>3
    <3>3. ASSUME NEW b \in 1 .. TILE_BYTES PROVE w[b] = data[a + b]
      <4>1. b \in 1 .. z - (a + 1) + 1 /\ (a + 1) + b - 1 = a + b
        BY <1>1, <2>3
      <4>2. w[b] = data[(a + 1) + b - 1]
        BY <1>1, <2>3, <4>1
      <4> QED
        BY <4>1, <4>2
    <3> QED
      BY <3>1, <3>2, <3>3
  <2> QED
    BY <2>2, <2>3, <2>4 DEF a
<1> HIDE DEF at
<1>6. DOMAIN cut = 1 .. n /\ Len(cut) = n /\ cut \in Seq(Seq(Nat))
  <2>1. DOMAIN cut = 1 .. n /\ cut = [k \in 1 .. n |-> cut[k]]
    BY <1>3
  <2>2. \A k \in 1 .. n : cut[k] \in Seq(Nat)
    BY <1>5
  <2> QED
    BY ONLY <1>2, <2>1, <2>2, SMT
<1>7. cut # <<>> <=> Len(data) > 0
  <2>1. cut # <<>> <=> n > 0
    BY <1>2, <1>6
  <2>2. n = 0 => Len(data) = 0
    BY <1>1, <1>2
  <2>3. n > 0 => Len(data) > 0
    <3>1. ASSUME n > 0 PROVE Len(data) > 0
      <4>1. 1 \in 1 .. n
        BY <1>2, <3>1
      <4>2. at(1) \in Nat /\ at(1) + TILE_BYTES <= Len(data)
        BY <1>5, <4>1
      <4> QED
        BY <1>1, <4>2
    <3> QED
      BY <3>1
  <2> QED
    BY <1>1, <1>2, <2>1, <2>2, <2>3
<1>8. ASSUME NEW j \in 1 .. n, NEW k \in 1 .. n
      PROVE  cut[j] = cut[k] <=> \A b \in 1 .. TILE_BYTES : data[at(j) + b] = data[at(k) + b]
  <2>1. /\ cut[j] \in Seq(Nat) /\ Len(cut[j]) = TILE_BYTES
        /\ \A b \in 1 .. TILE_BYTES : cut[j][b] = data[at(j) + b]
    BY <1>5
  <2>2. /\ cut[k] \in Seq(Nat) /\ Len(cut[k]) = TILE_BYTES
        /\ \A b \in 1 .. TILE_BYTES : cut[k][b] = data[at(k) + b]
    BY <1>5
  <2>3. ASSUME \A b \in 1 .. TILE_BYTES : data[at(j) + b] = data[at(k) + b] PROVE cut[j] = cut[k]
    <3> DEFINE x == cut[j]
               y == cut[k]
    <3>1. x \in Seq(Nat) /\ y \in Seq(Nat) /\ Len(x) = Len(y) /\ \A b \in 1 .. Len(x) : x[b] = y[b]
      BY <2>1, <2>2, <2>3
    <3> HIDE DEF x, y
    <3>3. x = [i \in 1 .. Len(x) |-> x[i]] /\ y = [i \in 1 .. Len(x) |-> y[i]]
      BY <3>1
    <3>2. x = y
      BY <3>1, <3>3
    <3> QED
      BY <3>2 DEF x, y
  <2>4. ASSUME cut[j] = cut[k], NEW b \in 1 .. TILE_BYTES PROVE data[at(j) + b] = data[at(k) + b]
    BY <2>1, <2>2, <2>4
  <2> QED
    BY <2>3, <2>4
<1> QED
  BY <1>2, <1>6, <1>7, <1>8 DEF n, cut, at

\* The places with an equal one before them.
Again(s, n) == {k \in 1 .. n : \E j \in 1 .. k - 1 : s[j] = s[k]}

\* A list has as many values as places that are the first of their value.
LEMMA FirstsCounted ==
  ASSUME NEW s, NEW n \in Nat, s = [k \in 1 .. n |-> s[k]]
  PROVE  /\ IsFiniteSet(Again(s, n)) /\ Cardinality(Again(s, n)) \in Nat
         /\ n - Cardinality(ToSet(s)) = Cardinality(Again(s, n))
<1> DEFINE repeats == {k \in 1 .. n : \E j \in 1 .. k - 1 : s[j] = s[k]}
           firsts == (1 .. n) \ repeats
           values == {s[k] : k \in 1 .. n}
           f == [k \in firsts |-> s[k]]
<1>1. ToSet(s) = values
  <2>1. DOMAIN s = 1 .. n
    OBVIOUS
  <2> QED
    BY <2>1, Zenon DEF ToSet
<1>2. IsFiniteSet(1 .. n) /\ Cardinality(1 .. n) = n
  <2>1. 1 \in Int /\ n \in Int /\ (1 > n => n = 0) /\ n - 1 + 1 = n
    OBVIOUS
  <2> QED
    BY <2>1, FS_Interval
<1>3. repeats \in SUBSET (1 .. n) /\ (1 .. n) \cap repeats = repeats
  OBVIOUS
<1> HIDE DEF repeats
<1>4. IsFiniteSet(repeats) /\ Cardinality(repeats) \in Nat
  BY <1>2, <1>3, FS_Subset, FS_CardinalityType
<1>5. IsFiniteSet(firsts) /\ Cardinality(firsts) = n - Cardinality(repeats)
  <2>1. /\ IsFiniteSet((1 .. n) \ repeats)
        /\ Cardinality((1 .. n) \ repeats) = Cardinality(1 .. n) - Cardinality((1 .. n) \cap repeats)
    BY <1>2, FS_Difference
  <2> QED
    BY <1>2, <1>3, <2>1
<1>6. \A j, k \in firsts : s[j] = s[k] => j = k
  <2> SUFFICES ASSUME NEW j \in firsts, NEW k \in firsts, s[j] = s[k] PROVE j = k
    OBVIOUS
  <2>1. j \in 1 .. n /\ k \in 1 .. n /\ j \notin repeats /\ k \notin repeats
    OBVIOUS
  <2>2. ~(j < k)
    BY <2>1 DEF repeats
  <2>3. ~(k < j)
    BY <2>1 DEF repeats
  <2> QED
    BY <2>1, <2>2, <2>3
<1>7. \A v \in values : \E k \in firsts : s[k] = v
  <2> SUFFICES ASSUME NEW v \in values PROVE \E k \in firsts : s[k] = v
    OBVIOUS
  <2> DEFINE P == {k \in 1 .. n : s[k] = v}
             m == Min(P)
  <2>1. P \in SUBSET Nat /\ P # {}
    OBVIOUS
  <2>2. m \in P /\ \A y \in P : m <= y
    <3> HIDE DEF P
    <3> QED
      BY <2>1, MinMember
  <2> HIDE DEF m
  <2>3. m \in 1 .. n /\ s[m] = v
    BY <2>2
  <2>4. m \notin repeats
    <3> SUFFICES ASSUME NEW j \in 1 .. m - 1, s[j] = s[m] PROVE FALSE
      BY DEF repeats
    <3>1. j \in P
      BY <2>3
    <3> QED
      BY <2>2, <2>3, <3>1
  <2> QED
    BY <2>3, <2>4
<1>8. f \in Bijection(firsts, values)
  <2>1. f \in [firsts -> values]
    OBVIOUS
  <2>2. \A j, k \in firsts : f[j] = f[k] => j = k
    BY <1>6
  <2>3. \A v \in values : \E k \in firsts : f[k] = v
    BY <1>7
  <2> HIDE DEF f, firsts, values
  <2> QED
    BY <2>1, <2>2, <2>3 DEF Bijection, Injection, IsInjective, Surjection
<1>9. ExistsBijection(firsts, values)
  <2> HIDE DEF f, firsts, values
  <2> QED
    BY <1>8 DEF ExistsBijection
<1> HIDE DEF firsts, values
<1>10. Cardinality(values) = Cardinality(firsts)
  BY <1>5, <1>9, FS_Bijection
<1>11. n - Cardinality(values) = Cardinality(repeats)
  BY <1>4, <1>5, <1>10
<1> QED
  BY <1>1, <1>4, <1>11 DEF repeats, Again

\* A figure is the tiles that have an equal one before them.
LEMMA ReuseIs ==
  ASSUME NEW data \in Seq(Nat), Len(data) % TILE_BYTES = 0
  PROVE  /\ reuse(data) = [repeats |-> Cardinality(Repeats(data)), of |-> Len(data) \div TILE_BYTES]
         /\ (reuse(data).repeats > 0) = (Repeats(data) # {})
<1> DEFINE cut == tiles(data)
           n == Len(data) \div TILE_BYTES
           repeats == Again(cut, n)
<1>1. /\ cut \in Seq(Seq(Nat)) /\ Len(cut) = n /\ n \in Nat
      /\ \A j, k \in 1 .. n :
           cut[j] = cut[k]
             <=> \A b \in 1 .. TILE_BYTES : data[(j - 1) * TILE_BYTES + b] = data[(k - 1) * TILE_BYTES + b]
  BY TilesAre
<1>2. reuse(data) = [repeats |-> Len(cut) - Cardinality(ToSet(cut)), of |-> Len(cut)]
  BY DEF reuse
<1> HIDE DEF cut, n
<1>3. cut = [k \in 1 .. n |-> cut[k]]
  BY <1>1
<1>4. IsFiniteSet(repeats) /\ Cardinality(repeats) \in Nat /\ n - Cardinality(ToSet(cut)) = Cardinality(repeats)
  BY <1>1, <1>3, FirstsCounted
<1>5. repeats = Repeats(data)
  <2> DEFINE same(j, k) == \A b \in 1 .. TILE_BYTES : data[(j - 1) * TILE_BYTES + b] = data[(k - 1) * TILE_BYTES + b]
  <2>1. Repeats(data) = {k \in 1 .. n : \E j \in 1 .. k - 1 : same(j, k)}
    BY DEF Repeats, n
  <2>2. \A k \in 1 .. n : \A j \in 1 .. k - 1 : cut[j] = cut[k] <=> same(j, k)
    <3>1. \A k \in 1 .. n : \A j \in 1 .. k - 1 : j \in 1 .. n
      BY <1>1
    <3> QED
      BY <1>1, <3>1
  <2> HIDE DEF same
  <2> QED
    BY <2>1, <2>2 DEF Again
<1> HIDE DEF repeats
<1>6. reuse(data) = [repeats |-> Cardinality(repeats), of |-> n]
  BY <1>1, <1>2, <1>4
<1>7. Cardinality(repeats) > 0 <=> repeats # {}
  BY <1>4, FS_EmptySet
<1> QED
  BY <1>5, <1>6, <1>7 DEF n

\* The streams taken are the first of the long ones, up to the limit.
LEMMA ChosenAre ==
  ASSUME NEW table, NEW n \in Nat, DOMAIN table = 1 .. n, NEW limit, limit = NoLimit \/ limit \in [{1} -> Int]
  PROVE  /\ Chosen(table, limit) \in SUBSET Long(table) /\ Long(table) \in SUBSET (1 .. n)
         /\ IsFiniteSet(Chosen(table, limit)) /\ IsFiniteSet(Long(table))
         /\ Cardinality(Chosen(table, limit)) < Cardinality(Long(table)) =>
              limit # NoLimit /\ Cardinality(Chosen(table, limit)) = Enough(limit)
         /\ \A k \in Chosen(table, limit), j \in Long(table) \ Chosen(table, limit) : k < j
<1> DEFINE K == Long(table)
           C == Chosen(table, limit)
           b == Enough(limit)
<1>1. K \in SUBSET (1 .. n)
  BY DEF Long
<1>2. IsFiniteSet(K) /\ K \in SUBSET Int
  <2>1. 1 \in Int /\ n \in Int
    OBVIOUS
  <2>2. IsFiniteSet(1 .. n)
    BY <2>1, FS_Interval
  <2> QED
    BY <1>1, <2>2, FS_Subset
<1>3. C = {k \in K : limit = NoLimit \/ Rank(K, k) <= b}
  BY DEF Chosen, Rank
<1> HIDE DEF K, C, b
<1>4. CASE limit = NoLimit
  <2>1. C = K
    BY <1>3, <1>4
  <2>2. Cardinality(K) \in Nat
    BY <1>2, FS_CardinalityType
  <2>3. ~(Cardinality(C) < Cardinality(K)) /\ K \ C = {}
    BY <2>1, <2>2
  <2> QED
    BY <1>1, <1>2, <2>1, <2>3 DEF C, K
<1>5. CASE limit # NoLimit
  <2>1. b \in Nat
    BY <1>5 DEF b, Enough
  <2>2. C = {k \in K : Rank(K, k) <= b}
    BY <1>3, <1>5
  <2>3. /\ IsFiniteSet(C)
        /\ Cardinality(C) = IF b <= Cardinality(K) THEN b ELSE Cardinality(K)
    BY <1>2, <2>1, <2>2, FirstRanks
  <2>4. Cardinality(K) \in Nat
    BY <1>2, FS_CardinalityType
  <2>5. Cardinality(C) < Cardinality(K) => Cardinality(C) = b
    BY <2>1, <2>3, <2>4
  <2>6. ASSUME NEW k \in C, NEW j \in K \ C PROVE k < j
    <3>1. k \in K /\ Rank(K, k) <= b /\ ~(Rank(K, j) <= b) /\ k # j
      BY <2>2, <2>6
    <3>2. k \in Int /\ j \in Int /\ Rank(K, k) \in Int /\ Rank(K, j) \in Int
      <4>1. Rank(K, k) \in 1 .. Cardinality(K) /\ Rank(K, j) \in 1 .. Cardinality(K)
        BY <1>2, <3>1, RankIn
      <4> QED
        BY <1>2, <2>4, <3>1, <4>1
    <3>3. j < k => Rank(K, j) < Rank(K, k)
      BY <1>2, <3>1, RankGrows
    <3> QED
      BY <2>1, <3>1, <3>2, <3>3
  <2>7. C \in SUBSET K
    BY <2>2
  <2> QED
    BY <1>1, <1>2, <1>5, <2>3, <2>5, <2>6, <2>7 DEF C, K, b
<1> QED
  BY <1>4, <1>5

\* ShapeMeasured on every sheet.
LEMMA ShapeIsMeasured ==
  ASSUME NEW table, NEW limit, NEW outs, NEW noise, IsSheet(table, limit, outs, noise)
  PROVE  ShapeMeasured(table, limit, outs, noise)
<1> DEFINE result == against(table, limit, outs, noise)
           cut(k) == Out(outs, table[k])
           ctl(k) == SubSeq(noise, 1, Len(cut(k)))
           sheets == {k \in result.taken : table[k].length > 0 /\ table[k].length % TILE_BYTES = 0}
           C == Chosen(table, limit)
           runs == [k \in C |-> cut(k)]
           D == DOMAIN outs
<1>1. /\ outs \in [D -> Seq(Nat)] /\ noise \in Seq(Nat)
      /\ table \in Seq([offset : D, length : 0 .. Len(noise)])
      /\ limit = NoLimit \/ limit \in [{1} -> Int]
  BY DEF IsSheet
<1>2. Len(table) \in Nat /\ DOMAIN table = 1 .. Len(table) /\ Len(noise) \in Nat
  BY <1>1
<1>3. /\ C \in SUBSET Long(table) /\ Long(table) \in SUBSET (1 .. Len(table))
      /\ IsFiniteSet(C) /\ IsFiniteSet(Long(table))
      /\ Cardinality(C) < Cardinality(Long(table)) => limit # NoLimit /\ Cardinality(C) = Enough(limit)
      /\ \A k \in C, j \in Long(table) \ C : k < j
  BY <1>1, <1>2, ChosenAre
<1>4. /\ result.taken = C /\ result.found = survey(runs, noise)
      /\ result.raised = \E k \in C : table[k].length > Len(outs[table[k].offset])
  BY DEF against
<1> SUFFICES ASSUME ~result.raised
             PROVE  /\ result.found.aligned = Cardinality(sheets)
                    /\ result.found.aligned + result.found.unaligned = Cardinality(result.taken)
                    /\ result.found.withAnyRepeat = Cardinality({k \in sheets : Repeats(cut(k)) # {}})
                    /\ result.found.noiseWithAnyRepeat = Cardinality({k \in sheets : Repeats(ctl(k)) # {}})
                    /\ result.found.reuses = [k \in sheets |-> [repeats |-> Cardinality(Repeats(cut(k))),
                                                                of |-> Len(cut(k)) \div TILE_BYTES]]
  BY <1>3, <1>4, Zenon DEF ShapeMeasured, Enough
<1>5. ASSUME NEW k \in C
      PROVE  /\ cut(k) \in Seq(Nat) /\ Len(cut(k)) = table[k].length /\ table[k].length \in Nat
             /\ ctl(k) \in Seq(Nat) /\ Len(ctl(k)) = table[k].length
  <2>1. k \in 1 .. Len(table)
    BY <1>3
  <2>2. table[k] \in [offset : D, length : 0 .. Len(noise)]
    <3> DEFINE S == [offset : D, length : 0 .. Len(noise)]
    <3>1. table \in Seq(S)
      BY <1>1
    <3> HIDE DEF S
    <3>2. table[k] \in S
      BY <2>1, <3>1
    <3> QED
      BY <3>2 DEF S
  <2> DEFINE out == outs[table[k].offset]
             l == table[k].length
  <2>3. out \in Seq(Nat) /\ l \in Nat /\ l <= Len(noise)
    BY <1>1, <1>2, <2>2
  <2>4. ~(l > Len(out))
    BY <1>4
  <2>5. Out(outs, table[k]) = SubSeq(out, 1, IF l < Len(out) THEN l ELSE Len(out))
    BY DEF Out
  <2> HIDE DEF out, l
  <2>6. (IF l < Len(out) THEN l ELSE Len(out)) = l /\ l <= Len(out)
    BY <2>3, <2>4
  <2>7. cut(k) = SubSeq(out, 1, l)
    BY <2>5, <2>6
  <2>8. SubSeq(out, 1, l) \in Seq(Nat) /\ Len(SubSeq(out, 1, l)) = l
    BY <2>3, <2>6
  <2>9. SubSeq(noise, 1, l) \in Seq(Nat) /\ Len(SubSeq(noise, 1, l)) = l
    BY <1>1, <1>2, <2>3
  <2> QED
    BY <2>3, <2>7, <2>8, <2>9 DEF l
<1> HIDE DEF cut, ctl, result, C
<1> DEFINE measured == {k \in DOMAIN runs : tiles(runs[k]) # <<>>}
<1>6. DOMAIN runs = C /\ \A k \in C : runs[k] = cut(k)
  OBVIOUS
<1>7. measured = sheets
  <2>1. ASSUME NEW k \in C PROVE tiles(cut(k)) # <<>> <=> table[k].length > 0 /\ table[k].length % TILE_BYTES = 0
    <3>1. CASE table[k].length % TILE_BYTES = 0
      <4>1. cut(k) \in Seq(Nat) /\ Len(cut(k)) % TILE_BYTES = 0 /\ Len(cut(k)) = table[k].length
        BY <1>5, <3>1
      <4>2. tiles(cut(k)) # <<>> <=> Len(cut(k)) > 0
        BY <4>1, TilesAre
      <4> QED
        BY <3>1, <4>1, <4>2
    <3>2. CASE table[k].length % TILE_BYTES # 0
      <4>1. Len(cut(k)) % TILE_BYTES # 0
        BY <1>5, <3>2
      <4>2. tiles(cut(k)) = <<>>
        BY <4>1 DEF tiles
      <4> QED
        BY <3>2, <4>2
    <3> QED
      BY <3>1, <3>2
  <2> HIDE DEF runs
  <2> QED
    BY <1>4, <1>6, <2>1
<1>8. sheets \in SUBSET C /\ \A k \in sheets : table[k].length % TILE_BYTES = 0
  BY <1>4
<1>9. ASSUME NEW k \in sheets
      PROVE  /\ reuse(cut(k)) = [repeats |-> Cardinality(Repeats(cut(k))), of |-> Len(cut(k)) \div TILE_BYTES]
             /\ (reuse(cut(k)).repeats > 0) = (Repeats(cut(k)) # {})
             /\ (reuse(ctl(k)).repeats > 0) = (Repeats(ctl(k)) # {})
  <2>1. /\ cut(k) \in Seq(Nat) /\ Len(cut(k)) % TILE_BYTES = 0
        /\ ctl(k) \in Seq(Nat) /\ Len(ctl(k)) % TILE_BYTES = 0
    BY <1>5, <1>8
  <2> QED
    BY <2>1, ReuseIs
<1> HIDE DEF sheets
<1>10. /\ result.found.aligned = Cardinality(sheets)
       /\ result.found.unaligned = Cardinality(C \ sheets)
       /\ result.found.reuses = [k \in sheets |-> reuse(runs[k])]
       /\ result.found.withAnyRepeat = Cardinality({k \in sheets : reuse(runs[k]).repeats > 0})
       /\ result.found.noiseWithAnyRepeat = Cardinality({k \in sheets : reuse(SubSeq(noise, 1, Len(runs[k]))).repeats > 0})
  <2>1. /\ survey(runs, noise).aligned = Cardinality(measured)
        /\ survey(runs, noise).unaligned = Cardinality(DOMAIN runs \ measured)
        /\ survey(runs, noise).reuses = [k \in measured |-> reuse(runs[k])]
        /\ survey(runs, noise).withAnyRepeat = Cardinality({k \in measured : reuse(runs[k]).repeats > 0})
        /\ survey(runs, noise).noiseWithAnyRepeat
             = Cardinality({k \in measured : reuse(SubSeq(noise, 1, Len(runs[k]))).repeats > 0})
    <3> HIDE DEF runs
    <3> QED
      BY DEF survey
  <2> HIDE DEF runs, measured
  <2> QED
    BY <1>4, <1>6, <1>7, <2>1, Zenon
<1>11. Cardinality(sheets) + Cardinality(C \ sheets) = Cardinality(C)
  <2>1. Cardinality(C \ sheets) = Cardinality(C) - Cardinality(C \cap sheets)
    BY <1>3, FS_Difference
  <2>2. C \cap sheets = sheets
    BY <1>8
  <2>3. Cardinality(C) \in Nat /\ Cardinality(sheets) \in Nat
    BY <1>3, <1>8, FS_Subset, FS_CardinalityType
  <2>4. Cardinality(C \ sheets) = Cardinality(C) - Cardinality(sheets)
    BY <2>1, <2>2, Zenon
  <2> DEFINE a == Cardinality(C)
             b == Cardinality(sheets)
             d == Cardinality(C \ sheets)
  <2> HIDE DEF a, b, d
  <2>5. a \in Nat /\ b \in Nat /\ d = a - b
    BY <2>3, <2>4 DEF a, b, d
  <2>6. b + d = a
    BY <2>5
  <2> QED
    BY <2>6 DEF a, b, d
<1> HIDE DEF measured
<1>12. \A k \in sheets : runs[k] = cut(k) /\ SubSeq(noise, 1, Len(runs[k])) = ctl(k)
  BY <1>6, <1>8 DEF ctl
<1> HIDE DEF runs
<1>13. {k \in sheets : reuse(runs[k]).repeats > 0} = {k \in sheets : Repeats(cut(k)) # {}}
  BY <1>9, <1>12
<1>14. {k \in sheets : reuse(SubSeq(noise, 1, Len(runs[k]))).repeats > 0} = {k \in sheets : Repeats(ctl(k)) # {}}
  BY <1>9, <1>12
<1>15. [k \in sheets |-> reuse(runs[k])]
         = [k \in sheets |-> [repeats |-> Cardinality(Repeats(cut(k))), of |-> Len(cut(k)) \div TILE_BYTES]]
  BY <1>9, <1>12
<1>16. result.found.aligned + result.found.unaligned = Cardinality(result.taken)
  BY <1>4, <1>10, <1>11
<1> QED
  BY <1>10, <1>13, <1>14, <1>15, <1>16
=============================================================================
