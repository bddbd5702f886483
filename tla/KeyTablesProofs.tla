-------------------------- MODULE KeyTablesProofs --------------------------
(***************************************************************************)
(* The key tables, for any byte, any number of repair rounds and any lists *)
(* of streams: the slots are owned, the repairs move nothing, and what a   *)
(* finished table translates is right.  Then the gate, for any lists,      *)
(* budgets and requests: what it measures on a placement of its own holds  *)
(* of the placement the build makes again, because the builder can place a *)
(* list in one way only.                                                   *)
(***************************************************************************)
EXTENDS Gate, ModArith, SequenceTheorems

-----------------------------------------------------------------------------
(* Slots *)

\* A byte has two values or more, a bank more slots than that.
LEMMA SlotFacts == Byte \in Nat /\ Byte > 1 /\ Slots \in Nat /\ Slots >= 1 /\ Slots > Byte
  BY TableAssumption, Z3 DEF Slots

\* Low byte, high byte and bank put a number together again.
LEMMA Digits ==
  ASSUME NEW n \in Nat
  PROVE  n = (n % Byte) + ((n \div Byte) % Byte) * Byte + (n \div Slots) * Slots
<1> DEFINE q == n \div Byte
           r == n % Byte
           t == q \div Byte
           u == q % Byte
<1>0. Byte \in Nat \ {0}
  BY SlotFacts
<1>1. q \in Nat /\ r \in 0 .. Byte - 1 /\ n = Byte * q + r
  BY <1>0, DivMod
<1> HIDE DEF q, r
<1>2. t \in Nat /\ u \in 0 .. Byte - 1 /\ q = Byte * t + u
  BY <1>0, <1>1, DivMod
<1> HIDE DEF t, u
<1>3. Byte * u + r \in 0 .. Byte * Byte - 1
  <2>1. Byte * u <= Byte * (Byte - 1)
    BY <1>0, <1>2, Z3
  <2>2. Byte * (Byte - 1) = Byte * Byte - Byte /\ Byte * u >= 0 /\ Byte * u \in Int /\ Byte * Byte \in Int
    BY <1>0, <1>2, Z3
  <2> QED
    BY <1>0, <1>1, <2>1, <2>2
<1>4. n = Slots * t + (Byte * u + r)
  <2>1. Byte * (Byte * t + u) = (Byte * Byte) * t + Byte * u
    BY <1>0, <1>2, Z3
  <2>2. (Byte * Byte) * t \in Int /\ Byte * u \in Int
    BY <1>0, <1>2, Z3
  <2> QED
    BY <1>1, <1>2, <2>1, <2>2 DEF Slots
<1>5. n % Slots = Byte * u + r
  <2>1. Byte * u + r \in 0 .. Slots - 1
    BY <1>3 DEF Slots
  <2> HIDE DEF Slots
  <2>2. (Slots * t + (Byte * u + r)) % Slots = Byte * u + r
    <3>1. t \in Int /\ Slots \in Nat \ {0}
      BY <1>2, SlotFacts
    <3> QED
      BY <2>1, <3>1, ModUnique, Zenon
  <2> QED
    BY <1>4, <2>2
<1>6. n = Slots * (n \div Slots) + (n % Slots) /\ n \div Slots \in Int
  BY DivMod, SlotFacts
<1>7. Slots * t = Slots * (n \div Slots)
  <2>1. Slots * t \in Int /\ Slots * (n \div Slots) \in Int /\ Byte * u + r \in Int
    BY <1>1, <1>2, <1>0, <1>6, SlotFacts, Z3
  <2> HIDE DEF Slots
  <2> QED
    BY <1>4, <1>5, <1>6, <2>1
<1>8. n = r + u * Byte + (n \div Slots) * Slots
  <2>1. Byte * u = u * Byte /\ (n \div Slots) * Slots = Slots * (n \div Slots)
    BY <1>0, <1>2, <1>6, SlotFacts, Z3
  <2>2. Byte * u \in Int /\ Slots * t \in Int /\ r \in Int
    BY <1>0, <1>1, <1>2, SlotFacts, Z3
  <2> QED
    BY <1>4, <1>7, <2>1, <2>2
<1> QED
  BY <1>8 DEF r, u, q

-----------------------------------------------------------------------------
(* Walks *)

\* The slot of S first met from s is d steps on.
IsFirst(s, S, d) ==
  d \in Slot /\ Probe(s, d) \in S /\ \A e \in 0 .. d - 1 : Probe(s, e) \notin S

LEMMA ProbeType == ASSUME NEW s \in Nat, NEW d \in Nat PROVE Probe(s, d) \in Slot
<1> DEFINE n == s + d
<1>1. n \in Nat
  OBVIOUS
<1> HIDE DEF n
<1>2. n % Slots \in 0 .. Slots - 1
  BY <1>1, SlotFacts, ModRange
<1> QED
  BY <1>2 DEF Probe, Slot, n

\* Within a table every slot is met once.
LEMMA ProbeSmall ==
  ASSUME NEW s \in Slot, NEW d \in Slot
  PROVE  Probe(s, d) = IF s + d < Slots THEN s + d ELSE (s + d) - Slots
<1> DEFINE n == s + d
<1>1. Slots \in Nat \ {0} /\ n \in Nat /\ n <= 2 * Slots - 1
  BY SlotFacts DEF Slot
<1>p. Probe(s, d) = n % Slots /\ s + d = n
  BY DEF Probe
<1> HIDE DEF n
<1>2. CASE n < Slots
  <2>1. n \in 0 .. Slots - 1
    BY <1>1, <1>2
  <2>2. n % Slots = n
    BY <1>1, <2>1, ModSmall
  <2> QED
    BY <1>2, <1>p, <2>2
<1>3. CASE n >= Slots
  <2>1. n \in Slots .. 2 * Slots - 1
    BY <1>1, <1>3
  <2>2. n % Slots = n - Slots
    BY <1>1, <2>1, ModOnce
  <2> QED
    BY <1>1, <1>3, <1>p, <2>2
<1> QED
  BY <1>1, <1>2, <1>3

LEMMA ProbeReaches ==
  ASSUME NEW s \in Slot, NEW r \in Slot
  PROVE  \E d \in Slot : Probe(s, d) = r
<1> DEFINE d == IF r >= s THEN r - s ELSE r - s + Slots
<1>1. d \in Slot /\ s \in Int /\ r \in Int /\ Slots \in Int /\ r < Slots /\ r >= 0
  BY SlotFacts DEF Slot
<1>2. s + d = r \/ s + d = r + Slots
  BY <1>1
<1>3. Probe(s, d) = IF s + d < Slots THEN s + d ELSE (s + d) - Slots
  BY <1>1, ProbeSmall
<1> HIDE DEF d
<1>4. Probe(s, d) = r
  BY <1>1, <1>2, <1>3
<1> QED
  BY <1>1, <1>4

LEMMA ProbeInjective ==
  ASSUME NEW s \in Slot, NEW d \in Slot, NEW e \in Slot, Probe(s, d) = Probe(s, e)
  PROVE  d = e
<1>1. Slots \in Int
  BY SlotFacts
<1>2. s \in 0 .. Slots - 1 /\ d \in 0 .. Slots - 1 /\ e \in 0 .. Slots - 1
  BY DEF Slot
<1>3. ASSUME NEW c \in Slot
      PROVE  /\ s + c < Slots => Probe(s, c) = s + c
             /\ s + c >= Slots => Probe(s, c) = (s + c) - Slots
  <2>1. Probe(s, c) = IF s + c < Slots THEN s + c ELSE (s + c) - Slots
    BY ProbeSmall
  <2>2. s + c \in Int /\ Slots \in Int
    BY SlotFacts DEF Slot
  <2> QED
    BY <2>1, <2>2
<1> QED
  BY <1>1, <1>2, <1>3

\* A walk goes on from the slot after one it has met.
LEMMA ProbeOn ==
  ASSUME NEW s \in Slot, NEW d \in Nat, NEW e \in Nat
  PROVE  Probe((Probe(s, d) + 1) % Slots, e) = Probe(s, d + 1 + e)
<1> DEFINE w == Probe(s, d)
<1>1. Slots \in Nat \ {0} /\ s \in Nat /\ w \in Nat
  BY SlotFacts, ProbeType DEF Slot
<1>2. w = (s + d) % Slots
  BY DEF Probe
<1> HIDE DEF w
<1>3. (((w + 1) % Slots) + e) % Slots = ((w + 1) + e) % Slots
  <2>1. w + 1 \in Nat
    BY <1>1
  <2> QED
    BY <1>1, <2>1, ModAdd
<1>4. (((s + d) % Slots) + (1 + e)) % Slots = ((s + d) + (1 + e)) % Slots
  <2>1. s + d \in Nat /\ 1 + e \in Nat
    BY <1>1
  <2> QED
    BY <1>1, <2>1, ModAdd
<1>5. (w + 1) + e = w + (1 + e) /\ (s + d) + (1 + e) = s + (d + 1 + e)
  BY <1>1
<1>6. Probe((w + 1) % Slots, e) = (w + (1 + e)) % Slots
  BY <1>3, <1>5 DEF Probe
<1>7. (w + (1 + e)) % Slots = (s + (d + 1 + e)) % Slots
  BY <1>2, <1>4, <1>5
<1> QED
  BY <1>6, <1>7 DEF Probe, w

\* Only one slot is met first.
LEMMA FirstInIs ==
  ASSUME NEW s \in Slot, NEW S, NEW d, IsFirst(s, S, d)
  PROVE  FirstIn(s, S) = Probe(s, d)
<1> DEFINE P(c) == Probe(s, c) \in S /\ \A e \in 0 .. c - 1 : Probe(s, e) \notin S
           c0 == CHOOSE c \in Slot : P(c)
<1>1. d \in Slot /\ P(d)
  BY DEF IsFirst
<1>2. c0 \in Slot /\ P(c0)
  BY <1>1
<1> HIDE DEF c0
<1>3. c0 = d
  BY <1>1, <1>2, SlotFacts DEF Slot
<1> QED
  BY <1>3 DEF FirstIn, c0

\* A walk over a set of slots that is not empty meets one first.
LEMMA FirstInExists ==
  ASSUME NEW s \in Slot, NEW S \in SUBSET Slot, S # {}
  PROVE  \E d \in Slot : IsFirst(s, S, d)
<1> DEFINE T == {d \in Slot : Probe(s, d) \in S}
<1>1. T \in SUBSET Nat /\ T # {}
  <2>1. PICK r \in S : r \in Slot
    OBVIOUS
  <2>2. PICK d \in Slot : Probe(s, d) = r
    BY <2>1, ProbeReaches
  <2>3. d \in T
    BY <2>1, <2>2
  <2> QED
    BY <2>3, SlotFacts DEF Slot
<1>2. PICK d \in T : \A e \in T : d <= e
  <2> HIDE DEF T
  <2> QED BY <1>1, LeastNatural
<1>3. ASSUME NEW e \in 0 .. d - 1 PROVE Probe(s, e) \notin S
  <2>1. e \in Slot /\ ~(d <= e)
    BY SlotFacts DEF Slot
  <2> QED
    BY <1>2, <2>1
<1> QED
  BY <1>3 DEF IsFirst

-----------------------------------------------------------------------------
(* The invariant *)

Places == {"allocate", "place", "repair", "verify", "emit", "built", "refused", "bank zero"}
Tables4 == [key : [Slot -> Nat], low : [Slot -> Nat], high : [Slot -> Nat], bank : [Slot -> Nat]]

\* The places where a build dies are not among them.
Types ==
  /\ pc \in Places
  /\ pairs \in Inputs /\ todo \in SUBSET Index
  /\ table \in [Slot -> Nat] /\ placed \in [Index -> Slot]
  /\ rom \in Tables4

\* Each stream of D owns its slot, its bank lies there, and the table holds
\* nothing else.
Owned(t, pl, D) ==
  /\ \A i, j \in D : pl[i] = pl[j] => i = j
  /\ \A s \in Slot : t[s] # Empty => \E i \in D : pl[i] = s
  /\ \A i \in D : t[pl[i]] = BankOf(i)

\* The walk from a stream's address to its slot crosses no free slot.
Reached(t, pl, i) ==
  \E d \in Slot : /\ pl[i] = Probe(AddrOf(i), d)
                  /\ \A e \in 0 .. d - 1 : t[Probe(AddrOf(i), e)] # Empty

Rooms ==
  /\ pc = "allocate" => todo = {}
  /\ pc \notin {"allocate", "refused"} => Len(pairs) <= Slots

Lookups ==
  /\ pc = "repair" => todo \subseteq Broken
  /\ pc \in {"verify", "emit", "built"} => Broken = {}

Blanks == [key |-> Blank, low |-> Blank, high |-> Blank, bank |-> Blank]

\* The tables hold the streams emitted so far, and no others.
Emitted ==
  /\ pc \notin {"emit", "built", "bank zero"} => rom = Blanks
  /\ pc \in {"emit", "built"} =>
       /\ \A s \in Slot : rom.key[s] # Empty => \E i \in Index \ todo : placed[i] = s
       /\ \A i \in Index \ todo :
            /\ rom.key[placed[i]] = BankOf(i)
            /\ rom.low[placed[i]] = pairs[i].dest % Byte
            /\ rom.high[placed[i]] = (pairs[i].dest \div Byte) % Byte
            /\ rom.bank[placed[i]] = pairs[i].dest \div Slots
  /\ pc = "built" => todo = {}

TableInv ==
  /\ Types /\ Rooms /\ Lookups /\ Emitted
  /\ pc # "refused" =>
       Owned(table, placed, Settled) /\ \A i \in Settled : Reached(table, placed, i)

\* What is known of one stream.
LEMMA PairFacts ==
  ASSUME pairs \in Inputs, NEW i \in Index
  PROVE  /\ BankOf(i) \in Nat /\ BankOf(i) # Empty /\ AddrOf(i) \in Slot
         /\ pairs[i].dest \in Nat /\ Index = 1 .. Len(pairs) /\ Len(pairs) \in Nat
<1>1. pairs \in Seq(Pair)
  BY TableAssumption
<1>2. Index = 1 .. Len(pairs) /\ Len(pairs) \in Nat /\ pairs[i] \in Pair
  BY <1>1, LenProperties, ElementOfSeq DEF Index
<1>3. pairs[i].source \in Nat /\ pairs[i].dest \in Nat
  BY <1>2 DEF Pair
<1> DEFINE n == pairs[i].source
<1> HIDE DEF n
<1>4. n \in Nat /\ n \div Slots \in Nat /\ n % Slots \in 0 .. Slots - 1
  <2>1. n \in Nat
    BY <1>3 DEF n
  <2> QED
    <3>1. Slots \in Nat \ {0}
      BY SlotFacts
    <3> HIDE DEF Slots
    <3>2. n % Slots \in 0 .. Slots - 1
      BY <2>1, <3>1, ModRange
    <3>3. n \div Slots \in Nat
      BY <2>1, <3>1, DivNat
    <3> QED
      BY <2>1, <3>2, <3>3
<1>5. BankOf(i) = WindowBase + (n \div Slots) /\ AddrOf(i) = n % Slots
  BY DEF BankOf, AddrOf, n
<1>6. BankOf(i) \in Nat /\ BankOf(i) # 0
  <2> DEFINE q == n \div Slots
  <2>1. q \in Nat
    BY <1>4
  <2> HIDE DEF q
  <2>2. WindowBase + q \in Nat /\ WindowBase + q # 0
    BY <2>1, TableAssumption
  <2> QED
    BY <1>5, <2>2 DEF q
<1> QED
  BY <1>2, <1>3, <1>4, <1>5, <1>6 DEF Empty, Slot

\* Nothing that is read from the arguments and the table changes with them.
LEMMA SameTable ==
  ASSUME UNCHANGED <<pairs, table, placed>>
  PROVE  /\ Index' = Index /\ Broken' = Broken
         /\ \A i \in Index : BankOf(i)' = BankOf(i) /\ Reached(table, placed, i)' = Reached(table, placed, i)
<1> QED
  BY DEF Index, Broken, BankOf, AddrOf, Reached, FoundAt, Scan, Holding

\* The invariant of a state whose arguments are those of the one before.
LEMMA SameArguments ==
  ASSUME UNCHANGED pairs
  PROVE  /\ Index' = Index
         /\ \A i \in Index : BankOf(i)' = BankOf(i) /\ AddrOf(i)' = AddrOf(i)
         /\ Settled' \subseteq Index /\ Owned(table', placed', Settled') => Owned(table, placed, Settled)'
         /\ \A i \in Index : Reached(table, placed, i)' <=> Reached(table', placed', i)
<1>1. Index' = Index
  BY DEF Index
<1>2. ASSUME NEW i \in Index PROVE BankOf(i)' = BankOf(i) /\ AddrOf(i)' = AddrOf(i)
  BY DEF BankOf, AddrOf
<1>3. ASSUME Settled' \subseteq Index, Owned(table', placed', Settled')
      PROVE  Owned(table, placed, Settled)'
  BY <1>2, <1>3 DEF Owned
<1>4. ASSUME NEW i \in Index PROVE Reached(table, placed, i)' <=> Reached(table', placed', i)
  BY <1>2 DEF Reached
<1> QED
  BY <1>1, <1>2, <1>3, <1>4

LEMMA TableInvInit == Init => TableInv
<1> SUFFICES ASSUME Init PROVE TableInv
  OBVIOUS
<1>1. Slots \in Nat /\ 0 \in Slot
  BY SlotFacts DEF Slot
<1>2. Blank \in [Slot -> Nat]
  BY DEF Blank, Empty
<1>3. Types /\ Rooms /\ Lookups /\ Emitted
  BY <1>1, <1>2 DEF Init, Types, Places, Tables4, Rooms, Lookups, Emitted, Blanks
<1>4. Settled = {} /\ table = Blank
  BY DEF Init, Settled
<1>5. Owned(table, placed, Settled)
  BY <1>4 DEF Owned, Blank
<1> QED
  BY <1>3, <1>4, <1>5 DEF TableInv

\* A stream that has no slot yet finds one: fewer slots are taken than there
\* are streams, and there are no more streams than slots.
LEMMA RoomLeft ==
  ASSUME TableInv, pc = "place", NEW i \in todo
  PROVE  Holding(table, Empty) # {}
<1> SUFFICES ASSUME Holding(table, Empty) = {} PROVE FALSE
  OBVIOUS
<1> DEFINE D == Index \ todo
           owner == [s \in Slot |-> CHOOSE j \in D : placed[j] = s]
<1>1. i \in Index /\ Index = 1 .. Len(pairs) /\ Len(pairs) \in Nat /\ Len(pairs) <= Slots
  BY PairFacts DEF TableInv, Types, Rooms
<1>2. IsFiniteSet(D) /\ Cardinality(D) < Len(pairs)
  <2>1. IsFiniteSet(Index) /\ Cardinality(Index) = Len(pairs)
    <3> DEFINE n == Len(pairs)
    <3>1. n \in Nat /\ Index = 1 .. n
      BY <1>1
    <3> HIDE DEF n
    <3>2. IsFiniteSet(1 .. n) /\ Cardinality(1 .. n) = IF 1 > n THEN 0 ELSE n - 1 + 1
      BY <3>1, FS_Interval
    <3>3. Cardinality(1 .. n) = n
      BY <3>1, <3>2
    <3> QED
      BY <3>1, <3>2, <3>3 DEF n
  <2>2. IsFiniteSet(Index \ {i}) /\ Cardinality(Index \ {i}) = Len(pairs) - 1
    BY <1>1, <2>1, FS_RemoveElement
  <2>3. D \in SUBSET (Index \ {i})
    OBVIOUS
  <2>4. IsFiniteSet(D) /\ Cardinality(D) <= Len(pairs) - 1
    BY <2>2, <2>3, FS_Subset
  <2>5. Cardinality(D) \in Nat
    BY <2>4, FS_CardinalityType
  <2> QED
    BY <1>1, <2>4, <2>5
<1>3. IsFiniteSet(Slot) /\ Cardinality(Slot) = Slots
  BY SlotFacts, FS_Interval DEF Slot
<1>4. \A s \in Slot : \E j \in D : placed[j] = s
  <2>1. \A s \in Slot : table[s] # Empty
    BY DEF Holding
  <2>2. Settled = D
    BY DEF Settled
  <2> QED
    BY <2>1, <2>2 DEF TableInv, Owned
<1>5. owner \in [Slot -> D] /\ \A s \in Slot : placed[owner[s]] = s
  BY <1>4
<1>6. Cardinality(D) < Cardinality(Slot)
  <2>1. Cardinality(D) \in Nat
    BY <1>2, FS_CardinalityType
  <2> QED
    BY <1>1, <1>2, <1>3, <2>1, SlotFacts
<1>7. PICK s \in Slot, r \in Slot : s # r /\ owner[s] = owner[r]
  <2> HIDE DEF D, owner
  <2> QED BY <1>2, <1>3, <1>5, <1>6, FS_PigeonHole
<1> QED
  BY <1>5, <1>7

LEMMA PlaceStep ==
  ASSUME TableInv, NEW i \in todo, Place(i)
  PROVE  TableInv'
<1> DEFINE free == Holding(table, Empty)
           s == AddrOf(i)
<1>1. pc = "place" /\ i \in Index /\ Settled = Index \ todo
  BY DEF Place, TableInv, Types, Settled
<1>2. free # {} /\ free \in SUBSET Slot
  BY <1>1, RoomLeft DEF Holding
<1>3. /\ BankOf(i) \in Nat /\ BankOf(i) # Empty /\ s \in Slot
  BY <1>1, PairFacts DEF TableInv, Types
<1>4. PICK d \in Slot : IsFirst(s, free, d)
  <2> HIDE DEF free, s
  <2> QED BY <1>2, <1>3, FirstInExists
<1> DEFINE r == Probe(s, d)
<1>5. FirstFree(table, s) = r
  <2>1. FirstIn(s, free) = r
    <3> HIDE DEF free, s
    <3> QED BY <1>3, <1>4, FirstInIs
  <2> QED
    BY <2>1 DEF FirstFree
<1>6. r \in Slot /\ table[r] = Empty /\ \A e \in 0 .. d - 1 : table[Probe(s, e)] # Empty
  <2>1. \A e \in 0 .. d - 1 : Probe(s, e) \in Slot
    <3>1. \A e \in 0 .. d - 1 : e \in Nat
      BY SlotFacts DEF Slot
    <3>2. s \in Nat
      BY <1>3, SlotFacts DEF Slot
    <3> HIDE DEF s
    <3> QED BY <3>1, <3>2, ProbeType
  <2> QED
    BY <1>4, <2>1 DEF IsFirst, Holding
<1>7. /\ table' = [table EXCEPT ![r] = BankOf(i)] /\ placed' = [placed EXCEPT ![i] = r]
      /\ todo' = todo \ {i} /\ UNCHANGED <<pc, pairs, rounds, rom>>
  BY <1>1, <1>2, <1>5 DEF Place, PutFrom
<1> HIDE DEF free, s, r
<1>8. /\ \A j \in Index : placed'[j] = IF j = i THEN r ELSE placed[j]
      /\ \A c \in Slot : table'[c] = IF c = r THEN BankOf(i) ELSE table[c]
  BY <1>7 DEF TableInv, Types
<1>9. Settled' = Settled \cup {i} /\ Index' = Index
  BY <1>1, <1>7 DEF Settled, Index
<1>10. Types'
  BY <1>1, <1>3, <1>6, <1>7, <1>9 DEF TableInv, Types
<1>11. \A j \in Index : placed[j] \in Slot
  BY DEF TableInv, Types
<1>12. Owned(table', placed', Settled \cup {i})
  <2>0. Owned(table, placed, Settled)
    BY <1>1 DEF TableInv
  <2>1. \A j \in Settled : placed[j] # r
    <3> SUFFICES ASSUME NEW j \in Settled, placed[j] = r PROVE FALSE
      OBVIOUS
    <3>1. table[r] = BankOf(j) /\ j \in Index
      BY <1>1, <2>0 DEF Owned
    <3> QED
      BY <1>6, <3>1, PairFacts DEF TableInv, Types
  <2>2. i \notin Settled /\ Settled \subseteq Index
    BY <1>1
  <2>3. \A j, k \in Settled \cup {i} : placed'[j] = placed'[k] => j = k
    BY <1>1, <1>8, <2>0, <2>1, <2>2 DEF Owned
  <2>4. \A c \in Slot : table'[c] # Empty => \E j \in Settled \cup {i} : placed'[j] = c
    BY <1>1, <1>8, <2>0, <2>2 DEF Owned
  <2>5. \A j \in Settled \cup {i} : table'[placed'[j]] = BankOf(j)
    BY <1>1, <1>6, <1>8, <1>11, <2>0, <2>1, <2>2 DEF Owned
  <2> QED
    BY <2>3, <2>4, <2>5 DEF Owned
<1>13. ASSUME NEW j \in Settled \cup {i} PROVE Reached(table', placed', j)
  <2>1. j \in Index /\ AddrOf(j) \in Slot
    BY <1>1, PairFacts DEF TableInv, Types
  <2>2. PICK g \in Slot : /\ placed'[j] = Probe(AddrOf(j), g)
                          /\ \A e \in 0 .. g - 1 : table[Probe(AddrOf(j), e)] # Empty
    <3>1. CASE j = i
      BY <1>6, <1>8, <2>1, <3>1 DEF s, r
    <3>2. CASE j # i
      BY <1>1, <1>8, <2>1, <3>2 DEF TableInv, Reached
    <3> QED
      BY <3>1, <3>2
  <2>3. \A e \in 0 .. g - 1 : Probe(AddrOf(j), e) \in Slot
    <3>1. AddrOf(j) \in Nat /\ \A e \in 0 .. g - 1 : e \in Nat
      BY <2>1, SlotFacts DEF Slot
    <3> QED
      BY <3>1, ProbeType
  <2>4. \A e \in 0 .. g - 1 : table'[Probe(AddrOf(j), e)] # Empty
    BY <1>3, <1>8, <2>2, <2>3
  <2> QED
    BY <2>2, <2>4 DEF Reached
<1>14. Owned(table, placed, Settled)' /\ \A j \in Settled' : Reached(table, placed, j)'
  BY <1>1, <1>7, <1>9, <1>12, <1>13, SameArguments
<1>15. Rooms' /\ Lookups' /\ Emitted'
  BY <1>1, <1>7 DEF TableInv, Rooms, Lookups, Emitted
<1> QED
  BY <1>10, <1>14, <1>15 DEF TableInv

\* The free slot a repair finds is the one it has just given up.
LEMMA RepairKeeps ==
  ASSUME TableInv, NEW i \in todo, Repair(i)
  PROVE  todo' = todo \ {i} /\ UNCHANGED <<pc, pairs, table, placed, rounds, rom>>
<1> DEFINE b == BankOf(i)
           s == AddrOf(i)
           H == Holding(table, b)
           freed == [table EXCEPT ![placed[i]] = Empty]
           F == Holding(freed, Empty)
<1>1. /\ pc = "repair" /\ i \in Index /\ Settled = Index /\ i \in Broken
      /\ table \in [Slot -> Nat] /\ placed \in [Index -> Slot]
  BY DEF Repair, TableInv, Types, Settled, Lookups
<1>2. b \in Nat /\ b # Empty /\ s \in Slot /\ s \in Nat
  BY <1>1, PairFacts, SlotFacts DEF TableInv, Types, Slot
<1>3. PICK d \in Slot : placed[i] = Probe(s, d) /\ \A e \in 0 .. d - 1 : table[Probe(s, e)] # Empty
  BY <1>1 DEF TableInv, Reached
<1>4. table[placed[i]] = b /\ placed[i] \in H
  BY <1>1 DEF TableInv, Owned, Holding
<1>5. H \in SUBSET Slot /\ H # {} /\ F \in SUBSET Slot
  BY <1>4 DEF Holding
<1>6. PICK f \in Slot : IsFirst(s, H, f)
  <2> HIDE DEF H, s
  <2> QED BY <1>2, <1>5, FirstInExists
<1>7. Scan(table, b, s) = Probe(s, f)
  <2>1. FirstIn(s, H) = Probe(s, f)
    <3> HIDE DEF H, s
    <3> QED BY <1>2, <1>6, FirstInIs
  <2> QED
    BY <2>1 DEF Scan
<1>8. d \in Nat /\ f \in Nat /\ f < d /\ d < Slots /\ Slots \in Nat
  <2>1. d \in Nat /\ f \in Nat /\ d < Slots /\ Slots \in Nat
    BY SlotFacts DEF Slot
  <2>2. f # d
    <3>1. ~FoundAt(table, i, placed[i])
      BY <1>1 DEF Broken
    <3> QED
      BY <1>3, <1>5, <1>7, <3>1 DEF FoundAt
  <2>3. ~(d < f)
    <3>1. d < f => d \in 0 .. f - 1
      BY <2>1
    <3>2. \A e \in 0 .. f - 1 : Probe(s, e) \notin H
      BY <1>6 DEF IsFirst
    <3> HIDE DEF H, s
    <3> QED
      BY <1>3, <1>4, <3>1, <3>2
  <2> QED
    BY <2>1, <2>2, <2>3
<1> DEFINE n == (Probe(s, f) + 1) % Slots
           g == d - f - 1
<1>9. g \in Nat /\ g \in Slot /\ g = d - (f + 1)
  BY <1>8 DEF Slot
<1>10. n \in Slot
  <2>1. Probe(s, f) \in Nat
    <3>1. Probe(s, f) \in Slot
      <4> HIDE DEF s
      <4> QED BY <1>2, <1>8, ProbeType
    <3> QED
      BY <3>1, SlotFacts DEF Slot
  <2> DEFINE m == Probe(s, f) + 1
  <2>2. m \in Nat /\ Slots \in Nat \ {0}
    BY <2>1, SlotFacts
  <2> HIDE DEF m
  <2>3. m % Slots \in 0 .. Slots - 1
    BY <2>2, ModRange
  <2> QED
    BY <2>3 DEF m, Slot
<1>11. ASSUME NEW e \in Nat PROVE Probe(n, e) = Probe(s, f + 1 + e)
  BY <1>2, <1>8, ProbeOn
<1>12. Probe(n, g) = placed[i]
  <2>1. f + 1 + g = d
    BY <1>8, <1>9
  <2> HIDE DEF n, g, s
  <2> QED
    BY <1>3, <1>9, <1>11, <2>1
<1>13. \A c \in Slot : freed[c] = IF c = placed[i] THEN Empty ELSE table[c]
  BY <1>1
<1>14. IsFirst(n, F, g)
  <2>1. placed[i] \in F
    BY <1>1, <1>13 DEF Holding
  <2>2. ASSUME NEW e \in 0 .. g - 1 PROVE Probe(n, e) \notin F
    <3> DEFINE k == f + 1 + e
    <3>1. e \in Nat /\ k \in 0 .. d - 1 /\ k \in Slot /\ k # d /\ k \in Nat
      BY <1>8, <1>9 DEF Slot
    <3>2. Probe(n, e) = Probe(s, k)
      BY <1>11, <3>1
    <3> HIDE DEF k, n, g, s, freed, F
    <3>3. table[Probe(s, k)] # Empty
      BY <1>3, <3>1
    <3>4. Probe(s, k) # placed[i]
      BY <1>2, <1>3, <3>1, ProbeInjective
    <3>5. Probe(s, k) \in Slot
      BY <1>2, <3>1, ProbeType
    <3>6. freed[Probe(s, k)] # Empty
      BY <1>13, <3>3, <3>4, <3>5
    <3> QED
      BY <3>2, <3>6 DEF F, Holding
  <2> HIDE DEF n, g, F
  <2> QED
    BY <1>9, <1>12, <2>1, <2>2 DEF IsFirst
<1>15. FirstFree(freed, n) = placed[i]
  <2>1. FirstIn(n, F) = Probe(n, g)
    <3> HIDE DEF n, g, F
    <3> QED BY <1>10, <1>14, FirstInIs
  <2> HIDE DEF n, g
  <2> QED
    BY <1>12, <2>1 DEF FirstFree
<1>16. PutFrom(freed, i, n)
  <2>1. Holding(table, BankOf(i)) # {}
    BY <1>5
  <2> QED
    BY <1>7, <2>1 DEF Repair
<1>17. /\ table' = [freed EXCEPT ![placed[i]] = b] /\ placed' = [placed EXCEPT ![i] = placed[i]]
       /\ todo' = todo \ {i} /\ UNCHANGED <<pc, pairs, rounds, rom>>
  <2> HIDE DEF freed, n
  <2> QED
    BY <1>1, <1>15, <1>16 DEF PutFrom
<1>18. table' = table /\ placed' = placed
  <2> HIDE DEF b
  <2> QED
    BY <1>1, <1>4, <1>17
<1> QED
  BY <1>17, <1>18

\* A step that leaves the placement alone.
LEMMA KeepStep ==
  ASSUME TableInv, UNCHANGED <<pairs, table, placed>>, pc # "refused", Settled' = Settled
  PROVE  Owned(table, placed, Settled)' /\ \A i \in Settled' : Reached(table, placed, i)'
<1>1. Settled \subseteq Index
  BY DEF Settled, TableInv, Types
<1> QED
  BY <1>1, SameArguments DEF TableInv

LEMMA RepairStep ==
  ASSUME TableInv, NEW i \in todo, Repair(i)
  PROVE  TableInv'
<1>1. todo' = todo \ {i} /\ UNCHANGED <<pc, pairs, table, placed, rounds, rom>> /\ pc = "repair"
  BY RepairKeeps DEF Repair
<1>2. Index' = Index /\ Broken' = Broken /\ Settled' = Settled
  BY <1>1, SameTable DEF Settled
<1>3. Types' /\ Rooms' /\ Lookups'
  BY <1>1, <1>2 DEF TableInv, Types, Rooms, Lookups
<1>4. Emitted'
  BY <1>1 DEF TableInv, Emitted
<1> QED
  BY <1>1, <1>2, <1>3, <1>4, KeepStep DEF TableInv

\* The steps between the loops.
LEMMA BetweenStep ==
  ASSUME TableInv, Begin \/ Inspect \/ Finish
  PROVE  TableInv'
<1>1. UNCHANGED <<pairs, table, placed, rom>> /\ pc # "refused" /\ pc' # "refused"
  BY DEF Begin, Inspect, Finish, Fails
<1>2. Index' = Index /\ Broken' = Broken
  BY <1>1, SameTable
<1>3. Settled' = Settled
  BY <1>2 DEF Begin, Inspect, Finish, Fails, Settled
<1>4. Broken \subseteq Index
  BY DEF Broken
<1>5. Types'
  BY <1>2, <1>4 DEF TableInv, Types, Places, Begin, Inspect, Finish, Fails
<1>6. Rooms'
  BY <1>1, <1>2 DEF TableInv, Rooms, Begin, Inspect, Finish, Fails
<1>7. Lookups'
  BY <1>1, <1>2 DEF TableInv, Lookups, Begin, Inspect, Finish, Fails
<1>8. Emitted'
  <2>1. CASE Begin \/ Inspect
    BY <1>1, <2>1 DEF TableInv, Emitted, Begin, Inspect
  <2>2. CASE Finish
    BY <1>1, <1>2, <2>2, SameTable DEF TableInv, Emitted, Finish, Fails
  <2> QED
    BY <2>1, <2>2
<1> QED
  BY <1>1, <1>3, <1>5, <1>6, <1>7, <1>8, KeepStep DEF TableInv

LEMMA RefusedStep ==
  ASSUME TableInv, TooMany \/ Refuse \/ BankZero
  PROVE  TableInv'
<1>1. UNCHANGED <<pairs, todo, table, placed, rom>> /\ pc # "refused"
  BY DEF TooMany, Refuse, BankZero, Fails
<1>2. Index' = Index /\ Broken' = Broken
  BY <1>1, SameTable
<1>3. Types' /\ Emitted'
  BY <1>1, <1>2 DEF TableInv, Types, Places, Emitted, TooMany, Refuse, BankZero, Fails
<1>4. Rooms' /\ Lookups'
  BY <1>1, <1>2 DEF TableInv, Rooms, Lookups, TooMany, Refuse, BankZero, Fails
<1>5. pc' # "refused" => Settled' = Settled
  BY <1>2 DEF TooMany, Refuse, BankZero, Fails, Settled
<1> QED
  BY <1>1, <1>3, <1>4, <1>5, KeepStep DEF TableInv

\* What verify() rebuilds from the slots is the table.
LEMMA RebuiltIsTable ==
  ASSUME TableInv, pc = "verify"
  PROVE  Rebuilt = table
<1>1. Settled = Index /\ table \in [Slot -> Nat]
  BY DEF Settled, TableInv, Types
<1>2. Owned(table, placed, Index)
  BY <1>1 DEF TableInv
<1>3. ASSUME NEW s \in Slot
      PROVE  (IF \E i \in Index : placed[i] = s
              THEN BankOf(CHOOSE i \in Index : placed[i] = s) ELSE Empty) = table[s]
  <2>1. CASE \E i \in Index : placed[i] = s
    <3> DEFINE j == CHOOSE i \in Index : placed[i] = s
    <3>1. j \in Index /\ placed[j] = s
      BY <2>1
    <3> HIDE DEF j
    <3>2. table[placed[j]] = BankOf(j)
      BY <1>2, <3>1 DEF Owned
    <3> QED
      BY <2>1, <3>1, <3>2 DEF j
  <2>2. CASE ~ \E i \in Index : placed[i] = s
    <3>1. table[s] = Empty
      BY <1>2, <2>2 DEF Owned
    <3> QED
      BY <2>2, <3>1
  <2> QED
    BY <2>1, <2>2
<1> QED
  BY <1>1, <1>3 DEF Rebuilt

LEMMA VerifyStep ==
  ASSUME TableInv, Verify
  PROVE  TableInv'
<1>1. pc = "verify" /\ Settled = Index /\ Broken = {} /\ Rebuilt = table
  BY RebuiltIsTable DEF Verify, TableInv, Lookups, Settled
<1>2. Verified
  <2>1. \A i, j \in Index : placed[i] = placed[j] => i = j
    BY <1>1 DEF TableInv, Owned
  <2>2. \A i \in Index : FoundAt(table, i, placed[i])
    BY <1>1 DEF Broken
  <2> QED
    BY <1>1, <2>1, <2>2 DEF Verified
<1>3. pc' = "emit" /\ todo' = Index /\ UNCHANGED <<pairs, table, placed, rounds, rom>>
  BY <1>2 DEF Verify
<1>4. Index' = Index /\ Broken' = Broken /\ Settled' = Settled
  BY <1>1, <1>3, SameTable DEF Settled
<1>5. Types' /\ Rooms' /\ Lookups'
  BY <1>1, <1>3, <1>4 DEF TableInv, Types, Places, Rooms, Lookups
<1>6. Emitted'
  BY <1>1, <1>3, <1>4 DEF TableInv, Emitted, Blanks, Blank
<1> QED
  BY <1>1, <1>3, <1>4, <1>5, <1>6, KeepStep DEF TableInv

LEMMA EmitStep ==
  ASSUME TableInv, NEW i \in todo, Emit(i)
  PROVE  TableInv'
<1> DEFINE r == placed[i]
           to == pairs[i].dest
<1>1. pc = "emit" /\ i \in Index /\ Settled = Index /\ todo \subseteq Index
  BY DEF Emit, TableInv, Types, Settled
<1>2. r \in Slot /\ to \in Nat /\ BankOf(i) \in Nat
  BY <1>1, PairFacts DEF TableInv, Types
<1>3. /\ todo' = todo \ {i} /\ UNCHANGED <<pc, pairs, table, placed, rounds>>
      /\ rom' = [key  |-> [rom.key EXCEPT ![r] = BankOf(i)],
                 low  |-> [rom.low EXCEPT ![r] = to % Byte],
                 high |-> [rom.high EXCEPT ![r] = (to \div Byte) % Byte],
                 bank |-> [rom.bank EXCEPT ![r] = to \div Slots]]
  BY DEF Emit
<1>4. to % Byte \in Nat /\ (to \div Byte) % Byte \in Nat /\ to \div Slots \in Nat
  <2> HIDE DEF to
  <2>1. Byte \in Nat \ {0} /\ Slots \in Nat \ {0}
    BY SlotFacts
  <2>2. to \div Byte \in Nat /\ to \div Slots \in Nat
    BY <1>2, <2>1, DivNat
  <2>3. to % Byte \in 0 .. Byte - 1 /\ (to \div Byte) % Byte \in 0 .. Byte - 1
    BY <1>2, <2>1, <2>2, ModRange
  <2> QED
    BY <2>1, <2>2, <2>3
<1>5. Index' = Index /\ Broken' = Broken /\ Settled' = Settled
  <2>1. UNCHANGED <<pc, pairs, table, placed>>
    BY <1>3
  <2>2. Index' = Index /\ Broken' = Broken
    BY <2>1, SameTable
  <2> QED
    BY <1>1, <2>1, <2>2 DEF Settled
<1> DEFINE l == to % Byte
           h == (to \div Byte) % Byte
           k == to \div Slots
<1>6. rom \in Tables4
  BY DEF TableInv, Types
<1>7. Types' /\ Rooms' /\ Lookups'
  <2>1. rom' \in Tables4
    <3> HIDE DEF r, l, h, k
    <3> QED BY <1>2, <1>3, <1>4, <1>6 DEF Tables4, l, h, k
  <2> QED
    BY <1>3, <1>5, <2>1 DEF TableInv, Types, Rooms, Lookups
<1>8. \A s \in Slot :
        /\ rom'.key[s] = IF s = r THEN BankOf(i) ELSE rom.key[s]
        /\ rom'.low[s] = IF s = r THEN l ELSE rom.low[s]
        /\ rom'.high[s] = IF s = r THEN h ELSE rom.high[s]
        /\ rom'.bank[s] = IF s = r THEN k ELSE rom.bank[s]
  <2> HIDE DEF r
  <2> QED BY <1>3, <1>6 DEF Tables4
<1>9. \A j \in Index : placed[j] \in Slot /\ (placed[j] = r => j = i)
  BY <1>1 DEF TableInv, Types, Owned
<1>10. Emitted'
  <2>1. ASSUME NEW s \in Slot, rom'.key[s] # Empty
        PROVE  \E j \in Index \ todo' : placed[j] = s
    BY <1>1, <1>3, <1>8, <2>1 DEF TableInv, Emitted
  <2>2. ASSUME NEW j \in Index \ todo'
        PROVE  /\ rom'.key[placed[j]] = BankOf(j)
               /\ rom'.low[placed[j]] = pairs[j].dest % Byte
               /\ rom'.high[placed[j]] = (pairs[j].dest \div Byte) % Byte
               /\ rom'.bank[placed[j]] = pairs[j].dest \div Slots
    <3>1. CASE j = i
      BY <1>2, <1>8, <3>1
    <3>2. CASE j # i
      <4>1. j \in Index \ todo /\ placed[j] \in Slot /\ placed[j] # r
        BY <1>3, <1>9, <3>2
      <4> QED
        BY <1>1, <1>8, <4>1 DEF TableInv, Emitted
    <3> QED
      BY <3>1, <3>2
  <2> HIDE DEF r, l, h, k, to
  <2>3. \A j \in Index : BankOf(j)' = BankOf(j)
    BY <1>3, SameTable
  <2> QED
    BY <1>1, <1>3, <1>5, <2>1, <2>2, <2>3 DEF Emitted
<1> QED
  BY <1>1, <1>3, <1>5, <1>7, <1>10, KeepStep DEF TableInv

-----------------------------------------------------------------------------
(* The theorems *)

LEMMA TableStep == ASSUME TableInv, Next PROVE TableInv'
  BY PlaceStep, RepairStep, EmitStep, BetweenStep, RefusedStep, VerifyStep DEF Next

LEMMA TableStutter == ASSUME TableInv, UNCHANGED vars PROVE TableInv'
<1>1. UNCHANGED <<pc, pairs, todo, table, placed, rom>>
  BY DEF vars
<1>2. Index' = Index /\ Broken' = Broken /\ Settled' = Settled
  BY <1>1, SameTable DEF Settled
<1>3. Types' /\ Rooms' /\ Lookups'
  BY <1>1, <1>2 DEF TableInv, Types, Rooms, Lookups
<1>4. Emitted'
  BY <1>1, <1>2, SameTable DEF TableInv, Emitted
<1> QED
  BY <1>1, <1>2, <1>3, <1>4, KeepStep DEF TableInv

\* Types, ownership of slots, walks without gaps and emitted tables hold of
\* every state of a build.
THEOREM TableInvariant == Spec => []TableInv
<1>1. TableInv /\ [Next]_vars => TableInv'
  BY TableStep, TableStutter
<1> QED
  BY <1>1, TableInvInit, PTL DEF Spec

\* However often streams are moved no two share a slot, and the builder never
\* runs out of slots, never fails its assertion, and passes its own verify.
THEOREM SlotsOwned == Spec => []SlotsAreOwned
<1>1. TableInv => SlotsAreOwned
  BY DEF TableInv, Types, Places, Owned, SlotsAreOwned
<1> QED
  BY <1>1, TableInvariant, PTL

\* The repair rounds never change the placement.
THEOREM RepairsMoveNothing == Spec => RepairMovesNothing
<1>1. TableInv /\ [Next]_vars => [pc = "repair" => UNCHANGED <<table, placed>>]_vars
  <2> SUFFICES ASSUME TableInv, Next, pc = "repair" PROVE UNCHANGED <<table, placed>>
    OBVIOUS
  <2>1. CASE \E i \in todo : Repair(i)
    BY <2>1, RepairKeeps
  <2>2. CASE Inspect \/ Refuse
    BY <2>2 DEF Inspect, Refuse, Fails
  <2> QED
    BY <2>1, <2>2 DEF Next, TooMany, Begin, Verify, BankZero, Finish, Place, Emit
<1> QED
  BY <1>1, TableInvariant, PTL DEF Spec, RepairMovesNothing

\* A finished key table is the table the streams were placed in.
LEMMA KeyIsTable ==
  ASSUME TableInv, pc = "built"
  PROVE  rom.key = table
<1>1. /\ Settled = Index /\ todo = {} /\ table \in [Slot -> Nat] /\ rom.key \in [Slot -> Nat]
  BY DEF Settled, TableInv, Types, Emitted, Tables4
<1>2. ASSUME NEW s \in Slot PROVE rom.key[s] = table[s]
  <2>1. CASE \E i \in Index : placed[i] = s
    BY <1>1, <2>1 DEF TableInv, Owned, Emitted
  <2>2. CASE ~ \E i \in Index : placed[i] = s
    BY <1>1, <2>2 DEF TableInv, Owned, Emitted
  <2> QED
    BY <2>1, <2>2
<1> QED
  BY <1>1, <1>2

LEMMA BuiltTranslates == TableInv => LookupCorrect
<1> SUFFICES ASSUME TableInv, pc = "built", NEW i \in Index
             PROVE  Translated(BankOf(i), AddrOf(i)) = pairs[i].dest
  BY DEF LookupCorrect
<1>1. Scan(rom.key, BankOf(i), AddrOf(i)) = placed[i]
  <2>1. FoundAt(table, i, placed[i])
    BY DEF TableInv, Lookups, Broken
  <2> QED
    BY <2>1, KeyIsTable DEF FoundAt
<1>2. /\ rom.low[placed[i]] = pairs[i].dest % Byte
      /\ rom.high[placed[i]] = (pairs[i].dest \div Byte) % Byte
      /\ rom.bank[placed[i]] = pairs[i].dest \div Slots
  BY DEF TableInv, Emitted
<1>3. AddressAt(placed[i]) = pairs[i].dest
  <2>1. pairs[i].dest \in Nat
    BY PairFacts DEF TableInv, Types
  <2> QED
    BY <1>2, <2>1, Digits DEF AddressAt
<1> QED
  BY <1>1, <1>3 DEF Translated

\* The scan of a finished key table for a stream: how far it goes, what the
\* slots on the way hold, and what it finds.
LEMMA FinishedWalk ==
  ASSUME TableInv, pc = "built", NEW i \in Index
  PROVE  \E d \in Slot :
           /\ rom.key[Probe(AddrOf(i), d)] = BankOf(i)
           /\ \A e \in 0 .. d - 1 : rom.key[Probe(AddrOf(i), e)] # BankOf(i)
           /\ AddressAt(Probe(AddrOf(i), d)) = pairs[i].dest
<1> DEFINE S == Holding(rom.key, BankOf(i))
<1>1. BankOf(i) \in Nat /\ AddrOf(i) \in Slot /\ AddrOf(i) \in Nat /\ pairs[i].dest \in Nat
  BY PairFacts DEF TableInv, Types, Slot
<1>2. FoundAt(rom.key, i, placed[i])
  <2>1. FoundAt(table, i, placed[i])
    BY DEF TableInv, Lookups, Broken
  <2> QED
    BY <2>1, KeyIsTable
<1>3. S \in SUBSET Slot /\ S # {} /\ FirstIn(AddrOf(i), S) = placed[i]
  BY <1>2 DEF FoundAt, Scan, Holding
<1>4. PICK d \in Slot : IsFirst(AddrOf(i), S, d)
  <2> HIDE DEF S
  <2> QED BY <1>1, <1>3, FirstInExists
<1>5. Probe(AddrOf(i), d) = placed[i]
  <2> HIDE DEF S
  <2> QED BY <1>1, <1>3, <1>4, FirstInIs
<1>6. ASSUME NEW e \in 0 .. d - 1 PROVE rom.key[Probe(AddrOf(i), e)] # BankOf(i)
  <2>0. e \in Nat
    BY SlotFacts DEF Slot
  <2>1. Probe(AddrOf(i), e) \in Slot
    BY <1>1, <2>0, ProbeType
  <2> QED
    BY <1>4, <2>1 DEF IsFirst, Holding
<1>7. /\ rom.key[placed[i]] = BankOf(i)
      /\ rom.low[placed[i]] = pairs[i].dest % Byte
      /\ rom.high[placed[i]] = (pairs[i].dest \div Byte) % Byte
      /\ rom.bank[placed[i]] = pairs[i].dest \div Slots
  BY DEF TableInv, Emitted
<1>8. AddressAt(placed[i]) = pairs[i].dest
  BY <1>1, <1>7, Digits DEF AddressAt
<1> QED
  BY <1>5, <1>6, <1>7, <1>8

\* Every stream of a finished build translates to its own destination.
THEOREM LookupsCorrect == Spec => []LookupCorrect
  BY TableInvariant, BuiltTranslates, PTL

-----------------------------------------------------------------------------
(* The one placement of a list *)

\* The streams placed before i.
Before(i) == {j \in Index : AddrOf(j) < AddrOf(i) \/ (AddrOf(j) = AddrOf(i) /\ j < i)}

\* Stream i took the first slot those left.
FitsFirst(pl, i) == pl[i] = FirstIn(AddrOf(i), Slot \ {pl[j] : j \in Before(i)})
FirstFit(pl) == pl \in [Index -> Slot] /\ \A i \in Index : FitsFirst(pl, i)

Canon == CHOOSE pl : FirstFit(pl)
CanonTable == [s \in Slot |-> IF \E i \in Index : Canon[i] = s
                              THEN BankOf(CHOOSE i \in Index : Canon[i] = s) ELSE Empty]

\* The lists allocate() accepts, and the longest walk of one.
Passes ==
  /\ Len(pairs) <= Slots /\ MaxRepairs > 0
  /\ \A i \in Index : FoundAt(CanonTable, i, Canon[i])
Cost == IF Index = {} THEN 0 ELSE Max({Distance(i, Canon[i]) : i \in Index})

\* There is at most one.
LEMMA OnePlacement ==
  ASSUME pairs \in Inputs, NEW p1, NEW p2, FirstFit(p1), FirstFit(p2)
  PROVE  p1 = p2
<1> DEFINE D == {i \in Index : p1[i] # p2[i]}
<1>1. \A i \in Index : AddrOf(i) \in Nat /\ i \in Nat
  BY PairFacts, SlotFacts DEF Slot
<1>2. ASSUME D # {} PROVE FALSE
  <2> DEFINE A == {AddrOf(i) : i \in D}
  <2>1. A \in SUBSET Nat /\ A # {}
    BY <1>1, <1>2
  <2>2. PICK a \in A : \A b \in A : a <= b
    <3> HIDE DEF A
    <3> QED BY <2>1, LeastNatural
  <2> DEFINE E == {i \in D : AddrOf(i) = a}
  <2>3. E \in SUBSET Nat /\ E # {}
    BY <1>1, <2>2
  <2>4. PICK i \in E : \A j \in E : i <= j
    <3> HIDE DEF E
    <3> QED BY <2>3, LeastNatural
  <2>5. i \in D /\ i \in Index /\ AddrOf(i) = a
    OBVIOUS
  <2>6. ASSUME NEW j \in Before(i) PROVE p1[j] = p2[j]
    <3>1. j \in Index /\ (AddrOf(j) < AddrOf(i) \/ (AddrOf(j) = AddrOf(i) /\ j < i))
      BY DEF Before
    <3>2. AddrOf(j) \in Nat /\ AddrOf(i) \in Nat /\ i \in Nat /\ j \in Nat
      BY <1>1, <2>5, <3>1
    <3>3. j \in D => AddrOf(i) <= AddrOf(j)
      BY <2>2, <2>5
    <3>4. j \in D /\ AddrOf(j) = a => i <= j
      BY <2>4
    <3> HIDE DEF A, E
    <3>5. j \notin D
      BY <2>5, <3>1, <3>2, <3>3, <3>4
    <3> QED
      BY <3>1, <3>5
  <2>7. {p1[j] : j \in Before(i)} = {p2[j] : j \in Before(i)}
    BY <2>6
  <2>8. p1[i] = p2[i]
    BY <2>5, <2>7 DEF FirstFit, FitsFirst
  <2> QED
    BY <2>5, <2>8
<1>3. \A i \in Index : p1[i] = p2[i]
  BY <1>2
<1> QED
  BY <1>3 DEF FirstFit

LEMMA CanonIs ==
  ASSUME pairs \in Inputs, NEW pl, FirstFit(pl)
  PROVE  pl = Canon
<1>1. FirstFit(Canon)
  BY DEF Canon
<1> QED
  BY <1>1, OnePlacement

\* And the table goes with it.
LEMMA CanonTableIs ==
  ASSUME pairs \in Inputs, FirstFit(placed), table \in [Slot -> Nat],
         Owned(table, placed, Index)
  PROVE  placed = Canon /\ table = CanonTable
<1>1. placed = Canon
  BY CanonIs
<1>2. ASSUME NEW s \in Slot PROVE CanonTable[s] = table[s]
  <2>1. CASE \E i \in Index : placed[i] = s
    <3> DEFINE j == CHOOSE i \in Index : placed[i] = s
    <3>1. j \in Index /\ placed[j] = s
      BY <2>1
    <3>2. CanonTable[s] = BankOf(j)
      BY <1>1, <2>1 DEF CanonTable
    <3> HIDE DEF j
    <3>3. table[placed[j]] = BankOf(j)
      BY <3>1 DEF Owned
    <3> QED
      BY <3>1, <3>2, <3>3
  <2>2. CASE ~ \E i \in Index : placed[i] = s
    <3>1. table[s] = Empty
      BY <2>2 DEF Owned
    <3> QED
      BY <1>1, <2>2, <3>1 DEF CanonTable
  <2> QED
    BY <2>1, <2>2
<1> QED
  BY <1>1, <1>2 DEF CanonTable

-----------------------------------------------------------------------------
(* Where the builder is on the way to it *)

OrderInv ==
  /\ TableInv
  /\ rounds \in Nat /\ (pc \in {"allocate", "place"} => rounds = 0)
  /\ pc = "place" => \A i \in Settled : Before(i) \subseteq Settled /\ FitsFirst(placed, i)
  /\ pc \in {"repair", "verify", "emit", "built"} => FirstFit(placed)
  /\ pc = "repair" => Broken # {}
  /\ pc \in {"verify", "emit", "built"} => Passes
  /\ pc = "refused" => ~Passes

\* The placement is a matter of the list alone.
LEMMA SamePairs ==
  ASSUME UNCHANGED pairs
  PROVE  /\ Index' = Index /\ Canon' = Canon /\ CanonTable' = CanonTable
         /\ Passes' = Passes /\ Cost' = Cost
         /\ \A i \in Index : Before(i)' = Before(i) /\ AddrOf(i)' = AddrOf(i)
<1>1. Index' = Index
  BY DEF Index
<1>2. \A i : AddrOf(i)' = AddrOf(i) /\ BankOf(i)' = BankOf(i)
  BY DEF AddrOf, BankOf
<1>3. \A i : Before(i)' = Before(i)
  BY <1>1, <1>2 DEF Before
<1>4. Canon' = Canon
  BY <1>1, <1>2, <1>3 DEF Canon, FirstFit, FitsFirst
<1>5. CanonTable' = CanonTable
  BY <1>1, <1>2, <1>4 DEF CanonTable
<1>6. Passes' = Passes
  BY <1>1, <1>2, <1>4, <1>5 DEF Passes, FoundAt, Scan, Holding
<1>7. Cost' = Cost
  BY <1>1, <1>2, <1>4 DEF Cost, Distance
<1> QED
  BY <1>1, <1>2, <1>3, <1>4, <1>5, <1>6, <1>7

\* When every stream has its slot, what is broken is a matter of the list too.
LEMMA AllPlaced ==
  ASSUME TableInv, FirstFit(placed), Settled = Index, pc # "refused"
  PROVE  /\ placed = Canon
         /\ Broken = {} <=> \A i \in Index : FoundAt(CanonTable, i, Canon[i])
<1>1. placed = Canon /\ table = CanonTable
  <2>1. pairs \in Inputs /\ table \in [Slot -> Nat] /\ Owned(table, placed, Index)
    BY DEF TableInv, Types
  <2> QED
    BY <2>1, CanonTableIs
<1> QED
  BY <1>1 DEF Broken

\* The next stream takes its place when exactly those before it have theirs.
LEMMA OrderPlace ==
  ASSUME OrderInv, NEW i \in todo, Place(i)
  PROVE  OrderInv'
<1>1. TableInv /\ pc = "place" /\ i \in Index /\ Settled = Index \ todo /\ NextInOrder(i)
  BY DEF OrderInv, TableInv, Types, Settled, Place
<1>2. TableInv'
  BY <1>1, PlaceStep
<1> DEFINE r == FirstFree(table, AddrOf(i))
<1>3. /\ placed' = [placed EXCEPT ![i] = r] /\ todo' = todo \ {i}
      /\ UNCHANGED <<pc, pairs, rounds, rom>>
  BY <1>1, RoomLeft DEF Place, PutFrom
<1>4. \A j \in Index : AddrOf(j) \in Nat /\ j \in Nat
  BY <1>1, PairFacts, SlotFacts DEF TableInv, Types, Slot
<1>5. Before(i) = Settled
  <2>1. ASSUME NEW j \in Before(i) PROVE j \in Settled
    BY <1>1, <1>4 DEF Before, NextInOrder
  <2>2. ASSUME NEW j \in Settled PROVE j \in Before(i)
    <3>1. j \in Index /\ j # i /\ i \notin Before(j)
      BY <1>1 DEF OrderInv
    <3> QED
      BY <1>1, <1>4, <3>1 DEF Before
  <2> QED
    BY <2>1, <2>2
<1>6. Holding(table, Empty) = Slot \ {placed[j] : j \in Before(i)}
  <2>0. Owned(table, placed, Settled) /\ \A j \in Index : BankOf(j) # Empty
    BY <1>1, PairFacts DEF TableInv, Types
  <2>1. ASSUME NEW s \in Slot
        PROVE  table[s] = Empty <=> s \notin {placed[j] : j \in Settled}
    BY <1>1, <2>0 DEF Owned
  <2> QED
    BY <1>5, <2>1 DEF Holding
<1>7. r = FirstIn(AddrOf(i), Slot \ {placed[j] : j \in Before(i)})
  BY <1>6 DEF FirstFree
<1> HIDE DEF r
<1>8. Settled' = Settled \cup {i} /\ i \notin Settled
  BY <1>1, <1>3 DEF Settled, Index
<1>9. \A j \in Index : placed'[j] = IF j = i THEN r ELSE placed[j]
  BY <1>1, <1>3 DEF TableInv, Types
<1>10. ASSUME NEW j \in Settled \cup {i}
       PROVE  Before(j) \subseteq Settled /\ FitsFirst(placed', j)
  <2>1. Before(j) \subseteq Settled
    BY <1>1, <1>5 DEF OrderInv
  <2>2. \A k \in Before(j) : k \in Index /\ placed'[k] = placed[k]
    BY <1>1, <1>8, <1>9, <2>1
  <2>3. {placed'[k] : k \in Before(j)} = {placed[k] : k \in Before(j)}
    BY <2>2
  <2>4. CASE j = i
    BY <1>1, <1>7, <1>9, <2>1, <2>3, <2>4 DEF FitsFirst
  <2>5. CASE j # i
    <3>1. FitsFirst(placed, j) /\ placed'[j] = placed[j]
      BY <1>1, <1>9, <2>5 DEF OrderInv
    <3> QED
      BY <2>1, <2>3, <3>1 DEF FitsFirst
  <2> QED
    BY <2>4, <2>5
<1>11. \A j \in Settled' : Before(j)' \subseteq Settled' /\ FitsFirst(placed, j)'
  <2>1. \A j \in Settled' : j \in Index /\ Before(j)' = Before(j) /\ AddrOf(j)' = AddrOf(j)
    BY <1>1, <1>3, <1>8, SamePairs
  <2> QED
    BY <1>8, <1>10, <2>1 DEF FitsFirst
<1> QED
  BY <1>1, <1>2, <1>3, <1>11 DEF OrderInv

LEMMA OrderInspect ==
  ASSUME OrderInv, Inspect
  PROVE  OrderInv'
<1>1. /\ TableInv /\ pc \in {"place", "repair"} /\ todo = {} /\ rounds < MaxRepairs
      /\ rounds' = rounds + 1 /\ UNCHANGED <<pairs, table, placed, rom>>
      /\ pc' = IF Broken = {} THEN "verify" ELSE "repair"
  BY DEF OrderInv, Inspect
<1>2. TableInv' /\ Broken' = Broken
  BY <1>1, BetweenStep, SameTable
<1>3. Settled = Index
  BY <1>1 DEF Settled
<1>4. FirstFit(placed)
  BY <1>1, <1>3 DEF OrderInv, FirstFit, TableInv, Types
<1>5. FirstFit(placed)'
  <2>1. Index' = Index /\ \A i \in Index : Before(i)' = Before(i) /\ AddrOf(i)' = AddrOf(i)
    BY <1>1, SamePairs
  <2> QED
    BY <1>1, <1>4, <2>1 DEF FirstFit, FitsFirst
<1>6. rounds' \in Nat /\ MaxRepairs > 0
  BY <1>1, TableAssumption DEF OrderInv
<1>7. Broken = {} => Passes
  <2>1. Len(pairs) <= Slots
    BY <1>1 DEF TableInv, Rooms
  <2> QED
    BY <1>1, <1>3, <1>4, <1>6, <2>1, AllPlaced DEF Passes
<1>8. Passes' = Passes
  BY <1>1, SamePairs
<1> QED
  BY <1>1, <1>2, <1>5, <1>6, <1>7, <1>8 DEF OrderInv

LEMMA OrderRefused ==
  ASSUME OrderInv, TooMany \/ Refuse
  PROVE  OrderInv'
<1>1. TableInv /\ TableInv' /\ UNCHANGED <<pairs, table, placed, rounds, rom>> /\ pc' = "refused"
  BY RefusedStep DEF OrderInv, TooMany, Refuse, Fails
<1>2. Passes' = Passes
  BY <1>1, SamePairs
<1>3. CASE TooMany
  <2>1. ~Passes
    <3>1. ~(Len(pairs) <= Slots)
      <4>1. pairs \in Seq(Pair)
        BY <1>1, TableAssumption DEF TableInv, Types
      <4> QED
        BY <1>3, <4>1, LenProperties, SlotFacts DEF TooMany
    <3> QED
      BY <3>1 DEF Passes
  <2> QED
    BY <1>1, <1>2, <2>1 DEF OrderInv
<1>4. CASE Refuse
  <2>1. pc \in {"place", "repair"} /\ todo = {} /\ rounds = MaxRepairs
    BY <1>4 DEF Refuse
  <2>2. CASE pc = "place"
    <3>1. ~(MaxRepairs > 0)
      BY <2>1, <2>2 DEF OrderInv
    <3> QED
      BY <1>1, <1>2, <3>1 DEF OrderInv, Passes
  <2>3. CASE pc = "repair"
    <3>1. FirstFit(placed) /\ Settled = Index /\ Broken # {}
      BY <2>3 DEF OrderInv, Settled
    <3>2. ~Passes
      BY <1>1, <2>3, <3>1, AllPlaced DEF Passes
    <3> QED
      BY <1>1, <1>2, <3>2 DEF OrderInv
  <2> QED
    BY <2>1, <2>2, <2>3
<1> QED
  BY <1>3, <1>4

\* The other steps leave placement and verdict alone.
LEMMA OrderKeep ==
  ASSUME OrderInv, TableInv', UNCHANGED <<pairs, table, placed>>,
         rounds' = rounds,
         \/ pc' = pc /\ pc # "place"
         \/ pc = "allocate" /\ pc' = "place" /\ todo' = Index
         \/ pc' = "emit" /\ pc = "verify"
         \/ pc' = "built" /\ pc = "emit"
         \/ pc' = "bank zero"
  PROVE  OrderInv'
<1>1. /\ Index' = Index /\ Passes' = Passes
      /\ \A i \in Index : Before(i)' = Before(i) /\ AddrOf(i)' = AddrOf(i)
  BY SamePairs
<1>2. Broken' = Broken
  BY SameTable
<1>3. FirstFit(placed) => FirstFit(placed)'
  <2>1. placed' = placed
    OBVIOUS
  <2>2. ASSUME NEW i \in Index PROVE FitsFirst(placed, i)' <=> FitsFirst(placed, i)
    BY <1>1, <2>1 DEF FitsFirst
  <2> QED
    BY <1>1, <2>1, <2>2 DEF FirstFit
<1>4. pc' = "place" => Settled' = {}
  BY <1>1 DEF Settled
<1> QED
  BY <1>1, <1>2, <1>3, <1>4 DEF OrderInv

LEMMA OrderStep == ASSUME OrderInv, Next PROVE OrderInv'
<1>1. TableInv' /\ TableInv
  BY TableStep DEF OrderInv
<1>2. CASE TooMany \/ Refuse
  BY <1>2, OrderRefused
<1>3. CASE Begin
  BY <1>1, <1>3, OrderKeep DEF Begin
<1>4. CASE Inspect
  BY <1>4, OrderInspect
<1>5. CASE Verify
  <2>1. pc' # "unverified"
    BY <1>1 DEF TableInv, Types, Places
  <2>2. pc = "verify" /\ pc' = "emit" /\ UNCHANGED <<pairs, table, placed, rounds, rom>>
    BY <1>5, <2>1 DEF Verify, Fails
  <2> QED
    BY <1>1, <2>2, OrderKeep
<1>6. CASE BankZero \/ Finish
  BY <1>1, <1>6, OrderKeep DEF BankZero, Finish, Fails
<1>7. ASSUME NEW i \in todo, Place(i) PROVE OrderInv'
  BY <1>7, OrderPlace
<1>8. ASSUME NEW i \in todo, Repair(i) PROVE OrderInv'
  <2>1. pc = "repair" /\ UNCHANGED <<pc, pairs, table, placed, rounds, rom>>
    BY <1>1, <1>8, RepairKeeps DEF Repair
  <2> QED
    BY <1>1, <2>1, OrderKeep
<1>9. ASSUME NEW i \in todo, Emit(i) PROVE OrderInv'
  <2>1. pc = "emit" /\ UNCHANGED <<pc, pairs, table, placed, rounds>>
    BY <1>9 DEF Emit
  <2> QED
    BY <1>1, <2>1, OrderKeep
<1> QED
  BY <1>2, <1>3, <1>4, <1>5, <1>6, <1>7, <1>8, <1>9 DEF Next

LEMMA OrderStutter == ASSUME OrderInv, UNCHANGED vars PROVE OrderInv'
<1>1. TableInv' /\ UNCHANGED <<pc, pairs, todo, table, placed, rounds>>
  BY TableStutter DEF OrderInv, vars
<1>2. CASE pc # "place"
  BY <1>1, <1>2, OrderKeep
<1>3. CASE pc = "place"
  <2>1. /\ Index' = Index /\ Settled' = Settled /\ Settled \subseteq Index
        /\ \A i \in Index : Before(i)' = Before(i) /\ AddrOf(i)' = AddrOf(i)
    BY <1>1, SamePairs DEF Settled, OrderInv, TableInv, Types
  <2>2. \A i \in Settled : FitsFirst(placed, i)' <=> FitsFirst(placed, i)
    BY <1>1, <2>1 DEF FitsFirst
  <2> QED
    BY <1>1, <1>3, <2>1, <2>2 DEF OrderInv
<1> QED
  BY <1>2, <1>3

-----------------------------------------------------------------------------
(* Measuring walks *)

\* The walk to the slot d steps on is d long.
LEMMA WalkLength ==
  ASSUME NEW s \in Slot, NEW d \in Slot
  PROVE  (Probe(s, d) - s) % Slots = d
<1>1. Slots \in Nat \ {0} /\ s \in Int /\ d \in 0 .. Slots - 1 /\ d \in Int
  BY SlotFacts DEF Slot
<1>2. Probe(s, d) = IF s + d < Slots THEN s + d ELSE (s + d) - Slots
  BY ProbeSmall
<1> HIDE DEF Slots
<1>3. Probe(s, d) - s = Slots * 0 + d \/ Probe(s, d) - s = Slots * (-1) + d
  BY <1>1, <1>2
<1>4. (Slots * 0 + d) % Slots = d
  BY <1>1, ModUnique
<1>5. (Slots * (-1) + d) % Slots = d
  BY <1>1, ModUnique
<1> QED
  BY <1>3, <1>4, <1>5

\* No stream of a placement walks further than its cost.
LEMMA CostBounds ==
  ASSUME pairs \in Inputs, Canon \in [Index -> Slot], NEW i \in Index
  PROVE  Distance(i, Canon[i]) <= Cost /\ Distance(i, Canon[i]) \in Nat /\ Cost \in Nat
<1> DEFINE D == {Distance(j, Canon[j]) : j \in Index}
           E == {Slots - d : d \in D}
<1>1. ASSUME NEW j \in Index PROVE Distance(j, Canon[j]) \in Slot
  <2>1. Canon[j] \in Slot /\ AddrOf(j) \in Slot
    BY PairFacts
  <2>2. PICK d \in Slot : Probe(AddrOf(j), d) = Canon[j]
    BY <2>1, ProbeReaches
  <2>3. (Canon[j] - AddrOf(j)) % Slots = d
    BY <2>1, <2>2, WalkLength
  <2> QED
    BY <2>3 DEF Distance
<1>2. D \in SUBSET Slot /\ D # {}
  BY <1>1
<1> HIDE DEF D
<1>n. \A d \in D : d \in Nat /\ Slots - d \in Nat /\ Slots \in Nat
  <2>1. \A d \in D : d \in 0 .. Slots - 1
    BY <1>2 DEF Slot
  <2>2. Slots \in Nat
    BY SlotFacts
  <2> QED
    BY <2>1, <2>2
<1>3. E \in SUBSET Nat /\ E # {}
  BY <1>2, <1>n
<1>4. PICK e \in E : \A f \in E : e <= f
  <2> HIDE DEF E
  <2> QED BY <1>3, LeastNatural
<1>5. PICK m \in D : e = Slots - m
  OBVIOUS
<1>6. \A d \in D : d \in Nat /\ d <= m
  <2> SUFFICES ASSUME NEW d \in D PROVE d \in Nat /\ d <= m
    OBVIOUS
  <2>1. Slots - m <= Slots - d
    BY <1>4, <1>5
  <2>2. d \in Nat /\ m \in Nat /\ Slots \in Nat
    BY <1>n
  <2> HIDE DEF Slots
  <2> QED
    BY <2>1, <2>2
<1>7. Max(D) \in D /\ \A d \in D : Max(D) >= d
  BY <1>5, <1>6 DEF Max
<1>8. Cost = Max(D)
  BY DEF Cost, D
<1>9. Distance(i, Canon[i]) \in D
  BY DEF D
<1> QED
  BY <1>6, <1>7, <1>8, <1>9

-----------------------------------------------------------------------------
(* The gate *)

\* What mapcheck said, and what the gate said, of the list it was given.
MapSays ==
  /\ mapped = "raised" => NonPositive \/ (~Duplicates /\ ~Passes)
  /\ mapped = "FAIL" => Duplicates \/ (Passes /\ (MapBroken \/ Cost > ScanBudget))
  /\ mapped = "OK" => ~Duplicates /\ Passes /\ ~MapBroken /\ ~(Cost > ScanBudget)

GateSays ==
  /\ verdict = "scan" => findings = Listed /\ ~Duplicates
  /\ verdict = "fail" =>
       \/ Duplicates
       \/ Passes /\ findings = Listed \cup (IF Cost > ScanBudget THEN {"scan"} ELSE {})
  /\ verdict = "pass" => Passes /\ Listed = {} /\ findings = {} /\ ~(Cost > ScanBudget)
  /\ verdict = "raised" => ~Duplicates /\ ~Passes

GateInv ==
  /\ OrderInv
  /\ verdict # "ungated" => pairs \in Listings /\ case \in Cases
  /\ mapped \in {"none", "OK", "FAIL", "raised"}
  /\ verdict \in {"map", "mapscan"} \/ mapped # "none" => case.present
  /\ verdict = "mapscan" => ~Duplicates
  /\ verdict = "ungated" => mapped = "none"
  /\ MapSays /\ GateSays

\* What is asked of the list does not change while it is asked.
LEMMA SameCase ==
  ASSUME UNCHANGED <<pairs, case>>
  PROVE  /\ Duplicates' = Duplicates /\ NonPositive' = NonPositive /\ MapBroken' = MapBroken
         /\ Listed' = Listed /\ Passes' = Passes /\ Cost' = Cost
<1>1. Index' = Index /\ Passes' = Passes /\ Cost' = Cost
  BY SamePairs
<1>2. Sources' = Sources /\ Duplicates' = Duplicates
  BY <1>1 DEF Sources, Duplicates
<1>3. NonPositive' = NonPositive /\ MapBroken' = MapBroken /\ Undecodable' = Undecodable
      /\ Uncovered' = Uncovered
  BY <1>2 DEF NonPositive, MapBroken, Undecodable, Uncovered, Raises
<1>4. Listed' = Listed
  BY <1>2, <1>3 DEF Listed
<1> QED
  BY <1>1, <1>2, <1>3, <1>4

\* A builder that starts over has nothing placed and nothing emitted.
LEMMA RestartStep ==
  ASSUME OrderInv, Allocated, Restart
  PROVE  OrderInv'
<1>1. /\ TableInv /\ rom = Blanks /\ UNCHANGED <<pairs, rom>>
      /\ pc' = "allocate" /\ todo' = {} /\ table' = Blank /\ rounds' = 0
      /\ placed' = [i \in Index |-> 0]
  BY DEF OrderInv, TableInv, Emitted, Allocated, Restart
<1>2. Index' = Index /\ Settled' = {}
  BY <1>1 DEF Index, Settled
<1>3. Types'
  <2>1. 0 \in Slot /\ Blank \in [Slot -> Nat]
    BY SlotFacts DEF Slot, Blank, Empty
  <2> QED
    BY <1>1, <1>2, <2>1 DEF TableInv, Types, Places
<1>4. Rooms' /\ Lookups'
  BY <1>1 DEF Rooms, Lookups
<1>5. Emitted'
  BY <1>1 DEF Emitted, Blanks, Blank
<1>6. Owned(table, placed, Settled)'
  BY <1>1, <1>2 DEF Owned, Blank
<1>7. TableInv'
  BY <1>1, <1>2, <1>3, <1>4, <1>5, <1>6 DEF TableInv
<1> QED
  BY <1>1, <1>7 DEF OrderInv

\* What was measured was the cost of the list.
LEMMA Measured ==
  ASSUME OrderInv, pc = "verify"
  PROVE  WorstScan = Cost /\ scan_cost = Cost /\ Passes
<1>1. Settled = Index /\ FirstFit(placed) /\ TableInv /\ Passes
  BY DEF OrderInv, Settled
<1>2. placed = Canon
  BY <1>1, AllPlaced
<1> QED
  BY <1>1, <1>2 DEF WorstScan, scan_cost, Cost

LEMMA GateInvInit == GateInit => GateInv
<1> SUFFICES ASSUME GateInit PROVE GateInv
  OBVIOUS
<1>1. Init
  BY DEF GateInit
<1>2. OrderInv
  BY <1>1, TableInvInit DEF OrderInv, Init
<1>3. CASE pairs \in Listings /\ case \in Cases /\ verdict = IF case.present THEN "map" ELSE "new"
  BY <1>2, <1>3 DEF GateInit, GateInv, MapSays, GateSays
<1>4. CASE verdict = "ungated" /\ case = NoCase
  BY <1>2, <1>4 DEF GateInit, GateInv, MapSays, GateSays
<1> QED
  BY <1>3, <1>4 DEF GateInit

LEMMA GateStep ==
  ASSUME GateInv, GateNext
  PROVE  GateInv'
<1>1. OrderInv /\ UNCHANGED <<pairs, case>>
  BY DEF GateInv, GateNext, MapReport, MapScanned, MapFallsOver, Examine, Allocate, Scanned,
         FallsOver, Build, Says, Restart, vars, gateVars, Next, TooMany, Begin, Inspect, Refuse,
         Verify, BankZero, Finish, Place, Repair, Emit, PutFrom, Fails
<1>2. /\ Duplicates' = Duplicates /\ NonPositive' = NonPositive /\ MapBroken' = MapBroken
      /\ Listed' = Listed /\ Passes' = Passes /\ Cost' = Cost
  BY <1>1, SameCase
<1> USE DEF GateInv
<1>3. CASE MapReport
  <2>1. OrderInv'
    BY <1>3, OrderStutter DEF MapReport
  <2> QED
    BY <1>1, <1>2, <1>3, <2>1 DEF MapReport, Says, MapDuplicates, MapSays, GateSays
<1>4. CASE MapScanned
  <2>1. OrderInv'
    BY <1>4, RestartStep DEF MapScanned, Allocated
  <2>2. scan_cost = Cost /\ Passes
    BY <1>4, Measured DEF MapScanned
  <2> QED
    BY <1>1, <1>2, <1>4, <2>1, <2>2 DEF MapScanned, Says, MapSays, GateSays
<1>5. CASE MapFallsOver
  <2>1. OrderInv'
    BY <1>5, RestartStep DEF MapFallsOver
  <2>2. ~Passes
    BY <1>5 DEF MapFallsOver, Allocated, OrderInv, TableInv, Types, Places
  <2> QED
    BY <1>1, <1>2, <1>5, <2>1, <2>2 DEF MapFallsOver, Says, MapSays, GateSays
<1>6. CASE Examine
  <2>1. OrderInv'
    BY <1>6, OrderStutter DEF Examine
  <2>2. "repeated" \in Listed <=> Duplicates
    BY DEF Listed
  <2> QED
    BY <1>1, <1>2, <1>6, <2>1, <2>2 DEF Examine, MapSays, GateSays
<1>7. CASE Allocate \/ Build
  <2>1. OrderInv'
    BY <1>7, OrderStep DEF Allocate, Build
  <2> QED
    BY <1>1, <1>2, <1>7, <2>1 DEF Allocate, Build, gateVars, MapSays, GateSays
<1>8. CASE Scanned
  <2>1. OrderInv'
    BY <1>8, RestartStep DEF Scanned, Allocated
  <2>2. WorstScan = Cost /\ Passes
    BY <1>8, Measured DEF Scanned
  <2> QED
    BY <1>1, <1>2, <1>8, <2>1, <2>2 DEF Scanned, MapSays, GateSays
<1>9. CASE FallsOver
  <2>1. OrderInv'
    BY <1>9, OrderStutter DEF FallsOver
  <2>2. ~Passes
    BY <1>9 DEF FallsOver, Allocated, OrderInv, TableInv, Types, Places
  <2> QED
    BY <1>1, <1>2, <1>9, <2>1, <2>2 DEF FallsOver, MapSays, GateSays
<1> QED
  BY <1>3, <1>4, <1>5, <1>6, <1>7, <1>8, <1>9 DEF GateNext

-----------------------------------------------------------------------------
(* The theorems *)

\* Placement, verdict and report stay in step through every trial and build.
THEOREM GateInvariant == GateSpec => []GateInv
<1>1. GateInv /\ [GateNext]_allVars => GateInv'
  <2> SUFFICES ASSUME GateInv, [GateNext]_allVars PROVE GateInv'
    OBVIOUS
  <2>1. CASE GateNext
    BY <2>1, GateStep
  <2>2. CASE UNCHANGED allVars
    <3>1. UNCHANGED vars /\ UNCHANGED <<verdict, findings, case, mapped, pairs>>
      BY <2>2 DEF allVars, gateVars, vars
    <3>2. OrderInv'
      BY <3>1, OrderStutter DEF GateInv
    <3>3. /\ Duplicates' = Duplicates /\ NonPositive' = NonPositive /\ MapBroken' = MapBroken
          /\ Listed' = Listed /\ Passes' = Passes /\ Cost' = Cost
      BY <3>1, SameCase
    <3> QED
      BY <3>1, <3>2, <3>3 DEF GateInv, MapSays, GateSays
  <2> QED
    BY <2>1, <2>2
<1> QED
  BY <1>1, GateInvInit, PTL DEF GateSpec

\* The trial placement and the build after it share a slot between two streams
\* as little as a build alone does, and neither fails inside the allocator.
THEOREM GatedSlotsOwned == GateSpec => []SlotsAreOwned
<1>1. GateInv => SlotsAreOwned
  BY DEF GateInv, OrderInv, TableInv, Types, Places, Owned, SlotsAreOwned
<1> QED
  BY <1>1, GateInvariant, PTL

\* The table of every build, gated or not, translates each of its streams to
\* that stream's own bytes.
THEOREM GatedLookupsCorrect == GateSpec => []LookupCorrect
<1>1. GateInv => LookupCorrect
  BY BuiltTranslates DEF GateInv, OrderInv
<1> QED
  BY <1>1, GateInvariant, PTL

\* The repair rounds of the trial and of the build leave every stream where
\* first fit put it.
THEOREM GatedRepairsMoveNothing == GateSpec => RepairMovesNothing
<1>1. GateInv /\ [GateNext]_allVars => [pc = "repair" => UNCHANGED <<table, placed>>]_vars
  <2> SUFFICES ASSUME GateInv, GateNext, pc = "repair", ~ UNCHANGED vars
               PROVE  UNCHANGED <<table, placed>>
    BY DEF allVars
  <2>1. CASE Next
    <3>1. TableInv
      BY DEF GateInv, OrderInv
    <3>2. CASE \E i \in todo : Repair(i)
      BY <3>1, <3>2, RepairKeeps
    <3>3. CASE Inspect \/ Refuse
      BY <3>3 DEF Inspect, Refuse, Fails
    <3> QED
      BY <2>1, <3>2, <3>3 DEF Next, TooMany, Begin, Verify, BankZero, Finish, Place, Emit
  <2> QED
    BY <2>1 DEF GateNext, MapReport, MapScanned, MapFallsOver, Examine, Allocate, Scanned,
                FallsOver, Build, Allocated
<1> QED
  BY <1>1, GateInvariant, PTL DEF GateSpec, RepairMovesNothing

\* The walk of a built table, and what the verifier makes of it.
LEMMA BuiltWalk ==
  ASSUME OrderInv, pc = "built", NEW i \in Index
  PROVE  LET walk == Walked(BankOf(i), AddrOf(i)) IN
         /\ walk = Distance(i, Canon[i]) /\ walk \in Nat /\ walk <= Cost /\ Cost \in Nat
         /\ resolve(pairs[i].source) = IF walk <= ScanBudget THEN {<<pairs[i].dest, walk>>} ELSE {}
<1> DEFINE b == BankOf(i)
           s == AddrOf(i)
           H == Holding(rom.key, b)
           walk == Walked(b, s)
<1>1. /\ TableInv /\ FirstFit(placed) /\ Settled = Index /\ pairs \in Inputs
      /\ placed \in [Index -> Slot]
  BY DEF OrderInv, TableInv, Types, Settled
<1>2. placed = Canon
  BY <1>1, AllPlaced
<1>3. s \in Slot /\ b \in Nat /\ pairs[i].dest \in Nat /\ ScanBudget \in Nat
  BY <1>1, PairFacts, GateAssumption
<1>4. H # {} /\ H \in SUBSET Slot /\ Scan(rom.key, b, s) = placed[i]
  <2>1. FoundAt(table, i, placed[i]) /\ rom.key = table
    BY <1>1, KeyIsTable DEF TableInv, Lookups, Broken
  <2> QED
    BY <2>1 DEF FoundAt, Holding
<1>5. PICK d \in Slot : IsFirst(s, H, d)
  <2> HIDE DEF H, s
  <2> QED BY <1>3, <1>4, FirstInExists
<1>6. Probe(s, d) = placed[i]
  <2>1. FirstIn(s, H) = Probe(s, d)
    <3> HIDE DEF H, s
    <3> QED BY <1>3, <1>5, FirstInIs
  <2> QED
    BY <1>4, <2>1 DEF Scan
<1>7. walk = d /\ d \in Nat
  <2>1. (Probe(s, d) - s) % Slots = d
    <3> HIDE DEF s
    <3> QED BY <1>3, WalkLength
  <2> QED
    BY <1>4, <1>6, <2>1, SlotFacts DEF Walked, Slot
<1>8. walk = Distance(i, Canon[i])
  BY <1>2, <1>4 DEF Walked, Distance
<1>9. walk <= Cost /\ Cost \in Nat
  <2>1. Distance(i, Canon[i]) <= Cost /\ Cost \in Nat
    BY <1>1, <1>2, CostBounds
  <2> QED
    BY <1>8, <2>1
<1> DEFINE steps == {e \in 0 .. ScanBudget : Seen(pairs[i].source, e)}
<1>10. ASSUME NEW e \in Nat
       PROVE  Seen(pairs[i].source, e) <=> Probe(s, e) \in H
  <2>1. Seen(pairs[i].source, e) <=> rom.key[Probe(s, e)] = b
    BY DEF Seen, BankOf, AddrOf
  <2>2. Probe(s, e) \in Slot
    <3>1. s \in Nat
      BY <1>3, SlotFacts DEF Slot
    <3> HIDE DEF s
    <3> QED BY <3>1, ProbeType
  <2> QED
    BY <2>1, <2>2 DEF Holding
<1> HIDE DEF H, b, s, walk
<1>11. AddressAt(Probe(pairs[i].source % Slots, d)) = pairs[i].dest
  <2>1. AddressAt(placed[i]) = pairs[i].dest
    BY <1>1, <1>4, BuiltTranslates DEF LookupCorrect, Translated, b, s
  <2> QED
    BY <1>6, <2>1 DEF s, AddrOf
<1>12. CASE d <= ScanBudget
  <2>1. d \in steps
    BY <1>3, <1>5, <1>7, <1>10, <1>12 DEF IsFirst
  <2>2. \A e \in steps : e \in Nat /\ d <= e
    <3> SUFFICES ASSUME NEW e \in steps, ~(d <= e) PROVE FALSE
      BY <1>3
    <3>1. e \in Nat /\ Probe(s, e) \in H
      BY <1>3, <1>10
    <3>2. e \in 0 .. d - 1
      BY <1>7, <3>1
    <3> QED
      BY <1>5, <3>1, <3>2 DEF IsFirst
  <2>3. Min(steps) = d
    <3> HIDE DEF steps
    <3>1. Min(steps) \in steps /\ \A e \in steps : Min(steps) <= e
      BY <2>1, <2>2 DEF Min
    <3>2. Min(steps) \in Nat /\ Min(steps) <= d /\ d <= Min(steps)
      BY <2>1, <2>2, <3>1
    <3> QED
      BY <1>7, <3>2
  <2>4. resolve(pairs[i].source) = {<<pairs[i].dest, d>>}
    BY <1>11, <2>1, <2>3 DEF resolve
  <2> QED
    BY <1>7, <1>8, <1>9, <1>12, <2>4 DEF walk, b, s
<1>13. CASE ~(d <= ScanBudget)
  <2>1. steps = {}
    <3> SUFFICES ASSUME NEW e \in steps PROVE FALSE
      OBVIOUS
    <3>1. e \in Nat /\ Probe(s, e) \in H /\ e \in 0 .. d - 1
      BY <1>3, <1>7, <1>10, <1>13
    <3> QED
      BY <1>5, <3>1 DEF IsFirst
  <2>2. resolve(pairs[i].source) = {}
    BY <2>1 DEF resolve
  <2> QED
    BY <1>7, <1>8, <1>9, <1>13, <2>2 DEF walk, b, s
<1> QED
  BY <1>12, <1>13

\* A list that passed builds, every walk of its tables is within the budget,
\* and the verifier resolves exactly the streams whose walks are.
THEOREM BudgetHolds == GateSpec => []ScansWithinBudget
<1>1. GateInv => ScansWithinBudget
  <2> SUFFICES ASSUME GateInv PROVE ScansWithinBudget
    OBVIOUS
  <2>1. verdict = "pass" => pc # "refused"
    BY DEF GateInv, GateSays, OrderInv
  <2>2. ASSUME pc = "built", NEW i \in Index
        PROVE  LET walk == Walked(BankOf(i), AddrOf(i))
               IN  /\ verdict = "pass" => walk <= ScanBudget
                   /\ resolve(pairs[i].source) = IF walk <= ScanBudget THEN {<<pairs[i].dest, walk>>} ELSE {}
    <3> DEFINE walk == Walked(BankOf(i), AddrOf(i))
    <3>1. /\ walk \in Nat /\ walk <= Cost /\ Cost \in Nat
          /\ resolve(pairs[i].source) = IF walk <= ScanBudget THEN {<<pairs[i].dest, walk>>} ELSE {}
      BY <2>2, BuiltWalk DEF GateInv
    <3>2. verdict = "pass" => ~(Cost > ScanBudget)
      BY DEF GateInv, GateSays
    <3> HIDE DEF walk
    <3>3. verdict = "pass" => walk <= ScanBudget
      BY <3>1, <3>2, GateAssumption
    <3> QED
      BY <3>1, <3>3 DEF walk
  <2> QED
    BY <2>1, <2>2 DEF ScansWithinBudget
<1> QED
  BY <1>1, GateInvariant, PTL

\* mapcheck.py and the gate judge a list alike.
THEOREM ReportsAgree == GateSpec => []MapcheckAgrees
<1>1. GateInv => MapcheckAgrees
  <2> SUFFICES ASSUME GateInv, verdict \in {"pass", "fail", "raised"}, mapped # "none", ~NonPositive
               PROVE  /\ (mapped = "raised") <=> (verdict = "raised")
                      /\ mapped = "FAIL" => verdict = "fail"
                      /\ mapped = "OK" =>
                           /\ verdict = "fail" => findings \subseteq {"uncovered", "decode"}
                           /\ "decode" \in findings =>
                                \E s \in Sources : case.produced[s] \notin {Raises, case.lengths[s]}
    BY DEF MapcheckAgrees
  <2>1. (mapped = "raised") <=> (verdict = "raised")
    <3>1. verdict = "pass" => ~Duplicates
      BY DEF GateInv, GateSays, Listed
    <3> QED
      BY <3>1 DEF GateInv, MapSays, GateSays
  <2>2. ASSUME mapped = "FAIL" PROVE verdict = "fail"
    <3>1. verdict # "raised"
      BY <2>1, <2>2
    <3>2. ASSUME verdict = "pass" PROVE FALSE
      <4>1. ~Duplicates /\ ~(case.present /\ Undecodable) /\ ~(Cost > ScanBudget) /\ case.present
        BY <3>2 DEF GateInv, GateSays, Listed
      <4>2. PICK s \in Sources : case.produced[s] = Raises
        BY <2>2, <4>1 DEF GateInv, MapSays, MapBroken
      <4>3. case.lengths[s] = Raises
        BY <4>1, <4>2 DEF Undecodable
      <4> QED
        BY <4>3 DEF NonPositive, Raises
    <3> QED
      BY <3>1, <3>2
  <2>3. ASSUME mapped = "OK", verdict = "fail" PROVE findings \subseteq {"uncovered", "decode"}
    BY <2>3 DEF GateInv, MapSays, GateSays, Listed
  <2>4. ASSUME mapped = "OK", "decode" \in findings
        PROVE  \E s \in Sources : case.produced[s] \notin {Raises, case.lengths[s]}
    <3>1. ~MapBroken /\ "decode" \in Listed
      BY <2>4 DEF GateInv, MapSays, GateSays
    <3>2. Undecodable
      BY <3>1 DEF Listed
    <3> QED
      BY <3>1, <3>2 DEF Undecodable, MapBroken
  <2> QED
    BY <2>1, <2>2, <2>3, <2>4
<1> QED
  BY <1>1, GateInvariant, PTL

\* Every request is answered by one entry of a table that passed.
THEOREM RequestsAreServed == GateSpec => []RequestsServed
<1>1. GateInv => RequestsServed
  <2> SUFFICES ASSUME GateInv, pc = "built", verdict = "pass", NEW s \in DOMAIN case.wanted
               PROVE  \E i \in Index :
                        /\ pairs[i].source = s
                        /\ Translated(BankOf(i), AddrOf(i)) = pairs[i].dest
                        /\ case.lengths[s] >= case.wanted[s]
                        /\ case.present => case.produced[s] = case.lengths[s]
    BY DEF RequestsServed
  <2>1. ~Uncovered /\ ~(case.present /\ Undecodable)
    BY DEF GateInv, GateSays, Listed
  <2>2. s \in Sources /\ ~(case.lengths[s] < case.wanted[s])
    BY <2>1 DEF Uncovered
  <2>3. PICK i \in Index : pairs[i].source = s
    BY <2>2 DEF Sources
  <2>4. case.lengths[s] \in Int /\ case.wanted[s] \in Int
    BY <2>3, GateAssumption DEF GateInv, Index
  <2>5. Translated(BankOf(i), AddrOf(i)) = pairs[i].dest
    BY BuiltTranslates DEF GateInv, OrderInv, LookupCorrect
  <2>6. case.present => case.produced[s] = case.lengths[s]
    BY <2>1, <2>2 DEF Undecodable
  <2> QED
    BY <2>2, <2>3, <2>4, <2>5, <2>6
<1> QED
  BY <1>1, GateInvariant, PTL
=============================================================================
