-------------------------- MODULE RomLayoutProofs --------------------------
(***************************************************************************)
(* The new cartridge, for every size of its parts and every build: what    *)
(* the free list covers, where the streams go, and what the console reads  *)
(* back from the finished image.  The argument is one invariant in three   *)
(* layers.  SpaceInv: at each pass of the loops of subtract() and merge()  *)
(* the regions cover exactly the bytes the holes seen so far leave, and    *)
(* the merged list stays sorted with gaps between its regions.  FitInv:    *)
(* every placed stream lies below the cursor of the region it was given,   *)
(* and what is placed and what is queued are the entries, once each.       *)
(* ImageInv: each write shows at its own addresses, and nowhere else,      *)
(* because FileOf is injective on what the console can see; the layers     *)
(* below say that streams, tables, extra blocks and the views never meet,  *)
(* except where a stream overwrites bytes of the window that are reclaimed.*)
(***************************************************************************)
EXTENDS RomLayout, ModArith, SequenceTheorems

-----------------------------------------------------------------------------
(* Sizes and addresses *)

\* What the assumption says of the sizes, one fact each.
LEMMA Sizes ==
  /\ Quarter \in Nat /\ Quarter >= 3 /\ Half \in Nat /\ Half > 0
  /\ Bank \in Nat \ {0} /\ Bank = Half + Half
  /\ WindowBase = 3 * Quarter /\ MirrorBase = 2 * Quarter /\ ImageBanks = 3 * Quarter
  /\ TableBank \in Nat /\ TableCount \in Nat /\ TableCount > 0 /\ MinRegion \in Nat /\ MinRegion > 0
  /\ ReadAhead \in Nat
  /\ TableBank >= Quarter /\ TableBank + TableCount <= 2 * Quarter - 2
<1>1. /\ Quarter \in Nat /\ Half \in Nat /\ Half > 0 /\ TableBank \in Nat /\ TableCount \in Nat
      /\ TableCount > 0 /\ MinRegion \in Nat /\ MinRegion > 0 /\ ReadAhead \in Nat
  BY LayoutAssumption
<1>2. TableBank \in DataBanks /\ TableBank + TableCount - 1 \in DataBanks
  BY <1>1, LayoutAssumption DEF TableBanks
<1> QED
  BY <1>1, <1>2 DEF DataBanks, Bank, WindowBase, MirrorBase, ImageBanks

\* The quotient is the only multiple a number lies above by less than one.
LEMMA SameMultiple ==
  ASSUME NEW m \in Nat \ {0}, NEW i \in Int, NEW j \in Int, NEW a \in 0 .. m - 1,
         j * m <= i * m + a, i * m + a < (j + 1) * m
  PROVE  i = j
<1>1. ASSUME i < j PROVE FALSE
  <2>1. (i + 1) * m <= j * m
    BY <1>1, Z3
  <2>2. (i + 1) * m = i * m + m
    BY Z3
  <2> QED
    BY <2>1, <2>2
<1>2. ASSUME i > j PROVE FALSE
  <2>1. (j + 1) * m <= i * m
    BY <1>2, Z3
  <2> QED
    BY <2>1
<1> QED
  BY <1>1, <1>2

\* Two numbers given by their multiples and remainders are equal when both are.
LEMMA SameParts ==
  ASSUME NEW m \in Nat \ {0}, NEW i \in Int, NEW j \in Int,
         NEW a \in 0 .. m - 1, NEW c \in 0 .. m - 1, i * m + a = j * m + c
  PROVE  i = j /\ a = c
<1>1. (j + 1) * m = j * m + m
  BY Z3
<1>2. i * m \in Int /\ j * m \in Int
  OBVIOUS
<1>3. j * m <= i * m + a /\ i * m + a < (j + 1) * m
  BY <1>1, <1>2
<1>4. i = j
  BY <1>3, SameMultiple
<1> QED
  BY <1>4, <1>2

-----------------------------------------------------------------------------
(* Regions and what they cover *)

Region == {r \in [bank : 0 .. 4 * Quarter - 1, start : 0 .. Bank, end : 0 .. Bank] : r.start < r.end}

\* Some region of S holds address a of bank b.
Holds(S, b, a) == \E r \in S : r.bank = b /\ r.start <= a /\ a < r.end

\* Covered and Holds are the same question.
LEMMA HoldsCovered ==
  ASSUME NEW S \in SUBSET Region, NEW b, NEW a
  PROVE  <<b, a>> \in Covered(S) <=> (a \in Int /\ Holds(S, b, a))
  BY Sizes DEF Covered, Holds, Region

\* Cutting a hole out of a region leaves what the hole does not cover.
LEMMA CutOne ==
  ASSUME NEW r \in Region, NEW h \in [bank : Int, start : Int, end : Int], h.start <= h.end,
         0 <= h.start, h.end <= Bank
  PROVE  /\ Cut(r, h) \subseteq Region
         /\ \A b, a \in Int : Holds(Cut(r, h), b, a) <=>
              (Holds({r}, b, a) /\ ~(h.bank = b /\ h.start <= a /\ a < h.end))
<1>0. /\ r \in [bank : 0 .. 4 * Quarter - 1, start : 0 .. Bank, end : 0 .. Bank] /\ r.start < r.end
      /\ Bank \in Nat /\ Quarter \in Nat
  BY Sizes DEF Region
<1>1. CASE h.bank # r.bank \/ h.end <= r.start \/ h.start >= r.end
  BY <1>0, <1>1 DEF Cut, Holds, Region
<1>2. CASE ~(h.bank # r.bank \/ h.end <= r.start \/ h.start >= r.end)
  <2> DEFINE low == Span(r.bank, r.start, h.start)
             high == Span(r.bank, h.end, r.end)
  <2>1. Cut(r, h) = {p \in {low, high} : p.start < p.end}
    BY <1>2 DEF Cut
  <2>2. /\ low.bank = r.bank /\ low.start = r.start /\ low.end = h.start
        /\ high.bank = r.bank /\ high.start = h.end /\ high.end = r.end
        /\ low.start < low.end => low \in Region
        /\ high.start < high.end => high \in Region
    BY <1>0, <1>2 DEF Span, Region
  <2> HIDE DEF low, high
  <2>3. Cut(r, h) \subseteq Region
    BY <2>1, <2>2
  <2>4. ASSUME NEW b \in Int, NEW a \in Int
        PROVE  Holds(Cut(r, h), b, a) <=>
                 (Holds({r}, b, a) /\ ~(h.bank = b /\ h.start <= a /\ a < h.end))
    <3>1. Holds(Cut(r, h), b, a) <=>
            \/ low.start < low.end /\ low.bank = b /\ low.start <= a /\ a < low.end
            \/ high.start < high.end /\ high.bank = b /\ high.start <= a /\ a < high.end
      BY <2>1 DEF Holds
    <3>2. Holds({r}, b, a) <=> (r.bank = b /\ r.start <= a /\ a < r.end)
      BY DEF Holds
    <3> QED
      BY <3>1, <3>2, <2>2, <1>0, <1>2
  <2> QED
    BY <2>3, <2>4
<1> QED
  BY <1>1, <1>2

\* subtract() takes exactly the bytes of the hole away, from every region.
LEMMA CutAll ==
  ASSUME NEW S \in SUBSET Region, NEW h \in [bank : Int, start : Int, end : Int],
         h.start <= h.end, 0 <= h.start, h.end <= Bank
  PROVE  LET T == UNION {Cut(r, h) : r \in S}
         IN  /\ T \subseteq Region
             /\ \A b, a \in Int : Holds(T, b, a) <=>
                  (Holds(S, b, a) /\ ~(h.bank = b /\ h.start <= a /\ a < h.end))
<1> DEFINE T == UNION {Cut(r, h) : r \in S}
<1>1. T \subseteq Region
  <2>1. \A r \in S : Cut(r, h) \subseteq Region
    BY CutOne
  <2> QED
    BY <2>1
<1>2. ASSUME NEW b \in Int, NEW a \in Int
      PROVE  Holds(T, b, a) <=> (Holds(S, b, a) /\ ~(h.bank = b /\ h.start <= a /\ a < h.end))
  <2>1. Holds(T, b, a) <=> \E r \in S : Holds(Cut(r, h), b, a)
    BY Zenon DEF Holds
  <2>2. Holds(S, b, a) <=> \E r \in S : Holds({r}, b, a)
    BY Zenon DEF Holds
  <2>3. \A r \in S : Holds(Cut(r, h), b, a) <=>
          (Holds({r}, b, a) /\ ~(h.bank = b /\ h.start <= a /\ a < h.end))
    BY CutOne
  <2> QED
    BY <2>1, <2>2, <2>3, Zenon
<1> QED
  BY <1>1, <1>2

\* The larger of two numbers.
LEMMA MaxOfTwo == ASSUME NEW a \in Int, NEW c \in Int
                  PROVE  Max({a, c}) = IF a < c THEN c ELSE a
  BY DEF Max

\* The smaller of two numbers.
LEMMA MinOfTwo == ASSUME NEW a \in Int, NEW c \in Int
                  PROVE  Min({a, c}) = IF a < c THEN a ELSE c
  BY DEF Min

-----------------------------------------------------------------------------
(* merge() *)

Separated(f) ==
  \A m, n \in DOMAIN f : m < n =>
    Before(f[m], f[n]) /\ (f[m].bank = f[n].bank => f[m].end < f[n].start)

\* Regions joined in their order stay in order, apart, and cover the same.
LEMMA JoinKeeps ==
  ASSUME NEW f \in Seq(Region), Separated(f), NEW r \in Region,
         f # <<>> => ~Before(r, f[Len(f)])
  PROVE  LET g == Join(f, r)
         IN  /\ g \in Seq(Region) /\ g # <<>> /\ Separated(g)
             /\ g[Len(g)].bank = r.bank /\ g[Len(g)].start <= r.start
             /\ \A b, a \in Int : Holds(Range(g), b, a) <=>
                  (Holds(Range(f), b, a) \/ Holds({r}, b, a))
<1> DEFINE g == Join(f, r)
           N == Len(f)
           joins == f # <<>> /\ f[N].bank = r.bank /\ f[N].end >= r.start
<1>0. /\ N \in Nat /\ DOMAIN f = 1 .. N /\ (f # <<>> => N >= 1)
      /\ \A n \in 1 .. N : f[n] \in Region
  BY SeqDef
<1>r. \A q \in Region : /\ q.bank \in Int /\ q.start \in Int /\ q.end \in Int
                        /\ q.start < q.end
  BY Sizes DEF Region
<1>1. CASE joins
  <2> DEFINE last == f[N]
             new == [last EXCEPT !.end = Max({last.end, r.end})]
  <2>1. g = [f EXCEPT ![N] = new]
    BY <1>1 DEF Join
  <2>2. last \in Region /\ N >= 1
    BY <1>0, <1>1
  <2>3. /\ last.bank = r.bank /\ last.start <= r.start /\ r.start <= last.end
        /\ last.bank \in Int /\ last.start \in Int /\ last.end \in Int
    BY <1>1, <1>r, <2>2 DEF Before
  <2>4. /\ new \in Region /\ new.bank = last.bank /\ new.start = last.start
        /\ new.end = IF last.end < r.end THEN r.end ELSE last.end
    <3>1. Max({last.end, r.end}) = IF last.end < r.end THEN r.end ELSE last.end
      BY MaxOfTwo, <1>r, <2>2
    <3>2. last \in [bank : 0 .. 4 * Quarter - 1, start : 0 .. Bank, end : 0 .. Bank]
      BY <2>2 DEF Region
    <3>3. Max({last.end, r.end}) \in 0 .. Bank
      BY <3>1, <2>2, Sizes DEF Region
    <3>4. /\ new \in [bank : 0 .. 4 * Quarter - 1, start : 0 .. Bank, end : 0 .. Bank]
          /\ new.bank = last.bank /\ new.start = last.start /\ new.end = Max({last.end, r.end})
      BY <3>2, <3>3
    <3>5. new.start < new.end
      BY <3>4, <3>1, <1>r, <2>2
    <3> QED
      BY <3>1, <3>4, <3>5 DEF Region
  <2> HIDE DEF new, g
  <2>5. /\ g \in Seq(Region) /\ Len(g) = N /\ DOMAIN g = 1 .. N
        /\ g[N] = new /\ \A n \in 1 .. N - 1 : g[n] = f[n]
    <3>1. f \in [1 .. N -> Region]
      BY <1>0
    <3>2. g \in [1 .. N -> Region] /\ g[N] = new /\ \A n \in 1 .. N - 1 : g[n] = f[n]
      <4>1. N \in 1 .. N
        BY <1>0, <2>2
      <4> HIDE DEF N
      <4> QED
        BY <2>1, <2>4, <3>1, <4>1
    <3>3. g \in Seq(Region) /\ Len(g) = N
      BY <3>2, <1>0, SeqDef, LenProperties
    <3> QED
      BY <3>2, <3>3
  <2> HIDE DEF g, joins
  <2>6. Separated(g)
    <3>1. ASSUME NEW m \in 1 .. N, NEW n \in 1 .. N, m < n
          PROVE  Before(g[m], g[n]) /\ (g[m].bank = g[n].bank => g[m].end < g[n].start)
      <4>1. g[m] = f[m] /\ g[n].bank = f[n].bank /\ g[n].start = f[n].start
        BY <3>1, <2>5, <2>4
      <4>2. Before(f[m], f[n]) /\ (f[m].bank = f[n].bank => f[m].end < f[n].start)
        BY <3>1, <1>0 DEF Separated
      <4> QED
        BY <4>1, <4>2 DEF Before
    <3> QED
      BY <3>1, <2>5 DEF Separated
  <2>7. ASSUME NEW b \in Int, NEW a \in Int
        PROVE  Holds(Range(g), b, a) <=> (Holds(Range(f), b, a) \/ Holds({r}, b, a))
    <3> DEFINE In(q) == q.bank = b /\ q.start <= a /\ a < q.end
    <3>1. Holds(Range(g), b, a) <=> \E n \in 1 .. N : In(g[n])
      BY <2>5 DEF Holds, Range
    <3>2. Holds(Range(f), b, a) <=> \E n \in 1 .. N : In(f[n])
      BY <1>0 DEF Holds, Range
    <3>3. Holds({r}, b, a) <=> In(r)
      BY DEF Holds
    <3>4. In(new) <=> In(last) \/ In(r)
      BY <2>3, <2>4, <1>r
    <3> HIDE DEF In
    <3>5. (\E n \in 1 .. N : In(g[n])) <=> In(new) \/ \E n \in 1 .. N - 1 : In(f[n])
      BY <2>5, <2>2, <1>0
    <3>6. (\E n \in 1 .. N : In(f[n])) <=> In(last) \/ \E n \in 1 .. N - 1 : In(f[n])
      BY <2>2, <1>0
    <3> QED
      BY <3>1, <3>2, <3>3, <3>4, <3>5, <3>6
  <2>8. g # <<>> /\ g[Len(g)].bank = r.bank /\ g[Len(g)].start <= r.start
    BY <2>5, <2>2, <2>3, <2>4
  <2> QED
    BY <2>5, <2>6, <2>7, <2>8 DEF g
<1>2. CASE ~joins
  <2>1. g = Append(f, r)
    BY <1>2 DEF Join
  <2>2. /\ g \in Seq(Region) /\ Len(g) = N + 1 /\ DOMAIN g = 1 .. N + 1
        /\ g[N + 1] = r /\ \A n \in 1 .. N : g[n] = f[n]
    BY <2>1, <1>0
  <2>3. f # <<>> => /\ Before(f[N], r) /\ (f[N].bank = r.bank => f[N].end < r.start)
                    /\ f[N] \in Region
    BY <1>2, <1>0, <1>r DEF Before
  <2> HIDE DEF g, joins
  <2>4. Separated(g)
    <3>1. ASSUME NEW m \in 1 .. N + 1, NEW n \in 1 .. N + 1, m < n
          PROVE  Before(g[m], g[n]) /\ (g[m].bank = g[n].bank => g[m].end < g[n].start)
      <4>1. CASE n <= N
        <5>1. g[m] = f[m] /\ g[n] = f[n] /\ m \in 1 .. N /\ n \in 1 .. N
          BY <2>2, <3>1, <4>1, <1>0
        <5> QED
          BY <3>1, <5>1, <1>0 DEF Separated
      <4>2. CASE n = N + 1 /\ m = N
        BY <4>2, <2>2, <2>3, <1>0, <3>1
      <4>3. CASE n = N + 1 /\ m < N
        <5>1. g[m] = f[m] /\ g[n] = r /\ m \in 1 .. N /\ N \in 1 .. N
          BY <2>2, <3>1, <4>3, <1>0
        <5>2. Before(f[m], f[N]) /\ (f[m].bank = f[N].bank => f[m].end < f[N].start)
          BY <5>1, <4>3, <1>0 DEF Separated
        <5>3. f[m] \in Region /\ f[N] \in Region /\ f # <<>>
          BY <5>1, <1>0
        <5> QED
          BY <5>1, <5>2, <5>3, <2>3, <1>r DEF Before
      <4>4. n <= N \/ (n = N + 1 /\ m = N) \/ (n = N + 1 /\ m < N)
        <5>1. m \in Int /\ n \in Int /\ N \in Int /\ n <= N + 1
          BY <1>0
        <5> HIDE DEF N
        <5> QED
          BY <5>1, <3>1
      <4> QED
        BY <4>1, <4>2, <4>3, <4>4, Zenon
    <3> QED
      BY <3>1, <2>2 DEF Separated
  <2>5. ASSUME NEW b \in Int, NEW a \in Int
        PROVE  Holds(Range(g), b, a) <=> (Holds(Range(f), b, a) \/ Holds({r}, b, a))
    <3> DEFINE In(q) == q.bank = b /\ q.start <= a /\ a < q.end
    <3>1. Holds(Range(g), b, a) <=> \E n \in 1 .. N + 1 : In(g[n])
      BY <2>2 DEF Holds, Range
    <3>2. Holds(Range(f), b, a) <=> \E n \in 1 .. N : In(f[n])
      BY <1>0 DEF Holds, Range
    <3>3. Holds({r}, b, a) <=> In(r)
      BY DEF Holds
    <3> HIDE DEF In
    <3>5. (\E n \in 1 .. N + 1 : In(g[n])) <=> In(r) \/ \E n \in 1 .. N : In(f[n])
      BY <2>2, <1>0
    <3> QED
      BY <3>1, <3>2, <3>3, <3>5
  <2>6. g # <<>> /\ g[Len(g)].bank = r.bank /\ g[Len(g)].start <= r.start
    BY <2>2, <1>0, <1>r
  <2> QED
    BY <2>2, <2>4, <2>5, <2>6 DEF g
<1> QED
  BY <1>1, <1>2

-----------------------------------------------------------------------------
(* reclaimed_regions() *)

InCompressed(b, a) ==
  /\ b \in WindowBase .. 4 * Quarter - 1 /\ a \in 0 .. Bank - 1
  /\ Compressed((b - WindowBase) * Bank + a)

\* The arguments build() is given.
LEMMA JobFacts ==
  ASSUME job \in Builds
  PROVE  /\ Entry = 1 .. Len(job.entries) /\ Len(job.entries) \in Nat
         /\ \A i \in Entry : /\ job.entries[i].source \in 0 .. OriginalSize - 1
                             /\ job.entries[i].end \in Nat
                             /\ job.entries[i].length \in Nat /\ job.entries[i].length > 0
         /\ DOMAIN job.extra = 1 .. Len(job.extra) /\ Len(job.extra) \in Nat
         /\ \A n \in 1 .. Len(job.extra) :
              /\ job.extra[n].bank \in DataBanks \ TableBanks
              /\ job.extra[n].addr \in 0 .. Bank - 1 /\ job.extra[n].len \in Nat
              /\ job.extra[n].addr + job.extra[n].len <= Bank
<1> DEFINE E == [source : 0 .. OriginalSize - 1, end : Nat, length : Nat \ {0}]
           X == [bank : DataBanks \ TableBanks, addr : 0 .. Bank - 1, len : 0 .. Bank]
<1>1. /\ job.entries \in Seq(E) /\ job.extra \in Seq(X)
      /\ \A m \in DOMAIN job.extra : job.extra[m].addr + job.extra[m].len <= Bank
  BY LayoutAssumption
<1>2. /\ DOMAIN job.entries = 1 .. Len(job.entries) /\ Len(job.entries) \in Nat
      /\ \A i \in DOMAIN job.entries : job.entries[i] \in E
  <2> HIDE DEF E
  <2> QED
    BY <1>1
<1>3. /\ DOMAIN job.extra = 1 .. Len(job.extra) /\ Len(job.extra) \in Nat
      /\ \A i \in DOMAIN job.extra : job.extra[i] \in X
  <2> HIDE DEF X
  <2> QED
    BY <1>1
<1>4. \A i \in DOMAIN job.entries :
        /\ job.entries[i].source \in 0 .. OriginalSize - 1
        /\ job.entries[i].end \in Nat
        /\ job.entries[i].length \in Nat /\ job.entries[i].length > 0
  BY <1>2
<1>5. ASSUME NEW n \in 1 .. Len(job.extra)
      PROVE  /\ job.extra[n].bank \in DataBanks \ TableBanks
             /\ job.extra[n].addr \in 0 .. Bank - 1 /\ job.extra[n].len \in Nat
             /\ job.extra[n].addr + job.extra[n].len <= Bank
  <2>1. n \in DOMAIN job.extra /\ job.extra[n] \in X
    BY <1>3, Zenon
  <2>2. job.extra[n].addr + job.extra[n].len <= Bank
    BY <1>1, <2>1, Zenon
  <2>3. \A x \in X : x.bank \in DataBanks \ TableBanks /\ x.addr \in 0 .. Bank - 1 /\ x.len \in Nat
    OBVIOUS
  <2> QED
    BY <2>1, <2>2, <2>3, Zenon
<1> QED
  BY <1>2, <1>3, <1>4, <1>5, Zenon DEF Entry

\* What one entry gives back lies in its bank of the window, and is exactly
\* the bytes it was decompressed from.
LEMMA ReclaimedOne ==
  ASSUME NEW e, e.source \in 0 .. OriginalSize - 1, e.end \in Nat, Consumed(e) > e.source
  PROVE  /\ Reclaimed(e) \in Region
         /\ \A b, a \in Int : Holds({Reclaimed(e)}, b, a) <=>
              /\ b \in WindowBase .. 4 * Quarter - 1 /\ a \in 0 .. Bank - 1
              /\ (b - WindowBase) * Bank + a \in e.source .. Consumed(e) - 1
<1> DEFINE q == e.source \div Bank
           r == e.source % Bank
           c == Consumed(e)
           d == Reclaimed(e)
<1>1. e.source \in Nat /\ e.source < Quarter * Bank /\ Quarter * Bank \in Nat
  BY Sizes DEF OriginalSize
<1>2. q \in Nat /\ r \in 0 .. Bank - 1 /\ e.source = Bank * q + r
  BY <1>1, Sizes, DivMod, DivNat, ModRange
<1>3. c \in Int /\ c <= (q + 1) * Bank /\ c > e.source
  <2>1. e.end - ReadAhead \in Int /\ (q + 1) * Bank \in Int
    <3> HIDE DEF q
    <3> QED
      BY <1>2, Sizes
  <2>2. c = Min({e.end - ReadAhead, (q + 1) * Bank})
    BY DEF Consumed
  <2> HIDE DEF c, q
  <2>3. c = IF e.end - ReadAhead < (q + 1) * Bank THEN e.end - ReadAhead ELSE (q + 1) * Bank
    BY <2>1, <2>2, MinOfTwo
  <2>4. c > e.source
    BY DEF c
  <2> QED
    BY <2>1, <2>3, <2>4
<1>4. d.bank = WindowBase + q /\ d.start = r /\ d.end = c - q * Bank
  BY DEF Reclaimed, Span
<1> HIDE DEF q, r, c
<1>5. q < Quarter
  <2>1. ASSUME q >= Quarter PROVE FALSE
    <3>1. Bank * q >= Quarter * Bank
      BY <2>1, <1>2, Sizes, Z3
    <3>2. Bank * q \in Int
      BY <1>2, Sizes
    <3> QED
      BY <3>1, <3>2, <1>1, <1>2
  <2> QED
    BY <2>1, <1>2, Sizes
<1>6. /\ q * Bank \in Nat /\ (q + 1) * Bank = q * Bank + Bank /\ Bank * q = q * Bank
  BY <1>2, Sizes, Z3
<1>7. d \in Region
  <2>1. d = Span(WindowBase + q, r, c - q * Bank)
    BY DEF Reclaimed, q, r, c
  <2>2. r < c - q * Bank /\ c - q * Bank \in 0 .. Bank
    BY <1>2, <1>3, <1>6, Sizes
  <2>3. WindowBase + q \in 0 .. 4 * Quarter - 1
    BY <1>2, <1>5, Sizes
  <2>4. Span(WindowBase + q, r, c - q * Bank)
          \in [bank : 0 .. 4 * Quarter - 1, start : 0 .. Bank, end : 0 .. Bank]
    BY <2>2, <2>3, <1>2, Sizes DEF Span
  <2>5. d.start < d.end
    BY <1>4, <2>2
  <2> QED
    BY <2>1, <2>4, <2>5 DEF Region
<1>8. ASSUME NEW b \in Int, NEW a \in Int
      PROVE  Holds({d}, b, a) <=>
              /\ b \in WindowBase .. 4 * Quarter - 1 /\ a \in 0 .. Bank - 1
              /\ (b - WindowBase) * Bank + a \in e.source .. c - 1
  <2>1. Holds({d}, b, a) <=> (WindowBase + q = b /\ r <= a /\ a < c - q * Bank)
    BY <1>4 DEF Holds
  <2>2. ASSUME b \in WindowBase .. 4 * Quarter - 1, a \in 0 .. Bank - 1,
               (b - WindowBase) * Bank + a \in e.source .. c - 1
        PROVE  WindowBase + q = b /\ r <= a /\ a < c - q * Bank
    <3> DEFINE i == b - WindowBase
    <3>1. i \in Int /\ i * Bank \in Int
      BY Sizes
    <3>2. q * Bank <= i * Bank + a /\ i * Bank + a < (q + 1) * Bank
      BY <2>2, <3>1, <1>1, <1>2, <1>3, <1>6, Sizes
    <3>3. i = q
      <4> HIDE DEF i
      <4> QED
        BY <3>1, <3>2, <2>2, <1>2, Sizes, SameMultiple
    <3> HIDE DEF i
    <3>4. i * Bank + a \in e.source .. c - 1
      BY <2>2 DEF i
    <3>5. i = b - WindowBase
      BY DEF i
    <3>6. q * Bank + a \in e.source .. c - 1
      BY <3>3, <3>4
    <3>7. WindowBase + q = b
      BY <3>3, <3>5, <1>2, Sizes
    <3> QED
      BY <3>6, <3>7, <1>1, <1>2, <1>3, <1>6
  <2>3. ASSUME WindowBase + q = b, r <= a, a < c - q * Bank
        PROVE  /\ b \in WindowBase .. 4 * Quarter - 1 /\ a \in 0 .. Bank - 1
               /\ (b - WindowBase) * Bank + a \in e.source .. c - 1
    <3>1. b - WindowBase = q /\ b \in WindowBase .. 4 * Quarter - 1
      BY <2>3, <1>2, <1>5, Sizes
    <3>2. a \in 0 .. Bank - 1 /\ q * Bank + a \in e.source .. c - 1
      BY <2>3, <1>2, <1>3, <1>6, <1>1, Sizes
    <3> QED
      BY <3>1, <3>2
  <2> QED
    BY <2>1, <2>2, <2>3
<1> QED
  BY <1>7, <1>8 DEF c

\* The spans of all entries cover the compressed bytes and nothing else.
LEMMA SpansCover ==
  ASSUME job \in Builds
  PROVE  /\ Spans \subseteq Region
         /\ \A b, a \in Int : Holds(Spans, b, a) <=> InCompressed(b, a)
<1> DEFINE e(i) == job.entries[i]
           gives(i) == i \in Entry /\ Consumed(e(i)) > e(i).source
<1>1. \A i : gives(i) =>
        /\ Reclaimed(e(i)) \in Region
        /\ \A b, a \in Int : Holds({Reclaimed(e(i))}, b, a) <=>
             /\ b \in WindowBase .. 4 * Quarter - 1 /\ a \in 0 .. Bank - 1
             /\ (b - WindowBase) * Bank + a \in e(i).source .. Consumed(e(i)) - 1
  BY JobFacts, ReclaimedOne
<1>2. Spans = {Reclaimed(e(i)) : i \in {k \in Entry : gives(k)}}
  BY DEF Spans
<1>c. \A i \in Entry : Consumed(e(i)) \in Int /\ e(i).source \in Int
  <2> TAKE i \in Entry
  <2>0. e(i).source \in Nat /\ e(i).end \in Nat
    BY JobFacts
  <2>1. e(i).end - ReadAhead \in Int /\ (e(i).source \div Bank + 1) * Bank \in Int
    BY <2>0, Sizes, DivNat
  <2>2. Consumed(e(i)) \in Int
    BY <2>1, MinOfTwo DEF Consumed
  <2> QED
    BY <2>0, <2>2
<1>3. ASSUME NEW b \in Int, NEW a \in Int
      PROVE  Holds(Spans, b, a) <=> InCompressed(b, a)
  <2> DEFINE within == b \in WindowBase .. 4 * Quarter - 1 /\ a \in 0 .. Bank - 1
             o == (b - WindowBase) * Bank + a
  <2>1. Holds(Spans, b, a) <=> \E i \in Entry : gives(i) /\ Holds({Reclaimed(e(i))}, b, a)
    BY <1>2 DEF Holds
  <2>2. \A i \in Entry : gives(i) => (Holds({Reclaimed(e(i))}, b, a) <=>
             within /\ o \in e(i).source .. Consumed(e(i)) - 1)
    BY <1>1
  <2>3. \A i \in Entry : o \in e(i).source .. Consumed(e(i)) - 1 => gives(i)
    BY <1>c
  <2>4. InCompressed(b, a) <=> within /\ \E i \in Entry : o \in e(i).source .. Consumed(e(i)) - 1
    BY DEF InCompressed, Compressed
  <2> HIDE DEF gives, within, o, e
  <2> QED
    BY <2>1, <2>2, <2>3, <2>4
<1> QED
  <2> HIDE DEF e
  <2>1. Spans \subseteq Region
    BY <1>1, <1>2
  <2> QED
    BY <2>1, <1>3

-----------------------------------------------------------------------------
(* What the free list covers *)

\* A byte of a data bank, outside the tables and the first k extra blocks.
InData(b, a, k) ==
  /\ b \in DataBanks \ TableBanks /\ a \in 0 .. Bank - 1
  /\ \A n \in 1 .. k : ~(job.extra[n].bank = b /\ job.extra[n].addr <= a
                         /\ a < job.extra[n].addr + job.extra[n].len)

\* A byte of the window in a run of compressed bytes worth reclaiming.
InRun(b, a) ==
  /\ b \in WindowBase .. 4 * Quarter - 1 /\ a \in 0 .. Bank - 1
  /\ \E s \in 0 .. a, e \in a + 1 .. Bank :
       /\ e - s >= MinRegion
       /\ \A c \in s .. e - 1 : Compressed((b - WindowBase) * Bank + c)

InFree(b, a) == InData(b, a, Len(job.extra)) \/ InRun(b, a)

\* build() starts from the whole data space.
LEMMA DataRegionsCover ==
  /\ DataRegions \subseteq Region
  /\ \A b, a \in Int : Holds(DataRegions, b, a) <=> InData(b, a, 0)
<1>1. \A b \in DataBanks : /\ b \notin WramBanks /\ b \in 0 .. 4 * Quarter - 1
                           /\ Span(b, 0, Bank) \in Region
  BY Sizes DEF DataBanks, WramBanks, Span, Region
<1>2. DataRegions = {Span(b, 0, Bank) : b \in DataBanks \ TableBanks}
  BY <1>1 DEF DataRegions
<1>3. \A b, a \in Int : Holds(DataRegions, b, a) <=> InData(b, a, 0)
  <2> TAKE b, a \in Int
  <2>1. \A c : /\ Span(c, 0, Bank).bank = c /\ Span(c, 0, Bank).start = 0
               /\ Span(c, 0, Bank).end = Bank
    BY DEF Span
  <2>2. Holds(DataRegions, b, a) <=> b \in DataBanks \ TableBanks /\ 0 <= a /\ a < Bank
    BY <1>2, <2>1 DEF Holds
  <2> QED
    BY <2>2, Sizes DEF InData
<1> QED
  BY <1>1, <1>2, <1>3

\* Of a merged list, the regions long enough are the runs long enough: a run
\* cannot reach past the region it lies in, for the next one does not touch it.
LEMMA WorthReclaiming ==
  ASSUME NEW f \in Seq(Region), Separated(f),
         \A b, a \in Int : Holds(Range(f), b, a) <=> InCompressed(b, a)
  PROVE  LET K == {r \in Range(f) : r.end - r.start >= MinRegion}
         IN  K \subseteq Region /\ \A b, a \in Int : Holds(K, b, a) <=> InRun(b, a)
<1> DEFINE K == {r \in Range(f) : r.end - r.start >= MinRegion}
<1>1. Range(f) \subseteq Region
  BY DEF Range
<1>2. \A r \in Region : /\ r.bank \in 0 .. 4 * Quarter - 1 /\ r.start \in 0 .. Bank
                        /\ r.end \in 0 .. Bank /\ r.start < r.end
  BY DEF Region
<1>3. ASSUME NEW b \in Int, NEW a \in Int, Holds(K, b, a) PROVE InRun(b, a)
  <2>1. PICK r \in Range(f) : /\ r.end - r.start >= MinRegion
                              /\ r.bank = b /\ r.start <= a /\ a < r.end
    BY <1>3 DEF Holds
  <2>2. r \in Region /\ r.start \in 0 .. Bank /\ r.end \in 0 .. Bank
    BY <1>1, <1>2, <2>1
  <2>3. \A c \in r.start .. r.end - 1 : InCompressed(b, c)
    BY <2>1, <2>2, Sizes DEF Holds
  <2>4. b \in WindowBase .. 4 * Quarter - 1 /\ a \in 0 .. Bank - 1
    BY <2>1, <2>2, <2>3 DEF InCompressed
  <2>5. r.start \in 0 .. a /\ r.end \in a + 1 .. Bank
    BY <2>1, <2>2, Sizes
  <2> QED
    BY <2>1, <2>3, <2>4, <2>5 DEF InRun, InCompressed
<1>4. ASSUME NEW b \in Int, NEW a \in Int, InRun(b, a) PROVE Holds(K, b, a)
  <2>1. PICK s \in 0 .. a, e \in a + 1 .. Bank :
          /\ e - s >= MinRegion
          /\ \A c \in s .. e - 1 : Compressed((b - WindowBase) * Bank + c)
    BY <1>4 DEF InRun
  <2>2. b \in WindowBase .. 4 * Quarter - 1 /\ a \in 0 .. Bank - 1
    BY <1>4 DEF InRun
  <2>3. \A c \in s .. e - 1 : c \in Int /\ Holds(Range(f), b, c)
    <3>1. \A c \in s .. e - 1 : c \in Int /\ InCompressed(b, c)
      BY <2>1, <2>2, Sizes DEF InCompressed
    <3> QED
      BY <3>1, <2>2
  <2>4. a \in s .. e - 1
    BY <2>2, Sizes
  <2>5. PICK m \in DOMAIN f : f[m].bank = b /\ f[m].start <= a /\ a < f[m].end
    BY <2>3, <2>4 DEF Holds, Range
  <2>6. DOMAIN f \subseteq Nat /\ \A n \in DOMAIN f : f[n] \in Region
    OBVIOUS
  <2>7. \A c \in s .. e - 1 : \E n \in DOMAIN f :
          f[n].bank = b /\ f[n].start <= c /\ c < f[n].end
    BY <2>3 DEF Holds, Range
  <2>8. \A n \in DOMAIN f : n # m /\ f[n].bank = b =>
          f[n].end < f[m].start \/ f[m].end < f[n].start
    BY <2>5, <2>6 DEF Separated
  <2>9. f[m].start <= s
    <3> SUFFICES ASSUME s < f[m].start PROVE FALSE
      BY <2>6, <1>2
    <3> DEFINE c == f[m].start - 1
    <3>0. f[m].start \in Int /\ f[m].start <= a /\ f[m].start - 1 = c /\ c \in Int
      BY <2>5, <2>6, <1>2
    <3>1. c \in s .. e - 1
      <4> HIDE DEF c
      <4> QED
        BY <2>4, <3>0
    <3>2. PICK n \in DOMAIN f :
            f[n].bank = b /\ f[n].start <= c /\ c < f[n].end
      BY <3>1, <2>7
    <3>3. f[n].start \in Int /\ f[n].end \in Int /\ f[m].end \in Int /\ f[m].start < f[m].end
      BY <2>6, <1>2
    <3> HIDE DEF c
    <3>4. n # m
      BY <3>0, <3>2
    <3>5. f[n].end < f[m].start \/ f[m].end < f[n].start
      BY <3>2, <3>4, <2>8, Zenon
    <3> QED
      BY <3>0, <3>2, <3>3, <3>5
  <2>10. e <= f[m].end
    <3> SUFFICES ASSUME f[m].end < e PROVE FALSE
      BY <2>6, <1>2
    <3>1. f[m].end \in s .. e - 1
      BY <2>4, <2>5, <2>6, <1>2, Sizes
    <3>2. PICK n \in DOMAIN f :
            f[n].bank = b /\ f[n].start <= f[m].end /\ f[m].end < f[n].end
      BY <3>1, <2>7
    <3>3. n # m
      BY <3>2, <2>6, <1>2
    <3>4. f[n].end < f[m].start \/ f[m].end < f[n].start
      BY <3>2, <3>3, <2>8, Zenon
    <3>5. /\ f[n].start \in Int /\ f[n].end \in Int /\ f[m].start \in Int /\ f[m].end \in Int
          /\ f[m].start < f[m].end
      BY <2>6, <1>2
    <3> QED
      BY <3>2, <3>4, <3>5
  <2>11. f[m] \in K
    <3>1. f[m].end - f[m].start >= MinRegion
      BY <2>1, <2>6, <2>9, <2>10, <1>2, Sizes
    <3> QED
      BY <3>1 DEF Range
  <2> QED
    BY <2>5, <2>11 DEF Holds
<1> QED
  BY <1>1, <1>3, <1>4

-----------------------------------------------------------------------------
(* The free list, step by step *)

Laid == {"allocate", "lorom", "tables", "streams", "extra", "done"}

SpaceTypes ==
  /\ job \in Builds /\ step \in Nat
  /\ regions \subseteq Region /\ kept \subseteq Region
  /\ free \in Seq(Region) /\ Separated(free)
  /\ pc \in {"start", "subtract", "reclaim", "merge", "refused"} \cup Laid

\* What merge() has still to visit does not come before what it has made.
InOrder ==
  pc \in {"reclaim", "merge"} /\ free # <<>> =>
    \A r \in regions : ~Before(r, free[Len(free)])

SpaceCovered ==
  /\ pc = "subtract" =>
       /\ step \in 1 .. Len(job.extra) + 1
       /\ \A b, a \in Int : Holds(regions, b, a) <=> InData(b, a, step - 1)
  /\ pc \in {"reclaim", "merge"} =>
       \A b, a \in Int : Holds(kept, b, a) <=> InData(b, a, Len(job.extra))
  /\ pc = "reclaim" =>
       \A b, a \in Int : (Holds(regions, b, a) \/ Holds(Range(free), b, a)) <=> InCompressed(b, a)
  /\ pc = "merge" =>
       \A b, a \in Int : (Holds(regions, b, a) \/ Holds(Range(free), b, a)) <=> InFree(b, a)
  /\ pc \in Laid =>
       \A b, a \in Int : Holds(Range(free), b, a) <=> InFree(b, a)

SpaceInv == SpaceTypes /\ InOrder /\ SpaceCovered

\* What is said of the bytes of a build depends on its arguments alone.
LEMMA SameJob ==
  ASSUME UNCHANGED job
  PROVE  /\ \A b, a, k : InData(b, a, k)' <=> InData(b, a, k)
         /\ \A b, a : InCompressed(b, a)' <=> InCompressed(b, a)
         /\ \A b, a : InRun(b, a)' <=> InRun(b, a)
         /\ \A b, a : InFree(b, a)' <=> InFree(b, a)
<1>1. \A o : Compressed(o)' <=> Compressed(o)
  BY DEF Compressed, Entry
<1> QED
  BY <1>1 DEF InData, InCompressed, InFree, InRun

\* No region covers nothing.
LEMMA NothingHeld == \A b, a : ~Holds({}, b, a) /\ ~Holds(Range(<<>>), b, a)
  BY DEF Holds, Range

\* An empty list is a list of regions.
LEMMA NothingSeparated == <<>> \in Seq(Region) /\ Separated(<<>>) /\ {} \subseteq Region
  BY DEF Separated

\* Nothing is free before the first step.
LEMMA SpaceInit == Init => SpaceInv
  BY NothingSeparated DEF Init, SpaceInv, SpaceTypes, InOrder, SpaceCovered, Laid

\* The steps that come before the allocator.
LEMMA SpaceMade ==
  ASSUME SpaceInv, OpenDataBanks \/ SubtractNext \/ Reclaim \/ Merge \/ MergeAll \/ FindSpace
  PROVE  SpaceInv'
<1> USE DEF SpaceInv
<1>1. CASE OpenDataBanks
  <2>1. /\ regions' = DataRegions /\ step' = 1 /\ pc' = "subtract"
        /\ UNCHANGED <<job, kept, free>>
    BY <1>1 DEF OpenDataBanks, Goes
  <2>2. SpaceTypes'
    BY <2>1, DataRegionsCover DEF SpaceTypes
  <2>3. SpaceCovered'
    BY <2>1, DataRegionsCover, SameJob, JobFacts DEF SpaceCovered, SpaceTypes, Laid
  <2> QED
    BY <2>1, <2>2, <2>3 DEF InOrder
<1>2. CASE SubtractNext
  <2> DEFINE x == job.extra[step]
             h == SpanOf(x)
  <2>1. /\ pc = "subtract" /\ step <= Len(job.extra) /\ step' = step + 1 /\ pc' = "subtract"
        /\ UNCHANGED <<job, kept, free>>
        /\ regions' = UNION {Cut(r, h) : r \in regions}
    BY <1>2 DEF SubtractNext, Subtract, Goes
  <2>2. step \in 1 .. Len(job.extra)
    BY <2>1 DEF SpaceCovered, SpaceTypes
  <2>3. /\ x.bank \in Int /\ x.addr \in 0 .. Bank - 1 /\ x.len \in Nat /\ x.addr + x.len <= Bank
    BY <2>2, JobFacts DEF SpaceTypes, DataBanks
  <2>4. /\ h \in [bank : Int, start : Int, end : Int] /\ h.start <= h.end
        /\ 0 <= h.start /\ h.end <= Bank
        /\ h.bank = x.bank /\ h.start = x.addr /\ h.end = x.addr + x.len
    <3> HIDE DEF x
    <3> QED
      BY <2>3, Sizes DEF SpanOf, Span
  <2> HIDE DEF h
  <2>5. /\ regions' \subseteq Region
        /\ \A b, a \in Int : Holds(regions', b, a) <=>
             (Holds(regions, b, a) /\ ~(h.bank = b /\ h.start <= a /\ a < h.end))
    <3>1. regions \in SUBSET Region
      BY DEF SpaceTypes
    <3> DEFINE T == UNION {Cut(r, h) : r \in regions}
    <3>2. /\ T \subseteq Region
          /\ \A b, a \in Int : Holds(T, b, a) <=>
               (Holds(regions, b, a) /\ ~(h.bank = b /\ h.start <= a /\ a < h.end))
      BY <3>1, <2>4, CutAll
    <3>3. regions' = T
      BY <2>1
    <3> HIDE DEF T
    <3> QED
      BY <3>2, <3>3
  <2>6. \A b, a : InData(b, a, step) <=>
          (InData(b, a, step - 1) /\ ~(h.bank = b /\ h.start <= a /\ a < h.end))
    <3> TAKE b, a
    <3>1. 1 .. step = (1 .. step - 1) \cup {step}
      BY <2>2
    <3>2. InData(b, a, step) <=>
            (InData(b, a, step - 1) /\ ~(x.bank = b /\ x.addr <= a /\ a < x.addr + x.len))
      BY <3>1 DEF InData
    <3> QED
      BY <3>2, <2>4
  <2>7. SpaceTypes'
    BY <2>1, <2>5 DEF SpaceTypes
  <2>8. SpaceCovered'
    <3>1. \A b, a \in Int : Holds(regions', b, a) <=> InData(b, a, step)
      BY <2>1, <2>5, <2>6 DEF SpaceCovered
    <3>2. step' - 1 = step /\ step' \in 1 .. Len(job.extra) + 1
      BY <2>1, <2>2
    <3>3. \A b, a \in Int : Holds(regions', b, a) <=> InData(b, a, step - 1)'
      BY <3>1, <3>2, <2>1 DEF InData
    <3> QED
      BY <2>1, <3>2, <3>3 DEF SpaceCovered, Laid
  <2> QED
    BY <2>1, <2>7, <2>8 DEF InOrder
<1>3. CASE Reclaim
  <2>1. /\ pc = "subtract" /\ step > Len(job.extra) /\ pc' = "reclaim" /\ kept' = regions
        /\ regions' = Spans /\ free' = <<>> /\ UNCHANGED <<job, step>>
    BY <1>3 DEF Reclaim, StartMerge
  <2>2. step - 1 = Len(job.extra)
    BY <2>1, JobFacts DEF SpaceCovered, SpaceTypes
  <2>3. SpaceTypes'
    BY <2>1, SpansCover, NothingSeparated DEF SpaceTypes
  <2>4. SpaceCovered'
    <3>1. \A b, a \in Int : Holds(kept', b, a) <=> InData(b, a, Len(job.extra))
      BY <2>1, <2>2 DEF SpaceCovered
    <3>2. \A b, a \in Int : (Holds(regions', b, a) \/ Holds(Range(free'), b, a)) <=> InCompressed(b, a)
      BY <2>1, SpansCover, NothingHeld DEF SpaceTypes
    <3> QED
      BY <2>1, <3>1, <3>2, SameJob DEF SpaceCovered, Laid
  <2> QED
    BY <2>1, <2>3, <2>4 DEF InOrder
<1>4. CASE Merge
  <2>1. PICK r \in regions : Least(r) /\ free' = Join(free, r) /\ regions' = regions \ {r}
    BY <1>4 DEF Merge, MergeNext
  <2>2. pc \in {"reclaim", "merge"} /\ UNCHANGED <<pc, job, kept, step>>
    BY <1>4 DEF Merge
  <2>3. r \in Region /\ (free # <<>> => ~Before(r, free[Len(free)]))
    BY <2>2 DEF InOrder, SpaceTypes
  <2>4. /\ free' \in Seq(Region) /\ free' # <<>> /\ Separated(free')
        /\ free'[Len(free')].bank = r.bank /\ free'[Len(free')].start <= r.start
        /\ \A b, a \in Int : Holds(Range(free'), b, a) <=>
             (Holds(Range(free), b, a) \/ Holds({r}, b, a))
    BY <2>1, <2>3, JoinKeeps DEF SpaceTypes
  <2>5. SpaceTypes'
    BY <2>1, <2>2, <2>4 DEF SpaceTypes
  <2>6. InOrder'
    <3> DEFINE l == free'[Len(free')]
    <3>1. l \in Region
      BY <2>4
    <3>2. ASSUME NEW q \in regions' PROVE ~Before(q, l)
      <4>1. q \in regions /\ ~Before(q, r) /\ q \in Region
        BY <2>1 DEF Least, SpaceTypes
      <4>2. /\ q.bank \in Int /\ q.start \in Int /\ r.bank \in Int /\ r.start \in Int
            /\ l.bank \in Int /\ l.start \in Int
        BY <4>1, <2>3, <3>1, Sizes DEF Region
      <4> QED
        BY <4>1, <4>2, <2>4 DEF Before
    <3> QED
      BY <3>2 DEF InOrder
  <2>7. \A b, a \in Int : (Holds(regions', b, a) \/ Holds(Range(free'), b, a)) <=>
                         (Holds(regions, b, a) \/ Holds(Range(free), b, a))
    <3> TAKE b, a \in Int
    <3>1. Holds(regions, b, a) <=> (Holds(regions', b, a) \/ Holds({r}, b, a))
      BY <2>1 DEF Holds
    <3> QED
      BY <3>1, <2>4
  <2>8. SpaceCovered'
    BY <2>2, <2>7, SameJob DEF SpaceCovered, Laid
  <2> QED
    BY <2>5, <2>6, <2>8
<1>5. CASE MergeAll
  <2> DEFINE K == {r \in Range(free) : r.end - r.start >= MinRegion}
  <2>1. /\ pc = "reclaim" /\ regions = {} /\ pc' = "merge" /\ regions' = kept \cup K
        /\ free' = <<>> /\ UNCHANGED <<job, kept, step>>
    BY <1>5 DEF MergeAll, StartMerge, Goes
  <2>2. \A b, a \in Int : Holds(Range(free), b, a) <=> InCompressed(b, a)
    BY <2>1, NothingHeld DEF SpaceCovered
  <2>3. K \subseteq Region /\ \A b, a \in Int : Holds(K, b, a) <=> InRun(b, a)
    BY <2>2, WorthReclaiming DEF SpaceTypes
  <2> HIDE DEF K
  <2>4. SpaceTypes'
    BY <2>1, <2>3, NothingSeparated DEF SpaceTypes
  <2>5. \A b, a \in Int : (Holds(regions', b, a) \/ Holds(Range(free'), b, a)) <=> InFree(b, a)
    <3> TAKE b, a \in Int
    <3>1. Holds(regions', b, a) <=> (Holds(kept, b, a) \/ Holds(K, b, a))
      BY <2>1 DEF Holds
    <3>2. Holds(kept, b, a) <=> InData(b, a, Len(job.extra))
      BY <2>1 DEF SpaceCovered
    <3> QED
      BY <3>1, <3>2, <2>1, <2>3, NothingHeld DEF InFree
  <2>6. SpaceCovered'
    BY <2>1, <2>5, SameJob DEF SpaceCovered, Laid
  <2> QED
    BY <2>1, <2>4, <2>6 DEF InOrder
<1>6. CASE FindSpace
  <2>1. pc = "merge" /\ regions = {} /\ pc' = "allocate" /\ UNCHANGED <<regions, free, job, kept, step>>
    BY <1>6 DEF FindSpace, Goes
  <2>2. SpaceCovered'
    BY <2>1, NothingHeld, SameJob DEF SpaceCovered, Laid
  <2> QED
    BY <2>1, <2>2 DEF SpaceTypes, InOrder, Laid
<1> QED
  BY <1>1, <1>2, <1>3, <1>4, <1>5, <1>6

\* From the allocator on, the list stays as it is.
LEMMA SpaceKept ==
  ASSUME SpaceInv, UNCHANGED <<regions, free, job, kept>>, step' \in Nat,
         \/ UNCHANGED <<pc, step>>
         \/ pc \in Laid /\ pc' \in Laid
         \/ pc' = "refused"
  PROVE  SpaceInv'
<1>1. SpaceTypes'
  BY DEF SpaceInv, SpaceTypes
<1>2. InOrder'
  BY DEF SpaceInv, InOrder, Laid
<1>3. SpaceCovered'
  BY SameJob DEF SpaceInv, SpaceCovered, Laid
<1> QED
  BY <1>1, <1>2, <1>3 DEF SpaceInv

\* No step of build() breaks what is said of the free list.
LEMMA SpaceStep == SpaceInv /\ [Next]_vars => SpaceInv'
<1> SUFFICES ASSUME SpaceInv, [Next]_vars PROVE SpaceInv'
  OBVIOUS
<1>0. step \in Nat
  BY DEF SpaceInv, SpaceTypes
<1>1. CASE OpenDataBanks \/ SubtractNext \/ Reclaim \/ Merge \/ MergeAll \/ FindSpace
  BY <1>1, SpaceMade
<1>2. CASE WrongSize \/ Exhausted
  BY <1>0, <1>2, SpaceKept DEF WrongSize, Exhausted, Goes, Keeps, fitVars
<1>3. CASE Allocate
  BY <1>0, <1>3, SpaceKept DEF Allocate, Take, Goes, Laid
<1>4. CASE MakeTables
  BY <1>0, <1>4, SpaceKept DEF MakeTables, Goes, Keeps, fitVars, Laid
<1>5. CASE PlaceLorom \/ PlaceWindow \/ StartExtra \/ PlaceExtra \/ Finish
  BY <1>0, <1>5, SpaceKept DEF PlaceLorom, PlaceWindow, StartExtra, PlaceExtra, Finish, Goes, Keeps,
     fitVars, Laid
<1>6. CASE PlaceTables
  BY <1>0, <1>6, SpaceKept DEF PlaceTables, Keeps, fitVars, Laid
<1>7. CASE \E p \in at : PlaceStream(p)
  BY <1>0, <1>7, SpaceKept DEF PlaceStream, Keeps, fitVars, Laid
<1>8. CASE UNCHANGED vars
  BY <1>0, <1>8, SpaceKept DEF vars
<1> QED
  BY <1>1, <1>2, <1>3, <1>4, <1>5, <1>6, <1>7, <1>8 DEF Next

\* And once streams are allocated it says what FreeSpaceExact does.
LEMMA SpaceExact == SpaceInv => FreeSpaceExact
<1> SUFFICES ASSUME SpaceInv, pc = "allocate" PROVE FreeSpaceExact
  BY DEF FreeSpaceExact
<1> DEFINE data == {x \in (DataBanks \ TableBanks) \X (0 .. Bank - 1) :
                      \A n \in DOMAIN job.extra : ~(x[1] = job.extra[n].bank /\
                        x[2] \in job.extra[n].addr .. job.extra[n].addr + job.extra[n].len - 1)}
           runs == {x \in (WindowBase .. 4 * Quarter - 1) \X (0 .. Bank - 1) :
                      \E s \in 0 .. x[2], e \in x[2] + 1 .. Bank :
                        /\ e - s >= MinRegion
                        /\ \A a \in s .. e - 1 : Compressed((x[1] - WindowBase) * Bank + a)}
<1>1. ASSUME NEW n \in 2 .. Len(free)
      PROVE  Before(free[n - 1], free[n]) /\
             (free[n - 1].bank = free[n].bank => free[n - 1].end < free[n].start)
  <2>1. n \in DOMAIN free /\ n - 1 \in DOMAIN free /\ n - 1 < n
    BY DEF SpaceInv, SpaceTypes
  <2> QED
    BY <2>1 DEF SpaceInv, SpaceTypes, Separated
<1>2. ASSUME NEW b \in Int, NEW a \in Int PROVE <<b, a>> \in data <=> InData(b, a, Len(job.extra))
  <2>1. \A n \in DOMAIN job.extra :
          /\ job.extra[n].addr \in Int /\ job.extra[n].len \in Int
    BY JobFacts DEF SpaceInv, SpaceTypes
  <2>2. DOMAIN job.extra = 1 .. Len(job.extra)
    BY JobFacts DEF SpaceInv, SpaceTypes
  <2>3. ASSUME NEW n \in DOMAIN job.extra
        PROVE  a \in job.extra[n].addr .. job.extra[n].addr + job.extra[n].len - 1
                 <=> job.extra[n].addr <= a /\ a < job.extra[n].addr + job.extra[n].len
    BY <2>1
  <2>4. <<b, a>> \in data <=>
          /\ b \in DataBanks \ TableBanks /\ a \in 0 .. Bank - 1
          /\ \A n \in DOMAIN job.extra : ~(b = job.extra[n].bank /\
               a \in job.extra[n].addr .. job.extra[n].addr + job.extra[n].len - 1)
    OBVIOUS
  <2> HIDE DEF data
  <2> QED
    BY <2>2, <2>3, <2>4, Zenon DEF InData
<1>3. ASSUME NEW b \in Int, NEW a \in Int PROVE <<b, a>> \in runs <=> InRun(b, a)
  BY DEF InRun
<1>4. \A x \in data \cup runs : x = <<x[1], x[2]>> /\ x[1] \in Int /\ x[2] \in Int
  BY Sizes DEF DataBanks
<1>5. Range(free) \in SUBSET Region
  BY DEF SpaceInv, SpaceTypes, Range
<1>6. \A x \in Covered(Range(free)) : x = <<x[1], x[2]>> /\ x[1] \in Int /\ x[2] \in Int
  BY <1>5, Sizes DEF Covered, Region
<1>7. ASSUME NEW b \in Int, NEW a \in Int PROVE <<b, a>> \in Covered(Range(free)) <=> InFree(b, a)
  BY <1>5, HoldsCovered DEF SpaceInv, SpaceCovered, Laid
<1> HIDE DEF data, runs
<1>8. Covered(Range(free)) = data \cup runs
  <2>1. \A b, a \in Int : <<b, a>> \in Covered(Range(free)) <=> <<b, a>> \in data \cup runs
    BY <1>2, <1>3, <1>7 DEF InFree
  <2> QED
    BY <2>1, <1>4, <1>6
<1> QED
  BY <1>1, <1>8 DEF FreeSpaceExact, data, runs

\* The free list, whatever the streams, the extra blocks and the sizes: it is
\* exactly the data space and the reclaimed runs.
THEOREM FreeSpaceIsExact == Spec => []FreeSpaceExact
<1>1. Init => SpaceInv
  BY SpaceInit
<1>2. SpaceInv /\ [Next]_vars => SpaceInv'
  BY SpaceStep
<1>3. SpaceInv => FreeSpaceExact
  BY SpaceExact
<1> QED
  BY <1>1, <1>2, <1>3, PTL DEF Spec

-----------------------------------------------------------------------------
(* allocate() *)

Request == [key : Entry, size : Nat \ {0}]
Place == [key : Entry, bank : Int, addr : Int, size : Nat \ {0}]

\* Every cursor is in its region, once there are cursors.
CursorsFit ==
  /\ pc = "start" => free = <<>> /\ cursor = <<>>
  /\ pc \notin {"subtract", "reclaim", "merge"} =>
       /\ DOMAIN cursor = DOMAIN free
       /\ \A n \in DOMAIN free : /\ cursor[n] \in Int
                                 /\ free[n].start <= cursor[n] /\ cursor[n] <= free[n].end

\* A stream lies behind the cursor of a region, and no two overlap.
AtFits ==
  /\ pc \in {"start", "subtract", "reclaim", "merge"} => at = {}
  /\ at \subseteq Place
  /\ \A p \in at : \E n \in DOMAIN free :
       free[n].bank = p.bank /\ free[n].start <= p.addr /\ p.addr + p.size <= cursor[n]
  /\ \A p, q \in at : p # q =>
       /\ p.key # q.key
       /\ Apart(p.bank, p.addr, p.addr + p.size, q.bank, q.addr, q.addr + q.size)

\* Each entry is asked for once.
QueueFits ==
  pc \in Laid =>
    /\ queue \in Seq(Request)
    /\ \A i, j \in DOMAIN queue : i # j => queue[i].key # queue[j].key
    /\ \A i \in DOMAIN queue, p \in at : p.key # queue[i].key

FitInv == CursorsFit /\ AtFits /\ QueueFits

\* Nothing is placed before the first step.
LEMMA FitInit == Init => FitInv
  BY DEF Init, FitInv, CursorsFit, AtFits, QueueFits, Laid

\* The reordered requests are those of the entries, once each.
LEMMA OrderedFits ==
  ASSUME job \in Builds
  PROVE  /\ Ordered \in Seq(Request)
         /\ \A i, j \in DOMAIN Ordered : i # j => Ordered[i].key # Ordered[j].key
<1> DEFINE N == Len(job.entries)
           k(i) == IF N <= 1 THEN i ELSE IF i = 1 THEN N ELSE i - 1
           request(i) == [key |-> i, size |-> job.entries[i].length]
<1>1. N \in Nat /\ Entry = 1 .. N /\ \A i \in 1 .. N : request(i) \in Request
  BY JobFacts DEF Request
<1>2. Ordered = [i \in 1 .. N |-> request(k(i))]
  BY DEF Ordered
<1>3. \A i \in 1 .. N : k(i) \in 1 .. N
  BY <1>1
<1>4. \A i, j \in 1 .. N : i # j => k(i) # k(j)
  BY <1>1
<1>5. \A i : request(i).key = i
  OBVIOUS
<1> HIDE DEF k, request, N
<1>6. Ordered \in [1 .. N -> Request]
  BY <1>1, <1>2, <1>3
<1>7. Ordered \in Seq(Request)
  BY <1>1, <1>6, SeqDef
<1>8. \A i \in 1 .. N : Ordered[i].key = k(i)
  BY <1>2, <1>5
<1> QED
  BY <1>4, <1>6, <1>7, <1>8

\* The request at the head goes behind the cursor of region n: what is there
\* already lies before it, and in another region lies apart from it.
LEMMA TakeFits ==
  ASSUME SpaceTypes, FitInv, pc = "allocate", NEW n \in DOMAIN free, Take(n),
         pc' = pc, UNCHANGED job
  PROVE  FitInv'
<1> DEFINE r == Head(queue)
           s == [key |-> r.key, bank |-> free[n].bank, addr |-> cursor[n], size |-> r.size]
<1>1. /\ queue # <<>> /\ Room(n, r.size) /\ at' = at \cup {s}
      /\ cursor' = [cursor EXCEPT ![n] = @ + r.size]
      /\ queue' = Tail(queue) /\ UNCHANGED <<regions, free>>
  BY DEF Take, FirstWithRoom
<1>2. /\ queue \in Seq(Request) /\ DOMAIN cursor = DOMAIN free
      /\ \A m \in DOMAIN free : /\ cursor[m] \in Int
                                /\ free[m].start <= cursor[m] /\ cursor[m] <= free[m].end
  BY DEF FitInv, QueueFits, CursorsFit, Laid
<1>3. r \in Request /\ r.key \in Entry /\ r.size \in Nat /\ r.size > 0
  <2>1. r \in Request
    BY <1>1, <1>2
  <2> QED
    BY <2>1 DEF Request
<1>4. \A m \in DOMAIN free : /\ free[m].bank \in Int /\ free[m].start \in Int
                             /\ free[m].end \in Int
  <2>1. \A m \in DOMAIN free : free[m] \in Region
    BY DEF SpaceTypes
  <2> QED
    BY <2>1, Sizes DEF Region
<1>5. s \in Place /\ s.bank = free[n].bank /\ s.addr = cursor[n] /\ s.size = r.size /\ s.key = r.key
  BY <1>2, <1>3, <1>4 DEF Place
<1>6. /\ cursor'[n] = cursor[n] + r.size /\ DOMAIN cursor' = DOMAIN free
      /\ \A m \in DOMAIN free : m # n => cursor'[m] = cursor[m]
  BY <1>1, <1>2
<1>7. cursor[n] + r.size <= free[n].end
  BY <1>1, <1>2, <1>3, <1>4 DEF Room
<1> HIDE DEF r, s
<1>8. CursorsFit'
  <2>1. ASSUME NEW m \in DOMAIN free
        PROVE  cursor'[m] \in Int /\ free[m].start <= cursor'[m] /\ cursor'[m] <= free[m].end
    <3>1. CASE m = n
      BY <3>1, <1>2, <1>3, <1>4, <1>6, <1>7
    <3>2. CASE m # n
      BY <3>2, <1>2, <1>6
    <3> QED
      BY <3>1, <3>2
  <2> QED
    BY <2>1, <1>1, <1>6 DEF CursorsFit
<1>9. \A p \in at : /\ p \in Place /\ p.bank \in Int /\ p.addr \in Int
                    /\ p.size \in Nat /\ p.size > 0
  BY DEF FitInv, AtFits, Place
<1>10. \A p \in at : \E m \in DOMAIN free :
         free[m].bank = p.bank /\ free[m].start <= p.addr /\ p.addr + p.size <= cursor[m]
  BY DEF FitInv, AtFits
<1>11. ASSUME NEW p \in at
       PROVE  \E m \in DOMAIN free :
                free[m].bank = p.bank /\ free[m].start <= p.addr /\ p.addr + p.size <= cursor'[m]
  <2>1. PICK m \in DOMAIN free :
          free[m].bank = p.bank /\ free[m].start <= p.addr /\ p.addr + p.size <= cursor[m]
    BY <1>10
  <2>2. cursor[m] <= cursor'[m] /\ cursor'[m] \in Int /\ cursor[m] \in Int
    BY <1>2, <1>3, <1>6
  <2>3. p.addr + p.size \in Int
    BY <1>9
  <2> QED
    BY <2>1, <2>2, <2>3
<1>12. ASSUME NEW p \in at
       PROVE  /\ Apart(p.bank, p.addr, p.addr + p.size, s.bank, s.addr, s.addr + s.size)
              /\ Apart(s.bank, s.addr, s.addr + s.size, p.bank, p.addr, p.addr + p.size)
  <2>1. PICK m \in DOMAIN free :
          free[m].bank = p.bank /\ free[m].start <= p.addr /\ p.addr + p.size <= cursor[m]
    BY <1>10
  <2>2. CASE m = n
    BY <2>1, <2>2, <1>5 DEF Apart
  <2>3. CASE m # n /\ free[m].bank = free[n].bank
    <3>1. m \in Nat /\ n \in Nat
      BY DEF SpaceTypes
    <3>2. free[m].end < free[n].start \/ free[n].end < free[m].start
      BY <2>3, <3>1 DEF SpaceTypes, Separated
    <3>3. p.addr + p.size \in Int /\ p.addr \in Int
      BY <1>9
    <3>4. p.addr + p.size <= free[m].end
      BY <2>1, <3>3, <1>2, <1>4
    <3>5. /\ free[m].end \in Int /\ free[m].start \in Int /\ free[n].end \in Int
          /\ free[n].start \in Int /\ cursor[n] \in Int /\ r.size \in Int
          /\ free[n].start <= cursor[n]
      BY <1>2, <1>3, <1>4
    <3>6. /\ s.bank = free[n].bank /\ s.addr = cursor[n] /\ s.size = r.size
          /\ cursor[n] + r.size <= free[n].end /\ free[m].start <= p.addr
      BY <1>5, <1>7, <2>1
    <3>7. p.addr + p.size <= s.addr \/ s.addr + s.size <= p.addr
      BY <3>2, <3>3, <3>4, <3>5, <3>6
    <3> QED
      BY <3>7 DEF Apart
  <2>4. CASE free[m].bank # free[n].bank
    BY <2>1, <2>4, <1>5 DEF Apart
  <2> QED
    BY <2>2, <2>3, <2>4
<1>13. 1 \in DOMAIN queue /\ r = queue[1]
  BY <1>1, <1>2 DEF r
<1>14. AtFits'
  <2>1. Place' = Place
    BY DEF Place, Entry
  <2>2. at' \subseteq Place
    BY <1>1, <1>5, <1>9
  <2>3. \A p \in at' : \E m \in DOMAIN free :
          free[m].bank = p.bank /\ free[m].start <= p.addr /\ p.addr + p.size <= cursor'[m]
    <3>1. free[n].bank = s.bank /\ free[n].start <= s.addr /\ s.addr + s.size <= cursor'[n]
      BY <1>2, <1>3, <1>5, <1>6
    <3> QED
      BY <3>1, <1>1, <1>11
  <2>4. \A p \in at : p.key # s.key
    BY <1>5, <1>13 DEF FitInv, QueueFits, Laid
  <2>5. \A p, q \in at' : p # q =>
          /\ p.key # q.key
          /\ Apart(p.bank, p.addr, p.addr + p.size, q.bank, q.addr, q.addr + q.size)
    <3> SUFFICES ASSUME NEW p \in at', NEW q \in at', p # q
                 PROVE  /\ p.key # q.key
                        /\ Apart(p.bank, p.addr, p.addr + p.size, q.bank, q.addr, q.addr + q.size)
      OBVIOUS
    <3>1. CASE p \in at /\ q \in at
      BY <3>1 DEF FitInv, AtFits
    <3>2. CASE p \in at /\ q = s
      BY <3>2, <2>4, <1>12
    <3>3. CASE p = s /\ q \in at
      BY <3>3, <2>4, <1>12
    <3> QED
      BY <3>1, <3>2, <3>3, <1>1
  <2> QED
    BY <2>1, <2>2, <2>3, <2>5, <1>1 DEF AtFits
<1>15. QueueFits'
  <2>1. /\ queue' \in Seq(Request) /\ DOMAIN queue' = 1 .. Len(queue) - 1
        /\ Len(queue) \in Nat /\ DOMAIN queue = 1 .. Len(queue)
        /\ \A i \in 1 .. Len(queue) - 1 : queue'[i] = queue[i + 1] /\ i + 1 \in DOMAIN queue
    BY <1>1, <1>2
  <2>2. \A i, j \in DOMAIN queue : i # j => queue[i].key # queue[j].key
    BY DEF FitInv, QueueFits, Laid
  <2>3. \A i, j \in DOMAIN queue' : i # j => queue'[i].key # queue'[j].key
    <3> SUFFICES ASSUME NEW i \in DOMAIN queue', NEW j \in DOMAIN queue', i # j
                 PROVE  queue'[i].key # queue'[j].key
      OBVIOUS
    <3>1. /\ queue'[i] = queue[i + 1] /\ i + 1 \in DOMAIN queue
          /\ queue'[j] = queue[j + 1] /\ j + 1 \in DOMAIN queue
      BY <2>1
    <3>2. i + 1 # j + 1
      BY <2>1
    <3> QED
      BY <3>1, <3>2, <2>2
  <2>4. \A i \in DOMAIN queue', p \in at' : p.key # queue'[i].key
    <3> SUFFICES ASSUME NEW i \in DOMAIN queue', NEW p \in at' PROVE p.key # queue'[i].key
      OBVIOUS
    <3>1. queue'[i] = queue[i + 1] /\ i + 1 \in DOMAIN queue /\ i + 1 # 1
      BY <2>1
    <3>2. CASE p \in at
      BY <3>1, <3>2 DEF FitInv, QueueFits, Laid
    <3>3. CASE p = s
      BY <3>1, <3>3, <1>5, <1>13, <2>2
    <3> QED
      BY <3>2, <3>3, <1>1
  <2>5. Request' = Request
    BY DEF Request, Entry
  <2> QED
    BY <2>1, <2>3, <2>4, <2>5 DEF QueueFits
<1> QED
  BY <1>8, <1>14, <1>15 DEF FitInv

\* Steps that leave the allocator's state alone.
LEMMA FitKept ==
  ASSUME FitInv, UNCHANGED <<free, cursor, queue, at, job>>,
         \/ pc' = pc
         \/ pc \in Laid /\ pc' \in Laid \cup {"refused"}
         \/ pc = "start" /\ pc' = "refused"
  PROVE  FitInv'
<1>1. CursorsFit'
  BY DEF FitInv, CursorsFit, Laid
<1>2. AtFits'
  BY DEF FitInv, AtFits, Place, Entry, Laid
<1>3. QueueFits'
  BY DEF FitInv, QueueFits, Request, Entry, Laid
<1> QED
  BY <1>1, <1>2, <1>3 DEF FitInv

\* Steps from before the allocator to before it, or to its beginning.
LEMMA FitEmpty ==
  ASSUME FitInv, at = {}, at' = {}, pc' \in {"subtract", "reclaim", "merge"}
  PROVE  FitInv'
  BY DEF FitInv, CursorsFit, AtFits, QueueFits, Laid

\* No step of build() breaks what is said of the streams' places.
LEMMA FitStep == SpaceInv /\ FitInv /\ [Next]_vars => FitInv'
<1> SUFFICES ASSUME SpaceInv, FitInv, [Next]_vars PROVE FitInv'
  OBVIOUS
<1>1. CASE OpenDataBanks \/ SubtractNext \/ Reclaim \/ Merge \/ MergeAll
  <2>1. at = {} /\ at' = {} /\ pc' \in {"subtract", "reclaim", "merge"}
    BY <1>1 DEF OpenDataBanks, SubtractNext, Reclaim, Merge, MergeAll, Goes, FitInv, AtFits
  <2> QED
    BY <2>1, FitEmpty
<1>2. CASE FindSpace
  <2>1. /\ pc = "merge" /\ pc' = "allocate" /\ UNCHANGED <<free, at, job>>
        /\ cursor' = [n \in DOMAIN free |-> free[n].start] /\ queue' = Ordered
    BY <1>2 DEF FindSpace, Goes
  <2>2. at = {} /\ at' = {}
    BY <2>1 DEF FitInv, AtFits
  <2>3. CursorsFit'
    <3>1. \A n \in DOMAIN free : free[n] \in Region
      BY DEF SpaceInv, SpaceTypes
    <3>2. \A n \in DOMAIN free : /\ free[n].start \in Int /\ free[n].end \in Int
                                 /\ free[n].start <= free[n].end
      BY <3>1, Sizes DEF Region
    <3> QED
      BY <2>1, <3>2 DEF CursorsFit
  <2>4. AtFits'
    BY <2>2 DEF AtFits
  <2>5. QueueFits'
    <3>1. Request' = Request
      BY <2>1 DEF Request, Entry
    <3> QED
      BY <2>1, <2>2, <3>1, OrderedFits DEF QueueFits, SpaceInv, SpaceTypes
  <2> QED
    BY <2>3, <2>4, <2>5 DEF FitInv
<1>3. CASE Allocate
  <2>1. /\ pc = "allocate" /\ pc' = pc /\ UNCHANGED job
        /\ \E n \in DOMAIN free : Take(n)
    BY <1>3 DEF Allocate, Goes
  <2> QED
    BY <2>1, TakeFits DEF SpaceInv
<1>4. CASE WrongSize \/ Exhausted
  BY <1>4, FitKept DEF WrongSize, Exhausted, Goes, Keeps, fitVars, Laid
<1>5. CASE MakeTables
  BY <1>5, FitKept DEF MakeTables, Goes, Keeps, fitVars, Laid
<1>6. CASE PlaceLorom \/ PlaceWindow \/ StartExtra \/ PlaceExtra \/ Finish
  BY <1>6, FitKept DEF PlaceLorom, PlaceWindow, StartExtra, PlaceExtra, Finish, Goes, Keeps,
     fitVars, Laid
<1>7. CASE PlaceTables
  BY <1>7, FitKept DEF PlaceTables, Keeps, fitVars, Laid
<1>8. CASE \E p \in at : PlaceStream(p)
  BY <1>8, FitKept DEF PlaceStream, Keeps, fitVars, Laid
<1>9. CASE UNCHANGED vars
  BY <1>9, FitKept DEF vars
<1> QED
  BY <1>1, <1>2, <1>3, <1>4, <1>5, <1>6, <1>7, <1>8, <1>9 DEF Next

\* And it keeps the streams apart.
LEMMA FitApart == SpaceInv /\ FitInv => StreamsApart
<1> SUFFICES ASSUME SpaceInv, FitInv PROVE StreamsApart
  OBVIOUS
<1>1. ASSUME NEW p \in at
      PROVE  \E n \in DOMAIN free : /\ free[n].bank = p.bank /\ free[n].start <= p.addr
                                    /\ p.addr + p.size <= free[n].end
  <2>1. PICK n \in DOMAIN free :
          free[n].bank = p.bank /\ free[n].start <= p.addr /\ p.addr + p.size <= cursor[n]
    BY DEF FitInv, AtFits
  <2>2. cursor[n] \in Int /\ cursor[n] <= free[n].end
    BY DEF FitInv, AtFits, CursorsFit
  <2>3. p.addr + p.size \in Int /\ free[n].end \in Int
    <3>1. p \in Place /\ free[n] \in Region
      BY DEF FitInv, AtFits, SpaceInv, SpaceTypes
    <3> QED
      BY <3>1, Sizes DEF Place, Region
  <2> QED
    BY <2>1, <2>2, <2>3
<1>2. \A p, q \in at : p.key # q.key =>
        Apart(p.bank, p.addr, p.addr + p.size, q.bank, q.addr, q.addr + q.size)
  BY DEF FitInv, AtFits
<1> QED
  BY <1>1, <1>2 DEF StreamsApart

\* Whatever the free list is and however many streams there are, first fit
\* gives no byte to two of them, and none runs out of its region.
THEOREM FirstFitIsApart == Spec => []StreamsApart
<1>1. Init => SpaceInv /\ FitInv
  BY SpaceInit, FitInit
<1>2. SpaceInv /\ FitInv /\ [Next]_vars => (SpaceInv /\ FitInv)'
  BY SpaceStep, FitStep
<1>3. SpaceInv /\ FitInv => StreamsApart
  BY FitApart
<1> QED
  BY <1>1, <1>2, <1>3, PTL DEF Spec

-----------------------------------------------------------------------------
(* Where a byte of the cartridge is in the file *)

\* The address exists and the console sees it.
Seen(b, a) == b \in 0 .. 4 * Quarter - 1 /\ a \in 0 .. Bank - 1 /\ Visible(b, a)

\* The half bank of the file an address lies in, and its place there.
HalfOf(b, a) ==
  IF a >= Half THEN b
  ELSE IF b >= WindowBase THEN b - WindowBase + MirrorBase + ImageBanks ELSE b + ImageBanks
InHalf(a) == IF a < Half THEN a ELSE a - Half

\* A place in the file is a half bank and an address in it.
LEMMA FileParts ==
  ASSUME NEW b \in 0 .. 4 * Quarter - 1, NEW a \in 0 .. Bank - 1
  PROVE  FileOf(b, a) = HalfOf(b, a) * Half + InHalf(a) /\ InHalf(a) \in 0 .. Half - 1
<1>1. InHalf(a) \in 0 .. Half - 1
  BY Sizes DEF InHalf
<1>2. b \in Int /\ a \in Int /\ b * Half \in Int
  BY Sizes
<1>3. CASE b >= WindowBase /\ a < Half
  BY <1>3, <1>2, Sizes DEF FileOf, HalfOf, InHalf
<1>4. CASE b >= WindowBase /\ a >= Half
  <2>1. b * Half + a - Half = b * Half + (a - Half)
    BY <1>2, Sizes
  <2> QED
    BY <1>4, <1>2, <2>1, Sizes DEF FileOf, HalfOf, InHalf
<1>5. CASE b < WindowBase /\ a < Half
  BY <1>5, <1>2, Sizes DEF FileOf, HalfOf, InHalf
<1>6. CASE b < WindowBase /\ a >= Half
  <2>1. b * Half + a - Half = b * Half + (a - Half)
    BY <1>2, Sizes
  <2> QED
    BY <1>6, <1>2, <2>1, Sizes DEF FileOf, HalfOf, InHalf
<1> QED
  BY <1>1, <1>2, <1>3, <1>4, <1>5, <1>6, Sizes

\* What the console sees is in the file, at a place of its own.
LEMMA FileInside ==
  ASSUME NEW b, NEW a, Seen(b, a)
  PROVE  FileOf(b, a) \in Offset
<1>1. b \in 0 .. 4 * Quarter - 1 /\ a \in 0 .. Bank - 1
  BY DEF Seen
<1>2. HalfOf(b, a) \in 0 .. 2 * ImageBanks - 1
  BY <1>1, Sizes DEF Seen, Visible, HighHalfOnly, HalfOf
<1>3. FileOf(b, a) = HalfOf(b, a) * Half + InHalf(a) /\ InHalf(a) \in 0 .. Half - 1
  BY <1>1, FileParts
<1> DEFINE h == HalfOf(b, a)
           i == InHalf(a)
           n == 2 * ImageBanks
<1>n. n \in Nat /\ h \in 0 .. n - 1 /\ i \in 0 .. Half - 1 /\ FileOf(b, a) = h * Half + i
  BY <1>2, <1>3, Sizes
<1>m. ImageBanks * Bank = n * Half /\ n * Half \in Nat
  BY Sizes, Z3
<1> HIDE DEF h, i, n
<1>4. h * Half + Half <= n * Half /\ h * Half >= 0 /\ h * Half \in Int
  <2>1. h + 1 <= n /\ Half \in Nat /\ h \in Nat /\ n \in Nat
    BY <1>n, Sizes
  <2>2. (h + 1) * Half <= n * Half
    BY <2>1, Z3
  <2>3. (h + 1) * Half = h * Half + Half
    BY <2>1, Z3
  <2> QED
    BY <2>1, <2>2, <2>3
<1>5. h * Half + i \in 0 .. n * Half - 1
  BY <1>4, <1>n, <1>m, Sizes
<1> QED
  BY <1>5, <1>n, <1>m DEF Offset

\* No two addresses the console sees share a byte of the file.
LEMMA FileInjective ==
  ASSUME NEW b, NEW a, Seen(b, a), NEW c, NEW d, Seen(c, d), FileOf(b, a) = FileOf(c, d)
  PROVE  b = c /\ a = d
<1>1. /\ b \in 0 .. 4 * Quarter - 1 /\ a \in 0 .. Bank - 1
      /\ c \in 0 .. 4 * Quarter - 1 /\ d \in 0 .. Bank - 1
  BY DEF Seen
<1>2. HalfOf(b, a) \in Int /\ HalfOf(c, d) \in Int
  BY <1>1, Sizes DEF HalfOf
<1>3. HalfOf(b, a) = HalfOf(c, d) /\ InHalf(a) = InHalf(d)
  <2>1. /\ FileOf(b, a) = HalfOf(b, a) * Half + InHalf(a) /\ InHalf(a) \in 0 .. Half - 1
        /\ FileOf(c, d) = HalfOf(c, d) * Half + InHalf(d) /\ InHalf(d) \in 0 .. Half - 1
    BY <1>1, FileParts, Zenon
  <2>2. Half \in Nat \ {0}
    BY Sizes
  <2>3. HalfOf(b, a) * Half + InHalf(a) = HalfOf(c, d) * Half + InHalf(d)
    BY <2>1, Zenon
  <2> DEFINE i == HalfOf(b, a)
             j == HalfOf(c, d)
             r == InHalf(a)
             s == InHalf(d)
  <2>4. /\ i \in Int /\ j \in Int /\ r \in 0 .. Half - 1 /\ s \in 0 .. Half - 1
        /\ i * Half + r = j * Half + s
    BY <1>2, <2>1, <2>3
  <2> HIDE DEF i, j, r, s
  <2>5. i = j /\ r = s
    BY <2>2, <2>4, SameParts
  <2> QED
    BY <2>5 DEF i, j, r, s
<1> QED
  BY <1>1, <1>3, Sizes DEF Seen, Visible, HighHalfOnly, HalfOf, InHalf

\* The builder's map and the console's agree on all it sees.
LEMMA MapsAgree ==
  ASSUME NEW b, NEW a, Seen(b, a)
  PROVE  Pointer(b, a) + a = FileOf(b, a)
<1>1. b \in Int /\ a \in Int /\ a >= 0
  BY Sizes DEF Seen
<1>2. CASE b >= WindowBase /\ a < Half
  <2>1. MirrorBase + b - WindowBase + ImageBanks = b - WindowBase + MirrorBase + ImageBanks
    BY <1>1, Sizes
  <2> QED
    BY <1>1, <1>2, <2>1, Sizes DEF FileOf, Pointer, InterleavedLow
<1>3. CASE b >= WindowBase /\ a >= Half
  <2>1. b - WindowBase + ImageBanks = b /\ b * Half \in Int
    BY <1>1, Sizes
  <2>2. Pointer(b, a) = b * Half - Half
    BY <1>1, <1>3, <2>1, Sizes DEF Pointer, InterleavedLow
  <2>3. FileOf(b, a) = b * Half + a - Half
    BY <1>1, <1>3, Sizes DEF FileOf
  <2> QED
    BY <1>1, <2>1, <2>2, <2>3, Sizes
<1>4. CASE b < WindowBase /\ a < Half
  BY <1>1, <1>4, Sizes DEF FileOf, Pointer, InterleavedLow
<1>5. CASE b < WindowBase /\ a >= Half
  <2>1. b * Half \in Int
    BY <1>1, Sizes
  <2>2. Pointer(b, a) = b * Half - Half
    BY <1>1, <1>5, Sizes DEF Pointer, InterleavedHigh
  <2>3. FileOf(b, a) = b * Half + a - Half
    BY <1>1, <1>5, Sizes DEF FileOf
  <2> QED
    BY <1>1, <2>1, <2>2, <2>3, Sizes
<1> QED
  BY <1>1, <1>2, <1>3, <1>4, <1>5, Sizes

-----------------------------------------------------------------------------
(* place() *)

\* Bank and address of a byte written across several banks.
LEMMA DivModOf ==
  ASSUME NEW m \in Nat \ {0}, NEW i \in Nat, NEW a \in 0 .. m - 1
  PROVE  (i * m + a) \div m = i /\ (i * m + a) % m = a
<1> DEFINE n == i * m + a
           q == n \div m
           r == n % m
<1>1. n \in Nat
  BY Z3
<1>2. q \in Nat /\ r \in 0 .. m - 1 /\ n = m * q + r
  BY <1>1, DivMod, DivNat, ModRange
<1>n. n = i * m + a
  OBVIOUS
<1> HIDE DEF q, r, n
<1>3. i * m + a = q * m + r
  <2>1. m * q = q * m
    BY <1>2, Z3
  <2> QED
    BY <1>2, <1>n, <2>1
<1>4. i = q /\ a = r
  BY <1>2, <1>3, SameParts
<1> QED
  BY <1>4 DEF q, r, n

\* Writing stays in its bank as long as it does not pass the end of it.
LEMMA StepInside ==
  ASSUME NEW b, NEW addr \in Int, NEW j \in Int, addr + j \in 0 .. Bank - 1, b \in Int
  PROVE  StepOf(b, addr, j) = <<b, addr + j>>
<1>1. (0 * Bank + (addr + j)) \div Bank = 0 /\ (0 * Bank + (addr + j)) % Bank = addr + j
  BY DivModOf, Sizes
<1>2. 0 * Bank + (addr + j) = addr + j
  BY Sizes
<1> QED
  BY <1>1, <1>2 DEF StepOf

\* From the beginning of a bank it goes through one bank after the other.
LEMMA StepAcross ==
  ASSUME NEW b \in Int, NEW i \in Nat, NEW a \in 0 .. Bank - 1
  PROVE  i * Bank + a \in Nat /\ StepOf(b, 0, i * Bank + a) = <<b + i, a>>
<1>0. i * Bank + a \in Nat
  BY Sizes, Z3
<1>1. (i * Bank + a) \div Bank = i /\ (i * Bank + a) % Bank = a
  BY DivModOf, Sizes
<1>2. 0 + (i * Bank + a) = i * Bank + a
  BY <1>0
<1> QED
  BY <1>0, <1>1, <1>2 DEF StepOf

\* Every byte of whole banks is one the loop of place() comes to.
LEMMA StepsAcross ==
  ASSUME NEW b \in Int, NEW n \in Nat, NEW j \in 0 .. n * Bank - 1
  PROVE  \E i \in 0 .. n - 1, a \in 0 .. Bank - 1 :
           j = i * Bank + a /\ StepOf(b, 0, j) = <<b + i, a>>
<1> DEFINE i == j \div Bank
           a == j % Bank
<1>0. j \in Nat /\ n * Bank \in Nat /\ j < n * Bank
  BY Sizes
<1>1. i \in Nat /\ a \in 0 .. Bank - 1 /\ j = Bank * i + a
  BY <1>0, Sizes, DivMod, DivNat, ModRange
<1> HIDE DEF i, a
<1>2. j = i * Bank + a /\ i * Bank \in Nat
  BY <1>1, Sizes, Z3
<1>3. i < n
  <2> SUFFICES ASSUME i >= n PROVE FALSE
    BY <1>1
  <2>1. i * Bank >= n * Bank
    BY <1>1, Sizes, Z3
  <2> QED
    BY <2>1, <1>0, <1>1, <1>2
<1>4. i \in 0 .. n - 1
  BY <1>1, <1>3
<1>5. StepOf(b, 0, i * Bank + a) = <<b + i, a>>
  BY <1>1, StepAcross
<1>6. StepOf(b, 0, j) = <<b + i, a>>
  BY <1>2, <1>5
<1> QED
  BY <1>1, <1>2, <1>4, <1>6, Zenon

Steps(bank, addr, data) ==
  /\ DOMAIN data \subseteq Int
  /\ \A j \in DOMAIN data : Seen(StepOf(bank, addr, j)[1], StepOf(bank, addr, j)[2])
  /\ \A i, j \in DOMAIN data : StepOf(bank, addr, i) = StepOf(bank, addr, j) => i = j

\* Every byte arrives where the step says and no other visible byte changes.
LEMMA PlacedShows ==
  ASSUME NEW img, NEW bank, NEW addr, NEW data, Steps(bank, addr, data)
  PROVE  LET new == Placed(img, bank, addr, data)
         IN  /\ \A j \in DOMAIN data : \A b, a :
                  StepOf(bank, addr, j) = <<b, a>> => new[FileOf(b, a)] = data[j]
             /\ \A b, a : Seen(b, a) /\ (\A j \in DOMAIN data : StepOf(bank, addr, j) # <<b, a>>)
                  => new[FileOf(b, a)] = img[FileOf(b, a)]
             /\ \A o \in Offset : new[o] = img[o] \/ \E j \in DOMAIN data : new[o] = data[j]
<1> DEFINE new == Placed(img, bank, addr, data)
           at1(j) == StepOf(bank, addr, j)[1]
           at2(j) == StepOf(bank, addr, j)[2]
           offset(j) == FileOf(at1(j), at2(j))
           bytes == {<<offset(j), data[j]>> : j \in DOMAIN data}
           hit(o) == \E w \in bytes : w[1] = o
           chosen(o) == CHOOSE w \in bytes : w[1] = o
<1>1. new = [o \in Offset |-> IF hit(o) THEN chosen(o)[2] ELSE img[o]]
  BY Zenon DEF Placed
<1>2. \A j \in DOMAIN data : StepOf(bank, addr, j) = <<at1(j), at2(j)>> /\ Seen(at1(j), at2(j))
  BY DEF Steps, StepOf
<1>3. \A j \in DOMAIN data : offset(j) \in Offset
  BY <1>2, FileInside
<1>4. ASSUME NEW i \in DOMAIN data, NEW j \in DOMAIN data, offset(i) = offset(j) PROVE i = j
  <2>1. at1(i) = at1(j) /\ at2(i) = at2(j)
    BY <1>2, <1>4, FileInjective
  <2>2. StepOf(bank, addr, i) = StepOf(bank, addr, j)
    BY <1>2, <2>1
  <2> QED
    BY <2>2 DEF Steps
<1>5. \A o : hit(o) => chosen(o) \in bytes /\ chosen(o)[1] = o
  <2> HIDE DEF bytes
  <2> QED
    BY Zenon
<1> HIDE DEF chosen
<1>6. \A o : hit(o) <=> \E j \in DOMAIN data : offset(j) = o
  <2> HIDE DEF offset
  <2>1. \A j \in DOMAIN data :
          <<offset(j), data[j]>>[1] = offset(j) /\ <<offset(j), data[j]>> \in bytes
    OBVIOUS
  <2>2. \A w \in bytes : \E j \in DOMAIN data : w[1] = offset(j)
    OBVIOUS
  <2> HIDE DEF bytes
  <2> QED
    BY <2>1, <2>2
<1>7. \A o : hit(o) => \E j \in DOMAIN data : offset(j) = o /\ chosen(o)[2] = data[j]
  <2> HIDE DEF offset
  <2> QED
    BY <1>5
<1> HIDE DEF new, hit, offset, bytes
<1>8. \A j \in DOMAIN data : new[offset(j)] = data[j]
  <2> TAKE j \in DOMAIN data
  <2>1. hit(offset(j)) /\ offset(j) \in Offset
    BY <1>3, <1>6
  <2>2. PICK i \in DOMAIN data : offset(i) = offset(j) /\ chosen(offset(j))[2] = data[i]
    BY <2>1, <1>7
  <2>3. i = j
    BY <2>2, <1>4
  <2> QED
    BY <2>1, <2>2, <2>3, <1>1
<1>9. ASSUME NEW j \in DOMAIN data, NEW b, NEW a, StepOf(bank, addr, j) = <<b, a>>
      PROVE  new[FileOf(b, a)] = data[j]
  <2>1. offset(j) = FileOf(b, a)
    BY <1>9 DEF offset
  <2> QED
    BY <2>1, <1>8
<1>10. ASSUME NEW b, NEW a, Seen(b, a), \A j \in DOMAIN data : StepOf(bank, addr, j) # <<b, a>>
       PROVE  new[FileOf(b, a)] = img[FileOf(b, a)]
  <2>1. FileOf(b, a) \in Offset
    BY <1>10, FileInside
  <2>2. ASSUME NEW j \in DOMAIN data, offset(j) = FileOf(b, a) PROVE FALSE
    <3>1. at1(j) = b /\ at2(j) = a
      BY <1>2, <1>10, <2>2, FileInjective DEF offset
    <3> QED
      BY <1>2, <1>10, <3>1
  <2>3. ~hit(FileOf(b, a))
    BY <2>2, <1>6
  <2> QED
    BY <2>1, <2>3, <1>1
<1>11. \A o \in Offset : new[o] = img[o] \/ \E j \in DOMAIN data : new[o] = data[j]
  BY <1>1, <1>7
<1> QED
  BY <1>9, <1>10, <1>11 DEF new

\* What n bytes written from an address leave: the bytes where they were to
\* go, and no other that the console sees changed.
Arrives(new, img, bank, addr, n, data) ==
  /\ \A j \in 0 .. n - 1 : new[FileOf(bank, addr + j)] = data[j]
  /\ \A b, a : Seen(b, a) /\ ~(b = bank /\ a \in addr .. addr + n - 1)
       => new[FileOf(b, a)] = img[FileOf(b, a)]
  /\ \A o \in Offset : new[o] = img[o] \/ \E j \in 0 .. n - 1 : new[o] = data[j]

\* The same of a write that fills n banks.
Spreads(new, img, bank, n, data) ==
  /\ \A i \in 0 .. n - 1, a \in 0 .. Bank - 1 :
       new[FileOf(bank + i, a)] = data[i * Bank + a]
  /\ \A b \in Int : \A a : Seen(b, a) /\ b \notin bank .. bank + n - 1
       => new[FileOf(b, a)] = img[FileOf(b, a)]
  /\ \A o \in Offset : new[o] = img[o] \/ \E j \in DOMAIN data : new[o] = data[j]

\* A write that ends inside its bank.
LEMMA PlacedInside ==
  ASSUME NEW img, NEW bank \in Int, NEW addr \in Nat, NEW n \in Nat, addr + n <= Bank,
         \A a \in addr .. addr + n - 1 : Seen(bank, a), NEW data, DOMAIN data = 0 .. n - 1
  PROVE  Arrives(Placed(img, bank, addr, data), img, bank, addr, n, data)
<1> DEFINE new == Placed(img, bank, addr, data)
<1>1. ASSUME NEW j \in 0 .. n - 1
      PROVE  StepOf(bank, addr, j) = <<bank, addr + j>> /\ addr + j \in addr .. addr + n - 1
  <2>1. addr + j \in 0 .. Bank - 1 /\ addr + j \in addr .. addr + n - 1
    BY Sizes
  <2> QED
    BY <2>1, StepInside
<1>2. Steps(bank, addr, data)
  <2>1. \A j \in 0 .. n - 1 : Seen(StepOf(bank, addr, j)[1], StepOf(bank, addr, j)[2])
    BY <1>1
  <2>2. ASSUME NEW i \in 0 .. n - 1, NEW j \in 0 .. n - 1,
               StepOf(bank, addr, i) = StepOf(bank, addr, j)
        PROVE  i = j
    <3>1. <<bank, addr + i>> = <<bank, addr + j>>
      BY <1>1, <2>2
    <3>2. addr + i = addr + j
      BY <3>1
    <3> QED
      BY <3>2
  <2> QED
    BY <2>1, <2>2 DEF Steps
<1>3. /\ \A j \in DOMAIN data : \A b, a :
           StepOf(bank, addr, j) = <<b, a>> => new[FileOf(b, a)] = data[j]
      /\ \A b, a : Seen(b, a) /\ (\A j \in DOMAIN data : StepOf(bank, addr, j) # <<b, a>>)
           => new[FileOf(b, a)] = img[FileOf(b, a)]
      /\ \A o \in Offset : new[o] = img[o] \/ \E j \in DOMAIN data : new[o] = data[j]
  BY <1>2, PlacedShows
<1> HIDE DEF new
<1>4. \A j \in 0 .. n - 1 : new[FileOf(bank, addr + j)] = data[j]
  BY <1>1, <1>3
<1>5. ASSUME NEW b, NEW a, Seen(b, a), ~(b = bank /\ a \in addr .. addr + n - 1)
      PROVE  new[FileOf(b, a)] = img[FileOf(b, a)]
  <2>1. ASSUME NEW j \in DOMAIN data, StepOf(bank, addr, j) = <<b, a>> PROVE FALSE
    <3>1. <<bank, addr + j>> = <<b, a>> /\ addr + j \in addr .. addr + n - 1
      BY <1>1, <2>1
    <3>2. bank = b /\ addr + j = a
      BY <3>1
    <3> QED
      BY <3>1, <3>2, <1>5
  <2> QED
    BY <2>1, <1>3, <1>5
<1> QED
  <2>1. Arrives(new, img, bank, addr, n, data)
    BY <1>3, <1>4, <1>5 DEF Arrives
  <2> QED
    BY <2>1 DEF new

\* Bytes for n banks.
Fills(data, n) == DOMAIN data = 0 .. n * Bank - 1

\* A write that fills whole banks, one after the other.
LEMMA PlacedAcross ==
  ASSUME NEW img, NEW bank \in Int, NEW n \in Nat,
         \A i \in 0 .. n - 1, a \in 0 .. Bank - 1 : Seen(bank + i, a),
         NEW data, Fills(data, n)
  PROVE  Spreads(Placed(img, bank, 0, data), img, bank, n, data)
<1> DEFINE new == Placed(img, bank, 0, data)
<1>1. \A j \in DOMAIN data : \E i \in 0 .. n - 1, a \in 0 .. Bank - 1 :
        j = i * Bank + a /\ StepOf(bank, 0, j) = <<bank + i, a>>
  <2>1. \A j \in 0 .. n * Bank - 1 : \E i \in 0 .. n - 1, a \in 0 .. Bank - 1 :
          j = i * Bank + a /\ StepOf(bank, 0, j) = <<bank + i, a>>
    BY StepsAcross, Zenon
  <2> QED
    BY <2>1, Zenon DEF Fills
<1>2. Steps(bank, 0, data)
  <2>1. ASSUME NEW j \in DOMAIN data
        PROVE  Seen(StepOf(bank, 0, j)[1], StepOf(bank, 0, j)[2])
    <3>1. PICK i \in 0 .. n - 1, a \in 0 .. Bank - 1 : StepOf(bank, 0, j) = <<bank + i, a>>
      BY <1>1, Zenon
    <3>2. /\ StepOf(bank, 0, j)[1] = bank + i /\ StepOf(bank, 0, j)[2] = a
          /\ Seen(bank + i, a)
      <4>1. Seen(bank + i, a)
        OBVIOUS
      <4>2. <<bank + i, a>>[1] = bank + i /\ <<bank + i, a>>[2] = a
        OBVIOUS
      <4> QED
        BY <3>1, <4>1, <4>2, Zenon
    <3> QED
      BY <3>2, Zenon
  <2>2. ASSUME NEW j \in DOMAIN data, NEW k \in DOMAIN data,
               StepOf(bank, 0, j) = StepOf(bank, 0, k)
        PROVE  j = k
    <3>1. PICK i \in 0 .. n - 1, a \in 0 .. Bank - 1 :
            j = i * Bank + a /\ StepOf(bank, 0, j) = <<bank + i, a>>
      BY <1>1
    <3>2. PICK h \in 0 .. n - 1, c \in 0 .. Bank - 1 :
            k = h * Bank + c /\ StepOf(bank, 0, k) = <<bank + h, c>>
      BY <1>1
    <3>3. <<bank + i, a>> = <<bank + h, c>>
      BY <3>1, <3>2, <2>2, Zenon
    <3>4. bank + i = bank + h /\ a = c
      BY <3>3
    <3>5. i = h
      BY <3>4
    <3> QED
      BY <3>1, <3>2, <3>4, <3>5, Zenon
  <2>3. DOMAIN data \subseteq Int
    BY DEF Fills
  <2> QED
    BY <2>1, <2>2, <2>3, Zenon DEF Steps
<1>3. /\ \A j \in DOMAIN data : \A b, a :
           StepOf(bank, 0, j) = <<b, a>> => new[FileOf(b, a)] = data[j]
      /\ \A b, a : Seen(b, a) /\ (\A j \in DOMAIN data : StepOf(bank, 0, j) # <<b, a>>)
           => new[FileOf(b, a)] = img[FileOf(b, a)]
      /\ \A o \in Offset : new[o] = img[o] \/ \E j \in DOMAIN data : new[o] = data[j]
  BY <1>2, PlacedShows
<1> HIDE DEF new
<1>4. ASSUME NEW i \in 0 .. n - 1, NEW a \in 0 .. Bank - 1
      PROVE  new[FileOf(bank + i, a)] = data[i * Bank + a]
  <2>0. i \in Nat
    OBVIOUS
  <2>1. i * Bank + a \in Nat /\ StepOf(bank, 0, i * Bank + a) = <<bank + i, a>>
    BY <2>0, StepAcross, Zenon
  <2>2. i * Bank + a < n * Bank /\ n * Bank \in Nat
    <3>1. (i + 1) * Bank <= n * Bank
      <4>1. i + 1 <= n /\ i \in Nat /\ Bank \in Nat
        BY Sizes
      <4> QED
        BY <4>1, Z3
    <3>2. (i + 1) * Bank = i * Bank + Bank /\ i * Bank \in Int /\ n * Bank \in Nat
      BY Sizes, Z3
    <3> QED
      BY <3>1, <3>2, Sizes
  <2>3. i * Bank + a \in DOMAIN data
    BY <2>1, <2>2 DEF Fills
  <2> QED
    BY <2>1, <2>3, <1>3
<1>5. ASSUME NEW b \in Int, NEW a, Seen(b, a), b \notin bank .. bank + n - 1
      PROVE  new[FileOf(b, a)] = img[FileOf(b, a)]
  <2>1. ASSUME NEW j \in DOMAIN data, StepOf(bank, 0, j) = <<b, a>> PROVE FALSE
    <3>1. PICK i \in 0 .. n - 1, c \in 0 .. Bank - 1 : StepOf(bank, 0, j) = <<bank + i, c>>
      BY <1>1
    <3>2. bank + i = b
      BY <2>1, <3>1
    <3> QED
      BY <3>2, <1>5
  <2> QED
    BY <2>1, <1>3, <1>5
<1> QED
  <2>1. Spreads(new, img, bank, n, data)
    BY <1>3, <1>4, <1>5, Zenon DEF Spreads
  <2> QED
    BY <2>1 DEF new

\* The addresses the builder writes to are seen.
LEMMA WrittenSeen ==
  /\ \A b \in DataBanks \cup (WindowBase .. 4 * Quarter - 1), a \in 0 .. Bank - 1 : Seen(b, a)
  /\ \A b \in (0 .. Quarter - 1) \cup (MirrorBase .. WindowBase - 1), a \in Half .. Bank - 1 :
       Seen(b, a)
  BY Sizes DEF DataBanks, Seen, Visible, HighHalfOnly, WramBanks

-----------------------------------------------------------------------------
(* The image *)

Cell(b, a) == image[FileOf(b, a)]

ViewBanks == (0 .. Quarter - 1) \cup (MirrorBase .. WindowBase - 1)
Original(b) == IF b >= MirrorBase THEN b - MirrorBase ELSE b

\* The halves of the original below k, in their banks and in the mirror.
Views(k) ==
  \A b \in ViewBanks, a \in Half .. Bank - 1 :
    Original(b) < k => Cell(b, a) = <<"rom", Original(b) * Half + (a - Half)>>

WindowShows ==
  \A b \in WindowBase .. 4 * Quarter - 1, a \in 0 .. Bank - 1 :
    ~InRun(b, a) => Cell(b, a) = <<"rom", (b - WindowBase) * Bank + a>>

TablesShow ==
  \A b \in TableBanks, a \in 0 .. Bank - 1 : Cell(b, a) = <<"table", (b - TableBank) * Bank + a>>

StreamsShow ==
  \A p \in at : p.key \notin todo =>
    \A j \in 0 .. p.size - 1 : Cell(p.bank, p.addr + j) = <<"stream", p.key, j>>

ExtraShows(n) ==
  \A m \in 1 .. n : \A j \in 0 .. job.extra[m].len - 1 :
    Cell(job.extra[m].bank, job.extra[m].addr + j) = <<"extra", m, j>>

\* The first byte of these streams is nowhere yet.
Unwritten(K) == \A o \in Offset, k \in K : image[o] # <<"stream", k, 0>>

ImageInv ==
  /\ pc = "lorom" => step \in 0 .. Quarter /\ Views(step)
  /\ pc \in {"lorom", "tables"} => Unwritten(Entry)
  /\ pc \in {"tables", "streams", "extra", "done"} => Views(Quarter) /\ WindowShows
  /\ pc \in {"streams", "extra", "done"} => TablesShow /\ StreamsShow /\ Unwritten(todo)
  /\ pc \in {"extra", "done"} => todo = {}
  /\ pc = "extra" => step \in 1 .. Len(job.extra) + 1 /\ ExtraShows(step - 1)
  /\ pc = "done" => ExtraShows(Len(job.extra))

\* Free bytes are in the data banks, away from tables and extra blocks, or in
\* the reclaimed part of the window.
LEMMA FreeWhere ==
  ASSUME job \in Builds, NEW b, NEW a, InFree(b, a)
  PROVE  /\ Seen(b, a) /\ b \notin ViewBanks /\ b \notin TableBanks /\ b \in Int
         /\ b \in WindowBase .. 4 * Quarter - 1 => InRun(b, a)
         /\ \A n \in 1 .. Len(job.extra) :
              ~(job.extra[n].bank = b /\ job.extra[n].addr <= a
                /\ a < job.extra[n].addr + job.extra[n].len)
<1>1. CASE InData(b, a, Len(job.extra))
  <2>1. b \in DataBanks \ TableBanks /\ a \in 0 .. Bank - 1
    BY <1>1 DEF InData
  <2>2. b \notin WindowBase .. 4 * Quarter - 1 /\ b \notin ViewBanks /\ b \in Int
    BY <2>1, Sizes DEF DataBanks, ViewBanks
  <2> QED
    BY <1>1, <2>1, <2>2, WrittenSeen DEF InData
<1>2. CASE InRun(b, a)
  <2>1. b \in WindowBase .. 4 * Quarter - 1 /\ a \in 0 .. Bank - 1
    BY <1>2 DEF InRun
  <2>2. b \notin DataBanks /\ b \notin TableBanks /\ b \notin ViewBanks /\ b \in Int
    BY <2>1, Sizes DEF DataBanks, TableBanks, ViewBanks
  <2>3. \A n \in 1 .. Len(job.extra) : job.extra[n].bank # b
    BY <2>2, JobFacts
  <2> QED
    BY <1>2, <2>1, <2>2, <2>3, WrittenSeen
<1> QED
  BY <1>1, <1>2 DEF InFree

\* The bytes of a stream are free bytes of one bank.
LEMMA StreamBytes ==
  ASSUME SpaceInv, FitInv, pc \in Laid, NEW p \in at
  PROVE  /\ p.bank \in Int /\ p.addr \in Nat /\ p.size \in Nat /\ p.size > 0 /\ p.key \in Entry
         /\ p.addr + p.size <= Bank
         /\ \A a \in p.addr .. p.addr + p.size - 1 : InFree(p.bank, a) /\ Seen(p.bank, a)
<1>1. p \in Place
  BY DEF FitInv, AtFits
<1>2. p.bank \in Int /\ p.addr \in Int /\ p.size \in Nat /\ p.size > 0 /\ p.key \in Entry
  BY <1>1 DEF Place
<1>3. PICK n \in DOMAIN free : /\ free[n].bank = p.bank /\ free[n].start <= p.addr
                               /\ p.addr + p.size <= free[n].end
  BY FitApart DEF StreamsApart
<1>4. free[n] \in Region
  BY DEF SpaceInv, SpaceTypes
<1>5. free[n].start \in 0 .. Bank /\ free[n].end \in 0 .. Bank
  BY <1>4 DEF Region
<1>6. p.addr \in Nat /\ p.addr + p.size <= Bank
  BY <1>2, <1>3, <1>5, Sizes
<1>7. ASSUME NEW a \in p.addr .. p.addr + p.size - 1 PROVE InFree(p.bank, a)
  <2>1. a \in Int /\ free[n].start <= a /\ a < free[n].end
    BY <1>2, <1>3, <1>5, Sizes
  <2>2. Holds(Range(free), p.bank, a)
    BY <2>1, <1>3 DEF Holds, Range
  <2> QED
    BY <2>1, <2>2, <1>2 DEF SpaceInv, SpaceCovered
<1>8. job \in Builds
  BY DEF SpaceInv, SpaceTypes
<1> QED
  BY <1>2, <1>6, <1>7, <1>8, FreeWhere

\* There is no image before the first step.
LEMMA ImageInit == Init => ImageInv
  BY DEF Init, ImageInv

\* No byte of code, data, tables or padding is a byte of a stream.
LEMMA NotStream ==
  /\ \A k : <<"blank">> # <<"stream", k, 0>>
  /\ \A k, n : <<"rom", n>> # <<"stream", k, 0>> /\ <<"table", n>> # <<"stream", k, 0>>
  /\ \A k, m, n : m # k => <<"stream", m, n>> # <<"stream", k, 0>>
<1>1. \A k : <<"blank">>[1] = "blank" /\ <<"stream", k, 0>>[1] = "stream"
  OBVIOUS
<1>2. \A k, n : <<"rom", n>>[1] = "rom" /\ <<"table", n>>[1] = "table"
  OBVIOUS
<1>3. \A m, n : <<"stream", m, n>>[2] = m
  OBVIOUS
<1> QED
  BY <1>1, <1>2, <1>3

\* One bank and its mirror: the views grow by it and keep what they had.
LEMMA LoromStep == SpaceInv /\ ImageInv /\ PlaceLorom => ImageInv'
<1> SUFFICES ASSUME SpaceInv, ImageInv, PlaceLorom PROVE ImageInv'
  OBVIOUS
<1> DEFINE half == [j \in 0 .. Half - 1 |-> <<"rom", step * Half + j>>]
           mid == Placed(image, step, Half, half)
           bank == MirrorBase + step
<1>1. /\ pc = "lorom" /\ pc' = "lorom" /\ step < Quarter /\ step' = step + 1 /\ UNCHANGED job
      /\ image' = Placed(mid, bank, Half, half)
  BY DEF PlaceLorom, Goes
<1>2. step \in 0 .. Quarter - 1 /\ bank \in MirrorBase .. WindowBase - 1 /\ bank \in Int
  BY <1>1, Sizes DEF ImageInv
<1>3. /\ \A a \in Half .. Half + Half - 1 : Seen(step, a)
      /\ \A a \in Half .. Half + Half - 1 : Seen(bank, a)
      /\ Half \in Nat /\ Half + Half <= Bank /\ step \in Int
  BY <1>2, WrittenSeen, Sizes
<1>4. \A j \in 0 .. Half - 1 : half[j] = <<"rom", step * Half + j>>
  OBVIOUS
<1>d. DOMAIN half = 0 .. Half - 1
  OBVIOUS
<1> HIDE DEF half, bank
<1>5. Arrives(mid, image, step, Half, Half, half)
  BY <1>2, <1>3, <1>d, PlacedInside
<1>6. Arrives(image', mid, bank, Half, Half, half)
  <2>1. Arrives(Placed(mid, bank, Half, half), mid, bank, Half, Half, half)
    BY <1>2, <1>3, <1>d, PlacedInside
  <2> QED
    BY <1>1, <2>1
<1> HIDE DEF mid
<1>7. ASSUME NEW b \in ViewBanks, NEW a \in Half .. Bank - 1, Original(b) < step + 1
      PROVE  image'[FileOf(b, a)] = <<"rom", Original(b) * Half + (a - Half)>>
  <2>0. Original(b) < step + 1
    BY <1>7
  <2>1. Seen(b, a) /\ b \in Int /\ Original(b) \in 0 .. Quarter - 1
    BY WrittenSeen, Sizes DEF ViewBanks, Original
  <2>2. a - Half \in 0 .. Half - 1 /\ Half + (a - Half) = a /\ a \in Half .. Half + Half - 1
    BY Sizes
  <2>3. CASE b = step
    <3>1. b # bank /\ Original(b) = step
      BY <2>3, <1>2, Sizes DEF bank, Original
    <3> QED
      BY <2>1, <2>2, <2>3, <3>1, <1>4, <1>5, <1>6 DEF Arrives
  <2>4. CASE b = bank
    <3>1. Original(b) = step
      BY <2>4, <1>2, Sizes DEF bank, Original
    <3> QED
      BY <2>1, <2>2, <2>4, <3>1, <1>4, <1>6 DEF Arrives
  <2>5. CASE b # step /\ b # bank
    <3>1. Original(b) < step
      BY <2>0, <2>1, <2>5, <1>2, Sizes DEF ViewBanks, Original, bank
    <3>2. image'[FileOf(b, a)] = image[FileOf(b, a)]
      BY <2>1, <2>5, <1>5, <1>6 DEF Arrives
    <3> QED
      BY <3>1, <3>2, <1>1 DEF ImageInv, Views, Cell
  <2> QED
    BY <2>3, <2>4, <2>5
<1>8. Unwritten(Entry)'
  <2>1. \A o \in Offset, k \in Entry : image[o] # <<"stream", k, 0>>
    BY <1>1 DEF ImageInv, Unwritten
  <2>2. \A o \in Offset, k \in Entry : image'[o] # <<"stream", k, 0>>
    BY <2>1, <1>4, <1>5, <1>6, NotStream DEF Arrives
  <2> QED
    BY <2>2, <1>1 DEF Unwritten, Entry
<1>9. step' \in 0 .. Quarter /\ Views(step)'
  <2>1. step' \in 0 .. Quarter
    BY <1>1, <1>2, Sizes
  <2>2. Views(step)'
    BY <1>1, <1>7, Zenon DEF Views, Cell
  <2> QED
    BY <2>1, <2>2
<1> QED
  BY <1>1, <1>8, <1>9 DEF ImageInv

\* The image begins blank.
LEMMA BlankStep == SpaceInv /\ ImageInv /\ MakeTables => ImageInv'
<1> SUFFICES ASSUME MakeTables PROVE ImageInv'
  OBVIOUS
<1>1. CASE pc' = "lorom"
  <2>1. image' = [o \in Offset |-> <<"blank">>] /\ step' = 0 /\ UNCHANGED job
    BY <1>1 DEF MakeTables, Goes
  <2>2. Views(step)'
    BY <2>1, Sizes DEF Views, ViewBanks, Original
  <2>3. Unwritten(Entry)'
    BY <2>1, NotStream DEF Unwritten
  <2> QED
    BY <1>1, <2>1, <2>2, <2>3, Sizes DEF ImageInv
<1>2. CASE pc' = "refused"
  BY <1>2 DEF ImageInv
<1> QED
  BY <1>1, <1>2 DEF MakeTables, Goes

\* The window shows the whole original, and the views are not touched.
LEMMA WindowStep == SpaceInv /\ ImageInv /\ PlaceWindow => ImageInv'
<1> SUFFICES ASSUME SpaceInv, ImageInv, PlaceWindow PROVE ImageInv'
  OBVIOUS
<1> DEFINE data == [j \in 0 .. OriginalSize - 1 |-> <<"rom", j>>]
<1>1. /\ pc = "lorom" /\ pc' = "tables" /\ step = Quarter /\ UNCHANGED job
      /\ image' = Placed(image, WindowBase, 0, data)
  BY DEF PlaceWindow, Goes
<1>2. \A j \in 0 .. OriginalSize - 1 : data[j] = <<"rom", j>>
  OBVIOUS
<1>3. Fills(data, Quarter) /\ DOMAIN data = 0 .. OriginalSize - 1
  BY DEF Fills, OriginalSize
<1> HIDE DEF data
<1>4. \A i \in 0 .. Quarter - 1, a \in 0 .. Bank - 1 : Seen(WindowBase + i, a)
  BY WrittenSeen, Sizes
<1>5. Spreads(image', image, WindowBase, Quarter, data)
  <2>1. WindowBase \in Int /\ Quarter \in Nat
    BY Sizes
  <2>2. Spreads(Placed(image, WindowBase, 0, data), image, WindowBase, Quarter, data)
    BY <2>1, <1>3, <1>4, PlacedAcross
  <2> QED
    BY <1>1, <2>2
<1>6. Views(Quarter)'
  <2>1. ASSUME NEW b \in ViewBanks, NEW a \in Half .. Bank - 1
        PROVE  image'[FileOf(b, a)] = image[FileOf(b, a)]
    <3>1. Seen(b, a) /\ b \in Int /\ b \notin WindowBase .. WindowBase + Quarter - 1
      BY WrittenSeen, Sizes DEF ViewBanks
    <3> QED
      BY <3>1, <1>5 DEF Spreads
  <2>2. Views(Quarter)
    BY <1>1 DEF ImageInv
  <2> QED
    BY <2>1, <2>2, Zenon DEF Views, Cell
<1>7. WindowShows'
  <2>1. ASSUME NEW b \in WindowBase .. 4 * Quarter - 1, NEW a \in 0 .. Bank - 1
        PROVE  image'[FileOf(b, a)] = <<"rom", (b - WindowBase) * Bank + a>>
    <3> DEFINE i == b - WindowBase
               j == i * Bank + a
    <3>1. i \in 0 .. Quarter - 1 /\ WindowBase + i = b
      BY Sizes
    <3>2. j \in 0 .. OriginalSize - 1
      <4>1. i \in Nat /\ Quarter \in Nat /\ i + 1 <= Quarter /\ Bank \in Nat
        BY <3>1, Sizes
      <4> HIDE DEF i
      <4>2. (i + 1) * Bank <= Quarter * Bank /\ (i + 1) * Bank = i * Bank + Bank
            /\ i * Bank \in Nat /\ Quarter * Bank \in Nat
        BY <4>1, Z3
      <4> QED
        BY <4>1, <4>2, Sizes DEF OriginalSize
    <3> HIDE DEF i
    <3>3. image'[FileOf(WindowBase + i, a)] = data[j]
      BY <3>1, <1>5 DEF Spreads
    <3>4. image'[FileOf(b, a)] = <<"rom", j>>
      BY <3>1, <3>2, <3>3, <1>2
    <3> QED
      BY <3>4 DEF i
  <2> QED
    BY <2>1, Zenon DEF WindowShows, Cell
<1>8. Unwritten(Entry)'
  <2>1. \A o \in Offset, k \in Entry : image[o] # <<"stream", k, 0>>
    BY <1>1 DEF ImageInv, Unwritten
  <2>2. \A o \in Offset : image'[o] = image[o] \/ \E j \in DOMAIN data : image'[o] = data[j]
    BY <1>5 DEF Spreads
  <2>3. \A o \in Offset, k \in Entry : image'[o] # <<"stream", k, 0>>
    BY <2>1, <2>2, <1>2, <1>3, NotStream
  <2> QED
    BY <2>3, <1>1 DEF Unwritten, Entry
<1> QED
  BY <1>1, <1>6, <1>7, <1>8 DEF ImageInv

\* The tables show, and are in none of the banks written before.
LEMMA TablesStep == SpaceInv /\ FitInv /\ ImageInv /\ PlaceTables => ImageInv'
<1> SUFFICES ASSUME SpaceInv, FitInv, ImageInv, PlaceTables PROVE ImageInv'
  OBVIOUS
<1> DEFINE data == [j \in 0 .. TableCount * Bank - 1 |-> <<"table", j>>]
<1>1. /\ pc = "tables" /\ pc' = "streams" /\ todo' = Entry /\ UNCHANGED <<job, at>>
      /\ image' = Placed(image, TableBank, 0, data)
  BY DEF PlaceTables, Keeps, fitVars
<1>2. \A j \in 0 .. TableCount * Bank - 1 : data[j] = <<"table", j>>
  OBVIOUS
<1>3. Fills(data, TableCount) /\ DOMAIN data = 0 .. TableCount * Bank - 1
  BY DEF Fills
<1> HIDE DEF data
<1>4. \A i \in 0 .. TableCount - 1, a \in 0 .. Bank - 1 : Seen(TableBank + i, a)
  <2>1. \A i \in 0 .. TableCount - 1 : TableBank + i \in DataBanks
    BY Sizes DEF DataBanks
  <2> QED
    BY <2>1, WrittenSeen
<1>5. Spreads(image', image, TableBank, TableCount, data)
  <2>1. TableBank \in Int /\ TableCount \in Nat
    BY Sizes
  <2>2. Spreads(Placed(image, TableBank, 0, data), image, TableBank, TableCount, data)
    BY <2>1, <1>3, <1>4, PlacedAcross
  <2> QED
    BY <1>1, <2>2
<1>6. Views(Quarter)'
  <2>1. ASSUME NEW b \in ViewBanks, NEW a \in Half .. Bank - 1
        PROVE  image'[FileOf(b, a)] = image[FileOf(b, a)]
    <3>1. Seen(b, a) /\ b \in Int /\ b \notin TableBank .. TableBank + TableCount - 1
      BY WrittenSeen, Sizes DEF ViewBanks
    <3> QED
      BY <3>1, <1>5 DEF Spreads
  <2>2. Views(Quarter)
    BY <1>1 DEF ImageInv
  <2> QED
    BY <2>1, <2>2, Zenon DEF Views, Cell
<1>7. WindowShows'
  <2>1. ASSUME NEW b \in WindowBase .. 4 * Quarter - 1, NEW a \in 0 .. Bank - 1
        PROVE  image'[FileOf(b, a)] = image[FileOf(b, a)]
    <3>1. Seen(b, a) /\ b \in Int /\ b \notin TableBank .. TableBank + TableCount - 1
      BY WrittenSeen, Sizes
    <3> QED
      BY <3>1, <1>5 DEF Spreads
  <2>2. WindowShows
    BY <1>1 DEF ImageInv
  <2>3. \A b, a : InRun(b, a)' <=> InRun(b, a)
    BY <1>1, SameJob
  <2> QED
    BY <2>1, <2>2, <2>3, Zenon DEF WindowShows, Cell
<1>8. TablesShow'
  <2>1. ASSUME NEW b \in TableBanks, NEW a \in 0 .. Bank - 1
        PROVE  image'[FileOf(b, a)] = <<"table", (b - TableBank) * Bank + a>>
    <3> DEFINE i == b - TableBank
               j == i * Bank + a
    <3>1. i \in 0 .. TableCount - 1 /\ TableBank + i = b
      BY Sizes DEF TableBanks
    <3>2. j \in 0 .. TableCount * Bank - 1
      <4>1. i \in Nat /\ TableCount \in Nat /\ i + 1 <= TableCount /\ Bank \in Nat
        BY <3>1, Sizes
      <4> HIDE DEF i
      <4>2. (i + 1) * Bank <= TableCount * Bank /\ (i + 1) * Bank = i * Bank + Bank
            /\ i * Bank \in Nat /\ TableCount * Bank \in Nat
        BY <4>1, Z3
      <4> QED
        BY <4>1, <4>2, Sizes
    <3> HIDE DEF i
    <3>3. image'[FileOf(TableBank + i, a)] = data[j]
      BY <3>1, <1>5 DEF Spreads
    <3>4. image'[FileOf(b, a)] = <<"table", j>>
      BY <3>1, <3>2, <3>3, <1>2
    <3> QED
      BY <3>4 DEF i
  <2> QED
    BY <2>1, Zenon DEF TablesShow, Cell
<1>9. Unwritten(todo)'
  <2>1. \A o \in Offset, k \in Entry : image[o] # <<"stream", k, 0>>
    BY <1>1 DEF ImageInv, Unwritten
  <2>2. \A o \in Offset : image'[o] = image[o] \/ \E j \in DOMAIN data : image'[o] = data[j]
    BY <1>5 DEF Spreads
  <2>3. \A o \in Offset, k \in Entry : image'[o] # <<"stream", k, 0>>
    BY <2>1, <2>2, <1>2, <1>3, NotStream
  <2> QED
    BY <2>3, <1>1 DEF Unwritten
<1>10. StreamsShow'
  <2>1. \A p \in at : p.key \in Entry
    BY DEF FitInv, AtFits, Place
  <2> QED
    BY <2>1, <1>1 DEF StreamsShow
<1> QED
  BY <1>1, <1>6, <1>7, <1>8, <1>9, <1>10 DEF ImageInv

\* A stream overwrites free bytes only: the views, the tables, the other
\* streams and what the window must still show stay as they were.
LEMMA StreamStep ==
  ASSUME SpaceInv, FitInv, ImageInv, NEW p \in at, PlaceStream(p)
  PROVE  ImageInv'
<1> DEFINE data == [j \in 0 .. p.size - 1 |-> <<"stream", p.key, j>>]
           written(b, a) == b = p.bank /\ a \in p.addr .. p.addr + p.size - 1
<1>1. /\ pc = "streams" /\ pc' = "streams" /\ p.key \in todo /\ todo' = todo \ {p.key}
      /\ UNCHANGED <<job, at>> /\ image' = Placed(image, p.bank, p.addr, data)
  BY DEF PlaceStream, Keeps, fitVars
<1>2. \A j \in 0 .. p.size - 1 : data[j] = <<"stream", p.key, j>>
  OBVIOUS
<1>3. DOMAIN data = 0 .. p.size - 1
  OBVIOUS
<1> HIDE DEF data
<1>4. \A q \in at :
        /\ q.bank \in Int /\ q.addr \in Nat /\ q.size \in Nat /\ q.key \in Entry
        /\ q.addr + q.size <= Bank
        /\ \A a \in q.addr .. q.addr + q.size - 1 : InFree(q.bank, a) /\ Seen(q.bank, a)
  BY <1>1, StreamBytes DEF Laid
<1>5. Arrives(image', image, p.bank, p.addr, p.size, data)
  <2>1. Arrives(Placed(image, p.bank, p.addr, data), image, p.bank, p.addr, p.size, data)
    BY <1>3, <1>4, PlacedInside
  <2> QED
    BY <1>1, <2>1
<1>6. \A b, a : Seen(b, a) /\ ~written(b, a) => image'[FileOf(b, a)] = image[FileOf(b, a)]
  BY <1>5 DEF Arrives
<1>7. \A b, a : written(b, a) =>
        b \notin ViewBanks /\ b \notin TableBanks /\ (b \in WindowBase .. 4 * Quarter - 1 => InRun(b, a))
  BY <1>4, FreeWhere DEF SpaceInv, SpaceTypes
<1>8. Views(Quarter)'
  <2>1. \A b \in ViewBanks, a \in Half .. Bank - 1 : image'[FileOf(b, a)] = image[FileOf(b, a)]
    BY <1>6, <1>7, WrittenSeen DEF ViewBanks
  <2>2. Views(Quarter)
    BY <1>1 DEF ImageInv
  <2> QED
    BY <2>1, <2>2, Zenon DEF Views, Cell
<1>9. WindowShows'
  <2>1. \A b \in WindowBase .. 4 * Quarter - 1, a \in 0 .. Bank - 1 :
          ~InRun(b, a) => image'[FileOf(b, a)] = image[FileOf(b, a)]
    BY <1>6, <1>7, WrittenSeen
  <2>2. WindowShows
    BY <1>1 DEF ImageInv
  <2>3. \A b, a : InRun(b, a)' <=> InRun(b, a)
    BY <1>1, SameJob
  <2> QED
    BY <2>1, <2>2, <2>3, Zenon DEF WindowShows, Cell
<1>10. TablesShow'
  <2>0. TableBanks \subseteq DataBanks
    BY LayoutAssumption
  <2>1. \A b \in TableBanks, a \in 0 .. Bank - 1 : image'[FileOf(b, a)] = image[FileOf(b, a)]
    BY <1>6, <1>7, <2>0, WrittenSeen
  <2>2. TablesShow
    BY <1>1 DEF ImageInv
  <2> QED
    BY <2>1, <2>2, Zenon DEF TablesShow, Cell
<1>11. StreamsShow'
  <2> SUFFICES ASSUME NEW q \in at, q.key \notin todo \ {p.key}, NEW j \in 0 .. q.size - 1
               PROVE  image'[FileOf(q.bank, q.addr + j)] = <<"stream", q.key, j>>
    BY <1>1 DEF StreamsShow, Cell
  <2>1. CASE q = p
    BY <2>1, <1>2, <1>5 DEF Arrives
  <2>2. CASE q # p
    <3>1. /\ q.key # p.key
          /\ Apart(q.bank, q.addr, q.addr + q.size, p.bank, p.addr, p.addr + p.size)
      BY <2>2 DEF FitInv, AtFits
    <3>2. q.addr + j \in q.addr .. q.addr + q.size - 1
      BY <1>4
    <3>3. ~written(q.bank, q.addr + j)
      BY <3>1, <3>2, <1>4 DEF Apart
    <3>4. image'[FileOf(q.bank, q.addr + j)] = image[FileOf(q.bank, q.addr + j)]
      BY <3>2, <3>3, <1>4, <1>6
    <3>5. image[FileOf(q.bank, q.addr + j)] = <<"stream", q.key, j>>
      BY <3>1, <1>1 DEF ImageInv, StreamsShow, Cell
    <3> QED
      BY <3>4, <3>5
  <2> QED
    BY <2>1, <2>2
<1>12. Unwritten(todo)'
  <2>1. \A o \in Offset, k \in todo : image[o] # <<"stream", k, 0>>
    BY <1>1 DEF ImageInv, Unwritten
  <2>2. \A o \in Offset : image'[o] = image[o] \/ \E j \in 0 .. p.size - 1 : image'[o] = data[j]
    BY <1>5 DEF Arrives
  <2>3. \A o \in Offset, k \in todo \ {p.key} : image'[o] # <<"stream", k, 0>>
    BY <2>1, <2>2, <1>2, NotStream
  <2> QED
    BY <2>3, <1>1 DEF Unwritten
<1> QED
  BY <1>1, <1>8, <1>9, <1>10, <1>11, <1>12 DEF ImageInv

\* Two bytes of different extra blocks have different addresses.
LEMMA ExtrasApart ==
  ASSUME job \in Builds, NEW m \in 1 .. Len(job.extra), NEW n \in 1 .. Len(job.extra), m # n
  PROVE  Apart(job.extra[m].bank, job.extra[m].addr, job.extra[m].addr + job.extra[m].len,
               job.extra[n].bank, job.extra[n].addr, job.extra[n].addr + job.extra[n].len)
<1>1. m \in DOMAIN job.extra /\ n \in DOMAIN job.extra
  BY JobFacts
<1> QED
  BY <1>1, LayoutAssumption

\* An extra block lies where no region was free, so no stream loses a byte.
LEMMA ExtraStep == SpaceInv /\ FitInv /\ ImageInv /\ PlaceExtra => ImageInv'
<1> SUFFICES ASSUME SpaceInv, FitInv, ImageInv, PlaceExtra PROVE ImageInv'
  OBVIOUS
<1> DEFINE x == job.extra[step]
           data == [j \in 0 .. x.len - 1 |-> <<"extra", step, j>>]
           written(b, a) == b = x.bank /\ a \in x.addr .. x.addr + x.len - 1
<1>1. /\ pc = "extra" /\ pc' = "extra" /\ step <= Len(job.extra) /\ step' = step + 1
      /\ UNCHANGED <<job, at, todo>> /\ image' = Placed(image, x.bank, x.addr, data)
  BY DEF PlaceExtra, Keeps, fitVars, Goes
<1>2. job \in Builds /\ step \in 1 .. Len(job.extra)
  BY <1>1, JobFacts DEF ImageInv, SpaceInv, SpaceTypes
<1>3. /\ x.bank \in DataBanks \ TableBanks /\ x.addr \in 0 .. Bank - 1 /\ x.len \in Nat
      /\ x.addr + x.len <= Bank /\ x.bank \in Int
  <2>1. /\ x.bank \in DataBanks \ TableBanks /\ x.addr \in 0 .. Bank - 1 /\ x.len \in Nat
        /\ x.addr + x.len <= Bank
    BY <1>2, JobFacts
  <2> HIDE DEF x
  <2> QED
    BY <2>1, Sizes DEF DataBanks
<1>4. \A j \in 0 .. x.len - 1 : data[j] = <<"extra", step, j>>
  OBVIOUS
<1>5. DOMAIN data = 0 .. x.len - 1
  OBVIOUS
<1>x. x = job.extra[step]
  OBVIOUS
<1> HIDE DEF data, x
<1>6. \A a \in x.addr .. x.addr + x.len - 1 : Seen(x.bank, a)
  BY <1>3, WrittenSeen, Sizes
<1>7. Arrives(image', image, x.bank, x.addr, x.len, data)
  <2>1. Arrives(Placed(image, x.bank, x.addr, data), image, x.bank, x.addr, x.len, data)
    BY <1>3, <1>5, <1>6, PlacedInside
  <2> QED
    BY <1>1, <2>1
<1>8. \A b, a : Seen(b, a) /\ ~written(b, a) => image'[FileOf(b, a)] = image[FileOf(b, a)]
  BY <1>7 DEF Arrives
<1>9. x.bank \notin ViewBanks /\ x.bank \notin TableBanks /\ x.bank \notin WindowBase .. 4 * Quarter - 1
  BY <1>3, Sizes DEF DataBanks, ViewBanks
<1>10. Views(Quarter)'
  <2>1. \A b \in ViewBanks, a \in Half .. Bank - 1 : image'[FileOf(b, a)] = image[FileOf(b, a)]
    BY <1>8, <1>9, WrittenSeen DEF ViewBanks
  <2>2. Views(Quarter)
    BY <1>1 DEF ImageInv
  <2> QED
    BY <2>1, <2>2, Zenon DEF Views, Cell
<1>11. WindowShows'
  <2>1. \A b \in WindowBase .. 4 * Quarter - 1, a \in 0 .. Bank - 1 :
          image'[FileOf(b, a)] = image[FileOf(b, a)]
    BY <1>8, <1>9, WrittenSeen
  <2>2. WindowShows
    BY <1>1 DEF ImageInv
  <2>3. \A b, a : InRun(b, a)' <=> InRun(b, a)
    BY <1>1, SameJob
  <2> QED
    BY <2>1, <2>2, <2>3, Zenon DEF WindowShows, Cell
<1>12. TablesShow'
  <2>0. TableBanks \subseteq DataBanks
    BY LayoutAssumption
  <2>1. \A b \in TableBanks, a \in 0 .. Bank - 1 : image'[FileOf(b, a)] = image[FileOf(b, a)]
    BY <1>8, <1>9, <2>0, WrittenSeen
  <2>2. TablesShow
    BY <1>1 DEF ImageInv
  <2> QED
    BY <2>1, <2>2, Zenon DEF TablesShow, Cell
<1>13. StreamsShow'
  <2> SUFFICES ASSUME NEW q \in at, q.key \notin todo, NEW j \in 0 .. q.size - 1
               PROVE  image'[FileOf(q.bank, q.addr + j)] = <<"stream", q.key, j>>
    BY <1>1 DEF StreamsShow, Cell
  <2>1. /\ q.addr \in Nat /\ q.size \in Nat
        /\ \A a \in q.addr .. q.addr + q.size - 1 : InFree(q.bank, a) /\ Seen(q.bank, a)
    BY <1>1, StreamBytes DEF Laid
  <2>2. q.addr + j \in q.addr .. q.addr + q.size - 1
    BY <2>1
  <2>3. ~(x.bank = q.bank /\ x.addr <= q.addr + j /\ q.addr + j < x.addr + x.len)
    BY <1>2, <1>x, <2>1, <2>2, FreeWhere
  <2>4. ~written(q.bank, q.addr + j)
    BY <2>3, <1>3, <2>1
  <2>5. image'[FileOf(q.bank, q.addr + j)] = image[FileOf(q.bank, q.addr + j)]
    BY <2>1, <2>2, <2>4, <1>8
  <2>6. image[FileOf(q.bank, q.addr + j)] = <<"stream", q.key, j>>
    BY <1>1 DEF ImageInv, StreamsShow, Cell
  <2> QED
    BY <2>5, <2>6
<1>14. ExtraShows(step - 1)'
  <2> SUFFICES ASSUME NEW m \in 1 .. step, NEW j \in 0 .. job.extra[m].len - 1
               PROVE  image'[FileOf(job.extra[m].bank, job.extra[m].addr + j)] = <<"extra", m, j>>
    <3>1. step' - 1 = step
      BY <1>1, <1>2
    <3> QED
      BY <1>1, <3>1 DEF ExtraShows, Cell
  <2>1. CASE m = step
    BY <2>1, <1>4, <1>7, <1>x DEF Arrives
  <2>2. CASE m # step
    <3> DEFINE y == job.extra[m]
    <3>1. m \in 1 .. step - 1 /\ m \in 1 .. Len(job.extra)
      BY <2>2, <1>2
    <3>2. /\ y.bank \in DataBanks /\ y.addr \in 0 .. Bank - 1 /\ y.len \in Nat
          /\ y.addr + y.len <= Bank
      BY <3>1, <1>2, JobFacts
    <3>3. Apart(y.bank, y.addr, y.addr + y.len, x.bank, x.addr, x.addr + x.len)
      BY <3>1, <1>2, <2>2, <1>x, ExtrasApart
    <3>4. image[FileOf(y.bank, y.addr + j)] = <<"extra", m, j>>
      BY <3>1, <1>1 DEF ImageInv, ExtraShows, Cell
    <3>5. j \in 0 .. y.len - 1
      OBVIOUS
    <3> HIDE DEF y
    <3>6. y.addr + j \in 0 .. Bank - 1 /\ ~written(y.bank, y.addr + j)
      BY <3>2, <3>3, <3>5, <1>3, Sizes DEF Apart
    <3>7. image'[FileOf(y.bank, y.addr + j)] = image[FileOf(y.bank, y.addr + j)]
      BY <3>2, <3>6, <1>8, WrittenSeen
    <3> QED
      BY <3>4, <3>7 DEF y
  <2> QED
    BY <2>1, <2>2
<1>15. todo = {} /\ todo' = {} /\ step' \in 1 .. Len(job.extra) + 1
  BY <1>1, <1>2 DEF ImageInv
<1>16. Unwritten(todo)'
  BY <1>15 DEF Unwritten
<1> QED
  BY <1>1, <1>10, <1>11, <1>12, <1>13, <1>14, <1>15, <1>16 DEF ImageInv

\* The image is as it was, and the place in build() moves on at most to the
\* extra blocks or to the end.
LEMMA ImageKept ==
  ASSUME ImageInv, UNCHANGED <<job, at, todo, image>>,
         \/ pc' \notin {"lorom", "tables", "streams", "extra", "done"}
         \/ UNCHANGED <<pc, step>>
         \/ pc = "streams" /\ pc' = "extra" /\ todo = {} /\ step' = 1 /\ Len(job.extra) \in Nat
         \/ pc = "extra" /\ pc' = "done" /\ step > Len(job.extra) /\ Len(job.extra) \in Nat
  PROVE  ImageInv'
<1>1. \A k : Views(k)' <=> Views(k)
  BY DEF Views, Cell
<1>2. WindowShows' <=> WindowShows
  <2>1. \A b, a : InRun(b, a)' <=> InRun(b, a)
    BY SameJob
  <2> QED
    BY <2>1 DEF WindowShows, Cell
<1>3. TablesShow' <=> TablesShow
  BY DEF TablesShow, Cell
<1>4. StreamsShow' <=> StreamsShow
  BY DEF StreamsShow, Cell
<1>5. /\ Unwritten(Entry)' <=> Unwritten(Entry)
      /\ Unwritten(todo)' <=> Unwritten(todo)
  BY DEF Unwritten, Entry
<1>6. \A k : ExtraShows(k)' <=> ExtraShows(k)
  BY DEF ExtraShows, Cell
<1>7. CASE pc' \notin {"lorom", "tables", "streams", "extra", "done"}
  BY <1>7 DEF ImageInv
<1>8. CASE UNCHANGED <<pc, step>>
  <2>1. Views(step)' <=> Views(step)
    BY <1>8 DEF Views, Cell
  <2>2. Views(Quarter)' <=> Views(Quarter)
    BY <1>1
  <2>3. ExtraShows(step - 1)' <=> ExtraShows(step - 1)
    BY <1>8 DEF ExtraShows, Cell
  <2>4. ExtraShows(Len(job.extra))' <=> ExtraShows(Len(job.extra))
    BY DEF ExtraShows, Cell
  <2> QED
    BY <1>8, <2>1, <2>2, <2>3, <2>4, <1>2, <1>3, <1>4, <1>5 DEF ImageInv
<1>9. CASE pc = "streams" /\ pc' = "extra" /\ todo = {} /\ step' = 1 /\ Len(job.extra) \in Nat
  <2>1. ExtraShows(step - 1)'
    BY <1>9 DEF ExtraShows
  <2>2. Views(Quarter)' <=> Views(Quarter)
    BY <1>1
  <2> QED
    BY <1>9, <2>1, <2>2, <1>2, <1>3, <1>4, <1>5 DEF ImageInv
<1>10. CASE pc = "extra" /\ pc' = "done" /\ step > Len(job.extra) /\ Len(job.extra) \in Nat
  <2>1. ExtraShows(step - 1) /\ step - 1 = Len(job.extra)
    BY <1>10 DEF ImageInv
  <2>2. ExtraShows(Len(job.extra))'
    BY <2>1 DEF ExtraShows, Cell
  <2>3. Views(Quarter)' <=> Views(Quarter)
    BY <1>1
  <2> QED
    BY <1>10, <2>2, <2>3, <1>2, <1>3, <1>4, <1>5 DEF ImageInv
<1> QED
  BY <1>7, <1>8, <1>9, <1>10

\* No step of build() breaks what is said of the image.
LEMMA ImageStep == SpaceInv /\ FitInv /\ ImageInv /\ [Next]_vars => ImageInv'
<1> SUFFICES ASSUME SpaceInv, FitInv, ImageInv, [Next]_vars PROVE ImageInv'
  OBVIOUS
<1>0. Len(job.extra) \in Nat
  BY JobFacts DEF SpaceInv, SpaceTypes
<1>1. CASE WrongSize \/ OpenDataBanks \/ SubtractNext \/ Reclaim \/ Merge \/ MergeAll \/ FindSpace
           \/ Allocate \/ Exhausted
  <2>1. pc' \notin {"lorom", "tables", "streams", "extra", "done"}
    BY <1>1 DEF WrongSize, OpenDataBanks, SubtractNext, Reclaim, Merge, MergeAll, FindSpace,
       Allocate, Exhausted, Goes
  <2> QED
    BY <2>1 DEF ImageInv
<1>2. CASE MakeTables
  BY <1>2, BlankStep
<1>3. CASE PlaceLorom
  BY <1>3, LoromStep
<1>4. CASE PlaceWindow
  BY <1>4, WindowStep
<1>5. CASE PlaceTables
  BY <1>5, TablesStep
<1>6. CASE StartExtra
  BY <1>0, <1>6, ImageKept DEF StartExtra, Goes, Keeps, fitVars
<1>7. CASE PlaceExtra
  BY <1>7, ExtraStep
<1>8. CASE Finish
  BY <1>0, <1>8, ImageKept DEF Finish, Goes, Keeps, fitVars
<1>9. CASE \E p \in at : PlaceStream(p)
  BY <1>9, StreamStep
<1>10. CASE UNCHANGED vars
  BY <1>10, ImageKept DEF vars
<1> QED
  BY <1>1, <1>2, <1>3, <1>4, <1>5, <1>6, <1>7, <1>8, <1>9, <1>10 DEF Next

\* What the console shows at an address it sees is the cell of the file.
LEMMA ShowsCell ==
  ASSUME NEW b, NEW a, Seen(b, a), NEW what
  PROVE  Shows(b, a, what) <=> Cell(b, a) = what
  BY MapsAgree DEF Shows, Cell, Seen

\* What shows is what the verifier and the console both read.
LEMMA ImageReadable == SpaceInv /\ FitInv /\ ImageInv => StreamsReadable
<1> SUFFICES ASSUME SpaceInv, FitInv, ImageInv, pc \in {"streams", "extra", "done"}, NEW p \in at
             PROVE  LET readable == \A j \in 0 .. p.size - 1 :
                                      Shows(p.bank, (p.addr + j) % Bank, <<"stream", p.key, j>>)
                    IN  /\ WrongInImage(p) <=> ~readable
                        /\ (readable <=> p.key \notin todo)
  BY DEF StreamsReadable
<1> DEFINE cell(j) == Cell(p.bank, p.addr + j)
<1>1. /\ p.bank \in Int /\ p.addr \in Nat /\ p.size \in Nat /\ p.size > 0 /\ p.key \in Entry
      /\ p.addr + p.size <= Bank
      /\ \A a \in p.addr .. p.addr + p.size - 1 : InFree(p.bank, a) /\ Seen(p.bank, a)
  BY StreamBytes DEF Laid
<1>2. ASSUME NEW j \in 0 .. p.size - 1
      PROVE  /\ p.addr + j \in 0 .. Bank - 1 /\ Seen(p.bank, p.addr + j)
             /\ p.bank + (p.addr + j) \div Bank = p.bank /\ (p.addr + j) % Bank = p.addr + j
  <2>1. p.addr + j \in 0 .. Bank - 1 /\ p.addr + j \in p.addr .. p.addr + p.size - 1
    BY <1>1, Sizes
  <2>2. StepOf(p.bank, p.addr, j) = <<p.bank, p.addr + j>>
    BY <1>1, <2>1, StepInside
  <2>3. /\ StepOf(p.bank, p.addr, j)[1] = p.bank + (p.addr + j) \div Bank
        /\ StepOf(p.bank, p.addr, j)[2] = (p.addr + j) % Bank
    BY DEF StepOf
  <2>4. <<p.bank, p.addr + j>>[1] = p.bank /\ <<p.bank, p.addr + j>>[2] = p.addr + j
    OBVIOUS
  <2>5. /\ p.bank + (p.addr + j) \div Bank = p.bank
        /\ (p.addr + j) % Bank = p.addr + j
    BY <2>2, <2>3, <2>4, Zenon
  <2> QED
    BY <1>1, <2>1, <2>5, Zenon
<1>3. WrongInImage(p) <=> \E j \in 0 .. p.size - 1 : cell(j) # <<"stream", p.key, j>>
  BY <1>2, Zenon DEF WrongInImage, window_read, Cell
<1>4. (\A j \in 0 .. p.size - 1 : Shows(p.bank, (p.addr + j) % Bank, <<"stream", p.key, j>>)) <=>
        \A j \in 0 .. p.size - 1 : cell(j) = <<"stream", p.key, j>>
  <2>1. \A j \in 0 .. p.size - 1 :
          Shows(p.bank, (p.addr + j) % Bank, <<"stream", p.key, j>>) <=>
            cell(j) = <<"stream", p.key, j>>
    BY <1>2, ShowsCell, Zenon
  <2> QED
    BY <2>1, Zenon
<1>5. p.key \notin todo => \A j \in 0 .. p.size - 1 : cell(j) = <<"stream", p.key, j>>
  BY DEF ImageInv, StreamsShow
<1>6. p.key \in todo => cell(0) # <<"stream", p.key, 0>> /\ 0 \in 0 .. p.size - 1
  <2> SUFFICES ASSUME p.key \in todo PROVE cell(0) # <<"stream", p.key, 0>>
    BY <1>1
  <2>1. 0 \in 0 .. p.size - 1
    BY <1>1
  <2>2. FileOf(p.bank, p.addr + 0) \in Offset
    BY <1>2, <2>1, FileInside
  <2>3. Unwritten(todo)
    BY DEF ImageInv
  <2> QED
    BY <2>2, <2>3 DEF Unwritten, Cell
<1> HIDE DEF cell
<1> QED
  BY <1>3, <1>4, <1>5, <1>6, Zenon

\* And at the end everything RomReadable names shows.
LEMMA ImageWhole == SpaceInv /\ FitInv /\ ImageInv => RomReadable
<1> SUFFICES ASSUME SpaceInv, ImageInv, pc = "done" PROVE RomReadable
  BY DEF RomReadable
<1>0. /\ Views(Quarter) /\ WindowShows /\ TablesShow /\ ExtraShows(Len(job.extra)) /\ job \in Builds
  BY DEF ImageInv, SpaceInv, SpaceTypes
<1>1. ASSUME NEW k \in 0 .. Quarter - 1, NEW a \in Half .. Bank - 1, NEW m \in {0, MirrorBase}
      PROVE  Shows(m + k, a, <<"rom", k * Half + a - Half>>)
  <2>1. /\ m + k \in ViewBanks /\ Original(m + k) = k /\ k \in Int /\ a \in Int
    BY Sizes DEF ViewBanks, Original
  <2>2. Seen(m + k, a)
    BY <2>1, WrittenSeen DEF ViewBanks
  <2>3. k < Quarter
    BY Sizes
  <2>4. Cell(m + k, a) = <<"rom", k * Half + (a - Half)>>
    BY <2>1, <2>3, <1>0 DEF Views
  <2>5. k * Half + (a - Half) = k * Half + a - Half
    BY <2>1, Sizes
  <2> QED
    BY <2>2, <2>4, <2>5, ShowsCell, Zenon
<1>2. ASSUME NEW o \in 0 .. OriginalSize - 1, ~Compressed(o)
      PROVE  Shows(WindowBase + o \div Bank, o % Bank, <<"rom", o>>)
  <2>1. PICK i \in 0 .. Quarter - 1, a \in 0 .. Bank - 1 :
          o = i * Bank + a /\ StepOf(WindowBase, 0, o) = <<WindowBase + i, a>>
    <3>1. o \in 0 .. Quarter * Bank - 1 /\ WindowBase \in Int /\ Quarter \in Nat
      BY Sizes DEF OriginalSize
    <3> QED
      BY <3>1, StepsAcross, Zenon
  <2>2. o \div Bank = i /\ o % Bank = a
    <3>1. i \in Nat /\ Bank \in Nat \ {0}
      BY Sizes
    <3>2. (i * Bank + a) \div Bank = i /\ (i * Bank + a) % Bank = a
      BY <3>1, DivModOf, Zenon
    <3> QED
      BY <2>1, <3>2, Zenon
  <2> DEFINE b == WindowBase + i
  <2>3. b \in WindowBase .. 4 * Quarter - 1 /\ b - WindowBase = i
    BY Sizes
  <2>a. b = WindowBase + o \div Bank /\ a = o % Bank
    BY <2>2, Zenon
  <2> HIDE DEF b
  <2>4. ~InRun(b, a)
    <3> SUFFICES ASSUME InRun(b, a) PROVE FALSE
      OBVIOUS
    <3>1. PICK s \in 0 .. a, e \in a + 1 .. Bank :
            /\ e - s >= MinRegion
            /\ \A c \in s .. e - 1 : Compressed((b - WindowBase) * Bank + c)
      BY Zenon DEF InRun
    <3>2. a \in s .. e - 1
      BY Sizes
    <3>3. Compressed((b - WindowBase) * Bank + a)
      BY <3>1, <3>2, Zenon
    <3> QED
      BY <3>3, <2>1, <2>3, <1>2, Zenon
  <2>5. Cell(b, a) = <<"rom", (b - WindowBase) * Bank + a>>
    BY <2>3, <2>4, <1>0, Zenon DEF WindowShows
  <2>6. Seen(b, a)
    BY <2>3, WrittenSeen
  <2>7. Cell(b, a) = <<"rom", o>>
    BY <2>1, <2>3, <2>5, Zenon
  <2>8. Shows(b, a, <<"rom", o>>)
    BY <2>6, <2>7, ShowsCell, Zenon
  <2> QED
    BY <2>a, <2>8, Zenon
<1>3. ASSUME NEW j \in 0 .. TableCount * Bank - 1
      PROVE  Shows(TableBank + j \div Bank, j % Bank, <<"table", j>>)
  <2>1. PICK i \in 0 .. TableCount - 1, a \in 0 .. Bank - 1 :
          j = i * Bank + a /\ StepOf(TableBank, 0, j) = <<TableBank + i, a>>
    <3>1. TableBank \in Int /\ TableCount \in Nat
      BY Sizes
    <3> QED
      BY <3>1, StepsAcross, Zenon
  <2>2. j \div Bank = i /\ j % Bank = a
    <3>1. i \in Nat /\ Bank \in Nat \ {0}
      BY Sizes
    <3>2. (i * Bank + a) \div Bank = i /\ (i * Bank + a) % Bank = a
      BY <3>1, DivModOf, Zenon
    <3> QED
      BY <2>1, <3>2, Zenon
  <2> DEFINE b == TableBank + i
  <2>3. b \in TableBanks /\ b - TableBank = i
    BY Sizes DEF TableBanks
  <2>a. b = TableBank + j \div Bank /\ a = j % Bank
    BY <2>2, Zenon
  <2> HIDE DEF b
  <2>4. Cell(b, a) = <<"table", (b - TableBank) * Bank + a>>
    BY <2>3, <1>0, Zenon DEF TablesShow
  <2>5. Seen(b, a)
    BY <2>3, WrittenSeen, LayoutAssumption
  <2>6. Cell(b, a) = <<"table", j>>
    BY <2>1, <2>3, <2>4, Zenon
  <2>7. Shows(b, a, <<"table", j>>)
    BY <2>5, <2>6, ShowsCell, Zenon
  <2> QED
    BY <2>a, <2>7, Zenon
<1>4. ASSUME NEW n \in DOMAIN job.extra, NEW j \in 0 .. job.extra[n].len - 1
      PROVE  Shows(job.extra[n].bank, job.extra[n].addr + j, <<"extra", n, j>>)
  <2> DEFINE x == job.extra[n]
  <2>1. n \in 1 .. Len(job.extra)
    BY <1>0, JobFacts
  <2>2. /\ x.bank \in DataBanks /\ x.addr \in 0 .. Bank - 1 /\ x.len \in Nat
        /\ x.addr + x.len <= Bank
    BY <2>1, <1>0, JobFacts
  <2>3. Cell(x.bank, x.addr + j) = <<"extra", n, j>>
    BY <2>1, <1>0 DEF ExtraShows
  <2>j. j \in 0 .. x.len - 1
    OBVIOUS
  <2> HIDE DEF x
  <2>4. x.addr + j \in 0 .. Bank - 1
    BY <2>2, <2>j, Sizes
  <2>5. Seen(x.bank, x.addr + j)
    BY <2>2, <2>4, WrittenSeen
  <2>6. Shows(x.bank, x.addr + j, <<"extra", n, j>>)
    BY <2>3, <2>5, ShowsCell, Zenon
  <2> QED
    BY <2>6 DEF x
<1> QED
  BY <1>1, <1>2, <1>3, <1>4, Zenon DEF RomReadable

-----------------------------------------------------------------------------
(* The layout *)

LayoutInv == SpaceInv /\ FitInv /\ ImageInv

\* The parts of the invariant hold together from the first step to the last.
THEOREM LayoutInvariant == Spec => []LayoutInv
<1>1. Init => LayoutInv
  BY SpaceInit, FitInit, ImageInit DEF LayoutInv
<1>2. LayoutInv /\ [Next]_vars => LayoutInv'
  BY SpaceStep, FitStep, ImageStep DEF LayoutInv
<1> QED
  BY <1>1, <1>2, PTL DEF Spec

\* Every stream reads back byte for byte, within one bank, where the tables
\* will say it is, and the verifier tells which ones are not written yet.
THEOREM StreamsReadBack == Spec => []StreamsReadable
<1>1. LayoutInv => StreamsReadable
  BY ImageReadable DEF LayoutInv
<1> QED
  BY <1>1, LayoutInvariant, PTL

\* Code, data, tables and extra blocks survive the streams.
THEOREM RomReadsBack == Spec => []RomReadable
<1>1. LayoutInv => RomReadable
  BY ImageWhole DEF LayoutInv
<1> QED
  BY <1>1, LayoutInvariant, PTL
=============================================================================
