---------------------------- MODULE BypassProofs ----------------------------
(***************************************************************************)
(* The transfer bypass, for any streams, callers and channels: from the    *)
(* table a build finishes, every entry point finds its stream's copy, and  *)
(* gives the caller back what it had.                                      *)
(***************************************************************************)
EXTENDS Bypass, ModArith, SequenceTheorems

\* The builder's theorems.  Nobody asks the gate here: it has nothing to list.
TP == INSTANCE KeyTablesProofs WITH
  ScanBudget <- 0, Listings <- {}, Cases <- {},
  verdict <- "ungated", findings <- {}, case <- <<>>, mapped <- "none"

-----------------------------------------------------------------------------
(* Words, flags and the stack *)

\* The two bytes of a word give it back.
LEMMA Halves ==
  ASSUME NEW w \in Nat
  PROVE  /\ Low(w) \in 0 .. Byte - 1 /\ High(w) \in Nat /\ Low(w) + High(w) * Byte = w
<1>1. Byte \in Nat \ {0}
  BY BypassAssumption
<1>2. w \div Byte \in Nat /\ w % Byte \in 0 .. Byte - 1
  BY <1>1, DivNat, ModRange
<1>3. w = Byte * (w \div Byte) + (w % Byte)
  BY <1>1, DivMod
<1> DEFINE h == w \div Byte
           l == w % Byte
<1> HIDE DEF h, l
<1>4. h \in Nat /\ l \in Nat /\ w = Byte * h + l
  BY <1>1, <1>2, <1>3 DEF h, l
<1>5. l + h * Byte = w
  BY <1>1, <1>4
<1> QED
  BY <1>2, <1>5 DEF Low, High, h, l

\* An 8-bit load replaces the low byte of the accumulator.
LEMMA LowSet ==
  ASSUME NEW w \in Nat, NEW v \in 0 .. Byte - 1
  PROVE  SetLow(w, v) \in Nat /\ Low(SetLow(w, v)) = v
<1>1. Byte \in Nat \ {0} /\ High(w) \in Nat
  BY BypassAssumption, Halves
<1> DEFINE h == High(w)
<1>2. SetLow(w, v) = Byte * h + v
  BY <1>1 DEF SetLow
<1> HIDE DEF h
<1>3. (Byte * h + v) % Byte = v
  BY <1>1, ModUnique DEF h
<1>4. Byte * h + v \in Nat
  BY <1>1 DEF h
<1> QED
  BY <1>2, <1>3, <1>4 DEF Low

\* php and plp: the flags survive the stack.
LEMMA FlagsBack == ASSUME NEW f \in Flags PROVE Coded(f) \in Nat /\ Decoded(Coded(f)) = f
<1>1. f.m8 \in BOOLEAN /\ f.x8 \in BOOLEAN /\ f.carry \in BOOLEAN
      /\ f = [m8 |-> f.m8, x8 |-> f.x8, carry |-> f.carry]
  BY DEF Flags
<1>2. Coded(f) \in Nat
  BY <1>1 DEF Coded
<1>3. /\ ((Coded(f) \div 4) % 2 = 1) = f.m8
      /\ ((Coded(f) \div 2) % 2 = 1) = f.x8
      /\ (Coded(f) % 2 = 1) = f.carry
  BY <1>1 DEF Coded
<1> QED
  BY <1>1, <1>2, <1>3 DEF Decoded

\* Two pushed bytes lie above what was there.
LEMMA Pushing ==
  ASSUME NEW u \in Nat, NEW v \in Nat, NEW s \in Seq(Nat)
  PROVE  /\ <<u, v>> \o s \in Seq(Nat) /\ Len(<<u, v>> \o s) = Len(s) + 2
         /\ (<<u, v>> \o s)[1] = u /\ (<<u, v>> \o s)[2] = v
         /\ \A k \in 1 .. Len(s) : (<<u, v>> \o s)[k + 2] = s[k]
  OBVIOUS

\* Discarded bytes uncover what lay under them.
LEMMA Dropping ==
  ASSUME NEW s \in Seq(Nat), NEW n \in Nat, n <= Len(s)
  PROVE  /\ Drop(s, n) \in Seq(Nat) /\ Len(Drop(s, n)) = Len(s) - n
         /\ \A k \in 1 .. Len(s) - n : Drop(s, n)[k] = s[k + n]
<1> DEFINE len == Len(s)
<1>1. n + 1 \in Int /\ len \in Nat /\ \A k \in n + 1 .. len : s[k] \in Nat
  OBVIOUS
<1>2. /\ SubSeq(s, n + 1, len) \in Seq(Nat)
      /\ Len(SubSeq(s, n + 1, len)) = IF n + 1 <= len THEN len - (n + 1) + 1 ELSE 0
      /\ \A k \in 1 .. len - (n + 1) + 1 : SubSeq(s, n + 1, len)[k] = s[n + 1 + k - 1]
  <2> HIDE DEF len
  <2> DEFINE m == n + 1
  <2>1. m \in Int /\ len \in Int /\ \A k \in m .. len : s[k] \in Nat
    BY <1>1
  <2> HIDE DEF m
  <2>2. /\ SubSeq(s, m, len) \in Seq(Nat)
        /\ Len(SubSeq(s, m, len)) = IF m <= len THEN len - m + 1 ELSE 0
        /\ \A k \in 1 .. len - m + 1 : SubSeq(s, m, len)[k] = s[m + k - 1]
    BY <2>1, SubSeqProperties
  <2> QED
    BY <2>2 DEF m
<1>3. Drop(s, n) = SubSeq(s, n + 1, len)
  BY DEF Drop
<1> DEFINE d == SubSeq(s, n + 1, len)
<1> HIDE DEF d, len
<1>4. Len(d) = len - n
  BY <1>1, <1>2 DEF d, len
<1>5. ASSUME NEW k \in 1 .. len - n PROVE d[k] = s[k + n]
  <2>1. k \in 1 .. len - (n + 1) + 1 /\ n + 1 + k - 1 = k + n
    BY <1>1
  <2> QED
    BY <1>2, <2>1 DEF d
<1> QED
  BY <1>2, <1>3, <1>4, <1>5 DEF d, len

\* The return address of jsl, read from the stack byte by byte.
LEMMA Three ==
  ASSUME NEW s \in Seq(Nat), Len(s) = 3, s[1] = 3, s[2] = 2, s[3] = 1
  PROVE  s = <<3, 2, 1>> /\ SubSeq(s, 1, 3) = <<3, 2, 1>>
<1> DEFINE t == <<3, 2, 1>>
<1>1. t \in Seq(Nat) /\ Len(t) = 3 /\ \A k \in 1 .. 3 : s[k] = t[k]
  OBVIOUS
<1>2. s = t
  <2> HIDE DEF t
  <2> QED BY <1>1, SeqEqual, Zenon
<1>3. SubSeq(s, 1, Len(s)) = s
  BY SubSeqFull, Zenon
<1> QED
  BY <1>2, <1>3

\* A stack of two parts, slot by slot.
LEMMA Joining ==
  ASSUME NEW s \in Seq(Nat), NEW t \in Seq(Nat)
  PROVE  /\ s \o t \in Seq(Nat) /\ Len(s \o t) = Len(s) + Len(t)
         /\ \A k \in 1 .. Len(s) : (s \o t)[k] = s[k]
         /\ \A k \in 1 .. Len(t) : (s \o t)[Len(s) + k] = t[k]
  OBVIOUS

\* Two more on a stack of numbers that is not changed below.
Grows(s, t, n, u, v) ==
  /\ t \in Seq(Nat) /\ Len(t) = n + 2 /\ t[n + 1] = u /\ t[n + 2] = v
  /\ \A k \in 1 .. n : t[k] = s[k]

\* Two more bytes at the far end.
LEMMA Appending ==
  ASSUME NEW s \in Seq(Nat), NEW u \in Nat, NEW v \in Nat
  PROVE  Grows(s, s \o <<u, v>>, Len(s), u, v)
<1> DEFINE p2 == <<u, v>>
<1>1. p2 \in Seq(Nat) /\ Len(p2) = 2 /\ p2[1] = u /\ p2[2] = v
  OBVIOUS
<1> HIDE DEF p2
<1>2. /\ s \o p2 \in Seq(Nat) /\ Len(s \o p2) = Len(s) + 2
      /\ \A k \in 1 .. Len(s) : (s \o p2)[k] = s[k]
      /\ \A k \in 1 .. 2 : (s \o p2)[Len(s) + k] = p2[k]
  <2>1. /\ s \o p2 \in Seq(Nat) /\ Len(s \o p2) = Len(s) + Len(p2)
        /\ \A k \in 1 .. Len(s) : (s \o p2)[k] = s[k]
        /\ \A k \in 1 .. Len(p2) : (s \o p2)[Len(s) + k] = p2[k]
    BY <1>1, Joining, Zenon
  <2> QED
    BY <1>1, <2>1, Zenon
<1> QED
  BY <1>1, <1>2 DEF Grows, p2

\* What php phb pha phx phy leave on the stack, slot by slot.
LEMMA Saving ==
  ASSUME NEW s1 \in Nat, NEW s2 \in Nat, NEW s3 \in Nat, NEW s4 \in Nat, NEW s5 \in Nat,
         NEW s6 \in Nat, NEW s7 \in Nat, NEW s8 \in Nat,
         NEW s, s = <<s1, s2>> \o <<s3, s4>> \o <<s5, s6>> \o <<s7, s8>> \o <<3, 2, 1>>
  PROVE  /\ s \in Seq(Nat) /\ Len(s) = 11
         /\ s[1] = s1 /\ s[2] = s2 /\ s[3] = s3 /\ s[4] = s4 /\ s[5] = s5 /\ s[6] = s6
         /\ s[7] = s7 /\ s[8] = s8 /\ s[9] = 3 /\ s[10] = 2 /\ s[11] = 1
<1> DEFINE t1 == <<s1, s2>>
           t2 == t1 \o <<s3, s4>>
           t3 == t2 \o <<s5, s6>>
           t4 == t3 \o <<s7, s8>>
           r == <<3, 2, 1>>
<1>1. t1 \in Seq(Nat) /\ Len(t1) = 2 /\ t1[1] = s1 /\ t1[2] = s2
  OBVIOUS
<1> HIDE DEF t1
<1>2. Grows(t1, t2, 2, s3, s4)
  BY <1>1, Appending
<1> HIDE DEF t2
<1>3. Grows(t2, t3, 4, s5, s6)
  <2>1. t2 \in Seq(Nat) /\ Len(t2) = 4
    BY <1>2 DEF Grows
  <2> QED
    BY <2>1, Appending
<1> HIDE DEF t3
<1>4. Grows(t3, t4, 6, s7, s8)
  <2>1. t3 \in Seq(Nat) /\ Len(t3) = 6
    BY <1>3 DEF Grows
  <2> QED
    BY <2>1, Appending
<1>5. s = t4 \o r
  BY DEF t4, t3, t2, t1
<1> HIDE DEF t4, r
<1>6. r \in Seq(Nat) /\ Len(r) = 3 /\ r[1] = 3 /\ r[2] = 2 /\ r[3] = 1
  BY DEF r
<1>7. t4 \in Seq(Nat) /\ Len(t4) = 8
  BY <1>4 DEF Grows
<1>8. /\ s \in Seq(Nat) /\ Len(s) = 11
      /\ \A k \in 1 .. 8 : s[k] = t4[k]
      /\ \A k \in 1 .. 3 : s[8 + k] = r[k]
  <2>1. /\ t4 \o r \in Seq(Nat) /\ Len(t4 \o r) = Len(t4) + Len(r)
        /\ \A k \in 1 .. Len(t4) : (t4 \o r)[k] = t4[k]
        /\ \A k \in 1 .. Len(r) : (t4 \o r)[Len(t4) + k] = r[k]
    BY <1>6, <1>7, Joining, Zenon
  <2>2. Len(t4) + Len(r) = 11
    BY <1>6, <1>7
  <2> QED
    BY <1>5, <1>6, <1>7, <2>1, <2>2, Zenon
<1>9. s[9] = 3 /\ s[10] = 2 /\ s[11] = 1
  <2>1. s[8 + 1] = r[1] /\ s[8 + 2] = r[2] /\ s[8 + 3] = r[3]
    BY <1>8
  <2> QED
    BY <1>6, <2>1
<1> QED
  BY <1>1, <1>2, <1>3, <1>4, <1>8, <1>9 DEF Grows

-----------------------------------------------------------------------------
(* The builder *)

\* What KeyTablesProofs assumes holds of the streams here.
LEMMA TablesHold == TP!TableAssumption /\ TP!GateAssumption
  BY BypassAssumption DEF TP!TableAssumption, TP!Pair, TP!GateAssumption

\* The builder of this module and that of KeyTablesProofs are one.
LEMMA SameBuilder == (Tables!Next => TP!Next) /\ (Tables!Init => TP!Init)
  BY DEF Tables!Next, TP!Next, Tables!Init, TP!Init,
   Tables!Slots, TP!Slots, Tables!Slot, TP!Slot, Tables!Empty, TP!Empty, Tables!Index, TP!Index,
   Tables!BankOf, TP!BankOf, Tables!AddrOf, TP!AddrOf, Tables!Probe, TP!Probe,
   Tables!FirstIn, TP!FirstIn, Tables!Holding, TP!Holding, Tables!FirstFree, TP!FirstFree,
   Tables!Scan, TP!Scan, Tables!FoundAt, TP!FoundAt, Tables!Blank, TP!Blank, Tables!Fails, TP!Fails,
   Tables!TooMany, TP!TooMany, Tables!Begin, TP!Begin, Tables!NextInOrder, TP!NextInOrder,
   Tables!NextBroken, TP!NextBroken, Tables!PutFrom, TP!PutFrom, Tables!Place, TP!Place,
   Tables!Broken, TP!Broken, Tables!Inspect, TP!Inspect, Tables!Repair, TP!Repair,
   Tables!Refuse, TP!Refuse, Tables!Rebuilt, TP!Rebuilt, Tables!Verified, TP!Verified,
   Tables!Verify, TP!Verify, Tables!Emit, TP!Emit, Tables!BankZero, TP!BankZero,
   Tables!Finish, TP!Finish

\* A build that has finished stays as it is.
LEMMA BuiltStays == pc = "built" => ~Build
  BY DEF Build, Tables!Next, Tables!TooMany, Tables!Begin, Tables!Inspect, Tables!Refuse,
     Tables!Verify, Tables!BankZero, Tables!Finish, Tables!Place, Tables!Repair, Tables!Emit

\* While transfers run the tables are those of a build.
THEOREM TablesAreBuilt == Spec => []TP!TableInv
<1>1. Init => TP!Init
  BY SameBuilder DEF Init
<1>2. [Next]_vars => [TP!Next]_(TP!vars)
  <2>1. Run => UNCHANGED rom
    BY DEF Run, Save, Source, SourceBank, Scan, Found, FoundStash, RestoreChannel, Write, Unfix,
       Restore, Return
  <2>2. UNCHANGED buildVars /\ UNCHANGED rom => UNCHANGED TP!vars
    BY DEF buildVars, TP!vars
  <2>3. UNCHANGED vars => UNCHANGED TP!vars
    BY DEF vars, TP!vars
  <2> QED
    BY <2>1, <2>2, <2>3, SameBuilder DEF Next, Build, Transfer, Call
<1>3. TP!Spec => []TP!TableInv
  BY TablesHold, TP!TableInvariant
<1> QED
  BY <1>1, <1>2, <1>3, PTL DEF Spec, TP!Spec

-----------------------------------------------------------------------------
(* The transfer *)

Places == {"caller", "save", "source", "bank", "scan", "found", "restore channel", "write",
           "unfix", "restore", "return"}
RegisterSet == [a : Nat, x : Nat, y : Nat, dbr : Nat, p : Flags, stack : Seq(Nat)]
ChannelState == [fixed : BOOLEAN, mode : Nat, lo : Nat, hi : Nat, bank : Nat]

\* The machine's state has its types.
Typed ==
  /\ ip \in Places /\ entry \in Channels \cup {ByY}
  /\ a \in Nat /\ x \in Nat /\ y \in Nat /\ dbr \in Nat /\ p \in Flags /\ stack \in Seq(Nat)
  /\ dma \in [Channels -> ChannelState]

\* The caller has not transferred yet, or has and got what it wanted.
Waiting ==
  ip = "caller" => \/ started = <<>> /\ stack = <<>>
                   \/ pc = "built" /\ started # <<>> /\ TransferCorrect

\* What the caller had, on the channel it programmed.
chan == called.channel
Bank == called.dma[chan].bank
Start == called.dma[chan].lo + called.dma[chan].hi * Byte

\* The streams that match what it programmed.
Wants == {i \in DOMAIN pairs : Tables!BankOf(i) = Bank /\ Tables!AddrOf(i) = Start}

\* A transfer is under way: the tables are finished, the entry point is of this
\* channel, and nothing else has changed.
Underway ==
  /\ pc = "built" /\ started = <<>>
  /\ called \in [regs : RegisterSet, dma : [Channels -> ChannelState], channel : Channels]
  /\ called.regs.stack = <<3, 2, 1>>
  /\ IF entry = ByY THEN called.regs.y = chan ELSE entry = chan
  /\ \A c \in Channels : (c # chan => dma[c] = called.dma[c]) /\ dma[c].mode = called.dma[c].mode

\* The caller's registers lie on the stack under n bytes.
Saved(n) ==
  /\ Len(stack) = n + 11
  /\ stack[n + 1] = Low(called.regs.y) /\ stack[n + 2] = High(called.regs.y)
  /\ stack[n + 3] = Low(called.regs.x) /\ stack[n + 4] = High(called.regs.x)
  /\ stack[n + 5] = Low(called.regs.a) /\ stack[n + 6] = High(called.regs.a)
  /\ stack[n + 7] = called.regs.dbr /\ stack[n + 8] = Coded(called.regs.p)
  /\ stack[n + 9] = 3 /\ stack[n + 10] = 2 /\ stack[n + 11] = 1

\* How deep they lie at each place of the routine, and where the variant parks
\* its channel.
Stacked ==
  /\ ip \in {"save", "return"} => Registers = called.regs
  /\ ip = "source" => Saved(0)
  /\ ip \in {"bank", "scan", "found"} =>
       IF entry = ByY THEN Saved(2) /\ At(stack, 1) = chan ELSE Saved(0)
  /\ ip \in {"restore channel", "write"} => entry = ByY /\ Saved(5)
  /\ ip = "restore channel" => At(stack, 4) = chan
  /\ ip \in {"unfix", "restore"} => Saved(2)
  /\ entry = ByY /\ ip \in {"source", "bank", "scan", "found", "write", "unfix"} => x = chan

\* Slot n of the walk from the source address.
Walk(n) == (Start + n) % (Byte * Byte)
Reads(s) == rom.low[s] + rom.high[s] * Byte + rom.bank[s] * (Byte * Byte)

\* No slot before the cursor holds the bank.
OnWalk == \E d \in Nat : y = Walk(d) /\ \A e \in 0 .. d - 1 : rom.key[Walk(e)] # Bank

\* One of the streams that match, and where its copy lies.
goal == CHOOSE i \in Wants : TRUE
Dest == pairs[goal].dest

\* How far the translation has come.
Translating ==
  /\ ip \notin {"unfix", "restore", "return"} => dma = called.dma
  /\ ip = "bank" => a = Start /\ y = a
  /\ ip = "scan" => Low(a) = Bank /\ dbr = KeyBank /\ OnWalk
  /\ ip = "found" => y \in Word /\ Reads(y) = Dest
  /\ ip \in {"restore channel", "write"} =>
       stack[3] + stack[2] * Byte + stack[1] * (Byte * Byte) = Dest
  /\ ip \in {"unfix", "restore", "return"} => dma_source(dma[chan]) = Dest
  /\ ip \in {"restore", "return"} => ~dma[chan].fixed

BypassInv ==
  /\ Typed /\ Waiting
  /\ ip # "caller" => Underway /\ Stacked /\ Wants # {} /\ Translating

\* Every wanted stream is met on the walk, and the first slot that holds the
\* bank reads back its destination.
LEMMA WalkEnds ==
  ASSUME TP!TableInv, pc = "built", Wants # {}
  PROVE  /\ Bank \in 0 .. Byte - 1 /\ Start \in Word /\ Dest \in Nat
         /\ \E d \in Nat : /\ rom.key[Walk(d)] = Bank
                           /\ \A e \in 0 .. d - 1 : rom.key[Walk(e)] # Bank
                           /\ Reads(Walk(d)) = Dest
         /\ \A s \in Word : rom.key[s] \in Nat /\ rom.low[s] \in Nat /\ rom.high[s] \in Nat /\ rom.bank[s] \in Nat
         /\ \A n \in Nat : Walk(n) \in Word
<1> DEFINE i == goal
<1>0. i \in Wants
  BY DEF goal
<1> HIDE DEF i
<1>1. i \in DOMAIN pairs /\ Bank = TP!BankOf(i) /\ Start = TP!AddrOf(i) /\ i \in TP!Index
  BY <1>0 DEF Wants, Tables!BankOf, TP!BankOf, Tables!AddrOf, TP!AddrOf, Tables!Slots, TP!Slots, TP!Index
<1>2. /\ pairs \in Inputs /\ rom \in TP!Tables4
  BY DEF TP!TableInv, TP!Types
<1>3. TP!BankOf(i) \in Nat /\ TP!AddrOf(i) \in TP!Slot /\ pairs[i].dest \in Nat
  BY <1>1, <1>2, TablesHold, TP!PairFacts
<1>4. TP!BankOf(i) < Byte
  BY <1>1, <1>2, BypassAssumption DEF TP!BankOf, TP!Slots
<1>5. TP!Slot = Word /\ TP!Slots = Byte * Byte
  BY DEF TP!Slot, TP!Slots, Word
<1>6. \A n : Walk(n) = TP!Probe(TP!AddrOf(i), n)
  BY <1>1, <1>5 DEF Walk, TP!Probe
<1>7. \A s : Reads(s) = TP!AddressAt(s)
  BY <1>5 DEF Reads, TP!AddressAt
<1>8. PICK d \in TP!Slot :
        /\ rom.key[TP!Probe(TP!AddrOf(i), d)] = TP!BankOf(i)
        /\ \A e \in 0 .. d - 1 : rom.key[TP!Probe(TP!AddrOf(i), e)] # TP!BankOf(i)
        /\ TP!AddressAt(TP!Probe(TP!AddrOf(i), d)) = pairs[i].dest
  BY <1>1, TablesHold, TP!FinishedWalk
<1>9. d \in Nat
  BY <1>5 DEF Word
<1>10. \A s \in Word : rom.key[s] \in Nat /\ rom.low[s] \in Nat /\ rom.high[s] \in Nat /\ rom.bank[s] \in Nat
  BY <1>2, <1>5 DEF TP!Tables4
<1>11. ASSUME NEW n \in Nat PROVE Walk(n) \in Word
  <2>1. TP!AddrOf(i) \in Nat
    BY <1>3, <1>5 DEF Word
  <2>2. TP!Probe(TP!AddrOf(i), n) \in TP!Slot
    BY <2>1, TablesHold, TP!ProbeType
  <2> QED
    BY <1>5, <1>6, <2>2
<1>12. Bank \in 0 .. Byte - 1 /\ Start \in Word /\ pairs[i].dest \in Nat
  BY <1>1, <1>3, <1>4, <1>5, BypassAssumption
<1>13. \E n \in Nat : /\ rom.key[Walk(n)] = Bank
                      /\ \A e \in 0 .. n - 1 : rom.key[Walk(e)] # Bank
                      /\ Reads(Walk(n)) = pairs[i].dest
  <2>1. rom.key[Walk(d)] = Bank /\ Reads(Walk(d)) = pairs[i].dest
    BY <1>1, <1>6, <1>7, <1>8, Zenon
  <2>2. \A e \in 0 .. d - 1 : rom.key[Walk(e)] # Bank
    BY <1>1, <1>6, <1>8, Zenon
  <2> QED
    BY <1>9, <2>1, <2>2, Zenon
<1>14. Dest = pairs[i].dest
  BY DEF Dest, i
<1> QED
  BY <1>10, <1>11, <1>12, <1>13, <1>14, Zenon

-----------------------------------------------------------------------------
(* The steps *)

\* What no step of the routine but its return changes.
Quiet ==
  /\ pairs' = pairs /\ pc' = pc /\ rom' = rom
  /\ entry' = entry /\ called' = called /\ started' = started

\* So the caller's wishes stand.
LEMMA WishesStand ==
  ASSUME Quiet
  PROVE  Wants' = Wants /\ chan' = chan /\ Bank' = Bank /\ Start' = Start /\ Dest' = Dest
<1>1. chan' = chan /\ Bank' = Bank /\ Start' = Start
  BY DEF Quiet, chan, Bank, Start
<1>2. Wants' = Wants
  BY <1>1 DEF Quiet, Wants, Tables!BankOf, Tables!AddrOf, Tables!Slots
<1> QED
  BY <1>1, <1>2 DEF Dest, goal, Quiet

\* A step of the routine that touches no other channel keeps the invariant when
\* it keeps its local parts.
LEMMA StepKeeps ==
  ASSUME BypassInv, ip # "caller", ip' # "caller", Quiet,
         dma' \in [Channels -> ChannelState],
         \A c \in Channels : (c # chan => dma'[c] = dma[c]) /\ dma'[c].mode = dma[c].mode,
         Typed', Stacked', Translating'
  PROVE  BypassInv'
<1>1. chan' = chan /\ Wants' = Wants
  BY WishesStand
<1>2. Underway'
  BY <1>1 DEF BypassInv, Underway, Quiet
<1>3. Waiting'
  BY DEF Waiting
<1> QED
  BY <1>1, <1>2, <1>3 DEF BypassInv

\* The channel of the routine is the one the caller programmed.
LEMMA ChannelHere ==
  ASSUME BypassInv, ip \in {"source", "bank", "unfix"}
  PROVE  Channel = chan /\ chan \in Channels
  BY BypassAssumption DEF BypassInv, Underway, Stacked, Channel, chan

\* An 8-bit load leaves a number in the accumulator.
LEMMA SetLowNat == ASSUME NEW w \in Nat, NEW v \in Nat PROVE SetLow(w, v) \in Nat
<1> DEFINE h == High(w)
<1>1. h \in Nat /\ Byte \in Nat
  BY Halves, BypassAssumption
<1>2. SetLow(w, v) = h * Byte + v
  BY DEF SetLow
<1> HIDE DEF h
<1> QED
  BY <1>1, <1>2

\* php phb pha phx phy keep what the caller had.
LEMMA SaveStep ==
  ASSUME BypassInv, Save, UNCHANGED buildVars
  PROVE  BypassInv'
<1>1. /\ Typed /\ Underway /\ Stacked /\ Translating /\ ip = "save"
      /\ Registers = called.regs /\ Quiet /\ dma' = dma /\ ip' = "source" /\ ip' # "caller"
  BY DEF BypassInv, Save, Stacked, Quiet, buildVars
<1>2. /\ a \in Nat /\ x \in Nat /\ y \in Nat /\ dbr \in Nat /\ p \in Flags
      /\ dma \in [Channels -> ChannelState] /\ entry \in Channels \cup {ByY}
  BY <1>1 DEF Typed
<1>3. stack = <<3, 2, 1>> /\ called.regs.y = y /\ called.regs.x = x /\ called.regs.a = a
      /\ called.regs.dbr = dbr /\ called.regs.p = p
  <2>1. /\ Registers.y = y /\ Registers.x = x /\ Registers.a = a
        /\ Registers.dbr = dbr /\ Registers.p = p /\ Registers.stack = stack
    BY DEF Registers
  <2>2. called.regs.stack = <<3, 2, 1>>
    BY <1>1 DEF Underway
  <2> QED
    BY <1>1, <2>1, <2>2, Zenon
<1>4. /\ Low(y) \in Nat /\ High(y) \in Nat /\ Low(x) \in Nat /\ High(x) \in Nat
      /\ Low(a) \in Nat /\ High(a) \in Nat /\ Coded(p) \in Nat
  BY <1>2, Halves, FlagsBack
<1>5. stack' = <<Low(y), High(y)>> \o <<Low(x), High(x)>> \o <<Low(a), High(a)>>
               \o <<dbr, Coded(p)>> \o <<3, 2, 1>>
  BY <1>3 DEF Save, Pushed
<1>6. /\ stack' \in Seq(Nat) /\ Len(stack') = 11
      /\ stack'[1] = Low(y) /\ stack'[2] = High(y) /\ stack'[3] = Low(x) /\ stack'[4] = High(x)
      /\ stack'[5] = Low(a) /\ stack'[6] = High(a) /\ stack'[7] = dbr /\ stack'[8] = Coded(p)
      /\ stack'[9] = 3 /\ stack'[10] = 2 /\ stack'[11] = 1
  BY <1>2, <1>4, <1>5, Saving
<1>7. called' = called /\ x' = (IF entry = ByY THEN y ELSE x) /\ y' = y /\ a' = a /\ dbr' = dbr
      /\ p' = Wide(p) /\ entry' = entry
  BY DEF Save
<1>8. Typed'
  <2>1. p' \in Flags
    BY <1>2, <1>7 DEF Wide, Flags
  <2> QED
    BY <1>1, <1>2, <1>6, <1>7, <2>1 DEF Typed, Places
<1>9. Stacked'
  <2>1. Saved(0)'
    BY <1>3, <1>6, <1>7 DEF Saved
  <2>2. entry' = ByY => x' = chan'
    BY <1>1, <1>3, <1>7 DEF Underway, chan
  <2> QED
    BY <1>1, <2>1, <2>2 DEF Stacked
<1>10. Translating'
  BY <1>1, <1>7 DEF Translating
<1> QED
  BY <1>1, <1>2, <1>8, <1>9, <1>10, StepKeeps

\* The source address is the start of the walk; the variant parks its channel.
LEMMA SourceStep ==
  ASSUME BypassInv, Source, UNCHANGED buildVars
  PROVE  BypassInv'
<1>1. /\ Typed /\ Underway /\ Stacked /\ Translating /\ ip = "source" /\ Saved(0)
      /\ Quiet /\ dma' = dma /\ ip' = "bank" /\ dma = called.dma
      /\ entry' = entry /\ x' = x /\ p' = p /\ called' = called
  BY DEF BypassInv, Source, Stacked, Quiet, buildVars, Translating
<1>2. /\ a \in Nat /\ x \in Nat /\ y \in Nat /\ dbr \in Nat /\ p \in Flags /\ stack \in Seq(Nat)
      /\ dma \in [Channels -> ChannelState] /\ entry \in Channels \cup {ByY}
  BY <1>1 DEF Typed
<1>3. Channel = chan /\ chan \in Channels
  BY <1>1, ChannelHere
<1>4. a' = Start /\ y' = a' /\ a' \in Nat
  <2>1. dma[chan].lo \in Nat /\ dma[chan].hi \in Nat /\ Byte \in Nat
    BY <1>2, <1>3, BypassAssumption DEF ChannelState
  <2>2. a' = dma[chan].lo + dma[chan].hi * Byte /\ y' = a'
    BY <1>3 DEF Source
  <2> QED
    BY <1>1, <2>1, <2>2 DEF Start
<1>5. Start' = Start /\ chan' = chan
  BY <1>1, WishesStand
<1>6. /\ dbr' \in Nat /\ stack' \in Seq(Nat)
      /\ IF entry = ByY THEN Saved(2)' /\ At(stack', 1) = chan ELSE Saved(0)'
  <2>1. CASE entry # ByY
    <3>1. stack' = stack /\ dbr' = dbr
      BY <2>1 DEF Source
    <3> QED
      BY <1>1, <1>2, <2>1, <3>1 DEF Saved
  <2>2. CASE entry = ByY
    <3>1. stack' = <<Low(x), High(x)>> \o stack /\ dbr' = 0
      BY <2>2 DEF Source, Pushed
    <3>2. x = chan /\ Low(x) \in Nat /\ High(x) \in Nat /\ Low(x) + High(x) * Byte = x
      BY <1>1, <1>2, <2>2, Halves DEF Stacked
    <3>3. /\ stack' \in Seq(Nat) /\ Len(stack') = Len(stack) + 2
          /\ stack'[1] = Low(x) /\ stack'[2] = High(x)
          /\ \A k \in 1 .. Len(stack) : stack'[k + 2] = stack[k]
      BY <1>2, <3>1, <3>2, Pushing
    <3>4. Saved(2)'
      BY <1>1, <3>3 DEF Saved
    <3>5. At(stack', 1) = chan
      BY <3>2, <3>3 DEF At
    <3> QED
      BY <2>2, <3>1, <3>3, <3>4, <3>5
  <2> QED
    BY <2>1, <2>2
<1>7. Typed'
  BY <1>1, <1>2, <1>4, <1>6 DEF Typed, Places
<1>8. Stacked'
  BY <1>1, <1>5, <1>6 DEF Stacked, At
<1>9. Translating'
  BY <1>1, <1>4, <1>5 DEF Translating
<1> QED
  BY <1>1, <1>2, <1>7, <1>8, <1>9, StepKeeps

\* The accumulator holds the bank, and the scan starts at the source address.
LEMMA BankStep ==
  ASSUME TP!TableInv, BypassInv, SourceBank, UNCHANGED buildVars
  PROVE  BypassInv'
<1>1. /\ Typed /\ Underway /\ Stacked /\ Translating /\ ip = "bank" /\ pc = "built"
      /\ Quiet /\ dma' = dma /\ ip' = "scan" /\ dma = called.dma /\ Wants # {}
      /\ entry' = entry /\ x' = x /\ y' = y /\ stack' = stack /\ called' = called
      /\ dbr' = KeyBank /\ rom' = rom
  BY DEF BypassInv, SourceBank, Underway, Quiet, buildVars, Translating
<1>2. /\ a \in Nat /\ x \in Nat /\ y \in Nat /\ dbr \in Nat /\ p \in Flags /\ stack \in Seq(Nat)
      /\ dma \in [Channels -> ChannelState] /\ entry \in Channels \cup {ByY}
  BY <1>1 DEF Typed
<1>3. Channel = chan /\ chan \in Channels
  BY <1>1, ChannelHere
<1>4. Bank \in 0 .. Byte - 1 /\ Start \in Word
  BY <1>1, WalkEnds
<1>5. a' \in Nat /\ Low(a') = Bank
  <2>1. a' = SetLow(a, Bank)
    BY <1>1, <1>3 DEF SourceBank, Bank
  <2> QED
    BY <1>2, <1>4, <2>1, LowSet
<1>6. Start' = Start /\ chan' = chan /\ Bank' = Bank
  BY <1>1, WishesStand
<1>7. y = Walk(0)
  <2>1. y = Start
    BY <1>1 DEF Translating
  <2>2. Byte * Byte \in Nat \ {0} /\ Start \in 0 .. Byte * Byte - 1
    BY <1>4, BypassAssumption DEF Word
  <2>3. Start % (Byte * Byte) = Start
    <3> DEFINE M == Byte * Byte
    <3>1. M \in Nat \ {0} /\ Start \in 0 .. M - 1
      BY <2>2
    <3> HIDE DEF M
    <3>2. Start % M = Start
      BY <3>1
    <3> QED
      BY <3>2 DEF M
  <2>4. Start + 0 = Start
    BY <2>2
  <2> QED
    BY <2>1, <2>3, <2>4 DEF Walk
<1>8. OnWalk'
  <2>1. y' = (Start' + 0) % (Byte * Byte)
    BY <1>1, <1>6, <1>7 DEF Walk
  <2>2. 0 \in Nat /\ 0 .. 0 - 1 = {}
    OBVIOUS
  <2> QED
    BY <2>1, <2>2 DEF OnWalk, Walk
<1>9. Typed'
  <2>1. p' \in Flags
    BY <1>2 DEF SourceBank, Narrow, Flags
  <2> QED
    BY <1>1, <1>2, <1>5, <2>1, BypassAssumption DEF Typed, Places
<1>10. Stacked'
  BY <1>1, <1>6 DEF Stacked, Saved, At
<1>11. Translating'
  BY <1>1, <1>5, <1>6, <1>8 DEF Translating
<1> QED
  BY <1>1, <1>2, <1>9, <1>10, <1>11, StepKeeps

\* The scan goes on, or stops where the destination can be read.
LEMMA ScanStep ==
  ASSUME TP!TableInv, BypassInv, Scan, UNCHANGED buildVars
  PROVE  BypassInv'
<1>1. /\ Typed /\ Underway /\ Stacked /\ Translating /\ ip = "scan" /\ pc = "built" /\ Wants # {}
      /\ Quiet /\ dma' = dma /\ ip' # "caller" /\ dma = called.dma /\ ip' \in {"scan", "found"}
      /\ entry' = entry /\ x' = x /\ stack' = stack /\ called' = called /\ a' = a
      /\ dbr' = dbr /\ rom' = rom /\ p' = p
      /\ Low(a) = Bank /\ dbr = KeyBank /\ OnWalk
  BY DEF BypassInv, Scan, Underway, Quiet, buildVars, Translating
<1>2. /\ a \in Nat /\ x \in Nat /\ y \in Nat /\ dbr \in Nat /\ p \in Flags /\ stack \in Seq(Nat)
      /\ dma \in [Channels -> ChannelState] /\ entry \in Channels \cup {ByY}
  BY <1>1 DEF Typed
<1>3. Start' = Start /\ chan' = chan /\ Bank' = Bank /\ Dest' = Dest
  BY <1>1, WishesStand
<1>4. PICK d \in Nat : y = Walk(d) /\ \A e \in 0 .. d - 1 : rom.key[Walk(e)] # Bank
  BY <1>1 DEF OnWalk
<1>5. PICK n \in Nat : /\ rom.key[Walk(n)] = Bank
                       /\ \A e \in 0 .. n - 1 : rom.key[Walk(e)] # Bank
                       /\ Reads(Walk(n)) = Dest
  BY <1>1, WalkEnds
<1>6. Walk(d) \in Word /\ Walk(d + 1) \in Word
  BY <1>1, WalkEnds
<1>7. Key(y) = rom.key[y]
  BY <1>1 DEF Key
<1>8. CASE rom.key[y] = Bank
  <2>1. ip' = "found" /\ y' = y
    BY <1>1, <1>7, <1>8 DEF Scan
  <2>2. d = n
    <3>1. ~(d < n) /\ ~(n < d)
      BY <1>4, <1>5, <1>8
    <3> QED
      BY <3>1
  <2>3. y \in Word /\ Reads(y) = Dest
    BY <1>4, <1>5, <1>6, <2>2
  <2>4. Translating'
    BY <1>1, <1>3, <2>1, <2>3 DEF Translating, Reads
  <2>5. Typed'
    BY <1>1, <1>2, <2>1 DEF Typed, Places
  <2>6. Stacked'
    BY <1>1, <1>3, <2>1 DEF Stacked, Saved, At
  <2> QED
    BY <1>1, <1>2, <2>4, <2>5, <2>6, StepKeeps
<1>9. CASE rom.key[y] # Bank
  <2>1. ip' = "scan" /\ y' = (y + 1) % (Byte * Byte)
    BY <1>1, <1>7, <1>9 DEF Scan
  <2>2. y' = Walk(d + 1)
    <3> DEFINE M == Byte * Byte
    <3>1. M \in Nat \ {0} /\ Start \in Nat
      BY <1>1, WalkEnds, BypassAssumption DEF Word
    <3>2. y' = (((Start + d) % M) + 1) % M
      BY <1>4, <2>1 DEF Walk
    <3> HIDE DEF M
    <3>3. (((Start + d) % M) + 1) % M = ((Start + d) + 1) % M
      <4> DEFINE k == Start + d
      <4>1. k \in Nat /\ 1 \in Nat
        BY <3>1
      <4> HIDE DEF k
      <4>2. ((k % M) + 1) % M = (k + 1) % M
        BY <3>1, <4>1, ModAdd, Zenon
      <4> QED
        BY <4>2 DEF k
    <3>4. (Start + d) + 1 = Start + (d + 1)
      BY <3>1
    <3> QED
      BY <3>2, <3>3, <3>4 DEF Walk, M
  <2>3. \A e \in 0 .. (d + 1) - 1 : rom.key[Walk(e)] # Bank
    <3>1. ASSUME NEW e \in 0 .. (d + 1) - 1 PROVE rom.key[Walk(e)] # Bank
      <4>1. e \in 0 .. d - 1 \/ e = d
        OBVIOUS
      <4> QED
        BY <1>4, <1>9, <4>1
    <3> QED
      BY <3>1
  <2>4. OnWalk'
    <3>1. \A e \in 0 .. (d + 1) - 1 : rom'.key[(Start' + e) % (Byte * Byte)] # Bank'
      BY <1>1, <1>3, <2>3 DEF Walk
    <3>2. y' = (Start' + (d + 1)) % (Byte * Byte) /\ d + 1 \in Nat
      BY <1>3, <2>2 DEF Walk
    <3> QED
      BY <3>1, <3>2 DEF OnWalk, Walk
  <2>5. Translating'
    BY <1>1, <1>3, <2>1, <2>4 DEF Translating
  <2>6. y' \in Nat
    BY <1>6, <2>2, BypassAssumption DEF Word
  <2>7. Typed'
    BY <1>1, <1>2, <2>1, <2>6 DEF Typed, Places
  <2>8. Stacked'
    BY <1>1, <1>3, <2>1 DEF Stacked, Saved, At
  <2> QED
    BY <1>1, <1>2, <2>5, <2>7, <2>8, StepKeeps
<1> QED
  BY <1>8, <1>9

\* A routine of its own channel copies the three bytes and keeps the slot.
LEMMA FoundStep ==
  ASSUME TP!TableInv, BypassInv, Found, UNCHANGED buildVars
  PROVE  BypassInv'
<1>1. /\ Typed /\ Underway /\ Stacked /\ Translating /\ ip = "found" /\ pc = "built" /\ Wants # {}
      /\ Quiet /\ ip' = "unfix" /\ dma = called.dma /\ entry # ByY
      /\ entry' = entry /\ called' = called /\ y' = y /\ x' = y
      /\ dbr' = dbr /\ rom' = rom /\ p' = p
      /\ y \in Word /\ Reads(y) = Dest /\ Saved(0)
      /\ stack' = <<Low(y), High(y)>> \o stack
      /\ a' = SetLow(a, rom.bank[y])
  BY DEF BypassInv, Found, Underway, Quiet, buildVars, Translating, Stacked, Pushed
<1>2. /\ a \in Nat /\ x \in Nat /\ y \in Nat /\ dbr \in Nat /\ p \in Flags /\ stack \in Seq(Nat)
      /\ dma \in [Channels -> ChannelState] /\ entry \in Channels \cup {ByY}
  BY <1>1 DEF Typed
<1>3. Start' = Start /\ chan' = chan /\ Bank' = Bank /\ Dest' = Dest
  BY <1>1, WishesStand
<1>4. entry = chan /\ chan \in Channels
  BY <1>1 DEF Underway, chan
<1>5. rom.low[y] \in Nat /\ rom.high[y] \in Nat /\ rom.bank[y] \in Nat
  BY <1>1, WalkEnds
<1>6. dma' = [dma EXCEPT ![chan] = [@ EXCEPT !.lo = rom.low[y], !.hi = rom.high[y],
                                             !.bank = rom.bank[y]]]
  BY <1>4 DEF Found
<1>7. /\ dma' \in [Channels -> ChannelState]
      /\ \A c \in Channels : (c # chan => dma'[c] = dma[c]) /\ dma'[c].mode = dma[c].mode
      /\ dma'[chan].lo = rom.low[y] /\ dma'[chan].hi = rom.high[y] /\ dma'[chan].bank = rom.bank[y]
  BY <1>2, <1>4, <1>5, <1>6 DEF ChannelState
<1>8. dma_source(dma'[chan]) = Dest
  <2>1. rom.bank[y] * Byte * Byte = rom.bank[y] * (Byte * Byte)
    BY <1>5, BypassAssumption
  <2> QED
    BY <1>1, <1>7, <2>1 DEF dma_source, Reads
<1>9. Low(y) \in Nat /\ High(y) \in Nat /\ a' \in Nat
  <2>1. y \in Nat /\ a' = SetLow(a, rom.bank[y])
    BY <1>1, <1>2
  <2>2. Low(y) \in Nat /\ High(y) \in Nat
    BY <2>1, Halves
  <2> QED
    BY <1>2, <1>5, <2>1, <2>2, SetLowNat
<1>10. /\ stack' \in Seq(Nat) /\ Len(stack') = Len(stack) + 2
       /\ \A k \in 1 .. Len(stack) : stack'[k + 2] = stack[k]
  BY <1>1, <1>2, <1>9, Pushing
<1>11. Typed'
  BY <1>1, <1>2, <1>7, <1>9, <1>10 DEF Typed, Places
<1>12. Stacked'
  <2>1. Saved(0) /\ called' = called
    BY <1>1
  <2>2. Saved(2)'
    BY <1>10, <2>1 DEF Saved
  <2> QED
    BY <1>1, <2>2 DEF Stacked
<1>13. Translating'
  BY <1>1, <1>3, <1>8 DEF Translating, dma_source
<1> QED
  BY <1>1, <1>7, <1>11, <1>12, <1>13, StepKeeps

\* The shared routine puts the three bytes on the stack, above its channel.
LEMMA StashStep ==
  ASSUME TP!TableInv, BypassInv, FoundStash, UNCHANGED buildVars
  PROVE  BypassInv'
<1>1. /\ Typed /\ Underway /\ Stacked /\ Translating /\ ip = "found" /\ pc = "built" /\ Wants # {}
      /\ Quiet /\ ip' = "restore channel" /\ dma = called.dma /\ entry = ByY
      /\ entry' = entry /\ called' = called /\ y' = y /\ x' = y
      /\ dbr' = dbr /\ rom' = rom /\ p' = p /\ dma' = dma
      /\ y \in Word /\ Reads(y) = Dest /\ Saved(2) /\ At(stack, 1) = chan
      /\ stack' = <<rom.bank[y], rom.high[y], rom.low[y]>> \o stack
      /\ a' = SetLow(a, rom.bank[y])
  BY DEF BypassInv, FoundStash, Underway, Quiet, buildVars, Translating, Stacked
<1>2. /\ a \in Nat /\ x \in Nat /\ y \in Nat /\ dbr \in Nat /\ p \in Flags /\ stack \in Seq(Nat)
      /\ dma \in [Channels -> ChannelState] /\ entry \in Channels \cup {ByY}
  BY <1>1 DEF Typed
<1>3. Start' = Start /\ chan' = chan /\ Bank' = Bank /\ Dest' = Dest
  BY <1>1, WishesStand
<1>4. rom.low[y] \in Nat /\ rom.high[y] \in Nat /\ rom.bank[y] \in Nat
  BY <1>1, WalkEnds
<1>0. Saved(2) /\ called' = called /\ At(stack, 1) = chan
  BY <1>1
<1>5. a' \in Nat
  BY <1>1, <1>2, <1>4, SetLowNat
<1>6. /\ stack' \in Seq(Nat) /\ Len(stack') = 16
      /\ stack'[1] = rom.bank[y] /\ stack'[2] = rom.high[y] /\ stack'[3] = rom.low[y]
      /\ \A k \in 1 .. 13 : stack'[3 + k] = stack[k]
  <2> DEFINE t == <<rom.bank[y], rom.high[y], rom.low[y]>>
  <2>1. t \in Seq(Nat) /\ Len(t) = 3 /\ t[1] = rom.bank[y] /\ t[2] = rom.high[y] /\ t[3] = rom.low[y]
    BY <1>4
  <2>2. stack' = t \o stack
    BY <1>1
  <2> HIDE DEF t
  <2>3. Len(stack) = 13
    BY <1>0 DEF Saved
  <2>4. /\ t \o stack \in Seq(Nat) /\ Len(t \o stack) = Len(t) + Len(stack)
        /\ \A k \in 1 .. Len(t) : (t \o stack)[k] = t[k]
        /\ \A k \in 1 .. Len(stack) : (t \o stack)[Len(t) + k] = stack[k]
    BY <1>2, <2>1, Joining, Zenon
  <2>5. Len(t) + Len(stack) = 16 /\ 1 \in 1 .. Len(t) /\ 2 \in 1 .. Len(t) /\ 3 \in 1 .. Len(t)
    BY <2>1, <2>3
  <2> QED
    BY <2>1, <2>2, <2>3, <2>4, <2>5, Zenon
<1>7. Typed'
  BY <1>1, <1>2, <1>5, <1>6 DEF Typed, Places
<1>8. Stacked'
  <2>1. Saved(5)'
    BY <1>6, <1>0 DEF Saved
  <2>2. At(stack', 4) = chan
    <3>1. stack'[4] = stack[1] /\ stack'[5] = stack[2]
      <4>1. stack'[3 + 1] = stack[1] /\ stack'[3 + 2] = stack[2]
        BY <1>6
      <4> QED
        BY <4>1
    <3> QED
      BY <1>0, <3>1 DEF At
  <2> QED
    BY <1>1, <1>3, <2>1, <2>2 DEF Stacked, At
<1>9. Translating'
  BY <1>1, <1>3, <1>6 DEF Translating, Reads
<1> QED
  BY <1>1, <1>2, <1>7, <1>8, <1>9, StepKeeps

\* X is the channel again.
LEMMA ChannelStep ==
  ASSUME BypassInv, RestoreChannel, UNCHANGED buildVars
  PROVE  BypassInv'
<1>1. /\ Typed /\ Underway /\ Stacked /\ Translating /\ ip = "restore channel"
      /\ Quiet /\ ip' = "write" /\ dma = called.dma /\ entry = ByY
      /\ entry' = entry /\ called' = called /\ y' = y /\ x' = chan /\ a' = chan
      /\ dbr' = 0 /\ rom' = rom /\ p' = p /\ dma' = dma /\ stack' = stack
  BY DEF BypassInv, RestoreChannel, Underway, Quiet, buildVars, Translating, Stacked
<1>2. /\ y \in Nat /\ p \in Flags /\ stack \in Seq(Nat)
      /\ dma \in [Channels -> ChannelState] /\ entry \in Channels \cup {ByY}
  BY <1>1 DEF Typed
<1>3. chan' = chan /\ Dest' = Dest /\ chan \in Nat
  <2>1. chan \in Channels
    BY <1>1 DEF Underway, chan
  <2> QED
    BY <1>1, <2>1, WishesStand, BypassAssumption
<1>4. Typed'
  BY <1>1, <1>2, <1>3 DEF Typed, Places
<1>5. Stacked'
  BY <1>1, <1>3 DEF Stacked, Saved
<1>6. Translating'
  BY <1>1, <1>3 DEF Translating
<1> QED
  BY <1>1, <1>2, <1>4, <1>5, <1>6, StepKeeps

\* The three bytes become the source of that channel.
LEMMA WriteStep ==
  ASSUME BypassInv, Write, UNCHANGED buildVars
  PROVE  BypassInv'
<1>1. /\ Typed /\ Underway /\ Stacked /\ Translating /\ ip = "write"
      /\ Quiet /\ ip' = "unfix" /\ dma = called.dma /\ entry = ByY /\ x = chan /\ Saved(5)
      /\ entry' = entry /\ called' = called /\ y' = y /\ x' = x
      /\ dbr' = dbr /\ rom' = rom /\ p' = p /\ stack' = Drop(stack, 3)
      /\ a' = SetLow(a, stack[3])
      /\ stack[3] + stack[2] * Byte + stack[1] * (Byte * Byte) = Dest
  BY DEF BypassInv, Write, Underway, Quiet, buildVars, Translating, Stacked
<1>2. /\ a \in Nat /\ x \in Nat /\ y \in Nat /\ dbr \in Nat /\ p \in Flags /\ stack \in Seq(Nat)
      /\ dma \in [Channels -> ChannelState] /\ entry \in Channels \cup {ByY}
  BY <1>1 DEF Typed
<1>3. chan' = chan /\ Dest' = Dest /\ chan \in Channels
  BY <1>1, WishesStand DEF Underway, chan
<1>0. Saved(5) /\ called' = called
  BY <1>1
<1>4. Len(stack) = 16 /\ stack[1] \in Nat /\ stack[2] \in Nat /\ stack[3] \in Nat
  <2>1. Len(stack) = 16
    BY <1>2, <1>0 DEF Saved
  <2>2. \A k \in 1 .. Len(stack) : stack[k] \in Nat
    BY <1>2
  <2>3. 1 \in 1 .. 16 /\ 2 \in 1 .. 16 /\ 3 \in 1 .. 16
    OBVIOUS
  <2> QED
    BY <2>1, <2>2, <2>3, Zenon
<1>5. /\ stack' \in Seq(Nat) /\ Len(stack') = 13
      /\ \A k \in 1 .. 13 : stack'[k] = stack[k + 3]
  <2>1. stack' = Drop(stack, 3) /\ 3 \in Nat /\ 3 <= Len(stack) /\ Len(stack) - 3 = 13
    BY <1>1, <1>4
  <2>2. /\ Drop(stack, 3) \in Seq(Nat) /\ Len(Drop(stack, 3)) = Len(stack) - 3
        /\ \A k \in 1 .. Len(stack) - 3 : Drop(stack, 3)[k] = stack[k + 3]
    BY <1>2, <2>1, Dropping, Zenon
  <2> QED
    BY <2>1, <2>2, Zenon
<1>6. dma' = [c \in Channels |->
         IF c = chan THEN [dma[c] EXCEPT !.bank = stack[1], !.hi = stack[2], !.lo = stack[3]]
         ELSE dma[c]]
  BY <1>1 DEF Write
<1>7. /\ dma' \in [Channels -> ChannelState]
      /\ \A c \in Channels : (c # chan => dma'[c] = dma[c]) /\ dma'[c].mode = dma[c].mode
      /\ dma'[chan].lo = stack[3] /\ dma'[chan].hi = stack[2] /\ dma'[chan].bank = stack[1]
  BY <1>2, <1>3, <1>4, <1>6 DEF ChannelState
<1>8. dma_source(dma'[chan]) = Dest
  <2>1. stack[1] * Byte * Byte = stack[1] * (Byte * Byte)
    BY <1>4, BypassAssumption
  <2> QED
    BY <1>1, <1>7, <2>1 DEF dma_source
<1>9. Typed'
  BY <1>1, <1>2, <1>4, <1>5, <1>7, SetLowNat DEF Typed, Places
<1>10. Stacked'
  <2>1. Saved(2)'
    BY <1>5, <1>0 DEF Saved
  <2> QED
    BY <1>1, <1>3, <2>1 DEF Stacked
<1>11. Translating'
  BY <1>1, <1>3, <1>8 DEF Translating, dma_source
<1> QED
  BY <1>1, <1>7, <1>9, <1>10, <1>11, StepKeeps

\* The fixed-address bit of that channel goes, and nothing else.
LEMMA UnfixStep ==
  ASSUME BypassInv, Unfix, UNCHANGED buildVars
  PROVE  BypassInv'
<1>1. /\ Typed /\ Underway /\ Stacked /\ Translating /\ ip = "unfix" /\ Saved(2)
      /\ Quiet /\ ip' = "restore" /\ dma_source(dma[chan]) = Dest
      /\ entry' = entry /\ called' = called /\ y' = y /\ x' = x
      /\ dbr' = dbr /\ rom' = rom /\ p' = p /\ stack' = stack
  BY DEF BypassInv, Unfix, Underway, Quiet, buildVars, Translating, Stacked
<1>2. /\ a \in Nat /\ x \in Nat /\ y \in Nat /\ dbr \in Nat /\ p \in Flags /\ stack \in Seq(Nat)
      /\ dma \in [Channels -> ChannelState] /\ entry \in Channels \cup {ByY}
  BY <1>1 DEF Typed
<1>3. Channel = chan /\ chan \in Channels /\ chan' = chan /\ Dest' = Dest
  BY <1>1, ChannelHere, WishesStand
<1>4. /\ dma' = [c \in Channels |-> IF c = chan THEN [dma[c] EXCEPT !.fixed = FALSE] ELSE dma[c]]
      /\ a' = SetLow(a, dma[chan].mode) /\ dma[chan].mode \in Nat
  BY <1>2, <1>3 DEF Unfix, ChannelState
<1>5. /\ dma' \in [Channels -> ChannelState]
      /\ \A c \in Channels : (c # chan => dma'[c] = dma[c]) /\ dma'[c].mode = dma[c].mode
      /\ dma'[chan].lo = dma[chan].lo /\ dma'[chan].hi = dma[chan].hi
      /\ dma'[chan].bank = dma[chan].bank /\ ~dma'[chan].fixed
  BY <1>2, <1>3, <1>4 DEF ChannelState
<1>6. a' \in Nat
  BY <1>2, <1>4, SetLowNat
<1>7. Typed'
  BY <1>1, <1>2, <1>5, <1>6 DEF Typed, Places
<1>8. Stacked'
  BY <1>1 DEF Stacked, Saved
<1>9. Translating'
  BY <1>1, <1>3, <1>5 DEF Translating, dma_source
<1> QED
  BY <1>1, <1>5, <1>7, <1>8, <1>9, StepKeeps

\* Everything comes back from the stack.
LEMMA RestoreStep ==
  ASSUME BypassInv, Restore, UNCHANGED buildVars
  PROVE  BypassInv'
<1>1. /\ Typed /\ Underway /\ Stacked /\ Translating /\ ip = "restore"
      /\ Quiet /\ ip' = "return" /\ dma_source(dma[chan]) = Dest /\ ~dma[chan].fixed
      /\ entry' = entry /\ dma' = dma
  BY DEF BypassInv, Restore, Underway, Quiet, buildVars, Translating, Stacked
<1>2. stack \in Seq(Nat) /\ dma \in [Channels -> ChannelState] /\ entry \in Channels \cup {ByY}
  BY <1>1 DEF Typed
<1>3. Saved(2) /\ called' = called
  BY <1>1 DEF Stacked, Quiet
<1>4. /\ called.regs.a \in Nat /\ called.regs.x \in Nat /\ called.regs.y \in Nat
      /\ called.regs.dbr \in Nat /\ called.regs.p \in Flags
      /\ called.regs = [a |-> called.regs.a, x |-> called.regs.x, y |-> called.regs.y,
                        dbr |-> called.regs.dbr, p |-> called.regs.p, stack |-> <<3, 2, 1>>]
  BY <1>1 DEF Underway, RegisterSet
<1> DEFINE s == Drop(stack, 2)
<1>5. /\ s \in Seq(Nat) /\ Len(s) = 11 /\ \A k \in 1 .. 11 : s[k] = stack[k + 2]
  <2>1. 2 \in Nat /\ 2 <= Len(stack) /\ Len(stack) - 2 = 11
    BY <1>3 DEF Saved
  <2>2. /\ s \in Seq(Nat) /\ Len(s) = Len(stack) - 2
        /\ \A k \in 1 .. Len(stack) - 2 : s[k] = stack[k + 2]
    BY <1>2, <2>1, Dropping, Zenon
  <2> QED
    BY <2>1, <2>2, Zenon
<1>6. /\ y' = At(s, 1) /\ x' = At(s, 3) /\ a' = At(s, 5)
      /\ dbr' = s[7] /\ p' = Decoded(s[8]) /\ stack' = Drop(s, 8)
  BY DEF Restore, Pulls
<1> HIDE DEF s
<1>7. /\ s[1] = Low(called.regs.y) /\ s[2] = High(called.regs.y)
      /\ s[3] = Low(called.regs.x) /\ s[4] = High(called.regs.x)
      /\ s[5] = Low(called.regs.a) /\ s[6] = High(called.regs.a)
      /\ s[7] = called.regs.dbr /\ s[8] = Coded(called.regs.p)
      /\ s[9] = 3 /\ s[10] = 2 /\ s[11] = 1
  BY <1>3, <1>5 DEF Saved
<1>8. y' = called.regs.y /\ x' = called.regs.x /\ a' = called.regs.a
  <2>1. /\ Low(called.regs.y) + High(called.regs.y) * Byte = called.regs.y
        /\ Low(called.regs.x) + High(called.regs.x) * Byte = called.regs.x
        /\ Low(called.regs.a) + High(called.regs.a) * Byte = called.regs.a
    BY <1>4, Halves
  <2> QED
    BY <1>6, <1>7, <2>1 DEF At
<1>9. dbr' = called.regs.dbr /\ p' = called.regs.p
  BY <1>4, <1>6, <1>7, FlagsBack
<1>10. stack' = <<3, 2, 1>> /\ stack' \in Seq(Nat)
  <2>1. 8 \in Nat /\ 8 <= Len(s) /\ Len(s) - 8 = 3
    BY <1>5
  <2>2. /\ Drop(s, 8) \in Seq(Nat) /\ Len(Drop(s, 8)) = Len(s) - 8
        /\ \A k \in 1 .. Len(s) - 8 : Drop(s, 8)[k] = s[k + 8]
    BY <1>5, <2>1, Dropping, Zenon
  <2>3. Drop(s, 8)[1] = 3 /\ Drop(s, 8)[2] = 2 /\ Drop(s, 8)[3] = 1 /\ Len(Drop(s, 8)) = 3
    <3> DEFINE r == Drop(s, 8)
    <3>1. Len(r) = 3 /\ \A k \in 1 .. 3 : r[k] = s[k + 8]
      BY <2>1, <2>2, Zenon
    <3> HIDE DEF r
    <3>2. r[1] = s[1 + 8] /\ r[2] = s[2 + 8] /\ r[3] = s[3 + 8]
      BY <3>1
    <3>3. s[1 + 8] = 3 /\ s[2 + 8] = 2 /\ s[3 + 8] = 1
      BY <1>7
    <3> QED
      BY <3>1, <3>2, <3>3 DEF r
  <2> QED
    BY <1>6, <2>2, <2>3, Three
<1>11. Registers' = called'.regs
  BY <1>3, <1>4, <1>8, <1>9, <1>10 DEF Registers
<1>12. Typed'
  BY <1>1, <1>2, <1>4, <1>8, <1>9, <1>10 DEF Typed, Places
<1>13. Stacked'
  BY <1>1, <1>11 DEF Stacked
<1>14. Translating'
  <2>1. chan' = chan /\ Dest' = Dest
    BY <1>1, WishesStand
  <2> QED
    BY <1>1, <2>1 DEF Translating, dma_source
<1> QED
  BY <1>1, <1>2, <1>12, <1>13, <1>14, StepKeeps

\* The routine returns where it was called from, and the transfer starts.
LEMMA ReturnStep ==
  ASSUME BypassInv, Return, UNCHANGED buildVars
  PROVE  BypassInv'
<1>1. /\ Typed /\ Underway /\ Stacked /\ Translating /\ ip = "return" /\ Wants # {}
      /\ dma_source(dma[chan]) = Dest /\ ~dma[chan].fixed /\ Registers = called.regs
      /\ started' = <<chan, dma[chan]>> /\ stack' = Drop(stack, 3)
      /\ called' = called /\ dma' = dma /\ pc' = pc /\ pairs' = pairs
      /\ a' = a /\ x' = x /\ y' = y /\ dbr' = dbr /\ p' = p /\ entry' = entry
  BY DEF BypassInv, Return, buildVars, Translating, Stacked, chan
<1>2. stack = <<3, 2, 1>> /\ stack \in Seq(Nat)
  <2>1. Registers.stack = stack
    BY DEF Registers
  <2>2. called.regs.stack = <<3, 2, 1>>
    BY <1>1 DEF Underway
  <2> QED
    BY <1>1, <2>1, <2>2 DEF Typed
<1>3. SubSeq(stack, 1, 3) = <<3, 2, 1>>
  <2>1. Len(stack) = 3 /\ stack[1] = 3 /\ stack[2] = 2 /\ stack[3] = 1
    BY <1>2
  <2> QED
    BY <1>2, <2>1, Three
<1>4. ip' = "caller"
  BY <1>3 DEF Return
<1>5. stack' \in Seq(Nat)
  <2>1. 3 \in Nat /\ 3 <= Len(stack)
    BY <1>2
  <2> QED
    BY <1>1, <1>2, <2>1, Dropping, Zenon
<1>6. Typed'
  BY <1>1, <1>4, <1>5 DEF Typed, Places
<1>7. TransferCorrect'
  <2>1. goal \in Wants
    BY <1>1 DEF goal
  <2>2. /\ goal \in DOMAIN pairs /\ Tables!BankOf(goal) = called.dma[chan].bank
        /\ Tables!AddrOf(goal) = called.dma[chan].lo + called.dma[chan].hi * Byte
    BY <2>1 DEF Wants, Bank, Start
  <2>3. dma[chan].mode = called.dma[chan].mode
    BY <1>1 DEF Underway, chan
  <2>4. dma_source(started'[2]) = pairs[goal].dest /\ ~started'[2].fixed
        /\ started'[2].mode = called.dma[chan].mode
    BY <1>1, <2>3 DEF Dest
  <2> QED
    BY <1>1, <2>2, <2>4 DEF TransferCorrect, walk, dma_source, chan, Tables!BankOf,
       Tables!AddrOf, Tables!Slots
<1>8. Waiting'
  <2>1. started' # <<>>
    BY <1>1
  <2> QED
    BY <1>1, <1>7, <2>1 DEF Waiting, Underway
<1> QED
  BY <1>4, <1>6, <1>8 DEF BypassInv

\* The engine programs a channel and arms it.
LEMMA TransferStep ==
  ASSUME TP!TableInv, BypassInv,
         NEW i \in DOMAIN pairs, NEW e \in Channels \cup {ByY}, NEW c \in Channels, NEW m \in Modes,
         Transfer(i, e, c, m)
  PROVE  BypassInv'
<1> DEFINE lo == Low(Tables!AddrOf(i))
           hi == High(Tables!AddrOf(i))
           state == [fixed |-> TRUE, mode |-> m, lo |-> lo, hi |-> hi, bank |-> Tables!BankOf(i)]
<1>1. /\ Typed /\ pc = "built" /\ started = <<>> /\ ip = "caller" /\ stack = <<>>
      /\ pc' = pc /\ pairs' = pairs
      /\ e = ByY => y = c
      /\ e # ByY => e = c
      /\ dma' = [dma EXCEPT ![c] = state] /\ entry' = e /\ ip' = "save"
      /\ stack' = <<3, 2, 1>> \o stack
      /\ called' = [regs |-> [Registers EXCEPT !.stack = stack'], dma |-> dma', channel |-> c]
      /\ started' = <<>> /\ a' = a /\ x' = x /\ y' = y /\ dbr' = dbr /\ p' = p
  BY DEF BypassInv, Waiting, Transfer, Call, buildVars
<1>2. /\ a \in Nat /\ x \in Nat /\ y \in Nat /\ dbr \in Nat /\ p \in Flags
      /\ dma \in [Channels -> ChannelState]
  BY <1>1 DEF Typed
<1>3. stack' = <<3, 2, 1>> /\ stack' \in Seq(Nat)
  BY <1>1
<1>4. Tables!AddrOf(i) \in Nat /\ Tables!BankOf(i) \in Nat
  <2>1. pairs \in Inputs /\ i \in TP!Index
    BY DEF TP!TableInv, TP!Types, TP!Index
  <2>2. TP!BankOf(i) \in Nat /\ TP!AddrOf(i) \in TP!Slot
    BY <2>1, TablesHold, TP!PairFacts
  <2>3. TP!BankOf(i) = Tables!BankOf(i) /\ TP!AddrOf(i) = Tables!AddrOf(i)
    BY DEF TP!BankOf, TP!AddrOf, Tables!BankOf, Tables!AddrOf, TP!Slots, Tables!Slots
  <2> QED
    BY <2>2, <2>3, BypassAssumption DEF TP!Slot, TP!Slots
<1>5. lo \in Nat /\ hi \in Nat /\ lo + hi * Byte = Tables!AddrOf(i) /\ m \in Nat
  BY <1>4, Halves, BypassAssumption
<1> HIDE DEF lo, hi
<1>6. state \in ChannelState
  BY <1>4, <1>5 DEF ChannelState
<1>7. dma' \in [Channels -> ChannelState] /\ dma'[c] = state
  BY <1>1, <1>2, <1>6
<1>8. /\ called'.channel = c /\ called'.dma = dma' /\ called'.regs = Registers'
      /\ Registers' \in RegisterSet /\ Registers'.stack = <<3, 2, 1>> /\ Registers'.y = y
  BY <1>1, <1>2, <1>3 DEF Registers, RegisterSet
<1>9. Typed'
  BY <1>1, <1>2, <1>3, <1>7 DEF Typed, Places
<1>10. Underway'
  <2>1. called' \in [regs : RegisterSet, dma : [Channels -> ChannelState], channel : Channels]
    <3>1. called' = [regs |-> called'.regs, dma |-> called'.dma, channel |-> called'.channel]
      BY <1>1
    <3> QED
      BY <1>7, <1>8, <3>1
  <2>2. IF entry' = ByY THEN called'.regs.y = c ELSE entry' = c
    BY <1>1, <1>8
  <2> QED
    BY <1>1, <1>8, <2>1, <2>2 DEF Underway, chan
<1>11. Stacked'
  BY <1>1, <1>8 DEF Stacked
<1>12. i \in Wants'
  <2>1. Bank' = Tables!BankOf(i) /\ Start' = Tables!AddrOf(i)
    BY <1>5, <1>7, <1>8 DEF Bank, Start, chan
  <2> QED
    BY <1>1, <2>1 DEF Wants, Tables!BankOf, Tables!AddrOf, Tables!Slots
<1>13. Translating'
  BY <1>1, <1>8 DEF Translating
<1>14. Waiting'
  BY <1>1 DEF Waiting
<1> QED
  BY <1>9, <1>10, <1>11, <1>12, <1>13, <1>14 DEF BypassInv

\* The builder moves before any transfer.
LEMMA BuildStep ==
  ASSUME BypassInv, Build
  PROVE  BypassInv'
<1>1. pc # "built"
  BY BuiltStays
<1>2. ip = "caller" /\ started = <<>> /\ stack = <<>> /\ UNCHANGED cpuVars
  BY <1>1 DEF BypassInv, Underway, Waiting, Build
<1> QED
  BY <1>2 DEF BypassInv, Typed, Waiting, cpuVars

-----------------------------------------------------------------------------
(* The invariant and what it gives *)

\* The invariant at power-on, with any caller.
LEMMA BypassInit == Init => BypassInv
<1> SUFFICES ASSUME Init PROVE BypassInv
  OBVIOUS
<1>1. PICK r \in Callers : a = r.a /\ x = r.x /\ y = r.y /\ dbr = r.dbr /\ p = r.p
  BY DEF Init
<1>2. a \in Nat /\ x \in Nat /\ y \in Nat /\ dbr \in Nat /\ p \in Flags
  BY <1>1, BypassAssumption
<1>3. dma \in [Channels -> ChannelState]
  BY DEF Init, Idle, ChannelState
<1>4. stack = <<>> /\ stack \in Seq(Nat) /\ started = <<>> /\ ip = "caller"
      /\ entry \in Channels \cup {ByY}
  BY DEF Init
<1> QED
  BY <1>2, <1>3, <1>4 DEF BypassInv, Typed, Waiting, Places

\* Every step keeps it, while the tables are those of a build.
LEMMA BypassNext == TP!TableInv /\ BypassInv /\ [Next]_vars => BypassInv'
<1> SUFFICES ASSUME TP!TableInv, BypassInv, [Next]_vars PROVE BypassInv'
  OBVIOUS
<1>1. CASE Build
  BY <1>1, BuildStep
<1>2. CASE \E i \in DOMAIN pairs, e \in Channels \cup {ByY}, c \in Channels, m \in Modes :
             Transfer(i, e, c, m)
  BY <1>2, TransferStep
<1>3. CASE Run /\ UNCHANGED buildVars
  BY <1>3, SaveStep, SourceStep, BankStep, ScanStep, FoundStep, StashStep, ChannelStep,
     WriteStep, UnfixStep, RestoreStep, ReturnStep DEF Run
<1>4. CASE UNCHANGED vars
  <2>1. Underway' = Underway /\ Typed' = Typed
    BY <1>4 DEF vars, Underway, Typed, chan
  <2>2. Waiting' = Waiting /\ Stacked' = Stacked
    BY <1>4 DEF vars, Waiting, TransferCorrect, walk, dma_source, Tables!BankOf, Tables!AddrOf,
       Tables!Slots, Stacked, Saved, At, Registers, chan
  <2>3. Quiet
    BY <1>4 DEF vars, Quiet
  <2>4. Translating' = Translating
    BY <1>4, <2>3, WishesStand DEF vars, Translating, OnWalk, Walk, Reads, dma_source
  <2>5. Wants' = Wants
    BY <2>3, WishesStand
  <2> QED
    BY <1>4, <2>1, <2>2, <2>4, <2>5 DEF vars, BypassInv
<1> QED
  BY <1>1, <1>2, <1>3, <1>4 DEF Next

\* The inductive invariant: at each place of the routine, what lies on the stack
\* and how far the translation of the caller's stream has come.
THEOREM BypassInvariant == Spec => []BypassInv
  BY TablesAreBuilt, BypassInit, BypassNext, PTL DEF Spec

\* The routine's comment holds of every caller, entry point and stream.
THEOREM CallerIsRestored == Spec => []CallerRestored
<1>1. BypassInv => CallerRestored
  BY DEF BypassInv, Stacked, Underway, CallerRestored, chan
<1> QED
  BY <1>1, BypassInvariant, PTL

\* Every transfer that starts reads the decompressed copy of its stream, with
\* a walking address, whatever tables the build finished with.
THEOREM TransfersAreCorrect == Spec => []TransferCorrect
<1>1. BypassInv => TransferCorrect
  BY DEF BypassInv, Underway, Waiting, TransferCorrect
<1> QED
  BY <1>1, BypassInvariant, PTL
=============================================================================
