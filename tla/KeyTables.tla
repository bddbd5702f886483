----------------------------- MODULE KeyTables -----------------------------
(***************************************************************************)
(* sdd1tables.py: where every stream goes in the key table.  A stream is   *)
(* known to the console by the bank and address it starts at; the console  *)
(* scans from the slot of that address until a slot holds that bank.  The  *)
(* builder places the streams by first fit, then moves the ones some       *)
(* earlier slot of the same bank hides, up to MaxRepairs times over.       *)
(***************************************************************************)
EXTENDS Integers, Sequences, FiniteSets

CONSTANTS
  Byte,         \* values of one byte, 256 on the console
  WindowBase,   \* WINDOW_BASE, the first bank of the stream window
  MaxRepairs,   \* MAX_REPAIRS, 64 in the code
  Inputs        \* the lists of [source, dest] pairs build() may be given

Slots == Byte * Byte       \* SLOTS, the addresses of one bank
Slot == 0 .. Slots - 1
Empty == 0                 \* EMPTY, no bank of the window
Pair == [source : Nat, dest : Nat]

ASSUME TableAssumption ==
  /\ Byte \in Nat \ {0, 1} /\ WindowBase \in Nat \ {0} /\ MaxRepairs \in Nat
  /\ Inputs \subseteq Seq(Pair)

VARIABLES
  pc,       \* the place in build
  pairs,    \* its argument
  todo,     \* indices the current loop has still to visit
  table,    \* the bank in each slot, Empty where the dict has no key
  placed,   \* the slot of each index
  rounds,   \* repair rounds begun
  rom       \* the four tables of the result: key, low, high, bank

vars == <<pc, pairs, todo, table, placed, rounds, rom>>

Index == DOMAIN pairs

-----------------------------------------------------------------------------
BankOf(i) == WindowBase + (pairs[i].source \div Slots)
AddrOf(i) == pairs[i].source % Slots

Probe(s, d) == (s + d) % Slots

\* The slot of S that a walk from s meets first; the last one wraps to zero.
FirstIn(s, S) ==
  Probe(s, CHOOSE d \in Slot : /\ Probe(s, d) \in S
                               /\ \A e \in 0 .. d - 1 : Probe(s, e) \notin S)

Holding(t, b) == {s \in Slot : t[s] = b}
FirstFree(t, s) == FirstIn(s, Holding(t, Empty))
Scan(t, b, s) == FirstIn(s, Holding(t, b))

FoundAtBank(t, i, s) == t[s] = BankOf(i)

\* Index i is found by the scan that starts at its own address.
FoundAt(t, i, s) ==
  /\ Holding(t, BankOf(i)) # {}
  /\ Scan(t, BankOf(i), AddrOf(i)) = s

-----------------------------------------------------------------------------
Blank == [s \in Slot |-> Empty]

Init ==
  /\ pc = "allocate" /\ pairs \in Inputs
  /\ todo = {} /\ table = Blank /\ placed = [i \in Index |-> 0]
  /\ rounds = 0
  /\ rom = [key |-> Blank, low |-> Blank, high |-> Blank, bank |-> Blank]

Fails(how) == /\ pc' = how
              /\ UNCHANGED <<pairs, todo, table, placed, rounds, rom>>

TooMany == pc = "allocate" /\ Len(pairs) > Slots /\ Fails("refused")

Begin ==
  /\ pc = "allocate" /\ Len(pairs) <= Slots
  /\ pc' = "place" /\ todo' = Index
  /\ UNCHANGED <<pairs, table, placed, rounds, rom>>

\* The loops visit `order` by address, ties by index, and `broken` by index.
NextInOrder(i) ==
  /\ i \in todo
  /\ \A j \in todo : \/ AddrOf(i) < AddrOf(j)
                     \/ AddrOf(i) = AddrOf(j) /\ i <= j
NextBroken(i) == i \in todo /\ \A j \in todo : i <= j

\* The dict and the list gain the stream, at the first free slot from s on.
PutFrom(t, i, s) ==
  /\ table' = [t EXCEPT ![FirstFree(t, s)] = BankOf(i)]
  /\ placed' = [placed EXCEPT ![i] = FirstFree(t, s)]
  /\ todo' = todo \ {i}
  /\ UNCHANGED <<pc, pairs, rounds, rom>>

Place(i) ==
  /\ pc = "place" /\ NextInOrder(i)
  /\ IF Holding(table, Empty) = {} THEN Fails("full")
     ELSE PutFrom(table, i, AddrOf(i))

Broken == {i \in Index : ~FoundAt(table, i, placed[i])}

InspectUncounted ==
  /\ pc \in {"place", "repair"} /\ todo = {} /\ rounds < MaxRepairs
  /\ todo' = Broken
  /\ pc' = IF Broken = {} THEN "verify" ELSE "repair"
  /\ UNCHANGED <<pairs, table, placed, rounds, rom>>

\* One round of the repair loop begins with the list of broken scans.
Inspect ==
  /\ pc \in {"place", "repair"} /\ todo = {} /\ rounds < MaxRepairs
  /\ rounds' = rounds + 1
  /\ todo' = Broken
  /\ pc' = IF Broken = {} THEN "verify" ELSE "repair"
  /\ UNCHANGED <<pairs, table, placed, rom>>

RepairKeeping(i) ==
  /\ pc = "repair" /\ NextBroken(i)
  /\ IF Holding(table, BankOf(i)) = {} \/ Holding(table, Empty) = {} THEN Fails("assert")
     ELSE PutFrom(table, i, (Scan(table, BankOf(i), AddrOf(i)) + 1) % Slots)

RepairTwoOn(i) ==
  /\ pc = "repair" /\ NextBroken(i)
  /\ IF Holding(table, BankOf(i)) = {} THEN Fails("assert")
     ELSE LET found == Scan(table, BankOf(i), AddrOf(i))
              freed == [table EXCEPT ![placed[i]] = Empty]
          IN  PutFrom(freed, i, (found + 2) % Slots)

\* The scan finds another stream's slot: move on to the free slot after it.
\* The assertion of the loop is that it finds one.
Repair(i) ==
  /\ pc = "repair" /\ NextBroken(i)
  /\ IF Holding(table, BankOf(i)) = {} THEN Fails("assert")
     ELSE LET found == Scan(table, BankOf(i), AddrOf(i))
              freed == [table EXCEPT ![placed[i]] = Empty]
          IN  PutFrom(freed, i, (found + 1) % Slots)

Refuse ==
  /\ pc \in {"place", "repair"} /\ todo = {} /\ rounds = MaxRepairs
  /\ Fails("refused")

\* verify() rebuilds the table from the slots and scans for every stream again.
Rebuilt == [s \in Slot |->
  IF \E i \in Index : placed[i] = s
  THEN BankOf(CHOOSE i \in Index : placed[i] = s) ELSE Empty]

Verified ==
  /\ \A i, j \in Index : placed[i] = placed[j] => i = j
  /\ \A i \in Index : FoundAt(Rebuilt, i, placed[i])

Verify ==
  /\ pc = "verify"
  /\ IF Verified THEN /\ pc' = "emit" /\ todo' = Index
                      /\ UNCHANGED <<pairs, table, placed, rounds, rom>>
     ELSE Fails("unverified")

\* One byte of each table per stream, unless the destination is in bank zero.
Emit(i) ==
  /\ pc = "emit" /\ NextBroken(i) /\ pairs[i].dest \div Slots # 0
  /\ rom' = [key  |-> [rom.key EXCEPT ![placed[i]] = BankOf(i)],
             low  |-> [rom.low EXCEPT ![placed[i]] = pairs[i].dest % Byte],
             high |-> [rom.high EXCEPT ![placed[i]] = (pairs[i].dest \div Byte) % Byte],
             bank |-> [rom.bank EXCEPT ![placed[i]] = pairs[i].dest \div Slots]]
  /\ todo' = todo \ {i}
  /\ UNCHANGED <<pc, pairs, table, placed, rounds>>

BankZero ==
  /\ pc = "emit" /\ \E i \in todo : NextBroken(i) /\ pairs[i].dest \div Slots = 0
  /\ Fails("bank zero")

Finish == pc = "emit" /\ todo = {} /\ Fails("built")

Next ==
  \/ TooMany \/ Begin \/ Inspect \/ Refuse \/ Verify
  \/ BankZero \/ Finish
  \/ \E i \in todo : Place(i) \/ Repair(i) \/ Emit(i)

Spec == Init /\ [][Next]_vars

-----------------------------------------------------------------------------
\* The streams already in the table.
Settled == CASE pc = "allocate" -> {} [] pc = "place" -> Index \ todo [] OTHER -> Index

\* However often streams are moved, no two share a slot and the table holds
\* exactly the bank of each stream in that stream's slot; so the table never
\* runs out of slots, the assertion in the repair loop ("a key that is placed
\* always scans to something") holds, and verify accepts what allocate returned.
SlotsAreOwned ==
  /\ pc \notin {"full", "assert", "unverified"}
  /\ pc # "refused" =>
       /\ \A i, j \in Settled : placed[i] = placed[j] => i = j
       /\ \A s \in Slot : table[s] # Empty => \E i \in Settled : placed[i] = s
       /\ \A i \in Settled : table[placed[i]] = BankOf(i)

\* The translator's view: scan the key table, read three bytes, join them.
AddressAt(s) == rom.low[s] + rom.high[s] * Byte + rom.bank[s] * Slots
Translated(b, a) == AddressAt(Scan(rom.key, b, a))

\* Every stream of a finished build translates to its own destination; so
\* two streams with one source are never both accepted.
LookupCorrect ==
  pc = "built" => \A i \in Index : Translated(BankOf(i), AddrOf(i)) = pairs[i].dest

\* Every slot from a stream's address up to its own is taken, so the free
\* slot a repair finds is the one it has just given up: the repair rounds
\* never change the placement, and first fit alone decides acceptance.
RepairMovesNothing == [][pc = "repair" => UNCHANGED <<table, placed>>]_vars
=============================================================================
