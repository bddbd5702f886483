------------------------------ MODULE Harvest ------------------------------
(***************************************************************************)
(* tools/harvest_jp.py: the loop that drives every variant of the Japanese *)
(* cartridge and absorbs the streams whose lookups missed.  A new source   *)
(* inside the compressed bytes of an entry trims that entry to end there.  *)
(***************************************************************************)
EXTENDS Integers, FiniteSets

CONSTANTS
  Sources,      \* addresses of streams
  MaxLength,    \* the longest stream
  Variants,     \* number of cartridge variants, 4
  Rounds,       \* 25
  EndOf(_, _),  \* compressed_end of a source and a length (external)
  Games,        \* per variant, the [source, length] pairs it asks for
  Tables        \* tables it may start from, zero for a source they lack

VARIABLES
  pc, game, table,
  variant,      \* the variant being driven
  wanted,       \* lengths still to absorb, zero for none
  round, added

vars == <<pc, game, table, variant, wanted, round, added>>

Has(t, s) == t[s] # 0
Largest(S) == IF S = {} THEN 0 ELSE CHOOSE n \in S : \A m \in S : m <= n

Init ==
  /\ pc = "drive" /\ game \in Games /\ table \in Tables
  /\ variant = 1 /\ round = 1 /\ added = 0
  /\ wanted = [s \in Sources |-> 0]

-----------------------------------------------------------------------------
\* The lookups whose scan ran over the budget.  A source without a key may
\* stop on a neighbour's, one with a key may be far from it, and a log whose
\* container died holds only some of them.
scan_log(over) == {r \in game[variant] : r.source \in over}

\* The longest transfer behind each.
missed_streams(scans) ==
  [s \in Sources |-> Largest({r.length : r \in {q \in scans : q.source = s}})]

Drive(over) ==
  /\ pc = "drive" /\ pc' = "absorb"
  /\ wanted' = missed_streams(scan_log(over))
  /\ UNCHANGED <<game, table, variant, round, added>>

\* The assembler or the layout raises: the table in memory is gone.
BuildFails ==
  /\ pc = "drive" /\ pc' = "died"
  /\ UNCHANGED <<game, table, variant, wanted, round, added>>

NextWanted(s) == Has(wanted, s) /\ \A t \in Sources : Has(wanted, t) => s <= t

Done(s) == wanted' = [wanted EXCEPT ![s] = 0]

Known(s) ==
  /\ pc = "absorb" /\ NextWanted(s) /\ table[s] >= wanted[s] /\ Done(s)
  /\ UNCHANGED <<pc, game, table, variant, round, added>>

\* decode refused the stream, or it came out short.
Undecodable(s) ==
  /\ pc = "absorb" /\ NextWanted(s) /\ table[s] < wanted[s] /\ Done(s)
  /\ UNCHANGED <<pc, game, table, variant, round, added>>

\* shorten_to: the longest length that ends at or before the boundary, if it
\* ends exactly there; zero for None.
ShortenTo(s, n, boundary) ==
  LET best == Largest({k \in 1 .. n : EndOf(s, k) <= boundary})
  IN  IF best # 0 /\ EndOf(s, best) = boundary THEN best ELSE 0

Overlapped(s) == {o \in Sources : o < s /\ Has(table, o) /\ EndOf(o, table[o]) > s}
StuckNever(s) == {}

Stuck(s) == {o \in Overlapped(s) : ShortenTo(o, table[o], s) = 0}
FirstStuck(s) == CHOOSE o \in Stuck(s) : \A p \in Stuck(s) : o <= p

TrimmedUpTo(s, T) ==
  [o \in Sources |-> IF o \in T THEN ShortenTo(o, table[o], s) ELSE table[o]]

\* Every entry the source lies in is trimmed, and the source added or raised.
Absorb(s) ==
  /\ pc = "absorb" /\ NextWanted(s) /\ table[s] < wanted[s] /\ Stuck(s) = {}
  /\ table' = [TrimmedUpTo(s, Overlapped(s)) EXCEPT ![s] = wanted[s]]
  /\ added' = added + 1
  /\ Done(s) /\ UNCHANGED <<pc, game, variant, round>>

\* One entry cannot be trimmed: the ones before it stay trimmed all the same.
GiveUp(s) ==
  /\ pc = "absorb" /\ NextWanted(s) /\ table[s] < wanted[s] /\ Stuck(s) # {}
  /\ table' = TrimmedUpTo(s, {o \in Overlapped(s) : o < FirstStuck(s)})
  /\ Done(s) /\ UNCHANGED <<pc, game, variant, round, added>>

NextVariant ==
  /\ pc = "absorb" /\ (\A s \in Sources : ~Has(wanted, s)) /\ variant < Variants
  /\ pc' = "drive" /\ variant' = variant + 1
  /\ UNCHANGED <<game, table, wanted, round, added>>

\* A round that added nothing, or the last one, ends the run.
EndRound ==
  /\ pc = "absorb" /\ (\A s \in Sources : ~Has(wanted, s)) /\ variant = Variants
  /\ IF added = 0 \/ round = Rounds
     THEN /\ pc' = IF added = 0 THEN "converged" ELSE "exhausted"
          /\ UNCHANGED <<variant, round, added>>
     ELSE pc' = "drive" /\ variant' = 1 /\ round' = round + 1 /\ added' = 0
  /\ UNCHANGED <<game, table, wanted>>

Next ==
  \/ (\E over \in SUBSET Sources : Drive(over)) \/ BuildFails \/ NextVariant \/ EndRound
  \/ \E s \in Sources : Known(s) \/ Undecodable(s) \/ Absorb(s) \/ GiveUp(s)

Spec == Init /\ [][Next]_vars

=============================================================================
