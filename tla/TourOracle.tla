----------------------------- MODULE TourOracle -----------------------------
(***************************************************************************)
(* tools/tour_oracle.py: a cartridge that still has the chip is taken on   *)
(* several tours, and the table in the file is widened to every transfer   *)
(* from a source that did not advance, as long as the longest one asked    *)
(* for.  A tour that ends early leaves a shorter log and is not noticed.   *)
(***************************************************************************)
EXTENDS Converge

CONSTANTS
  PASSES,     \* number of tours
  Moves       \* transfers that are not decompressions, as lines of a log

\* requests(): a transfer counts if its source stays and lies in the window.
Counts(line) == line.fixed /\ line.inWindow

ASSUME OracleAssumption == PASSES \in Nat /\ \A m \in Moves : ~Counts(m)

VARIABLES
  opc,
  tours,      \* tours made
  seen,       \* the longest request of each source, zero for none
  widened,    \* the table in memory
  met         \* every decompression some log recorded

oracleVars == <<opc, tours, seen, widened, met>>

Nothing == [s \in Sources |-> 0]

OracleInit == opc = "idle" /\ tours = 0 /\ seen = Nothing /\ widened = Nothing /\ met = {}

\* The longest counted transfer from each source in one log.
requests(lines) ==
  [s \in Sources |-> Largest({l.length : l \in {q \in lines : Counts(q) /\ q.source = s}})]

\* main() reads the table before the first tour.
ReadTable ==
  /\ opc = "idle" /\ opc' = "tour" /\ widened' = file
  /\ UNCHANGED <<file, tours, seen, met>>

TourLast(lines) ==
  /\ opc = "tour" /\ tours < PASSES /\ tours' = tours + 1
  /\ seen' = [s \in Sources |-> IF requests(lines)[s] # 0 THEN requests(lines)[s] ELSE seen[s]]
  /\ met' = met \cup {l \in lines : Counts(l)}
  /\ UNCHANGED <<file, opc, widened>>

\* One tour: what its log holds joins what was seen before.
Tour(lines) ==
  /\ opc = "tour" /\ tours < PASSES /\ tours' = tours + 1
  /\ LET wanted == requests(lines)
     IN  seen' = [s \in Sources |-> Largest({seen[s], wanted[s]})]
  /\ met' = met \cup {l \in lines : Counts(l)}
  /\ UNCHANGED <<file, opc, widened>>

\* What decodes to its full length is added or restored, and both files are
\* written; the sources do not affect each other.
Widen ==
  /\ opc = "tour" /\ tours = PASSES /\ opc' = "written"
  /\ widened' = [s \in Sources |->
       IF seen[s] # 0 /\ Decodes(s, seen[s]) THEN Largest({widened[s], seen[s]}) ELSE widened[s]]
  /\ file' = widened'
  /\ UNCHANGED <<tours, seen, met>>
=============================================================================
