---------------------------- MODULE StreamTable ----------------------------
(***************************************************************************)
(* The Japanese stream table on its way through three tools: harvest_jp.py *)
(* starts from the frozen table and leaves build/harvest/table.txt when it *)
(* ends, however it ends; converge_jp.py reads that file in every round;   *)
(* tour_oracle.py widens what is in it afterwards.                         *)
(***************************************************************************)
EXTENDS TourOracle

CONSTANTS MaxLength, Variants, HarvestRounds, EndOf(_, _), HarvestGames

ASSUME HarvestAssumption ==
  /\ {MaxLength, Variants, HarvestRounds} \subseteq Nat \ {0}
  /\ \A s \in Sources, n \in 1 .. MaxLength : EndOf(s, n) > s
  /\ \A s \in Sources, n \in 2 .. MaxLength : EndOf(s, n) >= EndOf(s, n - 1)
  /\ HarvestGames \subseteq [1 .. Variants -> SUBSET [source : Sources, length : 1 .. MaxLength]]
  /\ \A g \in Games : \A r \in g : r.length <= MaxLength

VARIABLES hpc, hgame, htable, variant, hwanted, hround, hadded

harvestVars == <<hpc, hgame, htable, variant, hwanted, hround, hadded>>
allVars == <<vars, harvestVars, oracleVars>>

H == INSTANCE Harvest WITH
  pc <- hpc, game <- hgame, table <- htable, wanted <- hwanted, round <- hround, added <- hadded,
  Rounds <- HarvestRounds, Games <- HarvestGames

NoTable == [s \in Sources |-> 0]

TableInit ==
  /\ H!Init /\ OracleInit
  /\ pc = "waiting" /\ game = {} /\ bad = {} /\ file = NoTable /\ table = NoTable
  /\ candidates = NoTable /\ limit = 0 /\ round = 0 /\ added = 0

HarvestStep == hpc \notin {"converged", "exhausted", "exited"} /\ H!Next /\ UNCHANGED <<vars, oracleVars>>

\* The script writes what main() returned and exits; nothing of it is left
\* but the file.  What the longer play-throughs of the other tool reach, and
\* what of it decodes, is chosen here.
HandOver ==
  /\ pc = "waiting" /\ hpc \in {"converged", "exhausted"}
  /\ file' = htable /\ pc' = "round"
  /\ game' \in Games /\ limit' \in Rounds
  /\ bad' \in SUBSET {[source |-> r.source, length |-> r.length] : r \in game'}
  /\ hpc' = "exited" /\ hgame' = <<>> /\ htable' = NoTable
  /\ variant' = 1 /\ hround' = 1 /\ hadded' = 0
  /\ UNCHANGED <<table, candidates, round, added, hwanted, oracleVars>>

ConvergeStep == Next /\ UNCHANGED <<harvestVars, oracleVars>>

\* With the chip every stream is there, whatever the table lacks; a log may
\* hold any part of what the game asks for, between the other transfers.
Line(r) == [source |-> r.source, length |-> r.length, fixed |-> TRUE, inWindow |-> TRUE]
OracleStep ==
  /\ pc \in {"converged", "exhausted"}
  /\ ReadTable \/ Widen \/ \E lines \in SUBSET {Line(r) : r \in game} : Tour(lines \cup Moves)
  /\ UNCHANGED <<pc, game, bad, table, candidates, limit, round, added, harvestVars>>

TableNext == HarvestStep \/ HandOver \/ ConvergeStep \/ OracleStep

TableSpec == TableInit /\ [][TableNext]_allVars

\* The second tool keeps going once somebody runs it.
LiveTableSpec == TableSpec /\ WF_allVars(ConvergeStep)

-----------------------------------------------------------------------------
\* The table as it stands: in the harvester's memory, then on disk.
Standing == IF pc = "waiting" THEN htable ELSE file

\* "Only two operations on a stream table are safe", adding a source and
\* raising a length: no source the frozen table had, or a tool added, is ever
\* lost, whatever is trimmed and through the hand-overs, and once the table is
\* on disk no entry of it is shortened.
SourcesKept ==
  [][\A s \in Sources :
       /\ Has(Standing, s) => Has(Standing', s)
       /\ pc # "waiting" => file'[s] >= file[s]]_allVars

\* What converge_jp.py leaves short the tours restore: of every source some
\* log recorded, the table then holds the longest request, if that decodes,
\* also when it came from an earlier or an unfinished tour; and a transfer
\* that is no decompression puts nothing into the table.
OracleRestores ==
  opc = "written" =>
    \A s \in Sources :
      LET n == Largest({l.length : l \in {q \in met : q.source = s}})
      IN  /\ n # 0 /\ Decodes(s, n) => file[s] >= n
          /\ file[s] # table[s] => file[s] = n /\ Decodes(s, n)
=============================================================================
