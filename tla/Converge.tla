------------------------------ MODULE Converge ------------------------------
(***************************************************************************)
(* tools/converge_jp.py: the loop that widens the stream table.  Every     *)
(* round builds the cartridge from the table, plays it and collects what   *)
(* it asked for; a source the table lacks is added when it decodes.  What  *)
(* a play-through reaches depends on the streams the table already has.    *)
(***************************************************************************)
EXTENDS Integers, FiniteSets

CONSTANTS
  Sources,      \* addresses of streams
  Rounds,       \* the numbers of rounds main() may be given
  Games,        \* possible games: sets of [source, length, after]
  Tables        \* tables it may start from, zero for a source they lack

ASSUME ConvergeAssumption ==
  /\ Sources \subseteq Nat /\ Rounds \subseteq Nat \ {0} /\ Tables \subseteq [Sources -> Nat]
  /\ \A g \in Games : \A r \in g :
       r.source \in Sources /\ r.length \in Nat \ {0} /\ r.after \subseteq Sources

VARIABLES
  pc,
  game,         \* what the cartridge asks for, and after which streams
  bad,          \* the [source, length] pairs that do not decode (external)
  file,         \* the table on disk
  table,        \* the table in memory
  candidates,   \* lengths of this round's candidates, zero for none
  limit, round, added

vars == <<pc, game, bad, file, table, candidates, limit, round, added>>

Has(t, s) == t[s] # 0

\* The keys in the images built from a table, the same in every variant.
build_variants(t) == {s \in Sources : Has(t, s)}

\* The requests the play-throughs of those images meet.
Asked(t) == {r \in game : r.after \subseteq build_variants(t)}

Largest(S) == IF S = {} THEN 0 ELSE CHOOSE n \in S : \A m \in S : m <= n

Init ==
  /\ pc = "round" /\ game \in Games /\ file \in Tables /\ table = file
  /\ bad \in SUBSET {[source |-> r.source, length |-> r.length] : r \in game}
  /\ candidates = [s \in Sources |-> 0] /\ added = 0
  /\ limit \in Rounds /\ round = 0

-----------------------------------------------------------------------------

\* Read, build and play: the longest request for each source not in the table.
Play ==
  /\ pc = "round" /\ round < limit
  /\ table' = file
  /\ candidates' = [s \in Sources |->
       IF Has(file, s) THEN 0
       ELSE Largest({r.length : r \in {q \in Asked(file) : q.source = s}})]
  /\ round' = round + 1 /\ added' = 0 /\ pc' = "add"
  /\ UNCHANGED <<game, bad, file, limit>>

\* One of the variants does not assemble: the file is as the last round left it.
BuildFails ==
  /\ pc = "round" /\ round < limit /\ pc' = "died" /\ table' = file
  /\ round' = round + 1
  /\ UNCHANGED <<game, bad, file, candidates, limit, added>>

NextCandidate(s) ==
  /\ Has(candidates, s) /\ \A t \in Sources : Has(candidates, t) => s <= t

Decodes(s, n) == [source |-> s, length |-> n] \notin bad

Add(s) ==
  /\ pc = "add" /\ NextCandidate(s) /\ Decodes(s, candidates[s])
  /\ table' = [table EXCEPT ![s] = candidates[s]]
  /\ added' = added + 1
  /\ candidates' = [candidates EXCEPT ![s] = 0]
  /\ UNCHANGED <<pc, game, bad, file, limit, round>>

Skip(s) ==
  /\ pc = "add" /\ NextCandidate(s) /\ ~Decodes(s, candidates[s])
  /\ candidates' = [candidates EXCEPT ![s] = 0]
  /\ UNCHANGED <<pc, game, bad, file, table, limit, round, added>>

SaveOnward ==
  /\ pc = "add" /\ \A s \in Sources : ~Has(candidates, s)
  /\ file' = table /\ pc' = "round"
  /\ UNCHANGED <<game, bad, table, candidates, limit, round, added>>

SaveEarly ==
  /\ pc = "add" /\ \A s \in Sources : ~Has(candidates, s)
  /\ file' = table
  /\ pc' = IF added <= 1 THEN "converged" ELSE "round"
  /\ UNCHANGED <<game, bad, table, candidates, limit, round, added>>

\* The table is written; a round that added nothing is the last.
Save ==
  /\ pc = "add" /\ \A s \in Sources : ~Has(candidates, s)
  /\ file' = table
  /\ pc' = IF added = 0 THEN "converged" ELSE "round"
  /\ UNCHANGED <<game, bad, table, candidates, limit, round, added>>

Exhausted ==
  /\ pc = "round" /\ round = limit /\ pc' = "exhausted"
  /\ UNCHANGED <<game, bad, file, table, candidates, limit, round, added>>

Next == Play \/ BuildFails \/ Save \/ Exhausted \/ \E s \in Sources : Add(s) \/ Skip(s)

Spec == Init /\ [][Next]_vars

-----------------------------------------------------------------------------
\* A converged table knows every source the cartridge asks for that decodes
\* at the longest request made for it.
SourcesComplete ==
  pc = "converged" => \A s \in Sources :
    LET n == Largest({r.length : r \in {q \in Asked(table) : q.source = s}})
    IN  n # 0 /\ Decodes(s, n) => Has(file, s)

\* With more rounds than sources the tool converges, since every round but
\* the last adds a source, or a build fails on the way.
Converges ==
  (pc = "round" /\ round = 0 /\ limit > Cardinality(Sources)) ~> pc \in {"converged", "died"}

\* The docstring of main(): "a round that adds nothing means the table is
\* complete", complete being a table in which the cartridge finds what it
\* asks for, as long as it asks for.
ConvergedIsComplete ==
  pc = "converged" => \A r \in Asked(table) :
    Decodes(r.source, r.length) => file[r.source] >= r.length
=============================================================================
