------------------------------- MODULE Gate -------------------------------
(***************************************************************************)
(* gate.py: what a stream table has to satisfy before pack.py builds with  *)
(* it, and the table build that follows when it does.  The gate places the *)
(* keys itself, with the allocator the build will use again.  The other    *)
(* callers of the table build do not ask the gate.  mapcheck.py asks the   *)
(* same questions of one cartridge beforehand, and tools/verify_image.py   *)
(* looks every stream up in the finished image.                            *)
(***************************************************************************)
EXTENDS KeyTables, FiniteSetsExt

CONSTANTS
  ScanBudget,   \* SCAN_BUDGET, 64 in the code
  Listings,     \* the lists of Inputs that a region's table() may return
  Cases         \* records [lengths, produced, present, wanted] check() may meet

\* Lengths, of entries and of requests, are numbers.
ASSUME GateAssumption ==
  /\ ScanBudget \in Nat /\ Listings \subseteq Inputs
  /\ \A c \in Cases :
       /\ \A l \in Listings : \A i \in DOMAIN l : c.lengths[l[i].source] \in Int
       /\ \A s \in DOMAIN c.wanted : c.wanted[s] \in Int

VARIABLES
  verdict,      \* "map" and "mapscan" in mapcheck.py, then "new", "scan", "pass", "fail", "raised", what check() did,
                \* or "ungated"
  findings,     \* the kinds of finding it lists
  case,         \* lengths and decodes of sources, the requests observed
  mapped        \* what mapcheck.py said of the list: "none", "OK", "FAIL", "raised"

gateVars == <<verdict, findings, case, mapped>>
allVars == <<vars, gateVars>>

Sources == {pairs[i].source : i \in Index}

-----------------------------------------------------------------------------
Duplicates == \E i, j \in Index : i # j /\ pairs[i].source = pairs[j].source

\* An entry is broken when its decode raises or has another length.
Raises == -1
Undecodable == \E s \in Sources : case.produced[s] # case.lengths[s]

UncoveredAbsent == \E s \in DOMAIN case.wanted : s \notin Sources

Uncovered ==
  \E s \in DOMAIN case.wanted :
    s \notin Sources \/ case.lengths[s] < case.wanted[s]

Distance(i, s) == (s - AddrOf(i)) % Slots

WorstScan == IF Index = {} THEN 0 ELSE Max({Distance(i, placed[i]) : i \in Index})

-----------------------------------------------------------------------------
\* allocate() returns when the repair loop finds nothing broken.
Allocated == pc \in {"verify", "refused", "full", "assert"}

\* The build starts from nothing and places the keys again.
Restart ==
  /\ pc' = "allocate" /\ todo' = {} /\ table' = Blank
  /\ placed' = [i \in Index |-> 0] /\ rounds' = 0 /\ UNCHANGED <<pairs, rom>>

-----------------------------------------------------------------------------
(* mapcheck.py *)

scan_cost_unmasked == IF Index = {} THEN 0 ELSE Max({placed[i] - AddrOf(i) : i \in Index})

\* The worst of the distances.
scan_cost == IF Index = {} THEN 0 ELSE Max({Distance(i, placed[i]) : i \in Index})

\* load() refuses a length that is not positive.
NonPositive == \E s \in Sources : case.lengths[s] <= 0

\* Both programs list the repeats the same way.
MapDuplicates == Duplicates

\* Only a decode that raises counts; its length is not looked at.
MapBroken == \E s \in Sources : case.produced[s] = Raises

Says(result) == mapped' = result /\ verdict' = "new" /\ UNCHANGED <<findings, case>>

\* A repeat fails the report without measuring the scan.
MapReport ==
  /\ verdict = "map"
  /\ \/ NonPositive /\ Says("raised")
     \/ ~NonPositive /\ MapDuplicates /\ Says("FAIL")
     \/ ~NonPositive /\ ~MapDuplicates /\ verdict' = "mapscan" /\ UNCHANGED <<findings, case, mapped>>
  /\ UNCHANGED vars

MapScanned ==
  /\ verdict = "mapscan" /\ pc = "verify"
  /\ Says(IF MapBroken \/ scan_cost > ScanBudget THEN "FAIL" ELSE "OK")
  /\ Restart

\* The allocator's refusal is not caught here either.
MapFallsOver == verdict = "mapscan" /\ Allocated /\ pc # "verify" /\ Says("raised") /\ Restart

-----------------------------------------------------------------------------
(* gate.py *)

NoCase == [lengths |-> <<>>, produced |-> <<>>, present |-> FALSE, wanted |-> <<>>]

\* mapcheck.py needs the cartridge.
GateInit ==
  /\ Init /\ findings = {} /\ mapped = "none"
  /\ \/ pairs \in Listings /\ case \in Cases /\ verdict = IF case.present THEN "map" ELSE "new"
     \/ verdict = "ungated" /\ case = NoCase

Listed ==
  {f \in {"repeated", "decode", "uncovered"} :
     CASE f = "repeated" -> Duplicates
       [] f = "decode" -> case.present /\ Undecodable
       [] f = "uncovered" -> Uncovered}

\* The checks of the list itself.  A repeat ends the check before the scan.
Examine ==
  /\ verdict = "new"
  /\ findings' = Listed
  /\ verdict' = IF "repeated" \in Listed THEN "fail" ELSE "scan"
  /\ UNCHANGED <<vars, case, mapped>>

Allocate == verdict \in {"mapscan", "scan"} /\ ~Allocated /\ Next /\ UNCHANGED gateVars

Scanned ==
  /\ verdict = "scan" /\ pc = "verify"
  /\ findings' = findings \cup (IF WorstScan > ScanBudget THEN {"scan"} ELSE {})
  /\ verdict' = IF findings' = {} THEN "pass" ELSE "fail"
  /\ Restart /\ UNCHANGED <<case, mapped>>

\* PlacementError is not caught: check() has no findings to return.
FallsOver ==
  /\ verdict = "scan" /\ Allocated /\ pc # "verify"
  /\ verdict' = "raised" /\ UNCHANGED <<vars, findings, case, mapped>>

\* pack.py goes on to the table build only when check() listed nothing;
\* rebuild_all.py and the tools that search for streams build at once.
Build == verdict \in {"pass", "ungated"} /\ Next /\ UNCHANGED gateVars

GateNext == MapReport \/ MapScanned \/ MapFallsOver \/ Examine \/ Allocate \/ Scanned \/ FallsOver \/ Build

GateSpec == GateInit /\ [][GateNext]_allVars
LiveGateSpec == GateSpec /\ WF_allVars(GateNext)

-----------------------------------------------------------------------------
Seen(source, d) == rom.key[Probe(source % Slots, d)] = WindowBase + source \div Slots
resolve_short(source) ==
  LET steps == {d \in 0 .. ScanBudget - 1 : Seen(source, d)}
  IN  IF steps = {} THEN {} ELSE {<<AddressAt(Probe(source % Slots, Min(steps))), Min(steps)>>}

\* tools/verify_image.py: the address a stream resolves to and the steps that
\* took, looking no further than the budget; nothing when it is not there.
resolve(source) ==
  LET steps == {d \in 0 .. ScanBudget : Seen(source, d)}
  IN  IF steps = {} THEN {} ELSE {<<AddressAt(Probe(source % Slots, Min(steps))), Min(steps)>>}

\* The slots a console's walk from s visits before the one that holds b.
Walked(b, s) == (Scan(rom.key, b, s) - s) % Slots

\* In the tables built from a list that passed, the console finds every
\* stream within the budget: what the gate measured on its own placement
\* holds of the one in the image, which is never refused.  Of any image the
\* verifier leaves unresolved exactly the streams whose walk is longer.
ScansWithinBudget ==
  /\ verdict = "pass" => pc # "refused"
  /\ pc = "built" =>
       \A i \in Index :
         LET walk == Walked(BankOf(i), AddrOf(i))
         IN  /\ verdict = "pass" => walk <= ScanBudget
             /\ resolve(pairs[i].source) = IF walk <= ScanBudget THEN {<<pairs[i].dest, walk>>} ELSE {}

\* mapcheck.py and the gate judge a list alike, from two readings of it: they
\* fall over on the same lists, what the one fails the other fails, and what
\* mapcheck passes the gate refuses only for a request or for a decode that
\* came back with another length, which mapcheck does not compare.  The gate
\* alone takes an entry of no length (mapcheck.load raises).
MapcheckAgrees ==
  verdict \in {"pass", "fail", "raised"} /\ mapped # "none" /\ ~NonPositive =>
    /\ (mapped = "raised") <=> (verdict = "raised")
    /\ mapped = "FAIL" => verdict = "fail"
    /\ mapped = "OK" => /\ verdict = "fail" => findings \subseteq {"uncovered", "decode"}
                        /\ "decode" \in findings =>
                             \E s \in Sources : case.produced[s] \notin {Raises, case.lengths[s]}

\* Every request the game was seen to make is answered by the built tables
\* with the copy of one entry at least as long, and decoded in full when the
\* cartridge was there to check it.
RequestsServed ==
  (pc = "built" /\ verdict = "pass") =>
    \A s \in DOMAIN case.wanted :
      \E i \in Index :
        /\ pairs[i].source = s
        /\ Translated(BankOf(i), AddrOf(i)) = pairs[i].dest
        /\ case.lengths[s] >= case.wanted[s]
        /\ case.present => case.produced[s] = case.lengths[s]

\* gate.py on check(): "Everything wrong with one region's table, or an empty
\* list", and of the scan check that it is skipped where the allocator raises.
AlwaysReports == verdict # "raised"

\* The gate comes to a verdict and the build to an end: repair rounds that
\* change nothing are not repeated for ever.
GateDecides ==
  <>(verdict \in {"fail", "raised"} \/ pc \in {"built", "refused", "bank zero"})
=============================================================================
