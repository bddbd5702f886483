------------------------------- MODULE Freeze -------------------------------
(***************************************************************************)
(* tools/freeze_spcfast.py: what the assembler makes of the two retail     *)
(* cartridges becomes the table of spcfast.py, one list of runs for both   *)
(* and at most one run whose place depends on the region, and is then      *)
(* applied to see that it reproduces the assembler.  A cartridge is a      *)
(* short function of cells; the last one is the checksum field.            *)
(***************************************************************************)
EXTENDS Integers, Sequences, FiniteSets, FiniteSetsExt

CONSTANTS
  Cells,         \* cells before the checksum field
  CellValues,    \* values of a cell
  JOYPAD_WAIT,   \* what the frame interrupt holds where the hook may go
  StockProbe,    \* STOCK_PROBE: cell -> value
  PlumbedSites   \* FRAME_HOOK_SITES as the plumbing brings them

Regions == {"jp", "usa"}
CHECKSUM_FIELD == Cells + 1
DIES == 1            \* the exit code of a traceback

ASSUME FreezeSizes == Cells \in Nat

\* A table: PATCH as a set of [at, data], FRAME_HOOK ({} or one body) and
\* FRAME_HOOK_SITES; plumbed once the source has the code that places a hook.
SumOf(cells) == MapThenSumSet(LAMBDA n : cells[n], DOMAIN cells)
write_checksum(rom) ==
  [rom EXCEPT ![CHECKSUM_FIELD] = SumOf([n \in 1 .. Cells |-> rom[n]]) % CellValues]

Reads(rom, run) == \A k \in DOMAIN run.data : run.at + k - 1 \in DOMAIN rom /\ rom[run.at + k - 1] = run.data[k]

\* The sites whose window, one cell, holds the wait or the hook already.
HookSites(rom, t) == {s \in t.sites : rom[s] = JOYPAD_WAIT \/ <<rom[s]>> \in t.hook}
frame_hook_site(rom, t) == Min(HookSites(rom, t))

\* PATCH, and the hook where this cartridge has room for it.
hook_runs(t, rom) == {[at |-> frame_hook_site(rom, t), data |-> body] : body \in t.hook}
runs_for(t, rom) == t.patch \cup hook_runs(t, rom)

is_patched(t, rom) == \A run \in runs_for(t, rom) : Reads(rom, run)
is_stock(rom) == \A n \in DOMAIN StockProbe : rom[n] = StockProbe[n]
Raises(t, rom) ==
  \/ t.hook # {} /\ HookSites(rom, t) = {}
  \/ ~is_patched(t, rom) /\ ~is_stock(rom)

Overwritten(rom, runs) ==
  LET touching(n) == {run \in runs : n \in run.at .. run.at + Len(run.data) - 1}
  IN  [n \in DOMAIN rom |-> IF touching(n) = {} THEN rom[n]
                           ELSE LET run == CHOOSE run \in touching(n) : TRUE IN run.data[n - run.at + 1]]

\* spcfast.apply with a table t: PATCH first, then the hook.
applied(t, rom) ==
  IF is_patched(t, rom) THEN rom
  ELSE write_checksum(Overwritten(Overwritten(rom, t.patch), hook_runs(t, rom)))

-----------------------------------------------------------------------------
Differs(before, after, n) == n \in 1 .. Cells /\ before[n] # after[n]
DiffersAnywhere(before, after, n) == n \in DOMAIN before /\ before[n] # after[n]
RunsWhere(after, differs(_)) ==
  {[at |-> ends[1], data |-> SubSeq(after, ends[1], ends[2])] :
     ends \in {q \in (DOMAIN after) \X (DOMAIN after) :
       /\ q[1] <= q[2] /\ \A k \in q[1] .. q[2] : differs(k)
       /\ ~differs(q[1] - 1) /\ ~differs(q[2] + 1)}}
runs_over_checksum(before, after) == RunsWhere(after, LAMBDA n : DiffersAnywhere(before, after, n))

\* The maximal stretches that changed; the checksum field ends a stretch.
differing_runs(before, after) == RunsWhere(after, LAMBDA n : Differs(before, after, n))

\* A source that cannot place a hook yet gets the code for it.
add_plumbing(source) ==
  IF source.plumbed THEN source
  ELSE [source EXCEPT !.plumbed = TRUE, !.hook = {}, !.sites = PlumbedSites]

\* PATCH is rendered again; without a hook the sites stay as they are.
rewrite(source, shared, hook, sites) ==
  [add_plumbing(source) EXCEPT !.patch = shared, !.hook = hook, !.sites = IF hook = {} THEN @ ELSE sites]

\* main(): its exit code and what spcfast.py holds afterwards.
freeze(j) ==
  LET runs == [r \in Regions |-> differing_runs(j.retail[r], j.assembled[r])]
      shared == runs["jp"] \cap runs["usa"]
      extra == [r \in Regions |-> runs[r] \ shared]
      counts == {Cardinality(extra[r]) : r \in Regions}
      bodies == {run.data : run \in extra["jp"] \cup extra["usa"]}
      updated == rewrite(j.source, shared, bodies, {run.at : run \in extra["jp"] \cup extra["usa"]})
      kept == IF j.check THEN j.source ELSE updated
      reproduced(r) == applied(kept, j.retail[r]) = j.assembled[r]
  IN  IF Cardinality(counts) # 1 \/ Max(counts) > 1 \/ Cardinality(bodies) > 1
      THEN [exit |-> 1, source |-> j.source]
      ELSE IF \E r \in Regions : Raises(kept, j.retail[r]) THEN [exit |-> DIES, source |-> kept]
      ELSE [exit |-> IF \A r \in Regions : reproduced(r) THEN 0 ELSE 1, source |-> kept]

-----------------------------------------------------------------------------
\* What there is to know of a freeze: two cartridges of each region, a source.
IsFreeze(j) ==
  /\ DOMAIN j = {"retail", "assembled", "check", "source"} /\ j.check \in BOOLEAN
  /\ \A r \in Regions : {j.retail[r], j.assembled[r]} \subseteq [1 .. CHECKSUM_FIELD -> Int]
  /\ DOMAIN j.source = {"patch", "hook", "sites", "plumbed"} /\ j.source.plumbed \in BOOLEAN

\* The cells the assembler changed, and to what.
Edits(j, r) == {<<n, j.assembled[r][n]>> : n \in {k \in 1 .. Cells : j.assembled[r][k] # j.retail[r][k]}}

\* A freeze that ends well leaves a table that reproduces the assembler on
\* both cartridges and that --check then accepts; --check writes nothing; and
\* a patch that makes the same changes to both cartridges, and leaves the
\* checksum as right as it was, is always frozen, whatever bytes it happens to share
\* with a cartridge (differing_runs and main).
FreezeFaithful(j) ==
  LET end == freeze(j)
  IN  /\ end.exit = 0 =>
           /\ \A r \in Regions : ~Raises(end.source, j.retail[r]) /\ applied(end.source, j.retail[r]) = j.assembled[r]
           /\ freeze([j EXCEPT !.source = end.source, !.check = TRUE]).exit = 0
      /\ j.check => end.source = j.source
      /\ /\ ~j.check /\ Edits(j, "jp") = Edits(j, "usa")
         /\ \A r \in Regions :
              /\ is_stock(j.retail[r])
              /\ \A rom \in {j.retail[r], j.assembled[r]} : write_checksum(rom) = rom
         => end.exit = 0
=============================================================================
