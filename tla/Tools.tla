------------------------------- MODULE Tools -------------------------------
(***************************************************************************)
(* The programs run by hand beside a build.  One of them is run once: the  *)
(* ones that drive the emulator, the audio driver or the assembler step by *)
(* step (RunLogs, DriverRun, Rebuild), each of the others in one step on   *)
(* an input, for the exit code of its main().                              *)
(***************************************************************************)
EXTENDS Doctor, RunLogs, SampleBank, SampleReuse, StreamSearch, Reference, DriverRun,
        Freeze, Rebuild, TileShape

CONSTANTS
  Machines,     \* inputs of doctor.py, environment.py and identify.py
  Banks,        \* of sample_audit.py: a memory image and an upload
  Walks,        \* of sample_reuse.py: the loads of a soundwalk
  Searches,     \* of sdd1find.py: outputs, a reference, the width of the maps
  Tagged,       \* of sdd1map.py and sdd1sites.py: a tagged image, a size
  Chunked,      \* of analyse.py: an original and what was added
  Compared,     \* of sdd1ref.py and verify_streams.py
  Freezes,      \* of freeze_spcfast.py: retail and assembled cartridges
  Sheets        \* of tile_shape.py: a cartridge, a limit and a control

ASSUME MachinesGiven == \A m \in Machines : IsMachine(m)
ASSUME BanksGiven == \A j \in Banks : IsBank(j.ram)
ASSUME ComparedGiven == \A j \in Compared : IsCompared(j)
ASSUME FreezesGiven == \A j \in Freezes : IsFreeze(j)
ASSUME SearchesGiven == \A j \in Searches : IsSearch(j)
ASSUME TaggedGiven == \A j \in Tagged : IsTagged(j)
ASSUME ChunkedGiven == \A j \in Chunked : IsChunked(j)
ASSUME SheetsGiven == \A j \in Sheets : IsSheet(table_for(j.name, j.tables), j.limit, j.outs, j.noise)

VARIABLE job

toolVars == <<logVars, benchVars, rebuildVars, job>>

Idle == 0
OtherInit ==
  \/ LogsInit /\ job = Idle
  \/ which = "doctor" /\ Begin /\ job \in Machines
  \/ which = "environment" /\ Begin /\ job \in Machines
  \/ which = "audit" /\ Begin /\ job \in Banks
  \/ which = "reuse" /\ Begin /\ job \in Walks
  \/ which = "find" /\ Begin /\ job \in Searches
  \/ which = "map" /\ Begin /\ job \in Tagged
  \/ which = "analyse" /\ Begin /\ job \in Chunked
  \/ which = "verify" /\ Begin /\ job \in Compared
  \/ which = "freeze" /\ Begin /\ job \in Freezes
  \/ which = "shape" /\ Begin /\ job \in Sheets
ToolsInit ==
  \/ OtherInit /\ NoBench /\ NoRebuild
  \/ which = "driver" /\ Begin /\ job = Idle /\ BenchInit /\ NoRebuild
  \/ which = "rebuild" /\ Begin /\ job = Idle /\ NoBench /\ RebuildInit

Table(sheet) == table_for(sheet.name, sheet.tables)

Answers(program, exit) ==
  /\ which = program /\ code = -1 /\ code' = exit /\ state' = "finished"
  /\ UNCHANGED <<which, image, frame, pending, tally, log, truth, job, benchVars, rebuildVars>>

ToolsNext ==
  \/ which \in LogTools /\ LogsNext /\ UNCHANGED <<job, benchVars, rebuildVars>>
  \/ Answers("doctor", doctor(job))
  \/ Answers("environment", environment(job))
  \/ Answers("audit", IF Readable(job.ram) THEN 0 ELSE DIED)
  \/ Answers("reuse", 0)
  \/ Answers("find", find_report(3, find_streams(job.outs, job.reference, job.slots, job.slots)).exit)
  \/ Answers("map", MapExit(3, job.tagged))
  \/ Answers("analyse", 0)
  \/ Answers("verify", VerifyExit(TRUE, Cardinality(DOMAIN job.mine), <<job.cases>>, job.mine, job.outs, job.run))
  \/ Answers("freeze", freeze(job).exit)
  \/ Answers("shape", ShapeExit(1, TRUE, DIED, against(Table(job), job.limit, job.outs, job.noise).raised))
  \/ which = "driver" /\ BenchNext /\ UNCHANGED <<logVars, job, rebuildVars>>
  \/ plan = <<>> /\ Answers("driver", IF \E n \in DOMAIN transfers : transfers[n].raised THEN DIED ELSE 0)
  \/ which = "rebuild" /\ code = -1 /\ RebuildNext /\ UNCHANGED <<logVars, job, benchVars>>
  \/ phase = "done" /\ Answers("rebuild", 0)
  \/ phase # "done" /\ Answers("rebuild", DIED)

ToolsSpec == ToolsInit /\ [][ToolsNext]_toolVars

-----------------------------------------------------------------------------
\* DoctorForesees on every machine and, of the machine itself, MachineForeseen.
DiagnosisRight ==
  /\ which = "doctor" /\ code # -1 => DoctorForesees(job)
  /\ which = "environment" /\ code # -1 => MachineForeseen(job)

\* AuditSound of every whole bank and upload; a short image has no answer.
BankAudited ==
  which = "audit" /\ code # -1 =>
    IF Readable(job.ram) THEN AuditSound(job.ram, job.written) ELSE code = DIED

\* ReusePredictsSkips on every soundwalk.
ReuseRight == which = "reuse" /\ code # -1 => ReusePredictsSkips(job)

\* SearchExact, MapWhole, NoveltyBounded and ShapeMeasured: what was found is
\* all there is.
StreamsFound ==
  /\ which = "find" /\ code # -1 => SearchExact(job.outs, job.reference, job.slots, job.slots)
  /\ which = "map" /\ code # -1 => MapWhole(job.tagged, job.size)
  /\ which = "analyse" /\ code # -1 => NoveltyBounded(job.original, job.added, 2, 1)
  /\ which = "shape" /\ code # -1 =>
       ShapeMeasured(Table(job), job.limit, job.outs, job.noise)

\* VerdictExact of every table and every run of the reference.
VerdictRight == which = "verify" /\ code # -1 => VerdictExact(job.cases, job.mine, job.outs, job.run)

\* FreezeFaithful of every pair of cartridges.
FreezeRight == which = "freeze" /\ code # -1 => FreezeFaithful(job)

\* RebuildSound at every step of the rebuild and after it.
RebuildRight == which = "rebuild" => RebuildSound(code)
=============================================================================
