# Verification of the chip-free cartridge build

The repository turns a retail cartridge of Street Fighter Alpha 2 (USA) or
Zero 2 (Japan), which needs the S-DD1 decompression chip, into a plain ROM that
needs none. Every compressed stream the game asks for is decompressed at build
time and stored in the larger ROM; the transfers that used to go through the
chip are redirected to the decompressed copy; and the sample upload to the sound
processor is rewritten to move three bytes per handshake.

This directory holds TLA+ models of that system, TLC configurations that check
them on small instances, and TLAPS proofs. Paths below are relative to `src/`.

## 1. The parts of the system

| Part | Where | State it keeps | Operations | What makes it correct |
|---|---|---|---|---|
| sample upload | `asm/spc-fast-upload.asm` | four latches one way, an echo latch back, index and pointers on both sides, sound memory | header, triple and single-byte data phases, end of list | data arrives intact, no latch overwritten before it is read, no counter taken for a header, every session ends |
| division by three | same file, `cpu_third` | two stack words, two registers | sum of shifts, correction | exact for every word, ends |
| key tables | `sdd1tables.py` | slot table, slot per stream, round counter | place, inspect, repair, verify, emit | accepted tables translate every stream to its own copy; duplicates refused |
| cartridge layout | `rombuild.py`, `emu/windowed_lorom.cpp` | free regions with cursors, image | find space, allocate, place each part | everything written can be read back through the console's map |
| transfer translation | `asm/sdd1-translate.asm`, `asm/sdd1-bypass*.asm`, `patchrun.py` | registers, stack, DMA channels | entry, scan, patch the channel, return | right copy, caller's registers restored, one channel touched, scan ends |
| repeat load | `asm/repeat-load.asm`, `repeatload.py` | a three-byte record in work RAM, the engine's allocator, sound memory | hook, remember, engine load | skipping a load leaves memory as if it had not been skipped |
| stream table tools | `tools/harvest_jp.py`, `tools/converge_jp.py`, `tools/tour_oracle.py` | table on disk and in memory, rounds, logs | drive, trim, absorb; play, add, save; tour, widen | no source is lost, the table grows to what is asked for, the loops end |
| build gate | `gate.py`, `mapcheck.py` | findings | duplicates, decode, coverage, scan length | what passes can be built and is served within the budget |
| packer | `pack.py`, `build.py`, `version.py` | `dist/`, `dist/work`, `asm/`, the manifest | check, gate, stage, assemble, collect, write, manifest | only gated sources are packed, no leftovers, manifest agrees |
| game patches | `spcfast.py`, `shinakuma.py`, `gamefixes.py`, `prefight.py` | bytes at known sites, checksum | find, test, apply | any order, any number of times, same cartridge |
| pre-fight transfer | `asm/prefight-table.asm` | one DMA channel | program, start | the frame interrupt does not disturb it |
| search and map | `sdd1find.py`, `sdd1map.py`, `sdd1sites.py`, `analyse.py` | bitmaps, candidates, markers, a map | probe, extend, chain, mark, audit | collisions find nothing that is not there, every byte of the graphics is accounted for |
| verification tools | `tools/verify_*.py`, `tools/validate_all.py`, `tools/rebuild_all.py` | `build/all`, batches | resolve, compare, rebuild | their lookup is the console's, no verdict from half an answer, no image is a mixture |
| sample tools | `tools/sample_reuse.py`, `tools/sample_audit.py` | replayed events, a walk over sound memory | replay, audit | figures agree with what the patch then skips and with what can be heard |
| emulator harness | `emu/main.cpp`, `emu/windowed_lorom.cpp`, `emu/play.cpp` | pending block, counters over memory accesses, the log | note read, note write, verify a block, report | verdicts are about the block they name |
| measurement tools | `tools/compare_audio.py`, `tour_audio.py`, `stage_diff.py`, `driver_run.py`, `freeze_spcfast.py`, `tile_shape.py` | logs, two processors, the table in `spcfast.py` | run, parse, judge; deliver; freeze, verify | a log cut anywhere never reads as a pass; the two benches agree; what is frozen reproduces the assembler |
| reference decoder | `sdd1ref.py`, `ref/driver.cpp` | one exchange | request, response, compare | an answer is cut where the lengths say |
| diagnostics | `doctor.py`, `environment.py`, `hardware.py`, `tools/identify.py` | none | look, conclude, report | a machine called well builds |
| data | stream lists, manifests, `asm/Dockerfile` | none | none | generated |

How they interact. The stream tables are frozen data that `tools/converge_jp.py`
and `tools/harvest_jp.py` extend by playing builds of the cartridge, and
`tools/tour_oracle.py` by playing one that still has the chip. `pack.py`
asks `gate.py` about a region's table, patches the retail dump, has `build.py`
assemble the bypass into it, and hands the result to `rombuild.py`, which
allocates space, calls `sdd1tables.py` for the lookup tables and lays the image
out. On the console the translation routine reads those tables, in the banks the
layout chose, each time the game starts a transfer. Independently, the patched
upload routine talks to the patched sound driver, and the repeat-load hook
decides which uploads happen at all. The tools around a build share nothing but
files with it: logs of the emulator, images, `build/all`, `asm/`, and
`spcfast.py` itself, which one of them rewrites.

What is hard: two processors sharing latches with no lock, one byte at a time,
with a counter that wraps; a scan on the console with no bound of its own, whose
termination rests on what the builder accepted; wrap-around of 16-bit indices
and of banks; a record in work RAM that survives a reset; tools that change the
table they are judged by; a packer that may be stopped between any two files;
readers of logs whose writer may have died, since its exit code is not looked at.

## 2. Modules

| Module | Models | Uses |
|---|---|---|
| `SpcUpload` | both processors, one action per latch access | |
| `BlockCopy` | the abstract promise: a session copies its bytes, in confirmed pieces | |
| `CpuThird` | division routine | |
| `UploadThird` | the upload calling the division before it sends a count; its refinement mapping to `BlockCopy` | `SpcUpload`, `CpuThird`, `BlockCopy` |
| `KeyTables` | `allocate`, `verify`, `build` of `sdd1tables.py` | |
| `FreeSpace`, `FirstFit`, `RomLayout` | `subtract`/`merge`, `allocate`, `build` of `rombuild.py`, and the console's map | each the one before |
| `Translate` | the translation routine and its hooks | |
| `Bypass` | builder and routine together: the tables one makes are scanned by the other | `Translate`, `KeyTables` |
| `RepeatLoad` | the hook and the engine's load; resets in between | |
| `PatchChain` | the five byte patches in any order | |
| `Harvest`, `Converge`, `TourOracle` | the three table tools | |
| `StreamTable` | the tools in turn: the file one leaves is the one the next reads | all three |
| `Gate` | `check()`, `mapcheck.py`, the table build that follows, and the verifier's lookup in it | `KeyTables` |
| `Pack` | runs of the packer over shared directories | |
| `RunLogs` | the emulator's log, line by line, and the four tools that read one | |
| `DriverRun` | `driver_run.py`: a stand-in and a console, each opposite the modelled driver | `SpcUpload` |
| `Rebuild` | `rebuild_all.py` over `build/all` and `asm/` | |
| `Freeze` | `freeze_spcfast.py` and the `spcfast.py` it writes | |
| `StreamSearch` | search, chains, markers, map, audit, sites, novelty; `rombuild.py` reading a map | |
| `Reference` | `sdd1ref.py` and `verify_streams.py` | |
| `SampleBank`, `SampleReuse` | the audit of a sample bank; the replay of a soundwalk | |
| `Doctor` | the diagnostics, and what a build on the machine would meet | |
| `TileShape` | `tile_shape.py` | |
| `Tools` | one of these programs is run once | the ten above |
| `ModArith` | lemmas on `%` and `\div`, and that a set of naturals has a least element | |
| `SoundProofs` | theorems about the upload, the division and their composition, and about the repeat-load hook | `UploadThird`, `RepeatLoad`, `ModArith` |
| `KeyTablesProofs` | theorems about the builder of the tables, and from them about the gate | `Gate`, `ModArith` |
| `BypassProofs` | theorems about the translation, from those about the builder | `Bypass`, `KeyTablesProofs` |
| `BuildProofs` | theorems about what feeds a build: the patches, the packer that applies them, the three table tools in turn | `PatchChain`, `Pack`, `StreamTable`, `ModArith` |
| `RomLayoutProofs` | theorems about free space, first fit and the image | `RomLayout`, `ModArith` |
| `AnswerProofs` | lemmas on folds, on lists of lists and on numbers in order, and from them what each tool that answers in one step computes | the modules of those tools, `ModArith` |
| `ToolsProofs` | theorems about the programs run by hand | `Tools`, `AnswerProofs` |

Every `MC*` module defines the constants of one configuration and nothing else.
Operators named for a fault (`RepairKeeping`, `CopyIfNew`, ...) sit just before the
definition they are a faulty variant of; nothing uses them unless they are put
in its place, which is how each property was seen to fail.

### State and code

* **SpcUpload.** `out[0..3]` are `$2140-$2143` as the 65816 writes them, `echo`
  is what it reads back. `cpc` and `spc` name the places in `cpu_send_triples`,
  the stock send loop, and the driver's receive loop. `i` is Y of the 65816,
  `y` the driver's store index, `dest`, `two`, `three` its three stream
  pointers. `base`, `start`, `acked` are history variables. The byte width `W`,
  the number of pages and the counter bump `Step` are parameters. The loops of
  the game's own uploader (headers, end of block) are modelled from the stock
  code the patch comments quote. A latch is read and written atomically, as the
  assembly's comments state.
* **KeyTables.** `table`, `placed` and `rounds` are the variables of
  `allocate`; `rom` the four arrays of `build`. One action per loop iteration.
* **RomLayout.** The loops of `subtract`, `merge` and `allocate` and of each
  `place` in `build` are actions that run once per pass; `regions` is what a
  loop has still to visit, `free` the list `merge` returns, `kept` what
  `subtract` did, `step` the number of the pass. An image byte holds what was written there (`<<"rom", n>>`,
  `<<"stream", key, n>>`, ...), so reading back identifies the writer. `FileOf`
  is the builder's address map, `Pointer` the one `windowed_lorom.cpp` installs;
  the properties relate the two.
* **Translate.** One action per run of instructions between branches. The stack
  is byte by byte, because the routine addresses the caller's saved registers by
  offset; the accumulator keeps its hidden high byte.
* **RepeatLoad.** The sound engine is the cartridge's own and is modelled from
  what the hook's comments and `repeatload.py` say it does. `stock` is what the
  unpatched engine would have left.
* **PatchChain.** `rom` says what each place of the cartridge reads as, a set of
  runs (two where they overlap); `rom.find` is the set of places of the body
  that hold a run. `buffer` and `todo` are the copy and the survey of
  `gamefixes.apply`, the only patch with a loop whose steps can disturb one
  another. `stamp` is what the checksum was computed over, so two cartridges
  with one sum count as different. The bypass that the assembler adds between
  the patches is not in the repository's Python and not part of the chain.
* **Converge, Harvest.** A game is the set of requests it makes, possibly only
  after other streams are present; decoding and compressed lengths are external.
* **StreamTable.** `htable` is `table` of the harvester's `main()`, `file` is
  `build/harvest/table.txt`, `table` what the second tool read from it. The
  harvester's process is gone once the file is written, and a build that raises
  ends it without one. A tour of the third tool leaves any part of its log.
* **Gate.** The builder's state is reused: `check()` runs the allocator, and a
  pass restarts it for the build. `verdict = "ungated"` marks the callers of
  `sdd1tables.build` that never ask the gate.
* **Pack.** A file is the stage it reached and the source version it came from.
  A run imports its modules at `Start`; edits may happen at any time.
* **UploadThird.** The count of a triple block leaves the 65816 only after
  `cpu_third` has run, while the driver waits; `CountIsThird` ties the two.
* **RunLogs.** `pending`, `tally` are `blk_pending` and the counters of
  `main.cpp`; `log` is the file; `truth` is what really happened, a history the
  tools cannot see. What a tool reads of a kind of line it reads at the places of
  the log that hold one (`Of`, the last one `LastOf`); the longest silence is a
  fold over its counters, as `silence()` goes through them. `Died` may come after
  any line, because every caller passes `check=False` and reads the file afterwards.
* **DriverRun.** The driver is an `INSTANCE` of `SpcUpload` with the 65816 taken
  away; `console` is the main processor the tool puts in its place, `plan` the
  transfers of `main()`, `transfers` what came back.
* **Rebuild, Freeze.** A file is where it came from; a cartridge is a few cells
  of which the last is the checksum.
* **Doctor.** A machine is a record of facts; every check is a function of it,
  and what a build would meet on it is stated beside them, from the code a build
  runs.
* **StreamSearch, Reference, SampleBank, SampleReuse, TileShape.** Sequential
  programs with no state between runs: operators over small inputs, held to a
  reference definition that is stated without the algorithm.

## 3. Runs

| Run | Bounds | States | Shows |
|---|---|---|---|
| `upload` | byte of 8 values, 5 pages, 11 block lists of up to 28 bytes | 101 k | `TypeOK`, `NoFalseHeader`, `AckedIntact`, `LatchesHeld`, `SessionEnds`, that the protocol implements `BlockCopy` (`ImplementsCopy`), that the division is exact and that the count sent is its answer (`Quotient`, `CountIsThird`) |
| `gate` | 4 slots, 2 banks; builds without the gate of every list of up to 4 streams and one of 5; gated ones of sorted lists of up to 3, with one length, decode or request wrong; 3 repair rounds | 183 k | slots are owned by one stream, no internal failure, every accepted list translates correctly (so duplicates are refused), repair moves nothing, a verdict is reached; a list that passes is placed by the build, found within the scan budget by the console and the verifier alike, and long enough for every request; `mapcheck.py` and the gate agree |
| `layout` | 6 banks of 4 bytes per quarter, lists of up to 3 streams, some at the end of a bank, 0 to 2 extra blocks | 84 k | the free list is exact; streams do not overlap; streams, tables, extras, both LoROM views and the rest of the window read back through the console's map, and the verifier says so |
| `bypass` | 16 slots, 3 channels, every entry point, both register widths | 29 k | the routine starts the right transfer, restores the caller, touches one channel, ends |
| `repeat` | 2 lists, 2 groups, any sequence of loads | 18 k | sound memory after a skip is what the stock engine would leave |
| `patches` | 2 fixes, 2 empty routines, 3 driver runs, 10 places; both retail cartridges and 273 that differ at one place, have two runs overlap or lack everything | 24 k | the cartridge depends only on which patches were accepted, no order of them is refused on a retail one, the checksum misses at most the pre-fight patch |
| `stream_table` | 3 sources, 2 variants and 2 harvest rounds, then 2 or 4 rounds over all games of 5 requests, then 2 tours | 1.24 M | no source is lost, what is on disk never shortens, converged tables know every source that decodes, enough rounds converge or the build fails, and the tours restore what some log asked more of |
| `pack` | 2 regions, 3 runs, 3 edits, failures and interrupts anywhere | 326 k | only gated sources are packed, leftovers never are, exit zero means manifest and files agree |
| `tools` | small inputs of each tool, all of them (`MCTools`): two packages and three dumps, sound memory of ten cells, walks of three loads, outputs over two letters, logs of two fighters and two blocks, payloads that wrap an index of 8 values, cartridges of five cells | 2.06 M | per tool, that its exit code and figures agree with what was there: `DiagnosisRight`, `LogsTell`, `BankAudited`, `ReuseRight`, `StreamsFound`, `VerdictRight`, `TransfersRight`, `FreezeRight`, `RebuildRight` |

Why the bounds are enough. The upload's interesting cases are the wrap of the
index byte, the sign of the difference with the counter, lengths three does not
divide and a rounded block that is followed by another; with eight byte values a
28-byte block wraps, and the lists mix all of these. Key tables go wrong through
probing past occupied slots and past the end: four slots and four streams fill
the table completely. The layout has regions that touch, overlap, end at a bank
and are cut by an extra block. Three packer runs are one that leaves something
behind, one that could trip over it and one after that. The tools' inputs are
chosen around their edges: a limit of zero, a batch that is not full, a bitmap of
one slot where everything collides, a map marker past the end, a log cut at each
line, a second bad block where one is named, a byte the assembler writes that was
there already.

Several properties are conjunctions of one claim's parts. `SourcesKept` also says
that no entry on disk is shortened, `SkipIsRight` that memory and allocator are
the stock engine's, `CallerRestored` that no other channel changes,
`SlotsAreOwned` that no internal failure of the allocator is reached,
`OrderFree` that a retail cartridge takes every patch in every order,
`SuccessIsWhole` that a manifest line and its file differ only after a failed
run, `StreamsReadable` and `RomReadable` that tables, extra blocks and the
verifier's reading agree.

Three runs expect a violation. Each checks one sentence of the repository that the
code does not satisfy:

| Run | Sentence | What the code does |
|---|---|---|
| `repeat_reset` | `asm/repeat-load.asm`: after the first load the marker is always correct | a reset in the middle of an upload leaves a valid record of a partial list |
| `table_complete` | `tools/converge_jp.py`: a round that adds nothing means the table is complete | requests longer than an existing entry are passed over, also when the harvester trimmed that entry |
| `gate_reports` | `gate.py`: everything wrong with a table, or an empty list | an allocator error escapes for some lists with distinct sources |

The last is of little practical weight for the frozen tables, which both pass
today; it matters to whoever extends one. It goes with `RepairMovesNothing`,
which holds: a stream under repair always takes back the slot it gave up, so the
repair rounds settle nothing first fit did not, although `sdd1tables.test.py:146`
speaks of "placements the greedy pass gets wrong and the repair pass fixes".

### Fairness

`upload` assumes weak fairness of each processor (`WF(CpuUpload /\ cpc # "idle")`,
`WF(Spc)`): both execute independently and neither can stop the other. Opening a
session is the game's choice and is not fair. `bypass` assumes the 65816 keeps
executing, `gate` and the second tool of `stream_table` that a sequential program
takes its next step; starting a tool is somebody's choice and is not fair. The
other runs state safety only. Runs of sequential programs that really end
(`gate`, `layout`, `bypass`, `stream_table`, `pack`, `tools`) do not check
deadlock; `upload`, `repeat` and `patches` do. `TransfersRight` says itself that
a bench that has not finished can take a step.

## 4. Proofs

All theorems hold for every value of the constants allowed by the named
assumptions, and are checked by TLAPS. TLC evaluates every assumption on the
constants of the runs, and checked each inductive invariant on a small instance.

Almost none of the properties is inductive: a handshake goes wrong long after
the step that made it go wrong. For each component the table gives the invariant
that is, and what it adds.

| Module | Inductive invariant | What it adds to the property |
|---|---|---|
| `SoundProofs` | `TypeOK /\ Phase` | for every place of the 65816 the possible places of the driver, and how counter, echo and index then relate; without it a counter could be taken for a header |
| | `DataInv` | what is in the latches and in sound memory fits the place of both, where the driver stores next, and that nothing confirmed is written again |
| | `ThirdInv`, `Rounded`, `Dividing` | three times the quotient plus the last term is at most the value; what the driver can do while it waits |
| | `LoadInv` | a valid record is about a list that is whole, but between the patch writing it and the engine sending the list; the load under way ends where the stock engine has been since it began (`Due`) |
| `KeyTablesProofs` | `TableInv` | every slot from a stream's address to its own is taken, so that the console's walk passes no free slot and no slot of its bank; a free slot remains while a stream is unplaced (pigeonhole); the emitted arrays are the table |
| | `OrderInv`, `GateInv` | streams placed so far sit where first fit in order of address puts them; there is one such placement (`OnePlacement`), so what `check()` measured on its own holds of the build's |
| `BypassProofs` | `BypassInv` | what lies on the stack at each place, byte by byte; no slot before the cursor holds the bank; which caller's stream is being translated; the tables are a finished build's |
| `BuildProofs` | `ChainInv` | place by place the cartridge is what the accepted patches make of the first one (`Image`); inside `gamefixes.apply` so is the copy, fix by fix |
| | `TablesInv` | the table in memory is the one on disk but for what the round has added; each candidate is the longest request; the tours have seen the longest of all they met |
| | `PackInv` | at each place of a run which file is at which stage and made from which version; the regions the gate let through; the lines gathered |
| `RomLayoutProofs` | `SpaceInv` | at each pass of a loop, which bytes the regions left and the list made so far cover; the list is sorted with gaps; what is left to merge does not come before it |
| | `FitInv` | every placed stream ends at or before the cursor of its region, and what is placed and queued are the entries, once each |
| | `ImageInv` | what each finished write shows at the console's addresses, and that no byte of a stream still to be written is anywhere |
| `ToolsProofs` | `RebuildInv` | at each of the seven phases which files of `build/all` this run has laid out and which an earlier one left, and what lies staged in `asm/` |
| | `BenchInv` | a run of the bench is of one of three kinds (`RightPhase`, `LateCounter`, `HiddenEcho`), and what its driver, its console and its memory have come to follows from the number of triples gone over |
| | `LogsInv` | what can be read of the log so far is what happened so far: the end, the blocks, the counters, the misses, the tracks (`Told`); an exit code is the reading of a log that is closed |

The theorems, by component:

* **Upload**, from `WidthAssumption` (a byte has at least `4 * Step` values,
  `Step >= 2`), `SessionAssumption` (blocks are not empty) and `RoomAssumption`
  (a list fits sound memory behind its base): `TypeCorrect`, `HeadersAreReal`,
  `LatchesAreHeld`, `BytesArrive` (`AckedIntact`) and `CopyImplemented`, that
  each step of either processor is a step of `BlockCopy` or invisible to it.
  From `WordAssumption` `QuotientCorrect`, for every word size and number of
  terms; with `RoundAssumption` (a length plus two fits the word)
  `CountsAreThirds`. `UploadRuns` and `UploadKeeps` carry all of them over to the
  composition the run checks.
* **Key tables**, from `TableAssumption` (a byte has at least two values):
  `SlotsOwned`, `LookupsCorrect` and `RepairsMoveNothing`, for every list, with
  duplicates too.
* **Gate**, from `GateAssumption` (lengths and requests are integers) besides:
  the three above through the trial and the build after it, and `BudgetHolds`,
  `ReportsAgree`, `RequestsAreServed`.
* **Translation**, from `BypassAssumption` (banks of the streams fit a byte, one
  value is no channel): `CallerIsRestored` and `TransfersAreCorrect`, the second
  from `TablesAreBuilt`, which imports the builder's invariant.
* **Repeat load**, from `RepeatAssumption` (every list fits with any three
  groups, and no list has the number zero): `SkipIsRightTheorem`.
* **Patches**, from `ChainAssumption`: `ChecksumCovers` and `OrdersAreFree`. The
  assumption says of every cartridge `Fitting`, runs that overlap belong to
  game fixes only, as the sites in the five modules do; and of a retail one
  `Patchable`, what its patches look for is there once. An overlap of two
  patches would make their order matter, and `OrderFree` false.
* **Table tools**, from `ConvergeAssumption`, `OracleAssumption` and
  `HarvestAssumption` (lengths are bounded, a longer stream does not end before a
  shorter one, `main()` is given at least one round): `SourcesStay`
  (`SourcesKept`, also where a trim fails half way), `SourcesAreComplete`,
  `OracleRestored`. They cover both hand-overs of the file.
* **Layout**, from `LayoutAssumption`: `FreeSpaceIsExact`, `FirstFitIsApart`,
  `StreamsReadBack` and `RomReadsBack`, for every size of banks, quarters and
  tables, any streams, overlapping ones too, and any extra blocks. The
  assumption says what the callers of `build()` give it: sources lie in the
  cartridge, lengths are positive (the gate refuses others), the tables lie in
  data banks, and an extra block in one bank of data that is neither a table nor
  work RAM and not on another block, as the only one, the pre-fight table, does.
  The argument: the merged list covers what the holes leave and no run of
  compressed bytes goes past the region it lies in, so the free bytes are exactly
  those nobody reads; first fit keeps streams behind the cursors, hence inside
  them and apart; and since `FileOf` is one to one on what the console can see and
  agrees with its `Pointer` there (`FileInjective`, `MapsAgree`), a write shows
  where it was aimed and nowhere else. `PlacedShows`, `PlacedInside` and
  `PlacedAcross` are what that makes of `place()`, over the middle of a bank and
  over its end.
* **Packer**, from `PackAssumption` (arguments are names, the sources the first
  run finds pass): `ImagesAreGated`, `SuccessMeansWhole`, for any number of
  regions, runs and edits.
* **Tools**, each for all inputs its assumption admits; `InputsAreKept` says that
  a program keeps to the one it was started with.
  * `RebuildsAreSound` (`RebuildRight`), whatever `build/all` held before.
  * `DiagnosesAreRight`, from `MachinesGiven`: a machine is any record of the
    facts the checks look at (`IsMachine`).
  * `BanksAreAudited`, from `BankSizes` and `BanksGiven` (sound memory is bytes).
    A sample's walk is a function of the blocks still allowed, so what a walk
    reaches is what a step count reaches; the audit and the sound chip then read
    the same blocks, and a write outside them cannot be heard.
  * `FreezesAreRight`, from `FreezeSizes` and `FreezesGiven`: any four
    cartridges of one size, two retail and two assembled, and any table to begin with. The runs of changed cells cover the changes
    exactly and no two touch, so applying them gives back what the assembler made.
  * `TransfersAreRight`, from `BenchSizes` and `PayloadsGiven`: a payload fits the
    regions it goes to, and the first bytes of its triples are all zero or show
    another value before a counter has come round. Without the second a run with
    a late counter would neither be given up nor finish.
  * `VerdictsAreRight`, from `ReferenceSizes` and `ComparedGiven`: cases lie in the
    image, and the reference decoder has as many bytes as it is asked for. The answer is cut where the lengths say, so the
    k-th piece is the k-th output, batch by batch.
  * `StreamsAreFound` (`StreamsFound`), from `SearchLengths` (8, 32 and 4096 are
    in that order) and `TileSizes`, for every hash and width of the two bitmaps,
    and from `SearchesGiven`, `TaggedGiven`, `ChunkedGiven` (bytes are naturals)
    and `SheetsGiven` (the control is as long as the longest stream). Hits come
    in the order of the offsets, so `chains()` sorts nothing, and after each hit
    the chains so far read back as the hits so far and break where one did not
    follow (`WellChained`). A map that is not refused is streams side by side
    (`IsMap`), which is all that rebuilding it, cutting off its last stream,
    auditing it and freezing it need. A tile that repeats is one that is not the
    first of its kind, and the firsts are as many as the kinds.
  * `LogsAreTold` (`LogsTell`), from `RunBounds`, for every roster, budget and
    number of blocks, and an emulator that dies after any line.

Where an argument needs induction over data, a set of naturals with a least
element takes its place (`LeastNatural`, from the library's well-foundedness of
finite subsets): the longest request, the one placement, the sum of a list's
blocks, the walk of the console. A fold or a function that recurs on a number is
handled the same way: it has a value at each step of it (`FoldExists`), the values
up to the last are those of a function on an interval, and a claim that fails
has a least place where it fails (`UpTo`).

Only model-checked:

* Liveness: `SessionEnds`, `ScanEnds`, `GateDecides`, `Converges`. They need
  fairness and `ENABLED`, which the provers lack.
* `ReuseRight`: the replay of a soundwalk keeps a memory, a history and figures at
  once through a fold over the walk, and states its figures against a second
  replay; the claim is about the pair of folds.

## 5. What was noticed on the way

Behaviour of the code that no property calls wrong, because nothing in the
repository promises otherwise, but that a user of the tools should know. The
models have all of it.

* `doctor.py` cannot report a missing `romimage`: it imports `tools/identify.py`,
  which loads that package at import, so the process dies first. A package's own
  doctor that lacks a dependency is skipped in silence by `_ask_each`.
* `doctor.py` leaves what `environment.py` finds out of its exit code, and
  `environment.py` run by itself measures the directory above the checkout.
* `path_budget` measures the generated paths only when the tracked ones fit;
  `line_endings` looks at no file below a directory whose name starts with a dot.
* `mapcheck.py` decodes every entry but does not compare lengths, and refuses a
  length of zero that the gate takes.
* `freeze_spcfast.py` writes the new table before it verifies it; a table that
  fails stays on disk.
* `harvest_jp.py` writes its table at the end only: a build that raises loses the
  rounds before it.
* `stage_diff.py` exits zero whatever it finds; a run that could not load its
  image prints a result without a frame count, which the readers show as `?`.
* `tile_shape.py` with a limit of zero measures one stream, since the limit is
  looked at after a stream is taken, and reads a cartridge not named for the USA
  by the Japanese table.

## 6. Not modelled

The S-DD1 codec, the emulator core and the game's own code are external; the
stock sound driver, uploader and engine appear as far as the patches rely on
them. The stream lists and the list of requests, half of the repository's Python
lines, are generated data without an operation. `asm/prefight-table.asm` is a
straight line of register stores: what could disturb it, and the translation, is
the game's frame handler, which is not in the repository. The Shin Akuma
assembler sources are the same two bytes `shinakuma.py` writes. Of the harness
the input scripts, screenshots and memory dumps are left out, and `play.cpp`,
which is a window. The command lines of the five patches read a file, refuse to
write it in place and write another; the chain is modelled from `apply()` on.
Concurrent packers are a listed hazard: the packer takes no lock and nothing says
that two may run. Nor is a process stopped inside one file write modelled, or
timing (cycles, blanking, frame budgets), or the wording of reports.

## 7. Plan

Done: upload and division, key tables, gate and map check, layout and image
check, translation, repeat load, the patches, the three table tools, packer, and
the tools around a build.

Left to model: `cpu_send_triples` with its private stack, three stream pointers
by stack offset and registers restored on every path.

Left to prove: `ReuseRight`, for which the replay would have to be written as a
sequence of steps, as the loops of the layout are. A
composed theorem for what the build delivers would join `RomReadsBack` with
`GatedLookupsCorrect` and `TransfersAreCorrect`: lists the gate passed, placed by
the layout, read by the console.
