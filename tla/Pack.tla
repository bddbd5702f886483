------------------------------- MODULE Pack -------------------------------
(***************************************************************************)
(* pack.py and build.py: one run of the packer after another over the same *)
(* tree, dist/ and asm/ directories, with edits to the tree at any moment, *)
(* an assembler that may fail and a process that may be stopped.           *)
(* What an image is made from is a version of its region's sources; a file *)
(* is the stage it reached and the version it was made from.  The assembly *)
(* source, which asar reads when it runs, is taken not to change, and one  *)
(* file is written in one step.                                            *)
(***************************************************************************)
EXTENDS Integers, Sequences

CONSTANTS
  Region,     \* REGIONS
  All,        \* the regions in sorted order, a run without arguments
  Arguments,  \* the argument lists a run may be given
  Passing,    \* the versions whose table passes the gate
  Breaking,   \* the versions whose patches or layout raise after the gate
  MaxEdits,   \* bound: edits of the tree in a behaviour
  MaxRuns     \* bound: runs in a behaviour

Version == 0 .. MaxEdits
Name == Region \cup UNION {{args[k] : k \in DOMAIN args} : args \in Arguments}
None == [kind |-> "none", of |-> 0]

ASSUME PackAssumption ==
  /\ All \in Seq(Region) /\ All # <<>> /\ \A r \in Region : \E k \in DOMAIN All : All[k] = r
  /\ Arguments \subseteq Seq(Name)
  /\ MaxEdits \in Nat /\ MaxRuns \in Nat /\ 0 \in Passing
  /\ Passing \subseteq Version /\ Breaking \subseteq Version

VARIABLES
  tree,      \* the version of each region's sources on disk
  edits, runs,
  dumps,     \* the regions whose retail dump is present
  work,      \* dist/work/<region>-patched.sfc
  asm,       \* asm/<region>-bypass.sfc
  dist,      \* dist/<title>-nochip-v<version>.sfc
  manifest,  \* dist/SHA256SUMS, the empty list while there is none
  phase, wanted, at, \* the run: its place, its regions and the one it is at
  sources,   \* the modules it imported when it started
  lines,     \* the manifest lines gathered so far
  image,     \* the image it is making
  code       \* the exit code of the last run, -1 before it has one

disk == <<work, asm, dist, manifest>>
runVars == <<phase, wanted, at, sources, lines, image, code>>
packVars == <<tree, edits, runs, dumps, work, asm, dist, manifest,
              phase, wanted, at, sources, lines, image, code>>

Here == wanted[at]

-----------------------------------------------------------------------------
PackInit ==
  /\ tree = [r \in Region |-> 0] /\ edits = 0 /\ runs = 0
  /\ dumps \in SUBSET Region
  /\ work = [r \in Region |-> None] /\ asm = work /\ dist = work /\ manifest = <<>>
  /\ phase = "idle" /\ wanted = <<>> /\ at = 1 /\ sources = tree
  /\ lines = <<>> /\ image = None /\ code = -1

\* Somebody changes a stream table or a patch, also while a run is going on.
Edit(r) ==
  /\ edits < MaxEdits /\ edits' = edits + 1
  /\ tree' = [tree EXCEPT ![r] = edits + 1]
  /\ UNCHANGED <<runs, dumps, disk, runVars>>

\* Every module is imported before the first check.
Start(args) ==
  /\ phase = "idle" /\ runs < MaxRuns /\ runs' = runs + 1
  /\ wanted' = IF args = <<>> THEN All ELSE args
  /\ sources' = tree /\ at' = 1 /\ lines' = <<>> /\ image' = None /\ code' = -1
  /\ phase' = "check" /\ UNCHANGED <<tree, edits, dumps, disk>>

Ends(n) ==
  /\ phase' = "idle" /\ code' = n
  /\ UNCHANGED <<tree, edits, runs, dumps, wanted, at, sources, lines, image>>

Goes(place) ==
  /\ phase' = place
  /\ UNCHANGED <<tree, edits, runs, dumps, wanted, sources, lines, code>>

Wanted == {wanted[k] : k \in DOMAIN wanted}

Unknown == phase = "check" /\ ~(Wanted \subseteq Region) /\ Ends(2) /\ UNCHANGED disk

DumpMissing ==
  /\ phase = "check" /\ Wanted \subseteq Region /\ ~(Wanted \subseteq dumps)
  /\ Ends(1) /\ UNCHANGED disk

Checked ==
  /\ phase = "check" /\ Wanted \subseteq dumps
  /\ Goes("gate") /\ UNCHANGED <<at, image, disk>>

GateFirstOnly ==
  /\ phase = "gate" /\ sources[Here] \in Passing
  /\ at' = 1 /\ Goes("stage")
  /\ UNCHANGED <<image, disk>>

\* The gate is asked about every region before anything is written.
GatePasses ==
  /\ phase = "gate" /\ sources[Here] \in Passing
  /\ IF at < Len(wanted) THEN at' = at + 1 /\ Goes("gate") ELSE at' = 1 /\ Goes("stage")
  /\ UNCHANGED <<image, disk>>

GateRefuses ==
  /\ phase = "gate" /\ sources[Here] \notin Passing
  /\ Ends(1) /\ UNCHANGED disk

\* The patched cartridge is staged for the assembler.
Stage ==
  /\ phase = "stage"
  /\ work' = [work EXCEPT ![Here] = [kind |-> "cart", of |-> sources[Here]]]
  /\ Goes("copy") /\ UNCHANGED <<at, image, asm, dist, manifest>>

CopyIfNew ==
  /\ phase = "copy"
  /\ asm' = [asm EXCEPT ![Here] = IF @ = None THEN work[Here] ELSE @]
  /\ Goes("patch") /\ UNCHANGED <<at, image, work, dist, manifest>>

\* build.py: the toolchain image, then the copy asar will patch in place.
Copy ==
  /\ phase = "copy"
  /\ asm' = [asm EXCEPT ![Here] = work[Here]]
  /\ Goes("patch") /\ UNCHANGED <<at, image, work, dist, manifest>>

NoToolchain == phase = "copy" /\ Ends(1) /\ UNCHANGED disk

Patch ==
  /\ phase = "patch"
  /\ asm' = [asm EXCEPT ![Here].kind = "bypass"]
  /\ Goes("collect") /\ UNCHANGED <<at, image, work, dist, manifest>>

\* AssemblyFailed: the copy stays behind, as it was or patched in part.
PatchFails ==
  /\ phase = "patch"
  /\ \E k \in {"cart", "part"} : asm' = [asm EXCEPT ![Here].kind = k]
  /\ Ends(1) /\ UNCHANGED <<work, dist, manifest>>

Collect ==
  /\ phase = "collect"
  /\ image' = asm[Here] /\ asm' = [asm EXCEPT ![Here] = None]
  /\ Goes("build") /\ UNCHANGED <<at, work, dist, manifest>>

\* rombuild and the pre-fight patch, the write to dist/ and the line for it.
Write ==
  /\ phase = "build" /\ sources[Here] \notin Breaking
  /\ LET done == [kind |-> IF image.kind = "bypass" THEN "image" ELSE image.kind,
                  of |-> image.of]
     IN  /\ dist' = [dist EXCEPT ![Here] = done]
         /\ lines' = Append(lines, [region |-> Here, file |-> done])
  /\ IF at < Len(wanted) THEN at' = at + 1 /\ phase' = "stage" ELSE at' = at /\ phase' = "manifest"
  /\ UNCHANGED <<tree, edits, runs, dumps, work, asm, manifest, wanted, sources, image, code>>

\* A patch refuses the cartridge before it is staged, or the image cannot be
\* laid out: nothing but AssemblyFailed is caught, the traceback ends the run.
BuildRaises == phase \in {"stage", "build"} /\ sources[Here] \in Breaking /\ Ends(1) /\ UNCHANGED disk

Manifest ==
  /\ phase = "manifest"
  /\ manifest' = lines
  /\ Ends(0) /\ UNCHANGED <<work, asm, dist>>

\* The run is stopped between any two of its steps.
Stopped == phase # "idle" /\ Ends(130) /\ UNCHANGED disk

Step ==
  \/ Unknown \/ DumpMissing \/ Checked \/ GatePasses \/ GateRefuses \/ Stage
  \/ Copy \/ NoToolchain \/ Patch \/ PatchFails \/ Collect
  \/ Write \/ BuildRaises \/ Manifest

PackNext ==
  \/ Step \/ Stopped
  \/ \E r \in Region : Edit(r)
  \/ \E args \in Arguments : Start(args)

PackSpec == PackInit /\ [][PackNext]_packVars

-----------------------------------------------------------------------------

\* Whatever earlier runs left in asm/ and however the tree is edited under a
\* run, an image in dist/ is a finished one, made from sources the gate saw.
OnlyGatedImages ==
  \A r \in Region : dist[r] # None => dist[r].kind = "image" /\ dist[r].of \in Passing

\* After a run that exits zero the manifest has the regions of that run and no
\* others, each line is that of the file in dist/, each file was made from what
\* the run imported, and nothing of the run is left in asm/.  A line differs
\* from its file only after a run that failed once it had begun to write, and
\* never names a file dist/ does not have.
SuccessIsWhole ==
  phase = "idle" =>
    /\ code = 0 =>
         /\ [k \in DOMAIN manifest |-> manifest[k].region] = wanted
         /\ \A r \in Wanted : dist[r].of = sources[r] /\ asm[r] = None
    /\ \A k \in DOMAIN manifest :
         /\ dist[manifest[k].region] # None
         /\ manifest[k].file # dist[manifest[k].region] => code > 0
=============================================================================
