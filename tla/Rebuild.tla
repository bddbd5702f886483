------------------------------ MODULE Rebuild ------------------------------
(***************************************************************************)
(* tools/rebuild_all.py: every variant of both regions, as the cartridge   *)
(* that was patched, the cartridge with the bypass and the image without a *)
(* chip.  The files of an earlier run may be in build/all; a step may      *)
(* raise, or the run be interrupted, anywhere.                             *)
(***************************************************************************)
EXTENDS Integers, Sequences, FiniteSets

VARIABLES
  turn,     \* the variant being built
  phase,    \* the step it is at
  produced, \* asm/: what build.py has left there, per region and variant
  all,      \* build/all: per region, variant and form
  before    \* build/all before the run

rebuildVars == <<turn, phase, produced, all, before>>

Names == <<"base", "spc", "sa", "both">>
Lands == <<"usa", "jp">>
Forms == {"cart", "bypass", "free"}
Variants == [n \in 1 .. 8 |-> <<Lands[(n + 3) \div 4], Names[((n - 1) % 4) + 1]>>]
PREFIGHT_VARIANT == "both"

\* variants(): the patches of each.
variants(name) ==
  CASE name = "base" -> {}
    [] name = "spc" -> {"spcfast"}
    [] name = "sa" -> {"shinakuma"}
    [] name = "both" -> {"spcfast", "shinakuma", "gamefixes", "repeatload"}

\* A file: whose retail cartridge, which patches, whose bypass, whose streams
\* and what was placed beside them; fresh if this run wrote it.
Missing == [land |-> "none", patches |-> {}, bypass |-> "none", streams |-> "none", extra |-> {}, fresh |-> FALSE]
Cart(v, fresh) == [Missing EXCEPT !.land = v[1], !.patches = variants(v[2]), !.fresh = fresh]
BYPASS(v, cart) == [cart EXCEPT !.bypass = v[1]]

image_source_tableless(name, rom) ==
  IF name # PREFIGHT_VARIANT THEN rom ELSE [rom EXCEPT !.patches = @ \cup {"prefight"}]

\* image_source(): one variant gets the pre-fight patch, and its table beside it.
image_source(name, rom) ==
  IF name # PREFIGHT_VARIANT THEN rom
  ELSE [rom EXCEPT !.patches = @ \cup {"prefight"}, !.extra = {"table"}]
entries_for(v, rom) == [rom EXCEPT !.streams = v[1]]

\* A finished build of an earlier run, or none.
Kept(v, form) ==
  LET cart == Cart(v, FALSE)
  IN  CASE form = "cart" -> cart
        [] form = "bypass" -> BYPASS(v, cart)
        [] form = "free" ->
             [BYPASS(v, cart) EXCEPT !.streams = v[1], !.extra = IF v[2] = "both" THEN {"table"} ELSE {},
                !.patches = @ \cup (IF v[2] = "both" THEN {"prefight"} ELSE {})]
Files(rebuilt) ==
  [v \in {Variants[n] : n \in 1 .. 8} |-> [form \in Forms |-> IF v \in rebuilt THEN Kept(v, form) ELSE Missing]]

RebuildInit ==
  /\ turn = 1 /\ phase = "patch"
  /\ produced = [v \in {Variants[n] : n \in 1 .. 8} |-> Missing]
  /\ all \in {Files({}), Files({Variants[n] : n \in 1 .. 8}), Files({Variants[4]})} /\ before = all
NoRebuild == turn = 0 /\ phase = "none" /\ produced = <<>> /\ all = <<>> /\ before = <<>>

Here == Variants[turn]
Goes(from, to) == turn \in 1 .. 8 /\ phase = from /\ phase' = to /\ UNCHANGED before
WritesAll(form, file) == all' = [all EXCEPT ![Here][form] = file]

\* Every patch of every variant is applied before a file is written.
Patch == Goes("patch", "stage") /\ UNCHANGED <<turn, produced, all>>

\* assemble(): stage, build.py, copy, unlink.  build.py puts a copy of the
\* cartridge in asm/ before it patches that copy.
StageCart == Goes("stage", "copy cart") /\ WritesAll("cart", Cart(Here, TRUE)) /\ UNCHANGED <<turn, produced>>
CopyCart ==
  /\ Goes("copy cart", "assemble") /\ produced' = [produced EXCEPT ![Here] = all[Here]["cart"]]
  /\ UNCHANGED <<turn, all>>
Assemble ==
  /\ Goes("assemble", "collect") /\ produced' = [produced EXCEPT ![Here] = BYPASS(Here, @)]
  /\ UNCHANGED <<turn, all>>
Collect == Goes("collect", "unlink") /\ WritesAll("bypass", produced[Here]) /\ UNCHANGED <<turn, produced>>
Unlink ==
  /\ Goes("unlink", "build") /\ produced' = [produced EXCEPT ![Here] = Missing]
  /\ UNCHANGED <<turn, all>>

\* The image is laid out from the bypass read back from build/all, and written.
Build ==
  /\ Goes("build", IF turn = 8 THEN "done" ELSE "stage")
  /\ WritesAll("free", entries_for(Here, image_source(Here[2], all[Here]["bypass"])))
  /\ turn' = (IF turn = 8 THEN 8 ELSE turn + 1)
  /\ UNCHANGED produced

RebuildNext == Patch \/ StageCart \/ CopyCart \/ Assemble \/ Collect \/ Unlink \/ Build

-----------------------------------------------------------------------------
\* verify_image.py: which retail cartridge an image is held to.
region_of(v) == v[1]
carries_game_fixes(v) == v[2] = "both"

\* However the run ends, no image in build/all is a mixture: a new one comes
\* from the new cartridge and the new bypass of its own region and variant, has
\* the pre-fight patch and its table together, and is one that verify_image.py
\* holds to the right retail cartridge; a variant not reached is as it was.
\* Nothing stays in asm/ but the one being assembled, and a run that ends well
\* has rebuilt everything.
RebuildSound(exit) ==
  /\ \A v \in DOMAIN all :
       LET free == all[v]["free"]
       IN  free # Missing =>
             /\ free.land = region_of(v) /\ free.bypass = v[1] /\ free.streams = v[1]
             /\ ("gamefixes" \in free.patches) = carries_game_fixes(v)
             /\ ("prefight" \in free.patches) = ("table" \in free.extra)
             /\ free.fresh => /\ all[v]["cart"].fresh /\ all[v]["bypass"].fresh
                              /\ all[v]["bypass"].patches = variants(v[2])
  /\ \A n \in DOMAIN Variants : n > turn => all[Variants[n]] = before[Variants[n]]
  /\ \A v \in DOMAIN produced : produced[v] # Missing => v = Here
  /\ exit = 0 => /\ \A v \in DOMAIN all, form \in Forms : all[v][form].fresh
                 /\ \A v \in DOMAIN produced : produced[v] = Missing
=============================================================================
