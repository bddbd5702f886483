----------------------------- MODULE PatchChain -----------------------------
(***************************************************************************)
(* The five byte patches, spcfast.py, shinakuma.py, gamefixes.py,          *)
(* repeatload.py and prefight.py, applied to one cartridge in any order    *)
(* and any number of times, as their command lines allow.  A cartridge is  *)
(* what each place of it reads as: a set of runs, two where runs overlap.  *)
(* A run that a patch searches for may be at any place of the body; the    *)
(* others are looked at where the patch expects them.  apply() works on a  *)
(* copy, so a refusal leaves the cartridge as it was.                      *)
(***************************************************************************)
EXTENDS Integers, FiniteSets

CONSTANTS
  Fixes,      \* FIXES, numbered in their order
  Calls,      \* EMPTY_CALLS
  SpcRuns,    \* PATCH of spcfast.py
  Probed,     \* the runs of it that STOCK_PROBE looks at
  Spots,      \* places of the body
  Carts,      \* the cartridges a chain may start from
  Retail      \* the retail ones

Body == {<<"body", n>> : n \in Spots}
Driver == {<<"driver", n>> : n \in SpcRuns}
Hook == <<"hook", 0>>                      \* HOOK_FILE
Filler == {<<"filler", n>> : n \in 0 .. 3} \* $07F593 to $07F6FF, in halves of
PrefightFiller == {<<"filler", n>> : n \in {0, 1}}  \* the two FILLER ranges
RepeatFiller == {<<"filler", n>> : n \in {2, 3}}
Target(c) == <<"target", c>>               \* the first byte of an empty routine
Place == Body \cup Driver \cup Filler \cup {Hook} \cup {Target(c) : c \in Calls}

\* The runs that matter; their second component tells fixes and calls apart.
Stock(f) == <<"stock", f>>
Patched(f) == <<"patched", f>>
Call(c) == <<"call", c>>
Retired(c) == <<"retired", c>>
Gate == <<"gate", 0>>
Open == <<"open", 0>>
Builder == <<"builder", 0>>
CallsBuilder == <<"calls builder", 0>>
CallsRoutine == <<"calls routine", 0>>
Original == <<"original", 0>>
Fast == <<"fast", 0>>
Replaced == <<"replaced", 0>>
Hooked == <<"hooked", 0>>
Free == <<"free", 0>>
PrefightRoutine == <<"prefight", 0>>
RepeatRoutine == <<"repeat", 0>>
Rtl == <<"rtl", 0>>

Sites(r, run) == {pl \in Body : run \in r[pl]}
Once(r, run) == Cardinality(Sites(r, run)) = 1
Missing(r, run) == Sites(r, run) = {}

\* A cartridge says what every place reads as; runs that overlap are fixes.
Fitting(r) ==
  /\ r = [pl \in Place |-> r[pl]]
  /\ \A pl \in Body : \A run \in r[pl] :
       r[pl] = {run} \/ run \in {Stock(f) : f \in Fixes}

\* What every patch looks for before it changes anything.
Patchable(r) ==
  /\ \A n \in Probed : r[<<"driver", n>>] = {Original}
  /\ r[Hook] = {Replaced} /\ \A pl \in Filler : r[pl] = {Free}
  /\ \A c \in Calls : r[Target(c)] = {Rtl}
  /\ Once(r, Gate) /\ Once(r, Builder) /\ ~Missing(r, CallsBuilder)
  /\ \E f \in Fixes : ~Missing(r, Stock(f))
  /\ \A f \in Fixes : \/ Missing(r, Stock(f))
                      \/ Once(r, Stock(f)) /\ Missing(r, Patched(f))
  /\ \A f \in Fixes : Missing(r, Patched(f)) \/ Once(r, Patched(f))
  /\ \A f \in Fixes, g \in Fixes : f # g => Sites(r, Stock(f)) \cap Sites(r, Stock(g)) = {}

ASSUME ChainAssumption ==
  /\ Fixes \subseteq Nat /\ IsFiniteSet(Fixes) /\ Probed \subseteq SpcRuns
  /\ IsFiniteSet(Body) /\ Retail \subseteq Carts
  /\ \A r \in Carts : Fitting(r)
  /\ \A r \in Retail : Patchable(r)

VARIABLES
  rom,       \* the cartridge
  stamp,     \* what its checksum was computed over
  ppc,       \* "idle", or "fix" inside gamefixes.apply
  buffer,    \* the copy that is being fixed
  todo,      \* the fixes the survey found to be applied
  last,      \* what the last patch did: "done" or "refused"
  start,     \* history: the cartridge at first
  applied    \* history: the patches that did not refuse

chainVars == <<rom, stamp, ppc, buffer, todo, last, start, applied>>

ChainInit ==
  /\ rom \in Carts /\ stamp = rom /\ start = rom
  /\ ppc = "idle" /\ buffer = rom /\ todo = {}
  /\ last = "done" /\ applied = {}

-----------------------------------------------------------------------------
Written(r, places, run) == [pl \in Place |-> IF pl \in places THEN {run} ELSE r[pl]]

Returns(patch, new, over) ==
  /\ rom' = new /\ stamp' = over /\ buffer' = new
  /\ ppc' = "idle" /\ todo' = {} /\ last' = "done"
  /\ applied' = applied \cup {patch}
  /\ UNCHANGED start

Refuses ==
  /\ ppc' = "idle" /\ todo' = {} /\ buffer' = rom /\ last' = "refused"
  /\ UNCHANGED <<rom, stamp, start, applied>>

\* The shape of an apply(): a cartridge that has the patch comes back as it
\* is, one that does not fit is refused.
Apply(patch, already, fits, new, over) ==
  /\ ppc = "idle"
  /\ \/ already /\ Returns(patch, rom, stamp)
     \/ ~already /\ fits /\ Returns(patch, new, over)
     \/ ~already /\ ~fits /\ Refuses

\* write_checksum closes every patch but the pre-fight one.
Stamped(patch, already, fits, new) == Apply(patch, already, fits, new, new)

SpcFast ==
  Stamped("spcfast",
    \A pl \in Driver : rom[pl] = {Fast},
    \A n \in Probed : rom[<<"driver", n>>] = {Original},
    Written(rom, Driver, Fast))

ShinAkumaUnstamped ==
  Apply("shinakuma",
    Missing(rom, Gate) /\ ~Missing(rom, Open),
    Once(rom, Gate),
    Written(rom, Sites(rom, Gate), Open), stamp)

\* find_gate raises on a second gate, before anything else is asked.
ShinAkuma ==
  Stamped("shinakuma",
    Missing(rom, Gate) /\ ~Missing(rom, Open),
    Once(rom, Gate),
    Written(rom, Sites(rom, Gate), Open))

RepeatLoad ==
  Stamped("repeatload",
    rom[Hook] = {Hooked} /\ rom[<<"filler", 2>>] = {RepeatRoutine},
    rom[Hook] = {Replaced} /\ \A pl \in RepeatFiller : rom[pl] = {Free},
    Written(Written(rom, {<<"filler", 2>>}, RepeatRoutine), {Hook}, Hooked))

Callers(r) == IF Missing(r, Builder) THEN {} ELSE Sites(r, CallsBuilder)

PrefightFreeLonger == \A pl \in PrefightFiller \cup {<<"filler", 2>>} : rom[pl] = {Free}

PrefightFree == \A pl \in PrefightFiller : rom[pl] = {Free}

\* find_callers raises on a second builder.
PrefightPatched ==
  /\ rom[<<"filler", 0>>] = {PrefightRoutine}
  /\ Callers(rom) = {} /\ (Missing(rom, Builder) \/ Once(rom, Builder))

\* The one patch that leaves the checksum alone.
Prefight ==
  Apply("prefight",
    PrefightPatched,
    Once(rom, Builder) /\ Callers(rom) # {} /\ PrefightFree,
    Written(Written(rom, {<<"filler", 0>>}, PrefightRoutine), Callers(rom), CallsRoutine),
    stamp)

-----------------------------------------------------------------------------
\* survey: a run that appears twice, or calls to a routine that is not bare,
\* raise.
SurveyRaises ==
  \/ \E f \in Fixes : \/ Cardinality(Sites(rom, Stock(f))) > 1
                      \/ Missing(rom, Stock(f)) /\ Cardinality(Sites(rom, Patched(f))) > 1
  \/ \E c \in Calls : ~Missing(rom, Call(c)) /\ rom[Target(c)] # {Rtl}

ToApply == {f \in Fixes : ~Missing(rom, Stock(f))}
ToRetire == {c \in Calls : ~Missing(rom, Call(c))}

Absent ==
  /\ \A f \in Fixes : Missing(rom, Stock(f)) /\ Missing(rom, Patched(f))
  /\ \A c \in Calls : Missing(rom, Call(c)) /\ Missing(rom, Retired(c))

Survey ==
  /\ ppc = "idle"
  /\ \/ (SurveyRaises \/ Absent) /\ Refuses
     \/ /\ ~SurveyRaises /\ ~Absent /\ ToApply = {} /\ ToRetire = {}
        /\ Returns("gamefixes", rom, stamp)
     \/ /\ ~SurveyRaises /\ ToApply \cup ToRetire # {}
        /\ ppc' = "fix" /\ todo' = ToApply /\ buffer' = rom
        /\ UNCHANGED <<rom, stamp, last, start, applied>>

\* Every fix is located again, in the copy the earlier ones have changed.
FixNext ==
  /\ ppc = "fix" /\ todo # {}
  /\ LET f == CHOOSE f \in todo : \A g \in todo : f <= g
     IN  \/ /\ Once(buffer, Stock(f))
            /\ buffer' = Written(buffer, Sites(buffer, Stock(f)), Patched(f))
            /\ todo' = todo \ {f}
            /\ UNCHANGED <<rom, stamp, ppc, last, start, applied>>
         \/ ~Once(buffer, Stock(f)) /\ Refuses

RetiredIn(r) ==
  [pl \in Place |-> IF \E c \in Calls : pl \in Sites(r, Call(c))
                    THEN {Retired(CHOOSE c \in Calls : pl \in Sites(r, Call(c)))} ELSE r[pl]]

\* Then every call is retired, at every place it is made from.
Retire ==
  /\ ppc = "fix" /\ todo = {}
  /\ Returns("gamefixes", RetiredIn(buffer), RetiredIn(buffer))

ChainNext == SpcFast \/ ShinAkuma \/ RepeatLoad \/ Prefight \/ Survey \/ FixNext \/ Retire

ChainSpec == ChainInit /\ [][ChainNext]_chainVars

-----------------------------------------------------------------------------
\* What a set of patches makes of a run in the body of the first cartridge, and
\* of the cartridge, place by place.
Becomes(S, run) ==
  CASE "shinakuma" \in S /\ run = Gate -> Open
    [] "gamefixes" \in S /\ run \in {Stock(f) : f \in Fixes} -> Patched(run[2])
    [] "gamefixes" \in S /\ run \in {Call(c) : c \in Calls} -> Retired(run[2])
    [] "prefight" \in S /\ run = CallsBuilder /\ ~Missing(start, Builder) -> CallsRoutine
    [] OTHER -> run

Image(S) ==
  [pl \in Place |->
     CASE pl \in Body -> {Becomes(S, run) : run \in start[pl]}
       [] "spcfast" \in S /\ pl \in Driver -> {Fast}
       [] "repeatload" \in S /\ pl = Hook -> {Hooked}
       [] "repeatload" \in S /\ pl = <<"filler", 2>> -> {RepeatRoutine}
       [] "prefight" \in S /\ pl = <<"filler", 0>> -> {PrefightRoutine}
       [] OTHER -> start[pl]]

\* Whatever the order and however often each is applied or refused, the
\* cartridge depends only on which patches were accepted, and differs from
\* the first one only where those patches say.  On a retail cartridge none
\* gets in the way of another: every order works, and each patch takes a
\* cartridge that already has it.
OrderFree ==
  /\ ppc = "idle" => rom = Image(applied)
  /\ start \in Retail => last = "done"

\* The checksum in the header covers the whole cartridge but, at most, what
\* the pre-fight patch wrote since.
StampCovers ==
  \A pl \in Place :
    stamp[pl] # rom[pl] => rom[pl] \in {{PrefightRoutine}, {CallsRoutine}}
=============================================================================
