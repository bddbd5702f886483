----------------------------- MODULE RepeatLoad -----------------------------
(***************************************************************************)
(* asm/repeat-load.asm (frozen as ROUTINE in repeatload.py) and the sound  *)
(* engine it steers, which is the cartridge's own: a load places a list at *)
(* the bottom of sound RAM and three sample groups above it.  The patch    *)
(* remembers the list last loaded in a record of three bytes of work RAM   *)
(* and turns a load of the same list into the engine's list-less load.     *)
(***************************************************************************)
EXTENDS Integers, Sequences

CONSTANTS
  Lists,        \* list ids; zero is no list
  Groups,       \* sample group ids
  SizeOf,       \* bytes of each list and group
  Top,          \* bytes of sound RAM above ALLOCATOR_START
  Garbage       \* what work RAM may hold at power-on besides the magic

Magic == "magic"
ASSUME RepeatAssumption ==
  /\ 0 \notin Lists /\ Magic \notin Garbage /\ Top \in Nat
  /\ \A i \in Lists \cup Groups : SizeOf[i] \in Nat \ {0}
  /\ \A l \in Lists : \A g \in [1 .. 3 -> Groups] :
       SizeOf[l] + SizeOf[g[1]] + SizeOf[g[2]] + SizeOf[g[3]] <= Top

VARIABLES
  pc,
  id,           \* the list asked for, as pushed by the engine at $C7:0064
  groups,       \* the groups still to upload
  low, high, last,       \* the record: two magic bytes and an id
  alloc,        \* the bump allocator, from ALLOCATOR_START
  saved,        \* where the list ended, $7E:2000
  sent,         \* bytes of the current item already sent
  ram,          \* sound RAM: [item, offset] in each byte
  asked,        \* history: the list the caller named
  stock         \* history: sound RAM as the unpatched engine leaves it

record == <<low, high, last>>
loadVars == <<pc, id, groups, low, high, last, alloc, saved, sent, ram, asked, stock>>

Address == 0 .. Top - 1
Unknown == <<0, 0>>

LoadInit ==
  /\ pc = "idle" /\ id = 0 /\ groups = <<>> /\ asked = 0
  /\ low \in Garbage \cup {Magic} /\ high \in Garbage \cup {Magic}
  /\ ~(low = Magic /\ high = Magic)     \* one chance in sixteen million
  /\ last \in Lists
  /\ alloc = 0 /\ saved = 0 /\ sent = 0
  /\ ram = [n \in Address |-> Unknown] /\ stock = ram

-----------------------------------------------------------------------------
\* What the unpatched engine leaves behind: list and groups, back to back.
Start(items, k) ==
  <<0, SizeOf[items[1]], SizeOf[items[1]] + SizeOf[items[2]],
    SizeOf[items[1]] + SizeOf[items[2]] + SizeOf[items[3]]>>[k]

Holds(items, k, n) == n \in Start(items, k) .. Start(items, k) + SizeOf[items[k]] - 1

Stacked(mem, items) ==
  [n \in Address |->
     IF \E k \in 1 .. 4 : Holds(items, k, n)
     THEN LET k == CHOOSE k \in 1 .. 4 : Holds(items, k, n) IN <<items[k], n - Start(items, k)>>
     ELSE mem[n]]

\* The game asks for a list and three groups; a list-less load follows an
\* earlier one.
Load(l, g) ==
  /\ pc = "idle" /\ (l = 0 => asked # 0)
  /\ pc' = "hook" /\ id' = l /\ groups' = g
  /\ asked' = IF l = 0 THEN asked ELSE l
  /\ stock' = Stacked(stock, <<asked'>> \o g)
  /\ UNCHANGED <<low, high, last, alloc, saved, sent, ram>>

\* Id zero is left alone.
HookZero ==
  /\ pc = "hook" /\ id = 0 /\ pc' = "engine"
  /\ UNCHANGED <<id, groups, low, high, last, alloc, saved, sent, ram, asked, stock>>

Matches == low = Magic /\ high = Magic /\ last = id

\* The same list again: the id on the stack becomes zero.
HookSkip ==
  /\ pc = "hook" /\ id # 0 /\ Matches
  /\ id' = 0 /\ pc' = "engine"
  /\ UNCHANGED <<groups, low, high, last, alloc, saved, sent, ram, asked, stock>>

HookMiss ==
  /\ pc = "hook" /\ id # 0 /\ ~Matches
  /\ pc' = "remember id"
  /\ UNCHANGED <<id, groups, low, high, last, alloc, saved, sent, ram, asked, stock>>

\* .remember: the id first, then the magic, one store each.
RememberId ==
  /\ pc = "remember id" /\ pc' = "remember low"
  /\ last' = id
  /\ UNCHANGED <<id, groups, low, high, alloc, saved, sent, ram, asked, stock>>

RememberLow ==
  /\ pc = "remember low" /\ pc' = "remember high"
  /\ low' = Magic
  /\ UNCHANGED <<id, groups, high, last, alloc, saved, sent, ram, asked, stock>>

RememberHigh ==
  /\ pc = "remember high" /\ pc' = "engine"
  /\ high' = Magic
  /\ UNCHANGED <<id, groups, low, last, alloc, saved, sent, ram, asked, stock>>

-----------------------------------------------------------------------------
ResumeFromBottom ==
  /\ pc = "engine" /\ sent' = 0
  /\ pc' = IF id = 0 THEN "groups" ELSE "list"
  /\ alloc' = 0
  /\ UNCHANGED <<id, groups, low, high, last, saved, ram, asked, stock>>

\* Back in the engine with the allocator at its start: the list goes up, or
\* the list-less path restores the allocator.
Resume ==
  /\ pc = "engine" /\ sent' = 0
  /\ IF id = 0 THEN pc' = "groups" /\ alloc' = saved
     ELSE pc' = "list" /\ alloc' = 0
  /\ UNCHANGED <<id, groups, low, high, last, saved, ram, asked, stock>>

SendByte(item) == /\ ram' = [ram EXCEPT ![alloc + sent] = <<item, sent>>]
                  /\ sent' = sent + 1

SendList ==
  /\ pc = "list" /\ sent < SizeOf[id] /\ SendByte(id)
  /\ UNCHANGED <<pc, id, groups, low, high, last, alloc, saved, asked, stock>>

ListSent ==
  /\ pc = "list" /\ sent = SizeOf[id]
  /\ pc' = "groups" /\ sent' = 0
  /\ alloc' = alloc + SizeOf[id] /\ saved' = alloc'
  /\ UNCHANGED <<id, groups, low, high, last, ram, asked, stock>>

SendGroup ==
  /\ pc = "groups" /\ groups # <<>>
  /\ LET g == Head(groups) IN
     /\ ram' = [n \in Address |-> IF n \in alloc .. alloc + SizeOf[g] - 1
                                  THEN <<g, n - alloc>> ELSE ram[n]]
     /\ alloc' = alloc + SizeOf[g]
  /\ groups' = Tail(groups)
  /\ UNCHANGED <<pc, id, low, high, last, saved, sent, asked, stock>>

Loaded ==
  /\ pc = "groups" /\ groups = <<>> /\ pc' = "idle"
  /\ UNCHANGED <<id, groups, low, high, last, alloc, saved, sent, ram, asked, stock>>

Hook == HookZero \/ HookSkip \/ HookMiss \/ RememberId \/ RememberLow \/ RememberHigh
Engine == Resume \/ SendList \/ ListSent \/ SendGroup \/ Loaded

LoadNext ==
  \/ \E l \in Lists \cup {0}, g \in [1 .. 3 -> Groups] : Load(l, g)
  \/ Hook \/ Engine

LoadSpec == LoadInit /\ [][LoadNext]_loadVars

-----------------------------------------------------------------------------

Resident(l) == \A n \in 0 .. SizeOf[l] - 1 : ram[n] = <<l, n>>

\* "The only thing that overwrites a base list is a different base list":
\* whenever the routine skips, the list asked for is whole in sound RAM and
\* the engine has kept where it ends; and a load, skipped or not, leaves sound
\* RAM exactly as the unpatched engine would.
SkipIsRight ==
  /\ (pc = "hook" /\ id # 0 /\ Matches) => Resident(id) /\ saved = SizeOf[id]
  /\ pc = "idle" => ram = stock
-----------------------------------------------------------------------------
(* Loads on a console that is reset in between, which clears no work RAM and *)
(* no sound RAM.                                                             *)

\* The reset button: whatever was under way is abandoned.
Reset ==
  /\ pc # "idle" /\ pc' = "idle"
  /\ groups' = <<>> /\ sent' = 0
  /\ stock' = ram
  /\ UNCHANGED <<id, low, high, last, alloc, saved, ram, asked>>

ResetSpec == LoadInit /\ [][LoadNext \/ Reset]_loadVars

\* "after the first real load the marker is always correct", $1F41 being
\* "the id of the last list actually uploaded".  The engine has saved the end
\* of a list once a first load went through.
MarkerAlwaysCorrect ==
  (pc = "idle" /\ saved # 0 /\ low = Magic /\ high = Magic) => Resident(last)
=============================================================================
