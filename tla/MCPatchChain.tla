---------------------------- MODULE MCPatchChain ----------------------------
(* Two fixes, the second of them in place already in one region; two empty  *)
(* routines, the first called twice; a builder with two callers.  Besides   *)
(* the two retail cartridges, every one that differs from them at a place.  *)
EXTENDS PatchChain

Usual == [n \in Spots |->
  CASE n = 1 -> {Gate} [] n = 2 -> {Stock(1)} [] n = 3 -> {Stock(2)}
    [] n \in {4, 5} -> {Call(1)} [] n = 6 -> {Call(2)}
    [] n = 7 -> {Builder} [] n \in {8, 9} -> {CallsBuilder} [] n = 10 -> {}]

Usa == [pl \in Place |->
  CASE pl[1] = "body" -> Usual[pl[2]]
    [] pl[1] = "driver" -> {Original}
    [] pl[1] = "hook" -> {Replaced}
    [] pl[1] = "filler" -> {Free}
    [] pl[1] = "target" -> {Rtl}]
Jp == [Usa EXCEPT ![<<"body", 3>>] = {Patched(2)}]
BothRetail == {Usa, Jp}

Runs == {Stock(1), Patched(1), Stock(2), Patched(2), Call(1), Retired(1),
         Gate, Open, Builder, CallsBuilder}

\* The body may lose a run, have one twice or have two that overlap; the
\* fixed places may hold something else.
Other == <<"other", 0>>
Damaged(r) ==
  {[r EXCEPT ![pl] = c] : pl \in Body, c \in {{}} \cup {{run} : run \in Runs}}
    \cup {[r EXCEPT ![pl] = {run}] : pl \in Place \ Body, run \in {Other, Fast, PrefightRoutine, RepeatRoutine}}
    \cup {[r EXCEPT ![<<"body", 2>>] = {Stock(1), Stock(2)}, ![<<"body", 3>>] = {}]}
    \cup {[pl \in Place |-> IF pl[1] = "body" THEN {} ELSE r[pl]]}

SmallCarts == BothRetail \cup UNION {Damaged(r) : r \in BothRetail}
=============================================================================
