----------------------------- MODULE FreeSpace -----------------------------
(***************************************************************************)
(* subtract() and merge() of rombuild.py: which bytes of the new cartridge *)
(* are free for decompressed streams.  Each loop is an action that runs    *)
(* once for every hole or region it visits.                                *)
(***************************************************************************)
EXTENDS Integers, Sequences, FiniteSetsExt, Functions

VARIABLES
  regions,   \* what a loop has still to visit or to cut, in any order
  free       \* the list merge() makes: sorted, touching regions joined

Span(b, s, e) == [bank |-> b, start |-> s, end |-> e]

Before(r, q) == r.bank < q.bank \/ (r.bank = q.bank /\ r.start < q.start)

-----------------------------------------------------------------------------
\* What is left of region r around one hole: nothing, one piece or two.
Cut(r, hole) ==
  IF hole.bank # r.bank \/ hole.end <= r.start \/ hole.start >= r.end THEN {r}
  ELSE {p \in {Span(r.bank, r.start, hole.start), Span(r.bank, hole.end, r.end)} :
          p.start < p.end}

\* subtract(), one hole of the list.
Subtract(hole) ==
  /\ regions' = UNION {Cut(r, hole) : r \in regions}
  /\ UNCHANGED free

-----------------------------------------------------------------------------
JoinLatest(out, r) ==
  IF out # <<>> /\ out[Len(out)].bank = r.bank /\ out[Len(out)].end >= r.start
  THEN [out EXCEPT ![Len(out)].end = r.end]
  ELSE Append(out, r)

\* One pass of merge()'s loop: r extends the last region or follows it.
Join(out, r) ==
  IF out # <<>> /\ out[Len(out)].bank = r.bank /\ out[Len(out)].end >= r.start
  THEN [out EXCEPT ![Len(out)].end = Max({@, r.end})]
  ELSE Append(out, r)

\* sorted(): no region that is left comes before r.
Least(r) == r \in regions /\ \A q \in regions : ~Before(q, r)

MergeNext ==
  \E r \in regions : Least(r) /\ free' = Join(free, r) /\ regions' = regions \ {r}

\* merge() begins on a collection of regions.
StartMerge(S) == regions' = S /\ free' = <<>>

-----------------------------------------------------------------------------
\* The addresses a collection of regions covers.
Covered(S) == UNION {{r.bank} \X (r.start .. r.end - 1) : r \in S}
=============================================================================
