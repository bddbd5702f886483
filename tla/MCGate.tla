------------------------------- MODULE MCGate -------------------------------
(* Builds that are not gated: every list of up to four streams over two      *)
(* banks of four slots, and one longer than the table.  Gated ones: sorted   *)
(* lists, as table() returns them, of up to three, where one length may be   *)
(* short, one decode short or raising, and one request unmet.                *)
EXTENDS Gate

\* Destinations differ; the last may lie in bank zero.
Listing(sources, last) ==
  [i \in DOMAIN sources |->
     [source |-> sources[i],
      dest |-> IF i = Len(sources) THEN last ELSE 4 * Byte + 3 * i]]

SmallInputs ==
  {Listing(s, d) : s \in UNION {[1 .. n -> 0 .. 7] : n \in 0 .. 4}, d \in {1, 6}}
    \cup {Listing([i \in 1 .. 5 |-> i], 6)}

SmallListings ==
  {Listing(s, 6) : s \in {t \in UNION {[1 .. n -> 0 .. 7] : n \in 0 .. 3} :
                           \A i \in 2 .. Len(t) : t[i - 1] <= t[i]}}
    \cup {Listing([i \in 1 .. 5 |-> i], 6)}

SmallLengths == {[s \in 0 .. 7 |-> IF s = 4 THEN n ELSE 2] : n \in 0 .. 2}

SmallCases ==
  {[lengths |-> l, produced |-> [l EXCEPT ![5] = b], present |-> p, wanted |-> w] :
     l \in SmallLengths, b \in {2, 1, Raises}, p \in BOOLEAN,
     w \in {[s \in {} |-> 0], [s \in {4} |-> 2]}}
=============================================================================
