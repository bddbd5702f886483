---------------------------- MODULE MCRomLayout ----------------------------
(* Two or three streams whose compressed bytes touch, overlap or reach the  *)
(* end of a bank, with and without an extra block in a data bank.          *)
EXTENDS RomLayout

Streams == {[source |-> s, end |-> s + c + ReadAhead, length |-> l] :
              s \in {0, 1, 2, 3, 6, 23}, c \in {1, 2, 3}, l \in {1, 3, 4}}

Ascending(entries) == \A i \in 2 .. Len(entries) : entries[i - 1].source < entries[i].source

Extras == {<<>>, <<[bank |-> 9, addr |-> 1, len |-> 2]>>}

SmallBuilds ==
  {[size |-> OriginalSize, entries |-> e, extra |-> x] :
     e \in {q \in UNION {[1 .. n -> Streams] : n \in 1 .. 2} : Ascending(q)}, x \in Extras}
  \cup
  {[size |-> OriginalSize, entries |-> <<a, b, [source |-> 6, end |-> 8, length |-> n]>>,
    extra |-> x] :
     a \in {s \in Streams : s.source = 0}, b \in {s \in Streams : s.source \in {1, 2, 3}},
     n \in {1, 4}, x \in Extras}
  \cup
  {[size |-> OriginalSize + 1, entries |-> <<>>, extra |-> <<>>],
   [size |-> OriginalSize, entries |-> <<[source |-> 0, end |-> 2, length |-> 1]>>,
    extra |-> <<[bank |-> 6, addr |-> 0, len |-> 4], [bank |-> 9, addr |-> 0, len |-> 4]>>]}
=============================================================================
