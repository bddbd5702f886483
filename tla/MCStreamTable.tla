--------------------------- MODULE MCStreamTable ---------------------------
(* Three sources a few compressed bytes apart, with lengths that end two    *)
(* compressed bytes apart, so that some entries can be trimmed to end       *)
(* exactly at a source and some cannot.  In the second tool's game one      *)
(* request is always reached, the others only once a stream is there.       *)
EXTENDS StreamTable

Compressed(s, n) == s + 1 + 2 * (n \div 3)

SmallHarvestGames ==
  [1 .. Variants -> SUBSET {[source |-> 1, length |-> 4], [source |-> 2, length |-> 2],
                            [source |-> 4, length |-> 3]}]

Ask(s, n, after) == [source |-> s, length |-> n, after |-> after]

SmallGames ==
  SUBSET {Ask(1, 4, {}), Ask(1, 6, {4}), Ask(2, 1, {1}), Ask(4, 1, {2}), Ask(4, 2, {})}

\* A move from a source that advances and one from below the window.
SmallMoves == {[source |-> 2, length |-> 6, fixed |-> FALSE, inWindow |-> TRUE],
               [source |-> 4, length |-> 5, fixed |-> TRUE, inWindow |-> FALSE]}

SmallTables == {t \in [Sources -> {0, 1, 4, 6}] : t[4] \in {0, 1}}
=============================================================================
