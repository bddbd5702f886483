----------------------------- MODULE TileShape -----------------------------
(***************************************************************************)
(* tools/tile_shape.py: how many tiles of a decompressed stream repeat an  *)
(* earlier one, beside random bytes of the same length.  The planar layout *)
(* is a rearrangement, so a tile is told by its bytes.                     *)
(***************************************************************************)
EXTENDS Integers, Sequences, FiniteSets, SequencesExt

CONSTANTS TILE_BYTES, SMALLEST      \* 32 and 512

ASSUME TileSizes == TILE_BYTES \in Nat \ {0} /\ SMALLEST \in Nat

NoLimit == <<>>        \* or <<n>>

\* The model's decode raises on a run that is not whole tiles: nothing then.
tiles(data) ==
  IF Len(data) % TILE_BYTES # 0 THEN <<>>
  ELSE [k \in 1 .. Len(data) \div TILE_BYTES |-> SubSeq(data, (k - 1) * TILE_BYTES + 1, k * TILE_BYTES)]

\* 1 - len(set(cut)) / len(cut), as the two parts of the fraction.
reuse(data) == LET cut == tiles(data) IN [repeats |-> Len(cut) - Cardinality(ToSet(cut)), of |-> Len(cut)]

\* Every run that is whole tiles is measured, and beside it as many random
\* bytes.  The runs are told by the places of their streams in the table.
survey(runs, noise) ==
  LET measured == {k \in DOMAIN runs : tiles(runs[k]) # <<>>}
      control(k) == SubSeq(noise, 1, Len(runs[k]))
  IN  [aligned |-> Cardinality(measured), unaligned |-> Cardinality(DOMAIN runs \ measured),
       reuses |-> [k \in measured |-> reuse(runs[k])],
       withAnyRepeat |-> Cardinality({k \in measured : reuse(runs[k]).repeats > 0}),
       noiseWithAnyRepeat |-> Cardinality({k \in measured : reuse(control(k)).repeats > 0})]

\* Anything not named for the USA is read by the Japanese table.
table_for(name, tables) == IF name = "usa" THEN tables.usa ELSE tables.jp

\* As much of a stream as the data supplies of what is asked.
Out(outs, s) == LET out == outs[s.offset] IN SubSeq(out, 1, IF s.length < Len(out) THEN s.length ELSE Len(out))

\* The streams long enough, up to the limit, which is looked at after a stream
\* has been taken: the decompressor raises on one the data cannot supply.
Long(table) == {k \in DOMAIN table : table[k].length >= SMALLEST}
Enough(limit) == IF limit[1] < 1 THEN 1 ELSE limit[1]
Chosen(table, limit) ==
  {k \in Long(table) : limit = NoLimit \/ Cardinality({j \in Long(table) : j <= k}) <= Enough(limit)}
against(table, limit, outs, noise) ==
  LET taken == Chosen(table, limit)
  IN  [raised |-> \E k \in taken : table[k].length > Len(outs[table[k].offset]),
       taken |-> taken,
       found |-> survey([k \in taken |-> Out(outs, table[k])], noise)]

\* main(): usage, a file that is not there, a traceback, or the figures.
ShapeExit(arguments, present, died, raised) ==
  CASE arguments < 1 \/ ~present -> 2
    [] arguments >= 1 /\ present -> IF raised THEN died ELSE 0

-----------------------------------------------------------------------------
\* A tile is a repeat when an earlier one is equal to it.
Repeats(data) ==
  {k \in 1 .. Len(data) \div TILE_BYTES : \E j \in 1 .. k - 1 : \A b \in 1 .. TILE_BYTES :
     data[(j - 1) * TILE_BYTES + b] = data[(k - 1) * TILE_BYTES + b]}

\* A table and what its streams decode to; there is noise for the longest.
IsSheet(table, limit, outs, noise) ==
  /\ outs \in [DOMAIN outs -> Seq(Nat)] /\ noise \in Seq(Nat)
  /\ table \in Seq([offset : DOMAIN outs, length : 0 .. Len(noise)])
  /\ limit = NoLimit \/ limit \in [{1} -> Int]

\* tile_shape.py counts each stream once, measured or not, and stops at the
\* limit, but for a limit below one, which measures one stream; a figure is
\* the tiles that are not the first of their kind; and each sheet is set
\* against a control of its own length and no other.
ShapeMeasured(table, limit, outs, noise) ==
  LET result == against(table, limit, outs, noise)
      cut(k) == Out(outs, table[k])
      sheets == {k \in result.taken : table[k].length > 0 /\ table[k].length % TILE_BYTES = 0}
  IN  ~result.raised =>
        /\ result.found.aligned = Cardinality(sheets)
        /\ result.found.aligned + result.found.unaligned = Cardinality(result.taken)
        /\ Cardinality(result.taken) < Cardinality(Long(table)) =>
             limit # NoLimit /\ Cardinality(result.taken) = IF limit[1] < 1 THEN 1 ELSE limit[1]
        /\ \A k \in result.taken, j \in Long(table) \ result.taken : k < j
        /\ result.found.withAnyRepeat = Cardinality({k \in sheets : Repeats(cut(k)) # {}})
        /\ result.found.noiseWithAnyRepeat = Cardinality({k \in sheets : Repeats(SubSeq(noise, 1, Len(cut(k)))) # {}})
        /\ result.found.reuses = [k \in sheets |-> [repeats |-> Cardinality(Repeats(cut(k))),
                                                    of |-> Len(cut(k)) \div TILE_BYTES]]
=============================================================================
