---------------------------- MODULE StreamSearch ----------------------------
(***************************************************************************)
(* sdd1find.py, sdd1map.py, sdd1sites.py and analyse.py: how the streams   *)
(* of a cartridge were found, and how rombuild.py reads them.  What the    *)
(* decompressor returns at an offset is a sequence, as much of it as the   *)
(* data there supplies.                                                    *)
(***************************************************************************)
EXTENDS Integers, Sequences, FiniteSetsExt, SequencesExt

CONSTANTS
  PROBE_LENGTH, CONFIRM_LENGTH, EXTEND_LENGTH,    \* 8, 32 and 4096
  MIN_PROBE_DISTINCT, MIN_DISTINCT,               \* 4 and 10
  FINAL_STREAM_LENGTH,                            \* a bank
  window_hash(_, _)                               \* of a window, in that many slots

ASSUME SearchLengths ==
  /\ FINAL_STREAM_LENGTH \in Nat \ {0}
  /\ {PROBE_LENGTH, CONFIRM_LENGTH, EXTEND_LENGTH} \subseteq Nat \ {0}
  /\ PROBE_LENGTH <= CONFIRM_LENGTH /\ CONFIRM_LENGTH <= EXTEND_LENGTH

\* The numbers of a set in their order, by the place each has among the others.
Nth(K, k) == CHOOSE n \in K : Cardinality({m \in K : m <= n}) = k
InOrder(K) == [k \in 1 .. Cardinality(K) |-> Nth(K, k)]

Windows(data, window) == {SubSeq(data, i, i + window - 1) : i \in 1 .. Len(data) - window + 1}

-----------------------------------------------------------------------------
(* sdd1find.py *)

build_bitmap(data, window, slots) == {window_hash(w, slots) : w \in Windows(data, window)}
probe(bitmap, value, slots) == window_hash(value, slots) \in bitmap
is_distinctive(blob, minimum) == Cardinality(Range(blob)) >= minimum

Truncated(out, length) == length > Len(out)
Slice(data, at, length) == SubSeq(data, at + 1, Min({at + length, Len(data)}))

\* The confirmed length doubles until the output or the reference gives out.
Doubled(length) == Min({length * 2, EXTEND_LENGTH})
Lengths == LET double[k \in 0 .. EXTEND_LENGTH] == IF k = 0 THEN CONFIRM_LENGTH ELSE Doubled(double[k - 1])
           IN  double
ExtendUnread(out, reference, target) ==
  Lengths[Max({k \in 0 .. EXTEND_LENGTH : \A j \in 1 .. k : ~Truncated(out, Lengths[j])})]
extend(out, reference, target) ==
  LET agrees(k) == /\ ~Truncated(out, Lengths[k])
                   /\ Slice(reference, target, Lengths[k]) = SubSeq(out, 1, Lengths[k])
      steps == {k \in 0 .. EXTEND_LENGTH : \A j \in 1 .. k : agrees(j)}
  IN  Lengths[Max(steps)]

\* Where a window first occurs, -1 if nowhere.
Find(data, blob) ==
  LET at == {i \in 0 .. Len(data) - Len(blob) : Slice(data, i, Len(blob)) = blob}
  IN  IF at = {} THEN -1 ELSE Min(at)

Hit(source, target, length) == [source |-> source, target |-> target, length |-> length]

\* One offset: two bitmaps sieve it before the reference is looked through.
find_stream(offset, out, reference, probe_slots, confirm_slots) ==
  LET head == SubSeq(out, 1, PROBE_LENGTH)
      blob == SubSeq(out, 1, CONFIRM_LENGTH)
  IN  IF \/ Truncated(out, PROBE_LENGTH) \/ ~is_distinctive(head, MIN_PROBE_DISTINCT)
         \/ ~probe(build_bitmap(reference, PROBE_LENGTH, probe_slots), head, probe_slots)
         \/ Truncated(out, CONFIRM_LENGTH) \/ ~is_distinctive(blob, MIN_DISTINCT)
         \/ ~probe(build_bitmap(reference, CONFIRM_LENGTH, confirm_slots), blob, confirm_slots)
         \/ Find(reference, blob) < 0
      THEN <<>>
      ELSE <<Hit(offset, Find(reference, blob), extend(out, reference, Find(reference, blob)))>>

find_streams(outs, reference, probe_slots, confirm_slots) ==
  FlattenSeq([offset \in DOMAIN outs |-> find_stream(offset, outs[offset], reference, probe_slots, confirm_slots)])

\* Hits in source order, cut wherever the next does not start where the last
\* one ended, give or take the tolerance.
Follows(last, hit, tolerance) ==
  LET gap == hit.target - (last.target + last.length) IN gap \in -tolerance .. tolerance
Chained(runs, hit, tolerance) ==
  IF runs # <<>> /\ Follows(Last(Last(runs)), hit, tolerance)
  THEN Append(Front(runs), Append(Last(runs), hit))
  ELSE Append(runs, <<hit>>)
Before(hits, k) ==
  {j \in DOMAIN hits : \/ hits[j].source < hits[k].source
                       \/ hits[j].source = hits[k].source /\ j <= k}
BySource(hits) == [n \in DOMAIN hits |-> hits[CHOOSE k \in DOMAIN hits : Cardinality(Before(hits, k)) = n]]
chains(hits, tolerance) ==
  FoldLeft(LAMBDA runs, hit : Chained(runs, hit, tolerance), <<>>, BySource(hits))

\* main(): usage, or the deepest hits and the chains of more than one.
find_report(arguments, hits) ==
  [exit |-> IF arguments < 3 THEN 2 ELSE 0, deepest |-> SortSeq(hits, LAMBDA a, b : a.length > b.length),
   runs |-> SelectSeq(chains(hits, 2), LAMBDA r : Len(r) > 1)]

-----------------------------------------------------------------------------
(* sdd1map.py.  A tagged image: zero, or one more than the target a marker   *)
(* holds.  An unknown length is Unknown; a refusal is the empty record.      *)

UnknownLength == -1
Marked(tagged) == {i \in DOMAIN tagged : tagged[i] # 0}
find_markers(tagged) ==
  [k \in 1 .. Cardinality(Marked(tagged)) |->
     [source |-> InOrder(Marked(tagged))[k], target |-> tagged[InOrder(Marked(tagged))[k]] - 1]]

MapRefused(markers, gfx_size) ==
  \/ \E k \in 1 .. Len(markers) - 1 : markers[k].target >= markers[k + 1].target
  \/ gfx_size # UnknownLength /\ markers # <<>> /\ gfx_size <= Last(markers).target
build_map(tagged, gfx_size) ==
  LET markers == find_markers(tagged)
      after(k) == IF k < Len(markers) THEN markers[k + 1].target ELSE gfx_size
  IN  [refused |-> MapRefused(markers, gfx_size),
       entries |-> [k \in DOMAIN markers |->
                      Hit(markers[k].source, markers[k].target,
                          IF after(k) = UnknownLength THEN UnknownLength ELSE after(k) - markers[k].target)]]

\* Whether each stream ends where the next begins; a stream is taken to spend
\* spent[k] bytes.
audit(entries, bank, spent) ==
  LET pairs == 1 .. Len(entries) - 1
      near(k) == /\ entries[k].length # UnknownLength
                 /\ entries[k + 1].source - entries[k].source \in 1 .. bank - 1
      gap(k) == entries[k + 1].source - (entries[k].source + spent[k])
      measured == {k \in pairs : near(k)}
  IN  [measured |-> measured, skipped |-> pairs \ measured,
       packed |-> {k \in measured : gap(k) \in {-1, 0}},
       padded |-> {k \in measured : gap(k) > 0},
       overrun |-> {k \in measured : gap(k) < -1}]

\* The graphics put back together; a byte is <<source, offset in its stream>>.
Blank == <<0, 0>>
Placed(blob, e) ==
  [n \in DOMAIN blob |-> IF n \in e.target .. e.target + e.length - 1 THEN <<e.source, n - e.target>> ELSE blob[n]]
Known(entries) == {k \in DOMAIN entries : entries[k].length > 0}
GraphicsSize(entries, gfx_size) ==
  IF gfx_size # UnknownLength THEN gfx_size
  ELSE IF Known(entries) = {} THEN 0
  ELSE entries[Max(Known(entries))].target + entries[Max(Known(entries))].length
rebuild(entries, gfx_size) ==
  LET size == GraphicsSize(entries, gfx_size)
      refused == \/ \E k \in DOMAIN entries : entries[k].length = UnknownLength
                 \/ \E k \in Known(entries) : entries[k].target + entries[k].length > size
  IN  [refused |-> refused,
       blob |-> IF refused THEN <<>> ELSE FoldLeft(Placed, [n \in 0 .. size - 1 |-> Blank], entries)]

\* The command line: usage, no markers, or a report and, if asked for, the
\* graphics of every stream but the last.
MapExit(arguments, tagged) ==
  CASE arguments < 3 -> 2
    [] arguments >= 3 /\ MapRefused(find_markers(tagged), UnknownLength) -> 70
    [] OTHER -> IF find_markers(tagged) = <<>> THEN 1 ELSE 0
Written(tagged) == rebuild(Front(build_map(tagged, UnknownLength).entries), UnknownLength)

-----------------------------------------------------------------------------
(* rombuild.py: the entries of a build, from a tagged cartridge or a table. *)

\* The last stream, which nothing follows, is given a whole bank.
load_entries(tagged) ==
  LET plain == build_map(tagged, UnknownLength)
  IN  IF plain.refused \/ plain.entries = <<>> \/ Last(plain.entries).length # UnknownLength THEN plain
      ELSE build_map(tagged, Last(plain.entries).target + FINAL_STREAM_LENGTH)

\* A frozen table, source -> length, in the order of the sources; no targets.
entries_from_map(mapping) ==
  [k \in 1 .. Cardinality(DOMAIN mapping) |->
     Hit(InOrder(DOMAIN mapping)[k], UnknownLength, mapping[InOrder(DOMAIN mapping)[k]])]

\* The command line of the build.
rombuild_exit(arguments, tagged) ==
  CASE arguments < 4 -> 2
    [] arguments >= 4 /\ load_entries(tagged).refused -> 70
    [] OTHER -> 0

-----------------------------------------------------------------------------
(* sdd1sites.py: a store to a register of the chip is one cell here. *)

compressed_mask(rom, entries, spent) ==
  UNION {entries[k].source .. Min({entries[k].source + spent[k], Len(rom) + 1}) - 1 :
           k \in {j \in DOMAIN entries : entries[j].length # UnknownLength}}
find_register_writes(rom, mask, registers) ==
  {[offset |-> at, register |-> rom[at]] : at \in {i \in DOMAIN rom : rom[i] \in registers /\ i \notin mask}}
\* The farthest start from which a disassembly lands on the store.
window(lands, back) ==
  LET distances == {l.distance : l \in lands} \cap 4 .. back
  IN  IF distances = {} THEN 0 ELSE Max(distances)
\* main(): usage, or the places each register is written from.
sites_report(arguments, found, registers) ==
  [exit |-> IF arguments < 3 THEN 2 ELSE 0,
   places |-> [r \in registers |-> {f \in found : f.register = r}]]

-----------------------------------------------------------------------------
(* analyse.py: chunks of one image that are not in another. *)

chunk_index(reference, chunk, stride) ==
  {Slice(reference, i, chunk) : i \in {j \in 0 .. Len(reference) - chunk : j % stride = 0}}
novelty(candidate, reference, chunk, stride) ==
  LET starts == {i \in 0 .. Len(candidate) - chunk : i % chunk = 0}
  IN  [new |-> Cardinality({i \in starts : Slice(candidate, i, chunk) \notin chunk_index(reference, chunk, stride)}),
       total |-> Cardinality(starts)]
compressed_share(ratios, threshold) == Cardinality({k \in DOMAIN ratios : ratios[k] > threshold})
estimate_expanded(compressed, total, ratio) == total + compressed * (ratio - 1)
\* main(): what the patch of another game added, and what the same would cost.
projection(ratios, threshold, block, total) ==
  [r \in {2, 3} |-> estimate_expanded(compressed_share(ratios, threshold) * block, total, r)]

-----------------------------------------------------------------------------
\* Bytes are numbers; an image is tagged with zeros and targets.
IsSearch(j) == j.outs \in Seq(Seq(Nat)) /\ j.reference \in Seq(Nat)
IsTagged(j) == j.tagged \in Seq(Nat) /\ j.size \in Nat \cup {UnknownLength}
IsChunked(j) == {j.original, j.added} \subseteq Seq(Nat)

\* find_streams reports an offset exactly when its output is distinctive and
\* occurs in the reference, however much the two bitmaps collide; the length
\* it confirms really is verbatim there, though a doubling ran past an end; and
\* chains() loses no hit and breaks only where a stream does not follow on.
SearchExact(outs, reference, probe_slots, confirm_slots) ==
  LET hits == find_streams(outs, reference, probe_slots, confirm_slots)
      found(o) == /\ Len(outs[o]) >= CONFIRM_LENGTH
                  /\ is_distinctive(SubSeq(outs[o], 1, PROBE_LENGTH), MIN_PROBE_DISTINCT)
                  /\ is_distinctive(SubSeq(outs[o], 1, CONFIRM_LENGTH), MIN_DISTINCT)
                  /\ SubSeq(outs[o], 1, CONFIRM_LENGTH) \in Windows(reference, CONFIRM_LENGTH)
  IN  /\ {h.source : h \in Range(hits)} = {o \in DOMAIN outs : found(o)}
      /\ \A h \in Range(hits) :
           /\ h.target + h.length <= Len(reference) /\ h.length \in CONFIRM_LENGTH .. EXTEND_LENGTH
           /\ SubSeq(reference, h.target + 1, h.target + h.length) = SubSeq(outs[h.source], 1, h.length)
      /\ \A tolerance \in {0, 1} :
           LET runs == chains(hits, tolerance)
           IN  /\ FlattenSeq(runs) = hits
               /\ \A k \in 1 .. Len(runs) - 1 : ~Follows(Last(runs[k]), runs[k + 1][1], tolerance)
               /\ \A r \in Range(runs), k \in 1 .. Len(hits) - 1 :
                    k + 1 <= Len(r) => Follows(r[k], r[k + 1], tolerance)

\* A map that is built and rebuilt accounts for every byte of the graphics: it
\* comes from the last stream to start at or before it, only the bytes ahead of
\* the first stream are blank; every pair of streams is in one column of the
\* audit, and a store is taken for code exactly when no stream holds it.  A
\* build from the tagged cartridge takes every marker with a positive length,
\* and one from a table frozen out of it takes the same streams in that order.
MapWhole(tagged, gfx_size) ==
  LET map == build_map(tagged, gfx_size)
      whole == rebuild(map.entries, gfx_size)
      of(n) == {e \in Range(map.entries) : e.target <= n}
      spent == [k \in DOMAIN map.entries |-> Max({0, map.entries[k].length})]
      stores == [n \in DOMAIN tagged |-> 1]
      sites == sites_report(3, find_register_writes(stores, compressed_mask(stores, map.entries, spent), {1}), {1}).places[1]
      a == audit(map.entries, 3, spent)
      loaded == load_entries(tagged).entries
      frozen == [s \in {e.source : e \in Range(loaded)} |->
                   (CHOOSE e \in Range(loaded) : e.source = s).length]
  IN  /\ rombuild_exit(4, tagged) = 0 =>
           /\ Len(loaded) = Len(find_markers(tagged)) /\ \A e \in Range(loaded) : e.length > 0
           /\ [k \in DOMAIN loaded |-> Hit(loaded[k].source, UnknownLength, loaded[k].length)] = entries_from_map(frozen)
      /\ ~map.refused /\ gfx_size # UnknownLength =>
        /\ ~whole.refused /\ DOMAIN whole.blob = 0 .. gfx_size - 1
        /\ \A n \in 0 .. gfx_size - 1 :
             whole.blob[n] = IF of(n) = {} THEN Blank
                             ELSE LET e == CHOOSE e \in of(n) : \A f \in of(n) : f.target <= e.target
                                  IN  <<e.source, n - e.target>>
        /\ map.entries # <<>> => /\ ~Written(tagged).refused
                                /\ \A n \in DOMAIN Written(tagged).blob : Written(tagged).blob[n] = whole.blob[n]
        /\ a.packed \cup a.padded \cup a.overrun \cup a.skipped = 1 .. Len(map.entries) - 1
        /\ {site.offset : site \in sites} =
             {n \in DOMAIN tagged : \A e \in Range(map.entries) : n \notin e.source .. e.source + e.length - 1}

\* A build that keeps the whole original and appends to it shows as new at most
\* the chunks that are not wholly within the original.
NoveltyBounded(original, added, chunk, stride) ==
  novelty(original \o added, original, chunk, stride).new
    <= novelty(original \o added, original, chunk, stride).total - Len(original) \div chunk
=============================================================================
