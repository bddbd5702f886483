---------------------------- MODULE SampleReuse ----------------------------
(***************************************************************************)
(* tools/sample_reuse.py: what a soundwalk log says about which uploads    *)
(* were already in sound RAM.  Each load of the engine leaves a mark at its *)
(* start, one when the group walk starts and one after each group, with    *)
(* the allocator in it, and the header of every block between them.        *)
(***************************************************************************)
EXTENDS Integers, Sequences, FiniteSetsExt, SequencesExt

CONSTANTS
  Lists, Groups,    \* list ids, zero is none; sample group ids
  SizeOf,           \* bytes of each
  LONGEST_BLOCK,    \* blocks and spans past it are ignored (32 KiB)
  SoundRam          \* addresses of sound RAM

\* GROUP and HDR lines; pc is "load", "walk" or "end".
Mark(pc, group, alloc, ids, list) ==
  [kind |-> "mark", pc |-> pc, group |-> group, alloc |-> alloc, ids |-> ids, list |-> list,
   src |-> 0, length |-> 0, dest |-> 0]
Block(src, length, dest) ==
  [kind |-> "block", pc |-> "", group |-> 0, alloc |-> 0, ids |-> <<>>, list |-> 0,
   src |-> src, length |-> length, dest |-> dest]

Base == "base"

-----------------------------------------------------------------------------
(* Reading a log. *)

Width(before, after) == LET w == (after - before) % (2 * LONGEST_BLOCK) IN IF w > LONGEST_BLOCK THEN 0 ELSE w

\* A load runs from one start mark to the next.  Blocks count once a later mark
\* of the same load closes them; those before the first start, and those after
\* the last mark, are dropped.
loads(events) ==
  LET step(acc, e) ==
        CASE e.kind = "block" ->
               IF acc.runs = <<>> THEN acc ELSE [acc EXCEPT !.tail = Append(@, e)]
          [] e.kind = "mark" /\ e.pc = "load" ->
               [runs |-> Append(acc.runs, [marks |-> <<e>>, spans |-> <<>>]), tail |-> <<>>]
          [] OTHER ->
               IF acc.runs = <<>> THEN acc
               ELSE LET run == Last(acc.runs)
                        span == [base |-> e.pc = "walk", group |-> e.group,
                                 width |-> Width(Last(run.marks).alloc, e.alloc), blocks |-> acc.tail]
                    IN  [runs |-> Append(Front(acc.runs), [marks |-> Append(run.marks, e),
                                                           spans |-> Append(run.spans, span)]),
                         tail |-> <<>>]
  IN  FoldLeft(step, [runs |-> <<>>, tail |-> <<>>], events).runs

request(run) ==
  LET walks == SelectSeq(run.marks, LAMBDA e : e.pc = "walk") IN IF walks = <<>> THEN <<>> ELSE walks[1].ids

\* replay(): each byte of sound RAM remembers where it came from; a block whose
\* every byte is there already is resident.
Moves(b) == b.length # 0 /\ b.length <= LONGEST_BLOCK
Tags(b) == [n \in {(b.dest + k) % SoundRam : k \in 0 .. b.length - 1} |-> b.src + ((n - b.dest) % SoundRam)]
SpanReplay(provenance, span) ==
  FoldLeft(LAMBDA acc, b :
             IF ~Moves(b) THEN acc
             ELSE [ram |-> [n \in DOMAIN acc.ram |-> IF n \in DOMAIN Tags(b) THEN Tags(b)[n] ELSE acc.ram[n]],
                   bytes |-> acc.bytes + b.length,
                   resident |-> acc.resident +
                     (IF \A n \in DOMAIN Tags(b) : acc.ram[n] = Tags(b)[n] THEN b.length ELSE 0)],
           [ram |-> provenance, bytes |-> 0, resident |-> 0], span.blocks)
replay(runs) ==
  LET spanStep(acc, span) ==
        LET r == SpanReplay(acc.ram, span)
        IN  [ram |-> r.ram, spans |-> Append(acc.spans, [base |-> span.base, group |-> span.group, width |-> span.width,
                                                         blocks |-> span.blocks, bytes |-> r.bytes, resident |-> r.resident])]
      runStep(acc, run) ==
        LET r == FoldLeft(spanStep, [ram |-> acc.ram, spans |-> <<>>], run.spans)
        IN  [ram |-> r.ram, runs |-> Append(acc.runs, [marks |-> run.marks, spans |-> r.spans])]
  IN  FoldLeft(runStep, [ram |-> [n \in 0 .. SoundRam - 1 |-> -1], runs |-> <<>>], runs).runs

Total(spans, field(_)) == FoldLeft(LAMBDA sum, s : sum + field(s), 0, spans)
BytesOf(run) == Total(run.spans, LAMBDA s : s.bytes)
ResidentOf(run) == Total(run.spans, LAMBDA s : s.resident)

group_costs(runs, group) ==
  LET walks == SelectSeq(FlattenSeq([k \in DOMAIN runs |-> runs[k].spans]), LAMBDA s : ~s.base /\ s.group = group)
  IN  [walks |-> Len(walks), bytes |-> Total(walks, LAMBDA s : s.width)]

base_span(run) == SelectSeq(run.spans, LAMBDA s : s.base)
DestinationsOnly(span) == [k \in DOMAIN span.blocks |-> <<0, 0, span.blocks[k].dest>>]
base_identity(span) == [k \in DOMAIN span.blocks |-> <<span.blocks[k].src, span.blocks[k].length, span.blocks[k].dest>>]

\* A base list that moved bytes: the same blocks as the last such list, and
\* whether it was resident.
Carrying(runs) == SelectSeq(runs, LAMBDA r : base_span(r) # <<>> /\ base_span(r)[1].bytes # 0)
Repeated(carrying) ==
  {k \in 2 .. Len(carrying) :
     base_identity(base_span(carrying[k])[1]) = base_identity(base_span(carrying[k - 1])[1])}
RepeatFigures(carrying) ==
  [loads |-> Len(carrying), repeats |-> Repeated(carrying),
   same_id |-> {k \in Repeated(carrying) : carrying[k].marks[1].list = carrying[k - 1].marks[1].list},
   resident |-> {k \in DOMAIN carrying : base_span(carrying[k])[1].resident = base_span(carrying[k])[1].bytes}]
base_repeats(runs) == RepeatFigures(Carrying(runs))

\* report(): the figures printed for one log.
Figures(runs, carrying, again) ==
  [loads |-> Len(runs), carrying |-> Len(carrying),
   bytes |-> FoldLeft(LAMBDA sum, r : sum + BytesOf(r), 0, runs),
   resident |-> FoldLeft(LAMBDA sum, r : sum + ResidentOf(r), 0, runs),
   repeats |-> {k \in 2 .. Len(carrying) :
                  request(carrying[k]) = request(carrying[k - 1]) /\ BytesOf(carrying[k]) = ResidentOf(carrying[k])},
   again |-> again,
   disagreements |-> Cardinality(again.repeats \ again.resident) + Cardinality(again.resident \ again.repeats)]
Replayed(runs) == Figures(runs, SelectSeq(runs, LAMBDA r : BytesOf(r) # 0), base_repeats(runs))
reuse_report(events) == Replayed(replay(loads(events)))

-----------------------------------------------------------------------------
(* The log of an engine without the patch: for each load, a list (or none,   *)
(* and the allocator kept where the last list ended) and three groups.       *)

SourceOf(item) == item * 100
EngineLog(asked) ==
  LET one(acc, l) ==
        LET start == IF l.list = 0 THEN acc.saved ELSE SizeOf[l.list]
            end(k) == start + FoldLeft(LAMBDA sum, g : sum + SizeOf[g], 0, SubSeq(l.groups, 1, k))
            list == IF l.list = 0 THEN <<>> ELSE <<Block(SourceOf(l.list), SizeOf[l.list], 0)>>
            group(k) == <<Block(SourceOf(l.groups[k]), SizeOf[l.groups[k]], end(k - 1)),
                          Mark("end", l.groups[k], end(k), l.groups, l.list)>>
        IN  [saved |-> start,
             events |-> acc.events \o <<Mark("load", 0, 0, l.groups, l.list)>> \o list
                        \o <<Mark("walk", 0, start, l.groups, l.list)>> \o FlattenSeq([k \in DOMAIN l.groups |-> group(k)])]
  IN  FoldLeft(one, [saved |-> 0, events |-> <<>>], asked).events

\* What repeat-load.asm would skip: a list that is the last one loaded.
Skipped(asked) ==
  LET named == SelectSeq(asked, LAMBDA l : l.list # 0)
  IN  {k \in 2 .. Len(named) : named[k].list = named[k - 1].list}

\* What a log cut short says beside the whole one.
PromisesLess(part, whole) ==
  /\ part.again.repeats \subseteq whole.again.repeats
  /\ part.bytes <= whole.bytes /\ part.resident <= whole.resident /\ part.disagreements = 0
CostsItsSize(cost, group) == cost.bytes = cost.walks * SizeOf[group]
PredictsSkips(log, whole, asked) ==
  /\ whole.again.repeats = Skipped(asked) /\ whole.again.same_id = Skipped(asked)
  /\ whole.disagreements = 0 /\ whole.loads = Len(asked)
  /\ \A g \in Groups : CostsItsSize(group_costs(loads(log), g), g)
  /\ \A cut \in 0 .. Len(log) : PromisesLess(reuse_report(SubSeq(log, 1, cut)), whole)

\* The figures the repeat patch was decided on: on the log of an unpatched run,
\* the lists said to repeat are exactly those the patch skips, each of them is
\* said to be resident, the two ways of telling never disagree, a walk of a
\* group costs its size, and a log cut anywhere promises no repeat the whole
\* log does not.
ReusePredictsSkips(asked) == PredictsSkips(EngineLog(asked), reuse_report(EngineLog(asked)), asked)
=============================================================================
