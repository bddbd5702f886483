----------------------------- MODULE Reference -----------------------------
(***************************************************************************)
(* sdd1ref.py and tools/verify_streams.py: the decompressor compared with  *)
(* the C reference in a container.  A case is [offset, length]; a length   *)
(* of zero asks for a whole block, and so does MAX_LENGTH, since both are  *)
(* sent as zero.                                                           *)
(***************************************************************************)
EXTENDS Integers, Sequences, FiniteSetsExt, SequencesExt

CONSTANTS MAX_LENGTH, BATCH     \* 64 KiB and 200

ASSUME ReferenceSizes == MAX_LENGTH \in Nat \ {0} /\ BATCH \in Nat \ {0}

Asked(length) == IF length = 0 THEN MAX_LENGTH ELSE length
CaseOk(romSize, c) == c.offset \in 0 .. romSize - 1 /\ c.length \in 0 .. MAX_LENGTH

encode_request(romSize, cases) ==
  [refused |-> \E k \in DOMAIN cases : ~CaseOk(romSize, cases[k]),
   cases |-> [k \in DOMAIN cases |-> [offset |-> cases[k].offset, length |-> cases[k].length % MAX_LENGTH]]]

\* The container's answer: the outputs one after the other, nothing between.
Answer(request, outs) ==
  FlattenSeq([k \in DOMAIN request.cases |->
                SubSeq(outs[request.cases[k].offset], 1, Asked(request.cases[k].length))])

\* Cut where the lengths asked for say; a response that gives out is refused.
decode_response(blob, cases) ==
  LET pos[k \in 0 .. Len(cases)] == IF k = 0 THEN 0 ELSE pos[k - 1] + Asked(cases[k].length)
  IN  [refused |-> Len(blob) < pos[Len(cases)],
       parts |-> [k \in DOMAIN cases |-> SubSeq(blob, pos[k - 1] + 1, Min({pos[k], Len(blob)}))]]

\* A run of the container: its exit code, and as much of the answer as arrived.
Received(answer, run) == SubSeq(answer, 1, Len(answer) - run.lost)
Outputs(refused, decoded) == [raised |-> refused \/ decoded.refused, parts |-> decoded.parts]
reference_outputs(romSize, cases, outs, run) ==
  LET request == encode_request(romSize, cases)
  IN  Outputs(request.refused \/ run.exit # 0, decode_response(Received(Answer(request, outs), run), cases))

\* What this package makes of a case: a prefix of what the data supplies, or
\* TruncatedStream.
Got(mine, c) == SubSeq(mine[c.offset], 1, Asked(c.length))
Short(mine, c) == Asked(c.length) > Len(mine[c.offset])
FirstDiffering(got, want) == Min({i \in DOMAIN want : got[i] # want[i]})

Mismatch(c, got, want, short) ==
  IF short THEN <<[at |-> c, why |-> -1]>>
  ELSE IF got # want THEN <<[at |-> c, why |-> FirstDiffering(got, want)]>>
  ELSE <<>>
Mismatches(cases, mine, expected) ==
  [raised |-> expected.raised,
   mismatches |-> IF expected.raised THEN <<>>
                  ELSE FlattenSeq([k \in DOMAIN cases |->
                         Mismatch(cases[k], Got(mine, cases[k]), expected.parts[k], Short(mine, cases[k]))])]
compare_cases(romSize, cases, mine, outs, run) ==
  Mismatches(cases, mine, reference_outputs(romSize, cases, outs, run))

\* Each offset is drawn by randrange(limit): none reaches the last block.
sample_cases(romSize, chosen) ==
  [refused |-> romSize - MAX_LENGTH < 1, cases |-> chosen]

\* sdd1ref.main: usage, a failed image, a traceback, or the verdict.
Verdict(found) == IF found.raised THEN 70 ELSE IF found.mismatches = <<>> THEN 0 ELSE 1
RefExit(arguments, built, romSize, chosen, mine, outs, run) ==
  LET sample == sample_cases(romSize, chosen)
  IN  CASE arguments < 2 -> 2
        [] arguments >= 2 /\ ~built -> 1
        [] arguments >= 2 /\ built /\ sample.refused -> 70
        [] OTHER -> Verdict(compare_cases(romSize, sample.cases, mine, outs, run))

-----------------------------------------------------------------------------
(* verify_streams.py *)

WholeBatches(cases) ==
  [b \in 1 .. Len(cases) \div BATCH |-> SubSeq(cases, (b - 1) * BATCH + 1, b * BATCH)]
batches(cases) ==
  [b \in 1 .. (Len(cases) + BATCH - 1) \div BATCH |->
     SubSeq(cases, (b - 1) * BATCH + 1, Min({b * BATCH, Len(cases)}))]

Joined(found) ==
  [raised |-> \E b \in DOMAIN found : found[b].raised,
   mismatches |-> FlattenSeq([b \in DOMAIN found |-> found[b].mismatches])]
Batched(romSize, cut, mine, outs, run) ==
  Joined([b \in DOMAIN cut |-> compare_cases(romSize, cut[b], mine, outs, run)])
verify(romSize, cases, mine, outs, run) == Batched(romSize, batches(cases), mine, outs, run)

VerifyExit(built, romSize, tables, mine, outs, run) ==
  IF ~built THEN 1
  ELSE Verdict(Joined([r \in DOMAIN tables |-> verify(romSize, tables[r], mine, outs, run)]))

-----------------------------------------------------------------------------
\* A list of streams, and what each decompressor makes of the bytes at an
\* offset: the reference fills a whole block, this package may run out.
IsCompared(j) ==
  LET romSize == Cardinality(DOMAIN j.mine)
  IN  /\ romSize \in Nat /\ j.run.exit \in Nat /\ j.run.lost \in Nat
      /\ j.cases \in Seq([offset : 0 .. romSize - 1, length : 0 .. MAX_LENGTH])
      /\ j.mine \in [0 .. romSize - 1 -> Seq(Nat)] /\ j.outs \in [0 .. romSize - 1 -> Seq(Nat)]
      /\ \A o \in 0 .. romSize - 1 : Len(j.outs[o]) >= MAX_LENGTH

Same(c, mine, outs) == ~Short(mine, c) /\ Got(mine, c) = SubSeq(outs[c.offset], 1, Asked(c.length))
Differing(cases, mine, outs) ==
  FlattenSeq([k \in DOMAIN cases |-> IF Same(cases[k], mine, outs) THEN <<>> ELSE <<cases[k]>>])
NamesAll(whole, differing) ==
  ~whole.raised /\ [k \in DOMAIN whole.mismatches |-> whole.mismatches[k].at] = differing

\* verify_streams.py and sdd1ref.py say "identical" exactly when each stream
\* of each table decompresses to what the reference makes of it: no case is
\* lost between batches, none is compared with its neighbour's bytes, a whole
\* block is a whole block under either of its lengths, and an answer that
\* stops short is a traceback and no verdict.
VerdictExact(cases, mine, outs, run) ==
  LET romSize == Cardinality(DOMAIN mine)
      complete == run.exit = 0 /\ run.lost = 0
  IN  /\ (VerifyExit(TRUE, romSize, <<cases>>, mine, outs, run) = 0) <=>
           (cases = <<>> \/ (complete /\ \A k \in DOMAIN cases : Same(cases[k], mine, outs)))
      /\ RefExit(2, TRUE, romSize + MAX_LENGTH, cases, mine, outs, run) = 0 =>
           \A k \in DOMAIN cases : Same(cases[k], mine, outs)
      /\ complete => NamesAll(verify(romSize, cases, mine, outs, run), Differing(cases, mine, outs))
=============================================================================
