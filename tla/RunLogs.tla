------------------------------ MODULE RunLogs ------------------------------
(***************************************************************************)
(* tools/compare_audio.py, tour_audio.py, validate_all.py, stage_diff.py   *)
(* and the log they read.  The emulator writes the log a line at a time    *)
(* and its exit code is not looked at, so the log a tool reads may end     *)
(* anywhere.  A line is [is, n, a, b]: the word it starts with, the frame  *)
(* or the count of writes, and two fields.                                 *)
(***************************************************************************)
EXTENDS Integers, Sequences, FiniteSetsExt, SequencesExt

CONSTANTS
  ROSTER, BUDGET,   \* fighters toured and frames each is given
  SCAN_BUDGET,      \* scan steps allowed (64)
  Sources,          \* sample blocks, as (source, length) pairs
  BadShown,         \* how many bad blocks the emulator names (5)
  MaxBlocks,        \* bound: block headers and scans in one run
  Ticks             \* values of the two bytes the driver counts with

ASSUME RunBounds ==
  /\ ROSTER \in Nat \ {0} /\ BUDGET \in Nat \ {0} /\ MaxBlocks \in Nat
  /\ SCAN_BUDGET \in Nat /\ Ticks \subseteq Nat

VARIABLES
  which,       \* which tool is running
  image,      \* 1 while the first image is driven, 2 for the second
  frame,      \* frames_seen
  pending,    \* the block whose bytes are not compared yet, or NoBlock
  tally,      \* blk_ok and blk_bad
  log,        \* the lines on disk
  state,      \* "runs", "finished", "died" or "refused"
  truth,      \* what happened, per image: what each run's log should tell
  code        \* the tool's exit code, -1 until it has one

logVars == <<which, image, frame, pending, tally, log, state, truth, code>>

NoBlock == [source |-> 0, intact |-> TRUE]
Line(is, n, a, b) == [is |-> is, n |-> n, a |-> a, b |-> b]
Frames == ROSTER * BUDGET
Untold == [log |-> <<>>, ended |-> "runs", judged |-> <<>>, ticks |-> <<>>, bursts |-> {}, misses |-> 0]

-----------------------------------------------------------------------------
(* The emulator. *)

\* verify_pending() compares a block when the next header, or the end, comes,
\* names the first few that differ, and leaves a block a reset cut off unjudged.
verify_pending(p, t) ==
  IF p = NoBlock THEN <<>>
  ELSE <<Line("BLKEND", 1, p.source, 0)>>
       \o IF p.intact \/ t.bad >= BadShown THEN <<>> ELSE <<Line("BLKBAD", 0, p.source, 0)>>
Tallied(p, t) ==
  IF p = NoBlock THEN t
  ELSE IF p.intact THEN [t EXCEPT !.ok = @ + 1] ELSE [t EXCEPT !.bad = @ + 1]
Judged(p) == IF p = NoBlock THEN <<>> ELSE <<p>>

\* What each tool's run() asks of the emulator.
AudioAsks == {"SFTOUR", "SFVERIFY"}
TourAsks == {"SFTOUR", "SFVERIFY", "SFTICK"}
ValidateAsks == {"SFDRIVE", "SFSCANLEN", "SFAPU"}
StageAsks == {"SFSCENE", "SFHASH"}
Asks == CASE which = "audio" -> AudioAsks [] which = "tour" -> TourAsks
          [] which = "validate" -> ValidateAsks [] which = "stages" -> StageAsks
Verified == "SFVERIFY" \in Asks
Room == Cardinality({k \in DOMAIN log : log[k].is \in {"BLKEND", "SCANLEN"}}) < MaxBlocks

\* A block's header is written while another may be pending.
Header(b, intact) ==
  /\ state = "runs" /\ Verified /\ frame < Frames /\ Room
  /\ log' = log \o verify_pending(pending, tally)
  /\ tally' = Tallied(pending, tally)
  /\ truth' = [truth EXCEPT ![image].judged = @ \o Judged(pending)]
  /\ pending' = [source |-> b, intact |-> intact]
  /\ UNCHANGED <<which, image, frame, state, code>>

\* A scan of the key table ends after that many reads.
Scan(steps) ==
  /\ state = "runs" /\ "SFSCANLEN" \in Asks /\ frame < Frames /\ Room
  /\ log' = Append(log, Line("SCANLEN", 0, steps, 0))
  /\ truth' = [truth EXCEPT ![image].misses = @ + (IF steps > SCAN_BUDGET THEN 1 ELSE 0)]
  /\ UNCHANGED <<which, image, frame, pending, tally, state, code>>

\* The end of a frame, and the reset that opens the next fighter's slot.
EndFrame(main, nmi, burst) ==
  LET opens == (frame + 1) % BUDGET = 0 /\ frame + 1 < Frames /\ "SFTOUR" \in Asks
  IN  /\ state = "runs" /\ frame < Frames
      /\ log' = log \o (IF "SFTICK" \in Asks THEN <<Line("TICK", frame, main, nmi)>> ELSE <<>>)
                    \o (IF burst /\ "SFAPU" \in Asks THEN <<Line("APU", frame, 0, 0)>> ELSE <<>>)
                    \o (IF opens THEN <<Line("TOUR", frame + 1, (frame + 1) \div BUDGET, 0)>> ELSE <<>>)
      /\ pending' = IF opens THEN NoBlock ELSE pending
      /\ frame' = frame + 1
      /\ truth' = [truth EXCEPT ![image].ticks = Append(@, <<main, nmi>>),
                                ![image].bursts = IF burst THEN @ \cup {frame} ELSE @]
      /\ UNCHANGED <<which, image, tally, state, code>>

Finish ==
  /\ state = "runs" /\ frame = Frames
  /\ log' = log \o (IF Verified
                    THEN verify_pending(pending, tally)
                         \o <<Line("BLOCKS", 0, Tallied(pending, tally).ok, Tallied(pending, tally).bad)>>
                    ELSE <<>>) \o <<Line("RESULT", frame, 0, 0)>>
  /\ truth' = [truth EXCEPT ![image].judged = @ \o Judged(pending)]
  /\ state' = "finished"
  /\ UNCHANGED <<which, image, frame, pending, tally, code>>

\* The image is refused: a RESULT line without the fields the tools look for.
Refused ==
  /\ state = "runs" /\ frame = 0 /\ log = <<>> /\ pending = NoBlock
  /\ log' = <<Line("FAILED", 0, 0, 0)>> /\ state' = "refused"
  /\ UNCHANGED <<which, image, frame, pending, tally, truth, code>>

\* The container stops, at any line.
Died ==
  /\ state = "runs" /\ state' = "died"
  /\ UNCHANGED <<which, image, frame, pending, tally, log, truth, code>>

-----------------------------------------------------------------------------
(* What the tools read out of a log. *)

\* The lines of a kind, by where they stand.
Of(lg, is) == {k \in DOMAIN lg : lg[k].is = is}
LastOf(lg, is) == IF Of(lg, is) = {} THEN Line(is, 0, 0, 0) ELSE lg[Max(Of(lg, is))]

\* compare_audio.read: the last BLOCKS and RESULT lines stand.
read(lg) ==
  [load |-> Of(lg, "RESULT") # {}, frames |-> LastOf(lg, "RESULT").n,
   ok |-> LastOf(lg, "BLOCKS").a, bad |-> LastOf(lg, "BLOCKS").b,
   blocks |-> [k \in Of(lg, "BLKEND") |-> lg[k]], corrupt |-> [k \in Of(lg, "BLKBAD") |-> lg[k].a]]

uploads(found) ==
  [s \in {ln.a : ln \in Range(found.blocks)} |-> Cardinality({k \in DOMAIN found.blocks : found.blocks[k].a = s})]
fewer(stock, patched) ==
  {s \in DOMAIN uploads(stock) :
     s \notin DOMAIN uploads(patched) \/ uploads(patched)[s] < uploads(stock)[s]}
missing(stock, patched) == DOMAIN uploads(stock) \ DOMAIN uploads(patched)
\* Writes and bytes, whose quotient is printed; no bytes is a cost of zero.
cost(found) == <<MapThenSumSet(LAMBDA k : found.blocks[k].n, DOMAIN found.blocks), Cardinality(DOMAIN found.blocks)>>

VerdictUnfinished(stock, patched) ==
  (IF stock.bad + patched.bad = 0 THEN {} ELSE {"not intact"})
  \cup (IF missing(stock, patched) = {} THEN {} ELSE {"never uploaded"})
verdict(stock, patched) ==
  (IF stock.load /\ patched.load THEN {} ELSE {"did not load"})
  \cup (IF stock.bad + patched.bad = 0 THEN {} ELSE {"not intact"})
  \cup (IF missing(stock, patched) = {} THEN {} ELSE {"never uploaded"})

\* What the comparison prints.
audio_report(stock, patched) ==
  [costs |-> <<cost(stock), cost(patched)>>, corrupt |-> <<stock.corrupt, patched.corrupt>>,
   gone |-> missing(stock, patched), fewer |-> Cardinality(fewer(stock, patched))]

\* tour_audio.parse: a line belongs to the slot of the last TICK or TOUR line.
SlotOf(ln) == Min({ln.n \div BUDGET, ROSTER - 1})
SlotAt(lg, k) ==
  LET marks == {j \in Of(lg, "TICK") \cup Of(lg, "TOUR") : j <= k}
  IN  IF marks = {} THEN 0 ELSE SlotOf(lg[Max(marks)])
parse(lg) ==
  [s \in 0 .. ROSTER - 1 |->
     LET ticks == {k \in Of(lg, "TICK") : SlotOf(lg[k]) = s}
         tours == {k \in Of(lg, "TOUR") : SlotOf(lg[k]) = s}
     IN  [fighter |-> IF tours = {} THEN s ELSE lg[Max(tours)].a,
          main |-> {lg[k].a : k \in ticks}, nmi |-> {lg[k].b : k \in ticks},
          bad |-> {k \in Of(lg, "BLKBAD") : SlotAt(lg, k) = s}]]
stalled(found) == {s \in DOMAIN found : Cardinality(found[s].main) < 2 \/ Cardinality(found[s].nmi) < 2}
passed(lg) ==
  /\ stalled(parse(lg)) = {}
  /\ read(lg).bad = 0 /\ read(lg).load /\ read(lg).frames = ROSTER * BUDGET

\* validate_all.summarise and longest_burst: consecutive frames with a burst,
\* counted at each APU line as it is read.
Silence == [best |-> 0, run |-> 0, previous |-> -2]
Burst(acc, f) ==
  LET run == IF acc.previous + 1 = f THEN acc.run + 1 ELSE 1
  IN  [best |-> Max({acc.best, run}), run |-> run, previous |-> f]
Heard(acc, ln) == IF ln.is = "APU" THEN Burst(acc, ln.n) ELSE acc
longest_burst(lg) == FoldLeft(Heard, Silence, lg).best
summarise(lg) ==
  [load |-> Of(lg, "RESULT") # {}, frames |-> LastOf(lg, "RESULT").n,
   misses |-> Cardinality({k \in Of(lg, "SCANLEN") : lg[k].a > SCAN_BUDGET}),
   pause |-> longest_burst(lg)]

\* stage_diff.hashes and compare: the frames both logs hold, and those that
\* differ.  A log holds the frames written before its end, and the last line
\* of it may be cut short within the hash.
Torn == <<-1, -1>>
hashes(drawn, kept, torn) ==
  [f \in 0 .. kept - 1 |-> IF torn /\ f = kept - 1 THEN Torn ELSE drawn[f + 1]]
compare(before, after) ==
  LET shared == DOMAIN before \cap DOMAIN after
  IN  [shared |-> shared, differing |-> {f \in shared : before[f] # after[f]}]

-----------------------------------------------------------------------------
(* The tools. *)

TwoImages == which \in {"audio", "stages"}
Begin ==
  /\ image = 1 /\ frame = 0 /\ pending = NoBlock /\ tally = [ok |-> 0, bad |-> 0]
  /\ log = <<>> /\ state = "runs" /\ code = -1
  /\ truth = [i \in {1, 2} |-> Untold]

\* The second image is driven once the first has stopped, however it stopped.
SecondImage ==
  /\ state # "runs" /\ TwoImages /\ image = 1
  /\ image' = 2 /\ frame' = 0 /\ pending' = NoBlock /\ tally' = [ok |-> 0, bad |-> 0]
  /\ truth' = [truth EXCEPT ![1].log = log, ![1].ended = state]
  /\ log' = <<>> /\ state' = "runs"
  /\ UNCHANGED <<which, code>>

Conclude(exit) ==
  /\ state # "runs" /\ code = -1
  /\ code' = exit
  /\ truth' = [truth EXCEPT ![image].log = log, ![image].ended = state]
  /\ UNCHANGED <<which, image, frame, pending, tally, log, state>>

\* compare_audio.main, tour_audio.main, validate_all.main and stage_diff.main.
\* A command line without two images is refused before anything is driven.
Usage ==
  /\ which = "audio" /\ image = 1 /\ frame = 0 /\ log = <<>> /\ pending = NoBlock /\ state = "runs"
  /\ state' = "refused" /\ image' = 2 /\ code' = 2
  /\ UNCHANGED <<which, frame, pending, tally, log, truth>>
CompareAudio ==
  /\ which = "audio" /\ image = 2
  /\ Conclude(IF verdict(read(truth[1].log), read(log)) = {} THEN 0 ELSE 1)
TourAudio == which = "tour" /\ Conclude(IF passed(log) THEN 0 ELSE 1)
ValidateAll ==
  /\ which = "validate"
  /\ LET s == summarise(log)
     IN  Conclude(IF s.load /\ s.misses = 0 /\ s.frames = Frames THEN 0 ELSE 1)
StageDiff == which = "stages" /\ image = 2 /\ Conclude(0)

LogTools == {"audio", "tour", "validate", "stages"}
LogsInit == which \in LogTools /\ Begin

LogsNext ==
  \/ \E b \in Sources, intact \in BOOLEAN : Header(b, intact)
  \/ \E steps \in {SCAN_BUDGET, SCAN_BUDGET + 1} : Scan(steps)
  \/ \E main, nmi \in Ticks, burst \in BOOLEAN :
       /\ which \in {"audio", "validate"} => main = 0 /\ nmi = 0
       /\ which = "stages" => nmi = 0
       /\ which # "validate" => ~burst
       /\ EndFrame(main, nmi, burst)
  \/ Finish \/ Refused \/ Died \/ SecondImage
  \/ Usage \/ CompareAudio \/ TourAudio \/ ValidateAll \/ StageDiff

-----------------------------------------------------------------------------
(* What the tools may be believed about. *)

Sound(i) ==
  truth[i].ended = "finished" /\ \A k \in DOMAIN truth[i].judged : truth[i].judged[k].intact
SourcesOf(i) == {p.source : p \in Range(truth[i].judged)}
SlotTicks(s) == {truth[1].ticks[f + 1] : f \in {g \in 0 .. Len(truth[1].ticks) - 1 : g \div BUDGET = s}}
Moved(s) == Cardinality({t[1] : t \in SlotTicks(s)}) > 1 /\ Cardinality({t[2] : t \in SlotTicks(s)}) > 1
Runs(frames) == {r \in SUBSET frames : \A f \in r : f = Min(r) \/ f - 1 \in r}

\* stage_diff compares the frames both logs hold, however much of either is
\* missing: each that was drawn differently is counted, and none that was not,
\* but for the line a log was cut in.
DiffExact ==
  which = "stages" /\ code # -1 =>
    \A n1 \in 0 .. Len(truth[1].ticks), n2 \in 0 .. Len(truth[2].ticks), torn \in BOOLEAN :
      LET c == compare(hashes(truth[1].ticks, n1, FALSE), hashes(truth[2].ticks, n2, torn))
          real == {f \in 0 .. Min({n1, n2}) - 1 : truth[1].ticks[f + 1] # truth[2].ticks[f + 1]}
      IN  real \subseteq c.differing /\ c.differing \subseteq real \cup (IF torn THEN {n2 - 1} ELSE {})

\* A tool that reads a log (compare_audio, tour_audio, validate_all) passes an
\* image exactly when the run went to its end, every block compared on the way
\* was intact and, in turn: the patched run uploaded each source the stock one
\* did; both counters moved for every fighter; no scan passed its budget.  A
\* log cut anywhere, a refused image and a bad block past the few that are
\* named never read as a pass, the pause printed is the longest there was,
\* and DiffExact holds of stage_diff.
LogsTell ==
  /\ which = "audio" /\ code \in {0, 1} =>
       /\ code = 0 <=> Sound(1) /\ Sound(2) /\ SourcesOf(1) \subseteq SourcesOf(2)
       /\ audio_report(read(truth[1].log), read(truth[2].log)).gone = SourcesOf(1) \ SourcesOf(2)
  /\ which = "tour" /\ code # -1 => (code = 0 <=> Sound(1) /\ \A s \in 0 .. ROSTER - 1 : Moved(s))
  /\ which = "validate" /\ code # -1 =>
       /\ code = 0 <=> truth[1].ended = "finished" /\ truth[1].misses = 0
       /\ summarise(log).pause = Max({Cardinality(r) : r \in Runs(truth[1].bursts)} \cup {0})
  /\ DiffExact
=============================================================================
