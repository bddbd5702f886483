----------------------------- MODULE SampleBank -----------------------------
(***************************************************************************)
(* tools/sample_audit.py: the sample bank read as the audio chip reads it. *)
(* A sample is a chain of blocks that ends at one whose header has the end *)
(* flag; a directory entry, two cells here, holds its start and its loop   *)
(* point.                                                                  *)
(***************************************************************************)
EXTENDS Integers, Sequences, FiniteSetsExt

CONSTANTS
  APU_RAM,          \* cells of sound RAM (64 KiB)
  BLOCK_BYTES,      \* cells of a block (9)
  DIRECTORY_BYTES   \* cells of a directory entry (four bytes there)

\* The two words of an entry are one cell each.
ASSUME BankSizes ==
  /\ BLOCK_BYTES \in Nat \ {0} /\ DIRECTORY_BYTES = 2
  /\ APU_RAM \in Nat /\ APU_RAM >= 2 * DIRECTORY_BYTES

EndFlag == 1
MAX_BLOCKS == APU_RAM \div BLOCK_BYTES
Span(first, next) == first .. next - 1

\* load() takes a whole image or none.
Readable(image) == DOMAIN image = Span(0, APU_RAM)

At(directory, sample) == (directory + sample * DIRECTORY_BYTES) % APU_RAM
entry(ram, directory, sample) ==
  [start |-> ram[At(directory, sample)],
   loop |-> ram[(At(directory, sample) + DIRECTORY_BYTES \div 2) % APU_RAM]]

\* The walk: block k of the chain is the first to lie past the end of memory
\* or to carry the flag.
chain(ram, start) ==
  LET at(k) == start + k * BLOCK_BYTES
      off(k) == at(k) + BLOCK_BYTES > APU_RAM
      stops == {k \in 0 .. MAX_BLOCKS - 1 : off(k) \/ ram[at(k)] = EndFlag}
      k == Min(stops)
  IN  IF stops = {} THEN [blocks |-> MAX_BLOCKS, reach |-> Span(start, APU_RAM), runsOff |-> TRUE]
      ELSE IF off(k) THEN [blocks |-> k, reach |-> Span(start, Min({at(k), APU_RAM})), runsOff |-> TRUE]
      ELSE [blocks |-> k + 1, reach |-> Span(start, at(k + 1)), runsOff |-> FALSE]

Walked(ram, directory, sample) == chain(ram, entry(ram, directory, sample).start)

BankFault(sample, why, at) == [sample |-> sample, fault |-> why, at |-> at]

bank_faults(ram, directory, used) ==
  LET fault(s) ==
        LET e == entry(ram, directory, s)
            w == Walked(ram, directory, s)
        IN  CASE w.runsOff -> {BankFault(s, "runs off", e.start)}
              [] ~w.runsOff /\ e.loop \notin w.reach -> {BankFault(s, "loop outside", e.loop)}
              [] ~w.runsOff /\ e.loop \in w.reach /\ (e.loop - e.start) % BLOCK_BYTES # 0 ->
                   {BankFault(s, "loop unaligned", e.loop)}
              [] OTHER -> {}
  IN  UNION {fault(s) : s \in used}

overlaps(ram, directory, used) ==
  LET whole == {s \in used : ~Walked(ram, directory, s).runsOff}
      shared(a, b) == Walked(ram, directory, a).reach \cap Walked(ram, directory, b).reach
  IN  {<<pair[1], pair[2], Min(shared(pair[1], pair[2]))>> :
         pair \in {p \in whole \X whole :
            /\ p[1] < p[2] /\ shared(p[1], p[2]) # {}
            /\ entry(ram, directory, p[1]).start # entry(ram, directory, p[2]).start}}

CollisionsAtStart(ram, directory, playing, written) ==
  {BankFault(s, "overwritten", entry(ram, directory, s).start) :
     s \in {p \in playing : entry(ram, directory, p).start \in written \/ At(directory, p) \in written}}
collisions(ram, directory, playing, written) ==
  LET cells(s) == Span(At(directory, s), At(directory, s) + DIRECTORY_BYTES)
      struck(s) == written \cap Walked(ram, directory, s).reach
      fault(s) == IF written \cap cells(s) # {} THEN {BankFault(s, "directory written", At(directory, s))}
                  ELSE IF struck(s) # {} THEN {BankFault(s, "overwritten", Min(struck(s)))}
                  ELSE {}
  IN  UNION {fault(s) : s \in playing}

\* report() and main(): the lines printed; the exit code is zero whatever they
\* say, two for a command line that is too short.
bank_report(ram, directory, used) ==
  [faults |-> bank_faults(ram, directory, used), shared |-> overlaps(ram, directory, used)]

\* play() and reaches_end(): what the chip makes of a sample is a function of
\* its entry and of every cell of its chain.
play(ram, directory, sample) ==
  [entry |-> entry(ram, directory, sample),
   bytes |-> [n \in Walked(ram, directory, sample).reach |-> ram[n]]]

-----------------------------------------------------------------------------
\* What there is to know of a bank: a word is an address.
IsBank(ram) == \A n \in DOMAIN ram : ram[n] \in Span(0, APU_RAM)

Uploaded(ram, written, value) == [n \in DOMAIN ram |-> IF n \in written THEN value ELSE ram[n]]
Samples == {0, 1}

\* An upload that sample_audit.collisions passes cannot be heard in a playing
\* sample whatever it writes, though the chain it protects is the one walked
\* before the upload; one it names can be; a sample without a fault stays on
\* its blocks when it loops; and two samples that lie past the directory are
\* said to share bytes exactly when uploading the one would be a collision with
\* the other.
AuditSound(ram, written) ==
  /\ \A s \in Samples :
       LET c == collisions(ram, 0, {s}, written)
       IN  /\ c = {} => \A v \in {0, 1} : play(Uploaded(ram, written, v), 0, s) = play(ram, 0, s)
           /\ c # {} => \E v \in 0 .. APU_RAM - 1 : play(Uploaded(ram, written, v), 0, s) # play(ram, 0, s)
           /\ bank_faults(ram, 0, {s}) = {} =>
                LET again == chain(ram, entry(ram, 0, s).loop)
                IN  ~again.runsOff /\ again.reach \subseteq Walked(ram, 0, s).reach
  /\ (\A s \in Samples : entry(ram, 0, s).start >= 2 * DIRECTORY_BYTES) =>
     (overlaps(ram, 0, Samples) # {}) =
       (/\ \A s \in Samples : ~Walked(ram, 0, s).runsOff
        /\ entry(ram, 0, 0).start # entry(ram, 0, 1).start
        /\ \E f \in collisions(ram, 0, {1}, Walked(ram, 0, 0).reach \ Span(0, 2 * DIRECTORY_BYTES)) :
             f.fault = "overwritten")
=============================================================================
