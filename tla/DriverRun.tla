------------------------------ MODULE DriverRun ------------------------------
(***************************************************************************)
(* tools/driver_run.py: the receive loop of the driver, run rather than    *)
(* read.  The driver is the SPC700 of SpcUpload; the main processor is     *)
(* replaced by a stand-in inside the ports, which answers every write of   *)
(* the counter port, or by a console beside the composed unit, which looks *)
(* at the latch after every instruction and answers a change.              *)
(***************************************************************************)
EXTENDS Integers, Sequences, SequencesExt

CONSTANTS
  ByteValues,     \* values of a byte
  RamPages,       \* pages of sound memory
  DESTINATION, SECOND, THIRD,   \* where the three streams are pointed
  UNECHOED,       \* the latch before the driver runs
  CEILING,        \* handshakes after which a unit run has spent its cycles
  Payloads        \* what may be transferred

TRIPLE == 3
FIRST_COUNTER == 0

\* The three regions lie apart in memory and below its end, and no latch that
\* is seeded hides the first acknowledgement but zero.
ASSUME BenchSizes ==
  /\ ByteValues \in Nat /\ ByteValues >= 4 /\ RamPages \in Nat \ {0}
  /\ {DESTINATION, SECOND, THIRD, CEILING} \subseteq Nat /\ UNECHOED \in 1 .. ByteValues - 1

\* A payload is some bytes, fits its regions and is carried before the ceiling;
\* and the first bytes of its triples are not zero for as long as a counter
\* takes to come round, or are all zero: taken for a header, zero ends a list.
ASSUME PayloadsGiven ==
  \A p \in Payloads :
    LET triples == (Len(p) + 2) \div TRIPLE
        leads == {n \in 0 .. triples - 1 : p[TRIPLE * n + 1] # 0}
    IN  /\ p \in Seq(0 .. ByteValues - 1) /\ p # <<>> /\ Len(p) <= CEILING
        /\ DESTINATION + triples <= SECOND /\ SECOND + triples <= THIRD
        /\ \A end \in {DESTINATION + Len(p), THIRD + triples} : end < ByteValues * RamPages
        /\ leads = {} \/ \E n \in leads : n <= ByteValues - 3

VARIABLES
  dpc, dEcho, dY, dKind, dDest, dTwo, dThree, dX, dA, dMem, dOut,
  plan,         \* the runs left, the current one first
  console,      \* the main processor: at, counter, handshakes, seen
  owed,         \* the driver acknowledged and has not been answered
  transfers     \* what the finished runs came back with

driverVars == <<dpc, dEcho, dY, dKind, dDest, dTwo, dThree, dX, dA, dMem, dOut>>
benchVars == <<driverVars, plan, console, owed, transfers>>

Driver == INSTANCE SpcUpload WITH
  W <- ByteValues, Pages <- RamPages, Step <- 2, Source <- <<>>, Sessions <- {},
  cpc <- 0, base <- 0, start <- 0, list <- <<>>, src <- 0, dst <- 0, acked <- 0, i <- 0,
  out <- dOut, spc <- dpc, echo <- dEcho, y <- dY, kind <- dKind, dest <- dDest,
  two <- dTwo, three <- dThree, x <- dX, a <- dA, mem <- dMem

Run == Head(plan)

\* One byte per triple, because the original loop only reads the first.
spread(payload) ==
  [n \in 1 .. TRIPLE * Len(payload) |-> IF n % TRIPLE = 1 THEN payload[(n + 2) \div TRIPLE] ELSE 0]

\* The next triple, padded, and the counter.
offer(payload, at, counter) ==
  [slot \in 0 .. TRIPLE |->
     IF slot = 0 THEN counter
     ELSE IF at + slot <= Len(payload) THEN payload[at + slot] ELSE 0]

spent(payload, at) == at >= Len(payload)

\* main(): the driver as it ships and as it is patched, through the stand-in
\* and then on the unit.  A run through run() reads back as many bytes as the
\* payload has triples, one through on_hardware() as what was laid out has.
BenchRun(entry, unit, laid, payload, counter, unechoed) ==
  [entry |-> entry, unit |-> unit, laid |-> laid,
   carried |-> (Len(IF unit THEN laid ELSE payload) + 2) \div TRIPLE,
   counter |-> counter, unechoed |-> unechoed]
deliver_one_at_a_time(p) == BenchRun("byteLoop", FALSE, spread(p), p, FIRST_COUNTER, 0)
deliver(p) == BenchRun("tripleLoop", FALSE, p, p, FIRST_COUNTER, 0)
on_hardware(entry, laid, counter, unechoed) == BenchRun(entry, TRUE, laid, laid, counter, unechoed)
MainPlan(p) ==
  <<deliver_one_at_a_time(p), deliver(p),
    on_hardware("byteLoop", spread(p), FIRST_COUNTER, UNECHOED),
    on_hardware("tripleLoop", p, FIRST_COUNTER, UNECHOED)>>

\* The runs a command line, or a caller of on_hardware(), asks for.
Plans ==
  {MainPlan(p) : p \in Payloads}
  \cup {<<on_hardware("tripleLoop", p, c, u)>> : p \in Payloads, c \in {0, 1}, u \in {0, UNECHOED}}

Idling ==
  /\ dpc = "off" /\ dEcho = 0 /\ dY = 0 /\ dKind = 1 /\ dDest = 0 /\ dTwo = 0 /\ dThree = 0
  /\ dX = 0 /\ dA = 0 /\ dMem = [n \in 0 .. ByteValues * RamPages - 1 |-> 0]
  /\ dOut = [p \in 0 .. 3 |-> 0]
  /\ console = [at |-> 0, counter |-> 0, handshakes |-> 0, seen |-> 0]
  /\ owed = FALSE /\ transfers = <<>>

BenchInit == Idling /\ plan \in Plans
NoBench == Idling /\ plan = <<>>

\* The image, the three pointers, the index and the first triple; on the unit
\* the driver's own latch is seeded and the console remembers it.
Load ==
  /\ plan # <<>> /\ dpc = "off"
  /\ dpc' = Run.entry /\ dY' = 0
  /\ dDest' = DESTINATION /\ dTwo' = SECOND /\ dThree' = THIRD
  /\ dMem' = [n \in DOMAIN dMem |-> 0]
  /\ dEcho' = Run.unechoed
  /\ dOut' = offer(Run.laid, 0, Run.counter)
  /\ console' = [at |-> 0, counter |-> Run.counter, handshakes |-> 0, seen |-> Run.unechoed]
  /\ UNCHANGED <<dKind, dX, dA, plan, owed, transfers>>

Spent == spent(Run.laid, console.at)
StoppedWhenSpent == Spent /\ dpc # "off"
\* The payload has run out and the loop has come back round.
Stopped == Spent /\ dpc = Run.entry

\* One instruction of the driver.  The stand-in counts every write of the
\* counter port; the console sees the latch change, or sees nothing.
Acknowledges == {"tripleEcho", "byteEcho", "headerEcho", "setupEcho"}
StepDriver ==
  /\ plan # <<>> /\ dpc # "off" /\ ~owed /\ ~Stopped
  /\ ~(Run.unit /\ console.handshakes > CEILING)
  /\ Driver!Spc
  /\ owed' = IF Run.unit THEN dEcho' # console.seen ELSE dpc \in Acknowledges
  /\ UNCHANGED <<dOut, plan, console, transfers>>

\* The main processor answers: the next triple and the next counter.
Reply ==
  /\ owed /\ owed' = FALSE
  /\ LET at == console.at + TRIPLE
         counter == (console.counter + 1) % ByteValues
     IN  /\ console' = [at |-> at, counter |-> counter,
                        handshakes |-> console.handshakes + 1, seen |-> dEcho]
         /\ dOut' = offer(Run.laid, at, counter)
  /\ UNCHANGED <<dpc, dEcho, dY, dKind, dDest, dTwo, dThree, dX, dA, dMem, plan, transfers>>

Came(result) ==
  /\ transfers' = Append(transfers, result)
  /\ plan' = Tail(plan) /\ dpc' = "off"
  /\ UNCHANGED <<dEcho, dY, dKind, dDest, dTwo, dThree, dX, dA, dMem, dOut, console, owed>>

ReadBack(where, many) == [n \in 1 .. many |-> dMem[where + n - 1]]
Transfer ==
  /\ plan # <<>> /\ ~owed /\ Stopped
  /\ Came([run |-> Run, raised |-> FALSE, handshakes |-> console.handshakes,
           streams |-> [k \in 1 .. 3 |-> ReadBack(<<DESTINATION, SECOND, THIRD>>[k], Run.carried)]])

\* The driver spins on a counter nobody will post, so the ceiling is reached;
\* or it acknowledges for ever and never comes back to its entry.
Waiting ==
  \/ dpc = "tripleLoop" /\ dY # dOut[0] /\ Driver!StillAhead(dY, dOut[0])
  \/ dpc = "byteLoop" /\ dY # dOut[0] /\ Driver!StillAhead(dY, dOut[0])
  \/ dpc = "blockStart" /\ dOut[0] # 0
  \/ dpc = "ready" /\ dOut[0] = dEcho
RunLimit ==
  /\ plan # <<>> /\ dpc # "off" /\ ~owed /\ ~Stopped
  /\ Run.unit /\ (Waiting \/ console.handshakes > CEILING)
  /\ Came([run |-> Run, raised |-> TRUE, handshakes |-> console.handshakes, streams |-> <<>>])

BenchNext == Load \/ StepDriver \/ Reply \/ Transfer \/ RunLimit

\* "stand-in and unit agree on every byte", of the four transfers of main().
agreed(t) == t[4].streams = t[2].streams /\ IsPrefix(t[1].streams[1], t[3].streams[1])

-----------------------------------------------------------------------------
Taken(t, k) ==
  [n \in 1 .. t.run.carried |->
     IF TRIPLE * (n - 1) + k <= Len(t.run.laid) THEN t.run.laid[TRIPLE * (n - 1) + k] ELSE 0]

\* A run that starts where the driver expects comes back with every byte in
\* the stream its port names, the acknowledged but unstored ones and those past
\* an index wrap included, after one handshake per triple; one that starts with
\* another counter, or with a latch that hides the first acknowledgement, is
\* given up (FIRST_COUNTER and UNECHOED); the two witnesses agree; and what the
\* driver waits for is owed to it, or the run is over or will be given up.
TransfersRight ==
  /\ \A n \in DOMAIN transfers :
       LET t == transfers[n]
           right == t.run.counter = FIRST_COUNTER /\ (t.run.unit => t.run.unechoed # 0)
       IN  IF ~right THEN t.raised
           ELSE /\ ~t.raised /\ t.handshakes = (Len(t.run.laid) + 2) \div TRIPLE
                /\ \A k \in (IF t.run.entry = "byteLoop" THEN {1} ELSE {1, 2, 3}) : t.streams[k] = Taken(t, k)
  /\ Len(transfers) = 4 => agreed(transfers)
  /\ plan # <<>> /\ dpc # "off" /\ Waiting => owed \/ Stopped \/ Run.unit
=============================================================================
