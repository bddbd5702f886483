------------------------------ MODULE SpcUpload ------------------------------
(***************************************************************************)
(* The sample upload between the 65816 and the SPC700 once the driver is   *)
(* patched (asm/spc-fast-upload.asm).  Two processors share four one-byte  *)
(* latches written by the 65816 and one echo latch written by the SPC700.  *)
(* A session is a list of blocks and a terminating header.  A block of     *)
(* kind 3 moves three bytes per handshake, one into each third of the      *)
(* block; a block of kind 1 moves one.                                     *)
(*                                                                         *)
(* One action is one access to a shared latch, or the local work between   *)
(* two of them.  A spin on a latch is the absence of a step, except in the *)
(* loops that change state while they wait.                                *)
(***************************************************************************)
EXTENDS Integers, Sequences

CONSTANTS
  W,          \* values of one byte: the counter, an index and a page size
  Pages,      \* pages of sound memory
  Step,       \* how far the stock end-of-block path bumps the counter
  Source,     \* the sample bank: a byte for every address
  Sessions    \* the uploads the game may ask for

M == W * Pages
Addr == 0 .. M - 1
Byte == 0 .. W - 1

(***************************************************************************)
(* The stock 65816 code bumps the counter by more than one and skips zero, *)
(* and never by so much that the difference loses its sign.                *)
(***************************************************************************)
ASSUME WidthAssumption ==
  /\ W \in Nat /\ Pages \in Nat \ {0} /\ Step \in Nat
  /\ Step >= 2 /\ 4 * Step <= W

Block == [kind : {1, 3}, len : Nat \ {0}]
Session == [base : Nat, start : Nat, list : Seq(Block)]

\* The sample bank holds bytes and the uploads are lists of non-empty blocks.
ASSUME SessionAssumption ==
  /\ Source \in [Addr -> Byte]
  /\ Sessions \subseteq Session

\* How many bytes a list of blocks holds.
Total(blocks) ==
  LET sum[k \in 0 .. Len(blocks)] == IF k = 0 THEN 0 ELSE sum[k - 1] + blocks[k].len
  IN  sum[Len(blocks)]

\* Rounding a block up to a multiple of three adds at most this much.
Spill == 2

\* An address is two bytes, and an upload with its spill lies in sound memory.
ASSUME RoomAssumption ==
  /\ Pages <= W
  /\ \A s \in Sessions : s.base + Total(s.list) + Spill <= M

VARIABLES
  cpc,     \* where the 65816 is
  base,    \* where this session's data goes (history)
  start,   \* where this session's data comes from (history)
  list,    \* the blocks not sent yet, the current one first
  src,     \* Y outside the transfer loop: the source of the current block
  dst,     \* the destination of the current block
  acked,   \* where the data confirmed by a header handshake ends (history)
  i,       \* Y in the transfer loop: the index into every stream
  out,     \* the four latches the 65816 writes
  spc,     \* where the SPC700 is
  echo,    \* the latch the SPC700 writes
  y,       \* its store index
  kind,    \* the block's kind byte
  dest,    \* its destination pointer, $14/$15
  two,     \* STREAM_TWO
  three,   \* STREAM_THREE
  x, a,    \* registers that hold a byte between its read and its store
  mem      \* sound memory

cpuVars == <<cpc, base, start, list, src, dst, acked, i, out>>
spcVars == <<spc, echo, y, kind, dest, two, three, x, a, mem>>
vars == <<cpc, base, start, list, src, dst, acked, i, out,
          spc, echo, y, kind, dest, two, three, x, a, mem>>

Lo(v) == v % W
Hi(v) == (v \div W) % W
Word(lo, hi) == (lo + W * hi) % M

\* The number of handshakes of a triple block: its length divided by three,
\* rounded up (CpuThird shows that the routine computes it).
Handshakes(len) == (len + 2) \div 3

\* Where the three streams of a triple block start, counted from its source.
StreamOffset(k) == k * Handshakes(Head(list).len)
StreamByte(k) == Source[(src + StreamOffset(k) + i) % M]

\* The counter of the next block header, stock code.
Bump(c) == IF (c + Step) % W = 0 THEN (c + 2 * Step) % W ELSE (c + Step) % W

\* The byte comparison of the store index with the counter port leaves a
\* difference; BPL takes it as signed.
Difference(v, c) == IF v >= c THEN v - c ELSE v - c + W
StillAheadUnsigned(v, c) == v >= c
StillAhead(v, c) == 2 * Difference(v, c) < W

Post(p, v) == out' = [out EXCEPT ![p] = v]
CpuGoto(from, to) == cpc = from /\ cpc' = to
SpcGoto(from, to) == spc = from /\ spc' = to

Init ==
  /\ cpc = "idle" /\ base = 0 /\ start = 0 /\ list = <<>>
  /\ src = 0 /\ dst = 0 /\ acked = 0 /\ i = 0
  /\ out = [p \in 0 .. 3 |-> 0]
  /\ spc = "ready" /\ echo = 0 /\ y = 0 /\ kind = 0
  /\ dest = 0 /\ two = 0 /\ three = 0 /\ x = 0 /\ a = 0
  /\ mem = [n \in Addr |-> 0]

-----------------------------------------------------------------------------
(* The 65816 *)

\* The game asks for an upload.
OpenSession(s) ==
  /\ CpuGoto("idle", "header")
  /\ base' = s.base /\ dst' = s.base /\ acked' = s.base
  /\ start' = s.start /\ src' = s.start
  /\ list' = s.list
  /\ UNCHANGED <<i, out, spcVars>>

\* Stock header: destination and kind first, the counter last.  A header of
\* kind zero ends the list.
CpuHeaderData ==
  /\ CpuGoto("header", "headerPost")
  /\ out' = [out EXCEPT ![1] = IF list = <<>> THEN 0 ELSE Head(list).kind,
                        ![2] = Lo(dst), ![3] = Hi(dst)]
  /\ UNCHANGED <<base, start, list, src, dst, acked, i, spcVars>>

CpuHeaderPost ==
  /\ CpuGoto("headerPost", "headerWait")
  /\ Post(0, Bump(out[0]))
  /\ UNCHANGED <<base, start, list, src, dst, acked, i, spcVars>>

CpuHeaderAck ==
  /\ cpc = "headerWait" /\ echo = out[0]
  /\ cpc' = IF list = <<>> THEN "idle"
            ELSE IF Head(list).kind = 3 THEN "count" ELSE "byte"
  /\ i' = 0
  /\ acked' = dst
  /\ UNCHANGED <<base, start, list, src, dst, out, spcVars>>

\* N goes out on the two ports the header has finished with.
CpuOpenCount ==
  /\ CpuGoto("count", "open")
  /\ LET N == Handshakes(Head(list).len)
     IN  out' = [out EXCEPT ![2] = Lo(N), ![3] = Hi(N)]
  /\ UNCHANGED <<base, start, list, src, dst, acked, i, spcVars>>

CpuOpenPost ==
  /\ CpuGoto("open", "opening")
  /\ Post(0, 0)
  /\ UNCHANGED <<base, start, list, src, dst, acked, i, spcVars>>

CpuOpening ==
  /\ CpuGoto("opening", "first")
  /\ echo = out[0]
  /\ i' = 0
  /\ UNCHANGED <<base, start, list, src, dst, acked, out, spcVars>>

CpuFirst ==
  /\ CpuGoto("first", "second")
  /\ Post(1, StreamByte(0))
  /\ UNCHANGED <<base, start, list, src, dst, acked, i, spcVars>>

CpuSecond ==
  /\ CpuGoto("second", "third")
  /\ Post(2, StreamByte(1))
  /\ UNCHANGED <<base, start, list, src, dst, acked, i, spcVars>>

CpuThirdPort ==
  /\ CpuGoto("third", "post")
  /\ Post(3, StreamByte(2))
  /\ UNCHANGED <<base, start, list, src, dst, acked, i, spcVars>>

\* The counter is the index, one ahead; posting it releases the driver.
CpuPost ==
  /\ cpc = "post"
  /\ Post(0, (i + 1) % W)
  /\ i' = i + 1
  /\ cpc' = IF i + 1 = Handshakes(Head(list).len) THEN "sent" ELSE "echo"
  /\ UNCHANGED <<base, start, list, src, dst, acked, spcVars>>

CpuEcho ==
  /\ CpuGoto("echo", "first")
  /\ echo = out[0]
  /\ UNCHANGED <<base, start, list, src, dst, acked, i, out, spcVars>>

\* The stock loop of the uploaders that were not converted: one byte, then
\* its index as the counter.
CpuByte ==
  /\ CpuGoto("byte", "bytePost")
  /\ Post(1, Source[(src + i) % M])
  /\ UNCHANGED <<base, start, list, src, dst, acked, i, spcVars>>

CpuBytePost ==
  /\ cpc = "bytePost"
  /\ Post(0, i % W)
  /\ i' = i + 1
  /\ cpc' = IF i + 1 = Head(list).len THEN "sent" ELSE "byteEcho"
  /\ UNCHANGED <<base, start, list, src, dst, acked, spcVars>>

CpuByteEcho ==
  /\ CpuGoto("byteEcho", "byte")
  /\ echo = out[0]
  /\ UNCHANGED <<base, start, list, src, dst, acked, i, out, spcVars>>

\* The source index advances by the block's length, not by the handshakes,
\* and the stock end-of-block path waits for the last echo.
CpuSent ==
  /\ CpuGoto("sent", "header")
  /\ echo = out[0]
  /\ src' = src + Head(list).len
  /\ dst' = dst + Head(list).len
  /\ list' = Tail(list)
  /\ UNCHANGED <<base, start, acked, i, out, spcVars>>

Cpu ==
  \/ \E s \in Sessions : OpenSession(s)
  \/ CpuHeaderData \/ CpuHeaderPost \/ CpuHeaderAck
  \/ CpuOpenCount \/ CpuOpenPost \/ CpuOpening
  \/ CpuFirst \/ CpuSecond \/ CpuThirdPort \/ CpuPost \/ CpuEcho
  \/ CpuByte \/ CpuBytePost \/ CpuByteEcho \/ CpuSent

-----------------------------------------------------------------------------
(* The SPC700 *)

\* Between sessions the stock driver watches the counter port.
SpcReady ==
  /\ SpcGoto("ready", "header")
  /\ out[0] # echo
  /\ UNCHANGED <<echo, y, kind, dest, two, three, x, a, mem, cpuVars>>

SpcHeaderDest ==
  /\ SpcGoto("header", "headerKind")
  /\ dest' = Word(out[2], out[3])
  /\ UNCHANGED <<echo, y, kind, two, three, x, a, mem, cpuVars>>

SpcHeaderKind ==
  /\ SpcGoto("headerKind", "headerEcho")
  /\ y' = out[0] /\ kind' = out[1]
  /\ UNCHANGED <<echo, dest, two, three, x, a, mem, cpuVars>>

SpcHeaderEcho ==
  /\ spc = "headerEcho"
  /\ echo' = y
  /\ spc' = IF kind = 0 THEN "ready" ELSE "blockStart"
  /\ UNCHANGED <<y, kind, dest, two, three, x, a, mem, cpuVars>>

\* The data phase opens when the counter port reads zero.
SpcBlockStart ==
  /\ SpcGoto("blockStart", "dispatch")
  /\ out[0] = 0 /\ y' = 0
  /\ UNCHANGED <<echo, kind, dest, two, three, x, a, mem, cpuVars>>

SpcDispatch ==
  /\ spc = "dispatch"
  /\ spc' = IF kind = 3 THEN "setupTwo" ELSE "byteLoop"
  /\ UNCHANGED <<echo, y, kind, dest, two, three, x, a, mem, cpuVars>>

\* The store index is the counter: equal takes the byte, still ahead waits,
\* and a counter that jumped opens the next header.
SpcByteLoop ==
  /\ spc = "byteLoop"
  /\ spc' = IF y = out[0] THEN "byteRead"
            ELSE IF StillAhead(y, out[0]) THEN "dispatch" ELSE "header"
  /\ UNCHANGED <<echo, y, kind, dest, two, three, x, a, mem, cpuVars>>

SpcByteRead ==
  /\ SpcGoto("byteRead", "byteEcho")
  /\ a' = out[1]
  /\ UNCHANGED <<echo, y, kind, dest, two, three, x, mem, cpuVars>>

SpcByteEchoForgotten ==
  /\ SpcGoto("byteEcho", "byteStore")
  /\ UNCHANGED <<echo, y, kind, dest, two, three, x, a, mem, cpuVars>>

SpcByteEcho ==
  /\ SpcGoto("byteEcho", "byteStore")
  /\ echo' = y
  /\ UNCHANGED <<y, kind, dest, two, three, x, a, mem, cpuVars>>

NextIndexUnwrapped == y + 1
CarryForgotten(pointer) == pointer
\* Advance the index; when it wraps, carry into the page byte.
NextIndex == (y + 1) % W
Carry(pointer) == IF NextIndex = 0 THEN (pointer + W) % M ELSE pointer

SpcByteStore ==
  /\ SpcGoto("byteStore", "byteLoop")
  /\ mem' = [mem EXCEPT ![(dest + y) % M] = a]
  /\ y' = NextIndex /\ dest' = Carry(dest)
  /\ UNCHANGED <<echo, kind, two, three, x, a, cpuVars>>

SpcSetupTwo ==
  /\ SpcGoto("setupTwo", "setupThree")
  /\ dest' = (dest + M - 1) % M
  /\ two' = (Word(out[2], out[3]) + dest') % M
  /\ UNCHANGED <<echo, y, kind, three, x, a, mem, cpuVars>>

SpcSetupThree ==
  /\ SpcGoto("setupThree", "setupEcho")
  /\ three' = (Word(out[2], out[3]) + two) % M
  /\ UNCHANGED <<echo, y, kind, dest, two, x, a, mem, cpuVars>>

SpcSetupEcho ==
  /\ SpcGoto("setupEcho", "tripleLoop")
  /\ echo' = 0 /\ y' = 1
  /\ UNCHANGED <<kind, dest, two, three, x, a, mem, cpuVars>>

SpcTripleLoop ==
  /\ spc = "tripleLoop"
  /\ y = out[0] \/ ~StillAhead(y, out[0])
  /\ spc' = IF y = out[0] THEN "storeOne" ELSE "header"
  /\ UNCHANGED <<echo, y, kind, dest, two, three, x, a, mem, cpuVars>>

SpcStoreOneEchoing ==
  /\ SpcGoto("storeOne", "readTwo")
  /\ mem' = [mem EXCEPT ![(dest + y) % M] = out[1]]
  /\ echo' = y
  /\ UNCHANGED <<y, kind, dest, two, three, x, a, cpuVars>>

SpcStoreOne ==
  /\ SpcGoto("storeOne", "readTwo")
  /\ mem' = [mem EXCEPT ![(dest + y) % M] = out[1]]
  /\ UNCHANGED <<echo, y, kind, dest, two, three, x, a, cpuVars>>

SpcReadTwo ==
  /\ SpcGoto("readTwo", "readThree")
  /\ x' = out[2]
  /\ UNCHANGED <<echo, y, kind, dest, two, three, a, mem, cpuVars>>

SpcReadThree ==
  /\ SpcGoto("readThree", "tripleEcho")
  /\ a' = out[3]
  /\ UNCHANGED <<echo, y, kind, dest, two, three, x, mem, cpuVars>>

SpcTripleEcho ==
  /\ SpcGoto("tripleEcho", "storeThree")
  /\ echo' = y
  /\ UNCHANGED <<y, kind, dest, two, three, x, a, mem, cpuVars>>

SpcStoreThreeLost ==
  /\ SpcGoto("storeThree", "storeTwo")
  /\ UNCHANGED <<echo, y, kind, dest, two, three, x, a, mem, cpuVars>>

SpcStoreThree ==
  /\ SpcGoto("storeThree", "storeTwo")
  /\ mem' = [mem EXCEPT ![(three + y) % M] = a]
  /\ UNCHANGED <<echo, y, kind, dest, two, three, x, a, cpuVars>>

\* The third store, and one index wrap moves all three streams on.
SpcStoreTwo ==
  /\ SpcGoto("storeTwo", "tripleLoop")
  /\ mem' = [mem EXCEPT ![(two + y) % M] = x]
  /\ y' = NextIndex
  /\ dest' = Carry(dest) /\ two' = Carry(two) /\ three' = Carry(three)
  /\ UNCHANGED <<echo, kind, x, a, cpuVars>>

Spc ==
  \/ SpcReady \/ SpcHeaderDest \/ SpcHeaderKind \/ SpcHeaderEcho
  \/ SpcBlockStart \/ SpcDispatch
  \/ SpcByteLoop \/ SpcByteRead \/ SpcByteEcho \/ SpcByteStore
  \/ SpcSetupTwo \/ SpcSetupThree \/ SpcSetupEcho
  \/ SpcTripleLoop \/ SpcStoreOne \/ SpcReadTwo \/ SpcReadThree
  \/ SpcTripleEcho \/ SpcStoreThree \/ SpcStoreTwo

Next == Cpu \/ Spc

Spec == Init /\ [][Next]_vars

-----------------------------------------------------------------------------
(* Properties *)

CpuLabels ==
  {"idle", "header", "headerPost", "headerWait", "count", "open", "opening",
   "first", "second", "third", "post", "echo", "byte", "bytePost",
   "byteEcho", "sent"}
SpcLabels ==
  {"ready", "header", "headerKind", "headerEcho", "blockStart", "dispatch",
   "byteLoop", "byteRead", "byteEcho", "byteStore", "setupTwo",
   "setupThree", "setupEcho", "tripleLoop", "storeOne", "readTwo",
   "readThree", "tripleEcho", "storeThree", "storeTwo"}

\* Every register and latch holds a byte, every pointer an address.
TypeOK ==
  /\ cpc \in CpuLabels /\ spc \in SpcLabels
  /\ base \in Nat /\ start \in Nat /\ src \in Nat /\ dst \in Nat
  /\ acked \in Nat /\ i \in Nat
  /\ list \in Seq(Block)
  /\ out \in [0 .. 3 -> Byte] /\ echo \in Byte
  /\ y \in Byte /\ kind \in Byte /\ x \in Byte /\ a \in Byte
  /\ dest \in Addr /\ two \in Addr /\ three \in Addr
  /\ mem \in [Addr -> Byte]

\* The driver is between noticing a counter and echoing it.
Taking == {"header", "headerKind", "headerEcho", "setupTwo", "setupThree",
           "setupEcho", "storeOne", "readTwo", "readThree", "tripleEcho",
           "byteRead", "byteEcho"}

\* The 65816 never writes a latch the driver has still to read: the echo is
\* posted after the last read and nothing is posted before the echo
\* (asm/spc-fast-upload.asm, the order of the reads and the echo in .store).
LatchesHeld == [][(spc \in Taking) => (out' = out)]_vars

\* The driver takes the header path only when the 65816 has posted a header:
\* neither a counter that wraps nor a slow sender looks like a new block
\* (spc_edge, and the BPL of spc_triple_loop).
NoFalseHeader == spc \in {"header", "headerKind", "headerEcho"} => cpc = "headerWait"

\* Once a header handshake has confirmed the blocks before it, every byte of
\* them is in sound memory, and no later block or spill disturbs it
\* (the exit contract of cpu_send_triples).
AckedIntact ==
  \A j \in 0 .. acked - base - 1 : mem[(base + j) % M] = Source[(start + j) % M]

\* A session that was opened ends: neither processor waits for ever on the
\* other, whatever mixture of kinds the list holds.
SessionEnds == cpc # "idle" ~> cpc = "idle" /\ list = <<>>
=============================================================================
