---------------------------- MODULE SoundProofs ----------------------------
(***************************************************************************)
(* Loading sound.                                                          *)
(*                                                                         *)
(* The sample upload keeps its promises for every width, bank and list of  *)
(* uploads.  First the invariant: for every place the 65816 can be, where  *)
(* the SPC700 can be and how the counter, the echo and the store index     *)
(* then stand to each other (Phase); then what is in sound memory and in   *)
(* the latches, and where the driver is about to store (DataInv).  Then    *)
(* the steps, one lemma per processor and part of the invariant, and the   *)
(* theorems.                                                               *)
(*                                                                         *)
(* The repeat-load patch, for any number of lists and groups of any sizes  *)
(* that fit: whenever the routine skips a list, the list is whole where    *)
(* the engine expects it, and every load ends as it would without the      *)
(* patch (from LoadInv on).                                                *)
(***************************************************************************)
EXTENDS UploadThird, RepeatLoad, ModArith, SequenceTheorems

\* The next value of a byte.
Inc(c) == IF c = W - 1 THEN 0 ELSE c + 1

\* The driver has echoed and is on its way back to the comparison, or there.
Between ==
  \/ /\ kind = 3
     /\ \/ spc \in {"storeThree", "storeTwo"} /\ y = echo
        \/ spc = "tripleLoop" /\ y = Inc(echo)
  \/ /\ kind = 1
     /\ \/ spc = "byteStore" /\ y = echo
        \/ spc \in {"byteLoop", "dispatch"} /\ y = Inc(echo)

\* The driver has noticed the counter of a data handshake and not echoed it.
TakingData ==
  \/ kind = 3 /\ spc \in {"storeOne", "readTwo", "readThree", "tripleEcho"}
  \/ kind = 1 /\ spc \in {"byteRead", "byteEcho"}

\* The kind byte of the header for what is left to send.
CurrentKind == IF list = <<>> THEN 0 ELSE Head(list).kind

\* The 65816 is between blocks and has not posted the next header.
HeaderUnposted == echo = out[0] /\ (spc = "ready" \/ Between)

\* It is posted: not noticed yet, being taken, or echoed.
HeaderPosted ==
  \/ /\ out[0] = Bump(echo)
     /\ spc \in {"ready", "header", "headerKind"} \/ Between
  \/ out[0] = Bump(echo) /\ spc = "headerEcho" /\ y = out[0] /\ kind = out[1]
  \/ /\ echo = out[0] /\ out[0] # 0 /\ kind = out[1]
     /\ spc = IF kind = 0 THEN "ready" ELSE "blockStart"

\* The data phase of a triple block is opening: the driver has not echoed, or
\* it has and waits for the first handshake.
Opening ==
  \/ echo # 0 /\ spc \in {"blockStart", "setupTwo", "setupThree", "setupEcho"}
  \/ echo # 0 /\ spc = "dispatch" /\ y = 0
  \/ echo = 0 /\ spc = "tripleLoop" /\ y = 1

\* The counter of a data handshake is posted.
DataPosted ==
  \/ echo = out[0] /\ Between
  \/ out[0] = Inc(echo) /\ Between
  \/ echo # out[0] /\ y = out[0] /\ TakingData

\* The first byte of a stock block opens it as well.
BytesOpening ==
  /\ echo # 0 /\ out[0] = 0
  /\ \/ spc = "blockStart"
     \/ spc \in {"dispatch", "byteLoop", "byteRead", "byteEcho"} /\ y = 0

\* For every place of the 65816, the places of the driver.
Phase ==
  /\ cpc = "idle" => spc = "ready" /\ echo = out[0] /\ list = <<>>
  /\ cpc = "header" => HeaderUnposted
  /\ cpc = "headerPost" => HeaderUnposted /\ out[1] = CurrentKind
  /\ cpc = "headerWait" => HeaderPosted /\ out[1] = CurrentKind
  /\ cpc \notin {"idle", "header", "headerPost", "headerWait"} =>
       list # <<>> /\ kind = Head(list).kind
  /\ cpc \in {"count", "open"} =>
       kind = 3 /\ spc = "blockStart" /\ echo = out[0] /\ out[0] # 0
  /\ cpc = "opening" => kind = 3 /\ out[0] = 0 /\ Opening
  /\ cpc \in {"first", "second", "third", "post"} =>
       kind = 3 /\ out[0] = i % W /\ echo = out[0] /\ Between
  /\ cpc = "echo" => kind = 3 /\ out[0] = i % W /\ DataPosted
  /\ cpc \in {"byte", "bytePost"} =>
       /\ kind = 1 /\ echo = out[0]
       /\ \/ i = 0 /\ out[0] # 0 /\ spc = "blockStart"
          \/ Inc(out[0]) = i % W /\ Between
  /\ cpc = "byteEcho" =>
       /\ kind = 1 /\ Inc(out[0]) = i % W
       /\ DataPosted \/ BytesOpening
  /\ cpc = "sent" =>
       \/ DataPosted
       \/ kind = 1 /\ BytesOpening
-----------------------------------------------------------------------------
(* The data: what is in sound memory and in the latches, and where the       *)
(* driver is going to put what it has read.                                  *)

\* The handshakes of the block at hand, and the length of its streams.
Count == Handshakes(Head(list).len)

\* What belongs in each place of sound memory, and where it is there already.
Wanted == [n \in Nat |-> Source[(start + n - base) % M]]
Filled == {n \in Addr : mem[n] = Wanted[n]}

\* The handshake the driver's store index stands for.  It is the one posted
\* last, the one before or the one after.
Ahead == IF y = out[0] THEN 0 ELSE IF y = Inc(out[0]) THEN 1 ELSE -1
Index == (IF kind = 3 THEN i ELSE i - 1) + Ahead

\* Blocks lie back to back and inside sound memory; what is confirmed is there.
Room ==
  /\ base <= acked /\ acked <= dst /\ src + base = start + dst
  /\ dst + Total(list) + Spill <= M
  /\ cpc \notin {"header", "headerPost", "headerWait"} => acked = dst
  /\ base .. acked - 1 \subseteq Filled

\* How far the 65816 is in the block.
Counted ==
  /\ cpc \in {"count", "open", "opening"} => i = 0
  /\ cpc \in {"first", "second", "third", "post"} => i < Count
  /\ cpc = "echo" => i \in 1 .. Count - 1
  /\ cpc \in {"byte", "bytePost"} => i < Head(list).len
  /\ cpc = "byteEcho" => i \in 1 .. Head(list).len - 1
  /\ cpc = "sent" => i = IF kind = 3 THEN Count ELSE Head(list).len

\* What it has put in the latches.
Posted ==
  /\ cpc \in {"headerPost", "headerWait"} => out[2] = Lo(dst) /\ out[3] = Hi(dst)
  /\ cpc \in {"open", "opening"} => out[2] = Lo(Count) /\ out[3] = Hi(Count)
  /\ cpc \in {"second", "third", "post"} => out[1] = Wanted[dst + i]
  /\ cpc \in {"third", "post"} => out[2] = Wanted[dst + Count + i]
  /\ cpc = "post" => out[3] = Wanted[dst + 2 * Count + i]
  /\ cpc \in {"echo", "sent"} /\ kind = 3 =>
       /\ out[1] = Wanted[dst + i - 1]
       /\ out[2] = Wanted[dst + Count + i - 1]
       /\ out[3] = Wanted[dst + 2 * Count + i - 1]
  /\ cpc = "bytePost" => out[1] = Wanted[dst + i]
  /\ cpc \in {"byteEcho", "sent"} /\ kind = 1 => out[1] = Wanted[dst + i - 1]

\* The driver's pointer to a stream, before the index is added.
Pointer(k) == (dst + k * Count + M - 1 + (Index - y)) % M

\* Where the driver is in the three streams.
Streams ==
  /\ Index >= 1 /\ Index >= y
  /\ dest = Pointer(0) /\ two = Pointer(1) /\ three = Pointer(2)
  /\ \A n \in 0 .. Index - 2 : {dst + n, dst + Count + n, dst + 2 * Count + n} \subseteq Filled
  /\ spc \in {"readTwo", "readThree", "tripleEcho", "storeThree", "storeTwo"} =>
       dst + Index - 1 \in Filled
  /\ spc \in {"readThree", "tripleEcho", "storeThree", "storeTwo"} =>
       x = Wanted[dst + Count + Index - 1]
  /\ spc \in {"tripleEcho", "storeThree"} => a = Wanted[dst + 2 * Count + Index - 1]
  /\ spc = "storeTwo" => dst + 2 * Count + Index - 1 \in Filled

\* Where it is in a stock block.
Bytes ==
  IF spc = "blockStart" THEN dest = dst /\ i <= 1
  ELSE /\ Index >= y /\ dest = (dst + (Index - y)) % M
       /\ \A n \in 0 .. Index - 1 : dst + n \in Filled
       /\ spc \in {"byteEcho", "byteStore"} => a = Wanted[dst + Index]

\* The pointers, from the header to the loops.
Aimed ==
  /\ cpc = "headerWait" /\ (spc \in {"headerKind", "headerEcho"} \/ echo = out[0]) => dest = dst
  /\ cpc \in {"count", "open"} => dest = dst
  /\ cpc = "opening" =>
       /\ spc \in {"blockStart", "dispatch", "setupTwo"} => dest = dst
       /\ spc \in {"setupThree", "setupEcho"} => dest = (dst + M - 1) % M /\ two = (Count + dest) % M
       /\ spc = "setupEcho" => three = (Count + two) % M
       /\ spc = "tripleLoop" => Streams
  /\ cpc \in {"first", "second", "third", "post", "echo", "sent"} /\ kind = 3 => Streams
  /\ cpc \in {"byte", "bytePost", "byteEcho", "sent"} /\ kind = 1 => Bytes

\* The stores of the block before that the driver has echoed but not done.
Landing(pointer) == (pointer + y) % M
Late ==
  (IF spc = "storeThree" THEN {Landing(three)} ELSE {})
    \cup (IF spc \in {"storeThree", "storeTwo"} THEN {Landing(two)} ELSE {})
    \cup (IF spc = "byteStore" THEN {Landing(dest)} ELSE {})

\* They land among what is not confirmed yet, and all that is missing of the
\* block before is among them.
Landed ==
  cpc \in {"header", "headerPost", "headerWait"} =>
    /\ Late \subseteq acked .. dst + Spill - 1
    /\ acked .. dst - 1 \subseteq Filled \cup Late
    /\ spc = "storeThree" => a = Wanted[Landing(three)]
    /\ spc \in {"storeThree", "storeTwo"} => x = Wanted[Landing(two)]
    /\ spc = "byteStore" => a = Wanted[Landing(dest)]

\* All of it.
DataInv == Room /\ Counted /\ Posted /\ Aimed /\ Landed

-----------------------------------------------------------------------------
\* The widths are positive.
LEMMA Widths == W \in Nat \ {0} /\ W >= 8 /\ M \in Nat \ {0} /\ M >= W
<1>1. W \in Nat /\ W >= 8 /\ Pages \in Nat \ {0}
  BY WidthAssumption
<1>2. W * Pages >= W
  BY <1>1
<1> QED
  BY <1>1, <1>2 DEF M

\* The stock bump lands on a byte that is not zero, not the counter itself and
\* not the index the driver waits for, and that index reads as behind it.
LEMMA BumpFacts ==
  ASSUME NEW c \in Byte
  PROVE  /\ Bump(c) \in Byte /\ Bump(c) # 0 /\ Bump(c) # c
         /\ Bump(c) # Inc(c) /\ ~StillAhead(Inc(c), Bump(c))
<1>1. c \in Nat /\ c < W /\ W \in Nat \ {0} /\ Step \in Nat /\ Step >= 2 /\ 4 * Step <= W
  BY WidthAssumption, Widths DEF Byte
<1>2. ASSUME NEW k \in Nat, k < W
      PROVE  (c + k) % W = IF c + k < W THEN c + k ELSE c + k - W
  <2>1. CASE c + k < W
    BY <1>1, <1>2, <2>1, ModSmall
  <2>2. CASE c + k >= W
    <3>1. c + k \in W .. 2 * W - 1
      BY <1>1, <1>2, <2>2
    <3> DEFINE n == c + k
    <3> HIDE DEF n
    <3>2. n % W = n - W
      BY <1>1, <3>1, ModOnce DEF n
    <3> QED
      BY <1>1, <2>2, <3>2 DEF n
  <2> QED
    BY <1>1, <2>1, <2>2
<1>3. Bump(c) = IF c + Step = W THEN Step ELSE
                IF c + Step < W THEN c + Step ELSE c + Step - W
  BY <1>1, <1>2 DEF Bump
<1> QED
  BY <1>1, <1>3 DEF Byte, Inc, StillAhead, Difference

\* An index that equals the counter or follows it is not mistaken.
LEMMA IncFacts ==
  ASSUME NEW c \in Byte
  PROVE  /\ Inc(c) \in Byte /\ Inc(c) # c
         /\ StillAhead(Inc(c), c) /\ (c + 1) % W = Inc(c)
         /\ \A d \in Byte : Inc(c) = Inc(d) => c = d
<1>1. c \in Nat /\ c < W /\ W \in Nat /\ W >= 8
  BY Widths DEF Byte
<1>2. c % W = c
  BY <1>1, ModSmall
<1>3. (c + 1) % W = IF c % W = W - 1 THEN 0 ELSE (c % W) + 1
  BY <1>1, Widths, ModSucc, Zenon
<1> QED
  BY <1>1, <1>2, <1>3 DEF Byte, Inc, StillAhead, Difference

\* The halves of an address are bytes, and a wrapped sum is an address.
LEMMA HalfFacts ==
  ASSUME NEW n \in Nat
  PROVE  Lo(n) \in Byte /\ Hi(n) \in Byte /\ n % M \in Addr /\ n % W \in Byte
<1>1. n \div W \in Nat
  BY Widths
<1> QED
  BY <1>1, Widths, ModRange DEF Lo, Hi, Byte, Addr

-----------------------------------------------------------------------------
(* Types *)

\* A list that is not empty has a block at its head and a list behind it.
LEMMA ListFacts ==
  ASSUME list \in Seq(Block), list # <<>>
  PROVE  /\ Head(list) \in Block /\ Tail(list) \in Seq(Block)
         /\ Head(list).kind \in {1, 3} /\ Head(list).len \in Nat \ {0}
<1>1. Head(list) \in Block /\ Tail(list) \in Seq(Block)
  OBVIOUS
<1> QED
  BY <1>1 DEF Block

\* Every step of the 65816 keeps the types.
LEMMA CpuTypes == TypeOK /\ Phase /\ Cpu => TypeOK'
<1> SUFFICES ASSUME TypeOK, Phase, Cpu PROVE TypeOK'
  OBVIOUS
<1> USE DEF TypeOK
<1>0. {0, 1, 3} \subseteq Byte
  BY Widths DEF Byte
<1>a. ASSUME cpc \notin {"idle", "header", "headerPost", "headerWait"}
      PROVE  list # <<>>
  BY <1>a DEF Phase
<1>b. ASSUME NEW n \in Nat PROVE Source[n % M] \in Byte
  BY <1>b, HalfFacts, SessionAssumption
<1>1. ASSUME NEW s \in Sessions, OpenSession(s) PROVE TypeOK'
  <2>1. s.base \in Nat /\ s.start \in Nat /\ s.list \in Seq(Block)
    BY SessionAssumption DEF Session
  <2> QED
    BY <1>1, <2>1 DEF OpenSession, CpuGoto, CpuLabels, spcVars
<1>2. CASE CpuHeaderData
  <2>1. Lo(dst) \in Byte /\ Hi(dst) \in Byte
    BY HalfFacts
  <2>2. (IF list = <<>> THEN 0 ELSE Head(list).kind) \in Byte
    BY <1>0, ListFacts
  <2> QED
    BY <1>2, <2>1, <2>2 DEF CpuHeaderData, CpuGoto, CpuLabels, spcVars
<1>3. CASE CpuHeaderPost
  BY <1>3, BumpFacts DEF CpuHeaderPost, CpuGoto, CpuLabels, spcVars, Post
<1>4. CASE CpuHeaderAck
  BY <1>4 DEF CpuHeaderAck, CpuLabels, spcVars
<1>5. CASE CpuOpenCount
  <2> DEFINE N == Handshakes(Head(list).len)
  <2>1. N \in Nat
    BY <1>5, <1>a, ListFacts DEF CpuOpenCount, CpuGoto, Handshakes
  <2>2. Lo(N) \in Byte /\ Hi(N) \in Byte
    BY <2>1, HalfFacts
  <2>3. out' = [out EXCEPT ![2] = Lo(N), ![3] = Hi(N)]
    BY <1>5 DEF CpuOpenCount
  <2> HIDE DEF N
  <2> QED
    BY <1>5, <2>2, <2>3 DEF CpuOpenCount, CpuGoto, CpuLabels, spcVars
<1>6. CASE CpuOpenPost
  BY <1>6, <1>0 DEF CpuOpenPost, CpuGoto, CpuLabels, spcVars, Post
<1>7. CASE CpuOpening
  BY <1>7 DEF CpuOpening, CpuGoto, CpuLabels, spcVars
<1>8. ASSUME NEW k \in {0, 1, 2}, cpc \in {"first", "second", "third"}
      PROVE  StreamByte(k) \in Byte
  <2>1. Head(list).len \in Nat
    BY <1>8, <1>a, ListFacts
  <2>2. src + StreamOffset(k) + i \in Nat
    BY <2>1 DEF StreamOffset, Handshakes
  <2> QED
    BY <2>2, <1>b DEF StreamByte
<1>9. CASE CpuFirst
  BY <1>9, <1>8 DEF CpuFirst, CpuGoto, CpuLabels, spcVars, Post
<1>10. CASE CpuSecond
  BY <1>10, <1>8 DEF CpuSecond, CpuGoto, CpuLabels, spcVars, Post
<1>11. CASE CpuThirdPort
  BY <1>11, <1>8 DEF CpuThirdPort, CpuGoto, CpuLabels, spcVars, Post
<1>12. CASE CpuPost
  BY <1>12, HalfFacts DEF CpuPost, CpuLabels, spcVars, Post
<1>13. CASE CpuEcho
  BY <1>13 DEF CpuEcho, CpuGoto, CpuLabels, spcVars
<1>14. CASE CpuByte
  <2>1. Source[(src + i) % M] \in Byte
    BY <1>b
  <2> QED
    BY <1>14, <2>1 DEF CpuByte, CpuGoto, CpuLabels, spcVars, Post
<1>15. CASE CpuBytePost
  BY <1>15, HalfFacts DEF CpuBytePost, CpuLabels, spcVars, Post
<1>16. CASE CpuByteEcho
  BY <1>16 DEF CpuByteEcho, CpuGoto, CpuLabels, spcVars
<1>17. CASE CpuSent
  <2>1. Tail(list) \in Seq(Block) /\ Head(list).len \in Nat
    BY <1>17, <1>a, ListFacts DEF CpuSent, CpuGoto
  <2> QED
    BY <1>17, <2>1, SMTT(20) DEF CpuSent, CpuGoto, CpuLabels, spcVars
<1> QED
  BY <1>1, <1>2, <1>3, <1>4, <1>5, <1>6, <1>7, <1>9, <1>10, <1>11, <1>12,
     <1>13, <1>14, <1>15, <1>16, <1>17 DEF Cpu

\* Every step of the SPC700 keeps the types.
LEMMA SpcTypes == TypeOK /\ Spc => TypeOK'
<1> SUFFICES ASSUME TypeOK, Spc PROVE TypeOK'
  OBVIOUS
<1> USE DEF TypeOK
<1>0. 0 \in Byte /\ 1 \in Byte /\ W \in Nat /\ M \in Nat /\ M >= 1
  BY Widths DEF Byte
<1>1. \A n \in Nat : n % M \in Addr
  BY HalfFacts
<1>2. /\ Byte \subseteq Nat /\ Addr \subseteq Nat
      /\ out[2] \in Byte /\ out[3] \in Byte
  BY DEF Byte, Addr
<1>3. Word(out[2], out[3]) \in Addr
  <2>1. out[2] \in Nat /\ out[3] \in Nat
    BY <1>2
  <2>2. W * out[3] \in Nat
    BY <1>0, <2>1
  <2>3. out[2] + W * out[3] \in Nat
    BY <2>1, <2>2
  <2> QED
    BY <2>3, <1>1 DEF Word
<1>4. NextIndex \in Byte
  BY <1>2, HalfFacts DEF NextIndex
<1>5. \A p \in Addr : Carry(p) \in Addr
  <2>1. \A p \in Addr : p + W \in Nat
    BY <1>0, <1>2
  <2> QED
    BY <2>1, <1>1, Zenon DEF Carry
<1>6. \A p \in Addr : (p + y) % M \in Addr
  BY <1>1, <1>2
<1>s. \A p, q \in Addr : (p + q) % M \in Addr
  <2>1. \A p, q \in Addr : p + q \in Nat
    BY <1>2
  <2> QED
    BY <2>1, <1>1, Zenon
<1>7. CASE SpcReady
  BY <1>7 DEF SpcReady, SpcGoto, SpcLabels, cpuVars
<1>8. CASE SpcHeaderDest
  BY <1>8, <1>3 DEF SpcHeaderDest, SpcGoto, SpcLabels, cpuVars
<1>9. CASE SpcHeaderKind
  BY <1>9 DEF SpcHeaderKind, SpcGoto, SpcLabels, cpuVars
<1>10. CASE SpcHeaderEcho
  BY <1>10 DEF SpcHeaderEcho, SpcLabels, cpuVars
<1>11. CASE SpcBlockStart
  BY <1>11, <1>0 DEF SpcBlockStart, SpcGoto, SpcLabels, cpuVars
<1>12. CASE SpcDispatch
  BY <1>12 DEF SpcDispatch, SpcLabels, cpuVars
<1>13. CASE SpcByteLoop
  BY <1>13 DEF SpcByteLoop, SpcLabels, cpuVars
<1>14. CASE SpcByteRead
  BY <1>14 DEF SpcByteRead, SpcGoto, SpcLabels, cpuVars
<1>15. CASE SpcByteEcho
  BY <1>15 DEF SpcByteEcho, SpcGoto, SpcLabels, cpuVars
<1>16. CASE SpcByteStore
  BY <1>16, <1>4, <1>5, <1>6 DEF SpcByteStore, SpcGoto, SpcLabels, cpuVars
<1>17. CASE SpcSetupTwo
  <2>1. dest + M - 1 \in Nat
    BY <1>0, <1>2
  <2>2. dest' = (dest + M - 1) % M /\ two' = (Word(out[2], out[3]) + dest') % M
    BY <1>17 DEF SpcSetupTwo
  <2>3. dest' \in Addr
    BY <2>1, <2>2, <1>1, Zenon
  <2>4. two' \in Addr
    BY <2>2, <2>3, <1>3, <1>s, Zenon
  <2> QED
    BY <1>17, <2>3, <2>4 DEF SpcSetupTwo, SpcGoto, SpcLabels, cpuVars
<1>18. CASE SpcSetupThree
  <2>1. three' \in Addr
    BY <1>18, <1>3, <1>s, Zenon DEF SpcSetupThree, TypeOK
  <2> QED
    BY <1>18, <2>1 DEF SpcSetupThree, SpcGoto, SpcLabels, cpuVars
<1>19. CASE SpcSetupEcho
  BY <1>19, <1>0 DEF SpcSetupEcho, SpcGoto, SpcLabels, cpuVars
<1>20. CASE SpcTripleLoop
  BY <1>20 DEF SpcTripleLoop, SpcLabels, cpuVars
<1>21. CASE SpcStoreOne
  BY <1>21, <1>6 DEF SpcStoreOne, SpcGoto, SpcLabels, cpuVars
<1>22. CASE SpcReadTwo
  BY <1>22 DEF SpcReadTwo, SpcGoto, SpcLabels, cpuVars
<1>23. CASE SpcReadThree
  BY <1>23 DEF SpcReadThree, SpcGoto, SpcLabels, cpuVars
<1>24. CASE SpcTripleEcho
  BY <1>24 DEF SpcTripleEcho, SpcGoto, SpcLabels, cpuVars
<1>25. CASE SpcStoreThree
  BY <1>25, <1>6 DEF SpcStoreThree, SpcGoto, SpcLabels, cpuVars
<1>26. CASE SpcStoreTwo
  BY <1>26, <1>4, <1>5, <1>6 DEF SpcStoreTwo, SpcGoto, SpcLabels, cpuVars
<1> QED
  BY <1>7, <1>8, <1>9, <1>10, <1>11, <1>12, <1>13, <1>14, <1>15, <1>16,
     <1>17, <1>18, <1>19, <1>20, <1>21, <1>22, <1>23, <1>24, <1>25, <1>26
  DEF Spc

-----------------------------------------------------------------------------
(* Phases *)

\* The latches of the 65816 and its own registers do not move while the
\* SPC700 steps, and the other way round.
LEMMA CpuPhase == TypeOK /\ Phase /\ Cpu => Phase'
<1> SUFFICES ASSUME TypeOK, Phase, Cpu PROVE Phase'
  OBVIOUS
<1>0. out \in [0 .. 3 -> Byte] /\ echo \in Byte /\ i \in Nat /\ list \in Seq(Block)
      /\ W \in Nat /\ W >= 8 /\ y \in Byte
  BY Widths DEF TypeOK
<1>1. ASSUME NEW s \in Sessions, OpenSession(s) PROVE Phase'
  BY <1>0, <1>1 DEF Phase, OpenSession, CpuGoto, spcVars, HeaderUnposted
<1>2. CASE CpuHeaderData
  BY <1>0, <1>2 DEF Phase, CpuHeaderData, CpuGoto, spcVars, HeaderUnposted, CurrentKind, Between
<1>3. CASE CpuHeaderPost
  BY <1>0, <1>3 DEF Phase, CpuHeaderPost, CpuGoto, spcVars, Post, HeaderUnposted,
     HeaderPosted, CurrentKind, Between
<1>4. CASE CpuHeaderAck
  BY <1>0, <1>4, ListFacts, BumpFacts DEF Phase, CpuHeaderAck, spcVars, HeaderPosted, CurrentKind
<1>5. CASE CpuOpenCount
  BY <1>0, <1>5 DEF Phase, CpuOpenCount, CpuGoto, spcVars
<1>6. CASE CpuOpenPost
  BY <1>0, <1>6 DEF Phase, CpuOpenPost, CpuGoto, spcVars, Post, Opening
<1>7. CASE CpuOpening
  <2>1. 0 % W = 0
    BY <1>0, ModSmall
  <2> QED
    BY <1>0, <1>7, <2>1 DEF Phase, CpuOpening, CpuGoto, spcVars, Opening, Between, Inc
<1>9. CASE CpuFirst
  BY <1>0, <1>9 DEF Phase, CpuFirst, CpuGoto, spcVars, Post, Between
<1>10. CASE CpuSecond
  BY <1>0, <1>10 DEF Phase, CpuSecond, CpuGoto, spcVars, Post, Between
<1>11. CASE CpuThirdPort
  BY <1>0, <1>11 DEF Phase, CpuThirdPort, CpuGoto, spcVars, Post, Between
<1>12. CASE CpuPost
  <2>1. (i + 1) % W = Inc(i % W)
    BY <1>0, Widths, ModSucc, Zenon DEF Inc
  <2> QED
    BY <1>0, <1>12, <2>1 DEF Phase, CpuPost, spcVars, Post, DataPosted, Between
<1>13. CASE CpuEcho
  BY <1>0, <1>13, IncFacts DEF Phase, CpuEcho, CpuGoto, spcVars, DataPosted, TakingData, Between
<1>14. CASE CpuByte
  BY <1>0, <1>14 DEF Phase, CpuByte, CpuGoto, spcVars, Post, Between
<1>15. CASE CpuBytePost
  <2>1. (i + 1) % W = Inc(i % W)
    BY <1>0, Widths, ModSucc, Zenon DEF Inc
  <2>2. i % W \in Byte
    BY <1>0, HalfFacts
  <2>3. 0 % W = 0
    BY <1>0, ModSmall
  <2>5. /\ cpc = "bytePost" /\ out'[0] = i % W /\ i' = i + 1
        /\ cpc' \in {"sent", "byteEcho"} /\ UNCHANGED <<list, spcVars>>
    BY <1>0, <1>15 DEF CpuBytePost, Post
  <2>6. Inc(out'[0]) = i' % W
    BY <2>1, <2>5
  <2>7. DataPosted' \/ BytesOpening'
    <3>1. CASE i = 0 /\ out[0] # 0 /\ spc = "blockStart"
      BY <3>1, <2>3, <2>5, <1>0 DEF Phase, BytesOpening, spcVars
    <3>2. CASE Inc(out[0]) = i % W /\ Between
      BY <3>2, <2>5 DEF Phase, DataPosted, Between, spcVars
    <3> QED
      BY <3>1, <3>2, <2>5 DEF Phase
  <2> QED
    BY <2>5, <2>6, <2>7 DEF Phase, spcVars
<1>16. CASE CpuByteEcho
  BY <1>0, <1>16, IncFacts DEF Phase, CpuByteEcho, CpuGoto, spcVars, DataPosted,
     BytesOpening, TakingData, Between
<1>17. CASE CpuSent
  BY <1>0, <1>17, IncFacts DEF Phase, CpuSent, CpuGoto, spcVars, DataPosted,
     BytesOpening, HeaderUnposted, Between
<1> QED
  BY <1>1, <1>2, <1>3, <1>4, <1>5, <1>6, <1>7, <1>9, <1>10, <1>11, <1>12,
     <1>13, <1>14, <1>15, <1>16, <1>17 DEF Cpu

\* While the SPC700 steps the 65816 stands still.
LEMMA SpcPhase == TypeOK /\ Phase /\ Spc => Phase'
<1> SUFFICES ASSUME TypeOK, Phase, Spc PROVE Phase'
  OBVIOUS
<1>0. out \in [0 .. 3 -> Byte] /\ echo \in Byte /\ i \in Nat /\ list \in Seq(Block)
      /\ W \in Nat /\ W >= 8 /\ y \in Byte /\ kind \in Byte /\ out[0] \in Byte
  BY Widths DEF TypeOK
<1>1. CurrentKind \in {0, 1, 3}
  BY <1>0, ListFacts DEF CurrentKind
<1> USE DEF Phase, HeaderUnposted, HeaderPosted, Opening, DataPosted, BytesOpening,
        Between, TakingData, CurrentKind, SpcGoto, cpuVars
<1>7. CASE SpcReady
  BY <1>0, <1>7 DEF SpcReady
<1>8. CASE SpcHeaderDest
  BY <1>0, <1>8 DEF SpcHeaderDest
<1>9. CASE SpcHeaderKind
  <2>1. cpc = "headerWait" /\ out[0] = Bump(echo)
    BY <1>0, <1>1, <1>9, BumpFacts DEF SpcHeaderKind, TypeOK, CpuLabels
  <2> QED
    BY <1>0, <1>9, <2>1 DEF SpcHeaderKind
<1>10. CASE SpcHeaderEcho
  BY <1>0, <1>10, BumpFacts DEF SpcHeaderEcho
<1>11. CASE SpcBlockStart
  BY <1>0, <1>1, <1>11 DEF SpcBlockStart
<1>12. CASE SpcDispatch
  BY <1>0, <1>12 DEF SpcDispatch
<1>13. CASE SpcByteLoop
  BY <1>0, <1>13, IncFacts, BumpFacts DEF SpcByteLoop
<1>14. CASE SpcByteRead
  BY <1>0, <1>14 DEF SpcByteRead
<1>15. CASE SpcByteEcho
  BY <1>0, <1>15 DEF SpcByteEcho
<1>n. NextIndex = Inc(y)
  BY <1>0, IncFacts DEF NextIndex
<1>16. CASE SpcByteStore
  BY <1>0, <1>n, <1>16 DEF SpcByteStore
<1>17. CASE SpcSetupTwo
  BY <1>0, <1>17 DEF SpcSetupTwo
<1>18. CASE SpcSetupThree
  BY <1>0, <1>18 DEF SpcSetupThree
<1>19. CASE SpcSetupEcho
  BY <1>0, <1>19 DEF SpcSetupEcho
<1>20. CASE SpcTripleLoop
  <2>1. /\ Inc(echo) # echo /\ StillAhead(Inc(echo), echo)
        /\ Bump(echo) # Inc(echo) /\ Bump(echo) # echo
        /\ ~StillAhead(Inc(echo), Bump(echo))
    BY <1>0, IncFacts, BumpFacts
  <2>2. spc = "tripleLoop" /\ y = Inc(echo) /\ kind = 3
    BY <1>0, <1>1, <1>20 DEF SpcTripleLoop, TypeOK, CpuLabels, Inc
  <2>3. \/ out[0] = echo
        \/ out[0] = Inc(echo) /\ cpc \in {"echo", "sent"}
        \/ out[0] = Bump(echo) /\ cpc = "headerWait"
    BY <1>0, <2>1, <2>2 DEF TypeOK, CpuLabels
  <2>4. CASE out[0] = echo
    BY <1>20, <2>1, <2>2, <2>4 DEF SpcTripleLoop
  <2>5. CASE out[0] = Inc(echo) /\ cpc \in {"echo", "sent"}
    BY <1>0, <1>20, <2>1, <2>2, <2>5 DEF SpcTripleLoop
  <2>6. CASE out[0] = Bump(echo) /\ cpc = "headerWait"
    BY <1>0, <1>20, <2>1, <2>2, <2>6 DEF SpcTripleLoop
  <2> QED
    BY <2>3, <2>4, <2>5, <2>6
<1>21. CASE SpcStoreOne
  BY <1>0, <1>21 DEF SpcStoreOne
<1>22. CASE SpcReadTwo
  BY <1>0, <1>22 DEF SpcReadTwo
<1>23. CASE SpcReadThree
  BY <1>0, <1>23 DEF SpcReadThree
<1>24. CASE SpcTripleEcho
  BY <1>0, <1>24 DEF SpcTripleEcho
<1>25. CASE SpcStoreThree
  BY <1>0, <1>25 DEF SpcStoreThree
<1>26. CASE SpcStoreTwo
  BY <1>0, <1>n, <1>26 DEF SpcStoreTwo
<1> QED
  BY <1>7, <1>8, <1>9, <1>10, <1>11, <1>12, <1>13, <1>14, <1>15, <1>16,
     <1>17, <1>18, <1>19, <1>20, <1>21, <1>22, <1>23, <1>24, <1>25, <1>26
  DEF Spc

-----------------------------------------------------------------------------
(* The theorems *)

\* The types and the phases together are inductive.
THEOREM PhaseInvariant == Spec => [](TypeOK /\ Phase)
<1>1. Init => TypeOK /\ Phase
  <2> SUFFICES ASSUME Init PROVE TypeOK /\ Phase
    OBVIOUS
  <2>1. 0 \in Byte /\ 0 \in Addr /\ M \in Nat
    BY Widths DEF Byte, Addr
  <2>2. TypeOK
    BY <2>1 DEF Init, TypeOK, CpuLabels, SpcLabels
  <2>3. Phase
    BY DEF Init, Phase
  <2> QED
    BY <2>2, <2>3
<1>2. TypeOK /\ Phase /\ [Next]_vars => (TypeOK /\ Phase)'
  <2> SUFFICES ASSUME TypeOK, Phase, [Next]_vars PROVE (TypeOK /\ Phase)'
    OBVIOUS
  <2>1. CASE Cpu
    BY <2>1, CpuTypes, CpuPhase
  <2>2. CASE Spc
    BY <2>2, SpcTypes, SpcPhase
  <2>3. CASE UNCHANGED vars
    BY <2>3 DEF vars, TypeOK, Phase, HeaderUnposted, HeaderPosted, Opening,
       DataPosted, BytesOpening, Between, TakingData, CurrentKind
  <2> QED
    BY <2>1, <2>2, <2>3 DEF Next
<1> QED
  BY <1>1, <1>2, PTL DEF Spec

\* Every register, latch and pointer keeps its width.
THEOREM TypeCorrect == Spec => []TypeOK
  BY PhaseInvariant, PTL

\* No counter of a data handshake is ever taken for a header.
THEOREM HeadersAreReal == Spec => []NoFalseHeader
<1>1. TypeOK /\ Phase => NoFalseHeader
  <2> SUFFICES ASSUME TypeOK, Phase, spc \in {"header", "headerKind", "headerEcho"}
               PROVE  cpc = "headerWait"
    BY DEF NoFalseHeader
  <2> QED
    BY DEF Phase, HeaderUnposted, Opening, DataPosted, BytesOpening, Between,
       TakingData, TypeOK, CpuLabels
<1> QED
  BY <1>1, PhaseInvariant, PTL

\* The 65816 writes no latch between the driver noticing a counter and
\* echoing it.
THEOREM LatchesAreHeld == Spec => LatchesHeld
<1>1. TypeOK /\ Phase /\ [Next]_vars => [(spc \in Taking) => (out' = out)]_vars
  <2> SUFFICES ASSUME TypeOK, Phase, [Next]_vars, spc \in Taking PROVE out' = out
    OBVIOUS
  <2>1. cpc \in {"headerWait", "opening", "echo", "byteEcho", "sent"}
    BY DEF Phase, HeaderUnposted, Opening, DataPosted, BytesOpening, Between,
       TakingData, TypeOK, CpuLabels, Taking
  <2>2. CASE Cpu
    BY <2>1, <2>2 DEF Cpu, OpenSession, CpuHeaderData, CpuHeaderPost, CpuHeaderAck,
       CpuOpenCount, CpuOpenPost, CpuOpening, CpuFirst, CpuSecond, CpuThirdPort,
       CpuPost, CpuEcho, CpuByte, CpuBytePost, CpuByteEcho, CpuSent, CpuGoto
  <2>3. CASE Spc
    BY <2>3 DEF Spc, SpcReady, SpcHeaderDest, SpcHeaderKind, SpcHeaderEcho,
       SpcBlockStart, SpcDispatch, SpcByteLoop, SpcByteRead, SpcByteEcho,
       SpcByteStore, SpcSetupTwo, SpcSetupThree, SpcSetupEcho, SpcTripleLoop,
       SpcStoreOne, SpcReadTwo, SpcReadThree, SpcTripleEcho, SpcStoreThree,
       SpcStoreTwo, cpuVars
  <2> QED
    BY <2>2, <2>3 DEF Next, vars
<1> QED
  BY <1>1, PhaseInvariant, PTL DEF Spec, LatchesHeld

-----------------------------------------------------------------------------
-----------------------------------------------------------------------------
(* Sums of lengths *)

\* f holds the running sums of the blocks' lengths.
Sums(f, blocks) ==
  /\ f \in [0 .. Len(blocks) -> Nat]
  /\ f[0] = 0
  /\ \A k \in 1 .. Len(blocks) : f[k] = f[k - 1] + blocks[k].len

\* Every list has running sums.
LEMMA SumsExist ==
  ASSUME NEW blocks \in Seq(Block)
  PROVE  \E f : Sums(f, blocks)
<1> DEFINE Good(f, n) == /\ f \in [0 .. n -> Nat] /\ f[0] = 0
                         /\ \A k \in 1 .. n : f[k] = f[k - 1] + blocks[k].len
           Bad == {n \in 0 .. Len(blocks) : ~ \E f : Good(f, n)}
<1>1. Len(blocks) \in Nat /\ \A k \in 1 .. Len(blocks) : blocks[k].len \in Nat
  <2>1. Len(blocks) \in Nat /\ \A k \in 1 .. Len(blocks) : blocks[k] \in Block
    OBVIOUS
  <2>2. \A b \in Block : b.len \in Nat
    BY DEF Block
  <2> QED
    BY <2>1, <2>2
<1>2. Bad = {}
  <2> SUFFICES ASSUME Bad # {} PROVE FALSE
    OBVIOUS
  <2>1. Bad \in SUBSET Nat
    OBVIOUS
  <2>2. PICK m \in Bad : \A k \in Bad : m <= k
    <3> HIDE DEF Bad
    <3> QED BY <2>1, LeastNatural
  <2>3. m # 0
    <3>1. Good([k \in 0 .. 0 |-> 0], 0)
      OBVIOUS
    <3> QED
      BY <3>1
  <2>4. m - 1 \in 0 .. Len(blocks) /\ m - 1 \notin Bad /\ m \in 1 .. Len(blocks)
    <3>1. m \in 0 .. Len(blocks)
      OBVIOUS
    <3>2. m - 1 \in 0 .. Len(blocks) /\ m - 1 < m /\ m \in 1 .. Len(blocks)
      BY <1>1, <2>3, <3>1
    <3> HIDE DEF Bad
    <3> QED BY <2>2, <3>1, <3>2
  <2>5. PICK f : Good(f, m - 1)
    BY <2>4
  <2> DEFINE g == [k \in 0 .. m |-> IF k = m THEN f[m - 1] + blocks[m].len ELSE f[k]]
  <2>6. f[m - 1] + blocks[m].len \in Nat
    BY <1>1, <2>4, <2>5
  <2>7. Good(g, m)
    BY <1>1, <2>4, <2>5, <2>6
  <2> QED
    BY <2>2, <2>7
<1>3. \E f : Good(f, Len(blocks))
  BY <1>1, <1>2
<1> QED
  BY <1>3 DEF Sums

\* The total is the last of them.
LEMMA TotalIs ==
  ASSUME NEW blocks \in Seq(Block), NEW f, Sums(f, blocks)
  PROVE  Total(blocks) = f[Len(blocks)]
<1> DEFINE n == Len(blocks)
           body(g) == [k \in 0 .. n |-> IF k = 0 THEN 0 ELSE g[k - 1] + blocks[k].len]
           sum == CHOOSE g : g = body(g)
<1>1. n \in Nat
  OBVIOUS
<1>2. f = body(f)
  BY <1>1 DEF Sums
<1>3. sum = body(sum)
  BY <1>2
<1>4. Total(blocks) = sum[n]
  BY DEF Total
<1> DEFINE Bad == {k \in 0 .. n : sum[k] # f[k]}
<1> HIDE DEF sum
<1>5. Bad = {}
  <2> SUFFICES ASSUME Bad # {} PROVE FALSE
    OBVIOUS
  <2>1. PICK m \in Bad : \A k \in Bad : m <= k
    <3>1. Bad \in SUBSET Nat
      OBVIOUS
    <3> HIDE DEF Bad
    <3> QED BY <3>1, LeastNatural
  <2>2. CASE m = 0
    BY <1>1, <1>3, <2>1, <2>2 DEF Sums
  <2>3. CASE m # 0
    <3>1. m \in 1 .. n /\ m - 1 \in 0 .. n /\ m - 1 \notin Bad
      BY <1>1, <2>1, <2>3
    <3>2. sum[m - 1] = f[m - 1]
      BY <3>1
    <3>3. sum[m] = sum[m - 1] + blocks[m].len
      BY <1>3, <3>1
    <3> QED
      BY <2>1, <3>1, <3>2, <3>3 DEF Sums
  <2> QED
    BY <2>2, <2>3
<1> QED
  BY <1>1, <1>4, <1>5

\* A list is as long as its head and its tail.
LEMMA TotalFacts ==
  ASSUME NEW blocks \in Seq(Block)
  PROVE  /\ Total(blocks) \in Nat
         /\ blocks = <<>> => Total(blocks) = 0
         /\ blocks # <<>> => Total(blocks) = Head(blocks).len + Total(Tail(blocks))
<1>1. Len(blocks) \in Nat
  OBVIOUS
<1>2. PICK f : Sums(f, blocks)
  BY SumsExist
<1>3. Total(blocks) = f[Len(blocks)]
  BY <1>2, TotalIs
<1>4. Total(blocks) \in Nat
  BY <1>1, <1>2, <1>3 DEF Sums
<1>5. ASSUME blocks = <<>> PROVE Total(blocks) = 0
  BY <1>2, <1>3, <1>5 DEF Sums
<1>6. ASSUME blocks # <<>> PROVE Total(blocks) = Head(blocks).len + Total(Tail(blocks))
  <2> DEFINE rest == Tail(blocks)
  <2>1. /\ rest \in Seq(Block) /\ Len(rest) = Len(blocks) - 1 /\ Len(blocks) >= 1
        /\ \A k \in 1 .. Len(rest) : rest[k] = blocks[k + 1]
        /\ Head(blocks) = blocks[1] /\ blocks[1] \in Block
    BY <1>6
  <2>2. PICK g : Sums(g, rest)
    BY <2>1, SumsExist
  <2>3. Total(rest) = g[Len(rest)]
    BY <2>1, <2>2, TotalIs
  <2> DEFINE h == [k \in 0 .. Len(blocks) |-> IF k = 0 THEN 0 ELSE Head(blocks).len + g[k - 1]]
  <2> HIDE DEF rest
  <2>4. Sums(h, blocks)
    <3>1. Head(blocks).len \in Nat
      BY <2>1 DEF Block
    <3>2. \A k \in 0 .. Len(rest) : g[k] \in Nat
      BY <2>2 DEF Sums
    <3>3. h \in [0 .. Len(blocks) -> Nat]
      BY <1>1, <2>1, <3>1, <3>2
    <3>4. ASSUME NEW k \in 1 .. Len(blocks) PROVE h[k] = h[k - 1] + blocks[k].len
      <4>1. CASE k = 1
        BY <1>1, <2>1, <2>2, <3>1, <4>1 DEF Sums
      <4>2. CASE k # 1
        <5>1. k - 1 \in 1 .. Len(rest) /\ k - 1 \in 0 .. Len(blocks) /\ k \in 0 .. Len(blocks) /\ k - 1 # 0
          BY <1>1, <2>1, <4>2
        <5>2. g[k - 1] = g[(k - 1) - 1] + rest[k - 1].len /\ rest[k - 1] = blocks[k]
          BY <2>1, <2>2, <5>1 DEF Sums
        <5>3. rest[k - 1].len \in Nat /\ g[(k - 1) - 1] \in Nat
          <6>1. blocks[k] \in Block
            BY <1>1
          <6>2. (k - 1) - 1 \in 0 .. Len(rest)
            BY <1>1, <2>1, <5>1
          <6> QED
            BY <3>2, <5>2, <6>1, <6>2 DEF Block
        <5> QED
          BY <3>1, <5>1, <5>2, <5>3
      <4> QED
        BY <4>1, <4>2
    <3> QED
      <4>1. h[0] = 0
        BY <1>1
      <4> HIDE DEF h
      <4> QED BY <3>3, <3>4, <4>1 DEF Sums
  <2>5. Total(blocks) = h[Len(blocks)]
    BY <2>4, TotalIs
  <2> QED
    BY <1>1, <2>1, <2>3, <2>5 DEF rest
<1> QED
  BY <1>4, <1>5, <1>6

-----------------------------------------------------------------------------
(* Places in sound memory *)

\* An address survives its way over the two ports.
LEMMA WordOf ==
  ASSUME NEW n \in 0 .. M - 1
  PROVE  Word(Lo(n), Hi(n)) = n
<1> DEFINE q == n \div W
           r == n % W
<1>1. W \in Nat \ {0} /\ Pages \in Nat /\ Pages <= W /\ M = W * Pages /\ n \in Nat
  BY Widths, WidthAssumption, RoomAssumption DEF M
<1>2. q \in Nat /\ r \in 0 .. W - 1 /\ n = W * q + r
  BY <1>1, DivMod, DivNat, ModRange
<1> HIDE DEF q, r
<1>3. q < W
  <2>1. SUFFICES ASSUME q >= Pages PROVE FALSE
    BY <1>1, <1>2
  <2>2. W * q >= W * Pages
    BY <1>1, <1>2, <2>1, Z3
  <2> QED
    BY <1>1, <1>2, <2>2
<1>4. q % W = q
  BY <1>1, <1>2, <1>3, ModSmall
<1>5. Hi(n) = q /\ Lo(n) = r
  BY <1>4 DEF Hi, Lo, q, r
<1>6. r + W * q = n
  BY <1>1, <1>2
<1> QED
  BY <1>1, <1>5, <1>6, ModSmall, Widths DEF Word

\* A pointer and the index it goes with name a place ahead of the stream's start.
LEMMA PlaceOf ==
  ASSUME NEW q \in Nat, NEW k \in Nat, NEW c \in Nat, c <= k, q + k < M
  PROVE  (((q + (k - c)) % M) + c) % M = q + k
<1>1. M \in Nat \ {0} /\ q + (k - c) \in Nat
  BY Widths
<1>2. (((q + (k - c)) % M) + c) % M = ((q + (k - c)) + c) % M
  BY <1>1, ModAdd
<1>3. (q + (k - c)) + c = q + k
  OBVIOUS
<1>4. q + k \in 0 .. M - 1
  BY <1>1
<1>5. (q + k) % M = q + k
  BY <1>1, <1>4, ModSmall, Zenon
<1> QED
  BY <1>2, <1>3, <1>5

\* The same of the driver's pointers in a triple block, which start one below.
LEMMA PlaceBelow ==
  ASSUME NEW q \in Nat, NEW k \in Nat, NEW c \in Nat, c <= k, k >= 1, q + k <= M
  PROVE  (((q + (M - 1) + (k - c)) % M) + c) % M = q + k - 1
<1> DEFINE p == q + (M - 1) + (k - c)
<1>1. M \in Nat \ {0} /\ p \in Nat
  BY Widths
<1>2. p + c = M * 1 + ((q + k) - 1)
  BY <1>1
<1>3. (q + k) - 1 \in 0 .. M - 1
  BY <1>1
<1>4. (p + c) % M = (q + k) - 1
  <2>1. (M * 1 + ((q + k) - 1)) % M = (q + k) - 1
    BY <1>1, <1>3, ModUnique
  <2> QED
    BY <1>2, <2>1
<1>5. ((p % M) + c) % M = (p + c) % M
  <2> HIDE DEF p
  <2> QED BY <1>1, ModAdd
<1> QED
  BY <1>4, <1>5

\* Moving a pointer on with the index keeps it where the index belongs.
LEMMA CarryKeeps ==
  ASSUME y \in Byte, NEW q \in Nat, NEW k \in Nat, k >= y
  PROVE  /\ Carry((q + (k - y)) % M) = (q + ((k + 1) - NextIndex)) % M
         /\ NextIndex = Inc(y) /\ k + 1 >= NextIndex
<1>1. NextIndex = Inc(y) /\ y \in Nat /\ W \in Nat /\ W >= 8 /\ M \in Nat \ {0} /\ y < W
  BY IncFacts, Widths DEF NextIndex, Byte
<1>2. CASE y = W - 1
  <2>1. NextIndex = 0
    BY <1>1, <1>2 DEF Inc
  <2>2. q + (k - y) \in Nat
    BY <1>1
  <2>3. (((q + (k - y)) % M) + W) % M = ((q + (k - y)) + W) % M
    BY <1>1, <2>2, ModAdd
  <2>4. (q + (k - y)) + W = q + ((k + 1) - 0)
    BY <1>1, <1>2
  <2> QED
    BY <1>1, <2>1, <2>3, <2>4 DEF Carry
<1>3. CASE y # W - 1
  <2>1. NextIndex = y + 1 /\ NextIndex # 0
    BY <1>1, <1>3 DEF Inc
  <2>2. k - y = (k + 1) - (y + 1)
    BY <1>1
  <2> QED
    BY <1>1, <2>1, <2>2 DEF Carry
<1> QED
  BY <1>2, <1>3

\* The block at the head of the list lies inside sound memory, spill included.
LEMMA BlockRoom ==
  ASSUME TypeOK, Room, list # <<>>
  PROVE  /\ Head(list).len \in Nat \ {0} /\ Count \in Nat \ {0}
         /\ Head(list).len <= 3 * Count /\ 3 * Count <= Head(list).len + 2
         /\ Total(list) = Head(list).len + Total(Tail(list)) /\ Total(Tail(list)) \in Nat
         /\ dst + Head(list).len + 2 <= M /\ dst + 3 * Count <= M /\ M \in Nat
<1>1. list \in Seq(Block) /\ dst \in Nat
  BY DEF TypeOK
<1>2. Head(list).len \in Nat \ {0} /\ Tail(list) \in Seq(Block)
  BY <1>1, ListFacts
<1>3. Count \in Nat \ {0} /\ Head(list).len <= 3 * Count /\ 3 * Count <= Head(list).len + 2
  BY <1>2 DEF Count, Handshakes
<1>4. Total(list) = Head(list).len + Total(Tail(list)) /\ Total(Tail(list)) \in Nat
  BY <1>1, <1>2, TotalFacts
<1>5. dst + Total(list) + 2 <= M /\ M \in Nat
  BY Widths DEF Room, Spill
<1> QED
  BY <1>1, <1>2, <1>3, <1>4, <1>5

-----------------------------------------------------------------------------
(* What a step leaves alone *)

\* A store of what belongs there adds to what is there.
LEMMA StoreFills ==
  ASSUME TypeOK, UNCHANGED <<base, start>>,
         NEW n \in Addr, mem' = [mem EXCEPT ![n] = Wanted[n]]
  PROVE  Wanted' = Wanted /\ Filled' = Filled \cup {n}
  BY DEF TypeOK, Wanted, Filled

\* A step that leaves memory and the session alone leaves what is there alone.
LEMMA MemoryKept ==
  ASSUME UNCHANGED <<base, start, mem>>
  PROVE  Wanted' = Wanted /\ Filled' = Filled
  BY DEF Wanted, Filled

\* What the 65816 sends of a stream is what belongs where the stream goes.
LEMMA StreamWanted ==
  ASSUME TypeOK, Room, list # <<>>, NEW k \in {0, 1, 2}
  PROVE  StreamByte(k) = Wanted[dst + k * Count + i]
<1>1. /\ dst \in Nat /\ i \in Nat /\ src \in Nat /\ base \in Nat /\ start \in Nat /\ Count \in Nat
      /\ src + base = start + dst
  BY BlockRoom DEF TypeOK, Room
<1>2. StreamOffset(k) = k * Count
  BY DEF StreamOffset, Count
<1>3. dst + k * Count + i \in Nat
  BY <1>1
<1>4. src + k * Count + i = start + (dst + k * Count + i) - base
  BY <1>1
<1> QED
  BY <1>2, <1>3, <1>4 DEF StreamByte, Wanted

\* The same of the stock loop's bytes.
LEMMA BytesWanted ==
  ASSUME TypeOK, Room
  PROVE  Source[(src + i) % M] = Wanted[dst + i]
<1>1. /\ dst \in Nat /\ i \in Nat /\ src \in Nat /\ base \in Nat /\ start \in Nat
      /\ src + base = start + dst
  BY DEF TypeOK, Room
<1>2. src + i = start + (dst + i) - base /\ dst + i \in Nat
  BY <1>1
<1> QED
  BY <1>2 DEF Wanted

-----------------------------------------------------------------------------
\* The data's invariant holds between uploads and when one opens.
LEMMA OpenData ==
  ASSUME TypeOK, Phase, DataInv, NEW s \in Sessions, OpenSession(s)
  PROVE  DataInv'
<1>1. /\ cpc' = "header" /\ base' = s.base /\ dst' = s.base /\ acked' = s.base
      /\ start' = s.start /\ src' = s.start /\ list' = s.list
      /\ UNCHANGED spcVars
  BY DEF OpenSession, CpuGoto
<1>2. s.base \in Nat /\ s.start \in Nat /\ s.base + Total(s.list) + Spill <= M
  BY SessionAssumption, RoomAssumption DEF Session
<1>3. cpc = "idle" /\ spc = "ready"
  BY DEF OpenSession, CpuGoto, Phase
<1>4. Room'
  BY <1>1, <1>2 DEF Room
<1>5. Late' = {} /\ spc' = "ready"
  BY <1>1, <1>3 DEF Late, spcVars
<1>6. Landed'
  BY <1>1, <1>2, <1>5 DEF Landed
<1>7. Counted' /\ Posted' /\ Aimed'
  BY <1>1 DEF Counted, Posted, Aimed
<1> QED
  BY <1>4, <1>6, <1>7 DEF DataInv

\* A step of the 65816 inside an upload leaves the memory and the driver alone.
LEMMA CpuKeeps ==
  ASSUME Cpu, cpc # "idle"
  PROVE  /\ UNCHANGED <<base, start, spcVars>>
         /\ Wanted' = Wanted /\ Filled' = Filled
         /\ Late' = Late /\ Landing(dest)' = Landing(dest)
         /\ Landing(two)' = Landing(two) /\ Landing(three)' = Landing(three)
<1>1. UNCHANGED <<base, start, spcVars>>
  BY DEF Cpu, OpenSession, CpuHeaderData, CpuHeaderPost, CpuHeaderAck,
     CpuOpenCount, CpuOpenPost, CpuOpening, CpuFirst, CpuSecond, CpuThirdPort,
     CpuPost, CpuEcho, CpuByte, CpuBytePost, CpuByteEcho, CpuSent, CpuGoto
<1>2. Wanted' = Wanted /\ Filled' = Filled
  BY <1>1, MemoryKept DEF spcVars
<1> QED
  BY <1>1, <1>2 DEF spcVars, Late, Landing

\* A step that moves neither the latches nor the index leaves the driver where
\* it is in the block.
LEMMA StreamsKept ==
  ASSUME UNCHANGED <<spcVars, list, dst, Index, Filled, Wanted>>
  PROVE  Streams' = Streams /\ Bytes' = (IF spc = "blockStart" THEN dest = dst /\ i' <= 1 ELSE Bytes)
<1>1. Count' = Count
  BY DEF Count
<1>2. Pointer(0)' = Pointer(0) /\ Pointer(1)' = Pointer(1) /\ Pointer(2)' = Pointer(2)
  BY <1>1 DEF Pointer, spcVars
<1> QED
  BY <1>1, <1>2 DEF Streams, Bytes, spcVars

\* Where the three stores of the handshake at hand go.
LEMMA LoopPlaces ==
  ASSUME TypeOK, Room, list # <<>>, Streams, Index <= Count
  PROVE  /\ Landing(dest) = dst + Index - 1
         /\ Landing(two) = dst + Count + Index - 1
         /\ Landing(three) = dst + 2 * Count + Index - 1
<1>1. dst \in Nat /\ Count \in Nat \ {0} /\ dst + 3 * Count <= M /\ M \in Nat
  BY BlockRoom DEF TypeOK
<1>2. y \in Nat /\ Index \in Nat /\ Index >= 1 /\ Index >= y
  BY <1>1 DEF TypeOK, Byte, Streams, Index, Ahead
<1>3. ASSUME NEW k \in {0, 1, 2} PROVE (Pointer(k) + y) % M = dst + k * Count + Index - 1
  <2> DEFINE q == dst + k * Count
  <2>1. q \in Nat /\ q + Index <= M
    BY <1>1, <1>2
  <2>2. Pointer(k) = (q + (M - 1) + (Index - y)) % M
    BY DEF Pointer
  <2> HIDE DEF q
  <2>3. (Pointer(k) + y) % M = q + Index - 1
    BY <1>2, <2>1, <2>2, PlaceBelow
  <2> QED
    BY <2>3 DEF q
<1>4. dest = Pointer(0) /\ two = Pointer(1) /\ three = Pointer(2)
  BY DEF Streams
<1>5. /\ dst + 0 * Count + Index - 1 = dst + Index - 1
      /\ dst + 1 * Count + Index - 1 = dst + Count + Index - 1
  BY <1>1, <1>2
<1> QED
  BY <1>3, <1>4, <1>5 DEF Landing

\* Every step of the 65816 keeps the data's invariant.
LEMMA CpuData == TypeOK /\ Phase /\ DataInv /\ Cpu => DataInv'
<1> SUFFICES ASSUME TypeOK, Phase, DataInv, Cpu PROVE DataInv'
  OBVIOUS
<1>0. /\ out \in [0 .. 3 -> Byte] /\ echo \in Byte /\ i \in Nat /\ list \in Seq(Block)
      /\ W \in Nat /\ W >= 8 /\ y \in Byte /\ kind \in Byte /\ dst \in Nat /\ acked \in Nat
      /\ base \in Nat /\ M \in Nat /\ out[0] \in Byte
  BY Widths DEF TypeOK
<1>a. TypeOK /\ Room /\ Counted /\ Posted /\ Aimed /\ Landed
  BY DEF DataInv
<1>1. ASSUME NEW s \in Sessions, OpenSession(s) PROVE DataInv'
  BY <1>1, OpenData
<1>k. ASSUME cpc # "idle"
      PROVE  /\ UNCHANGED <<base, start, spcVars>> /\ Wanted' = Wanted /\ Filled' = Filled
             /\ Late' = Late /\ Landing(dest)' = Landing(dest)
             /\ Landing(two)' = Landing(two) /\ Landing(three)' = Landing(three)
  BY <1>k, CpuKeeps
<1>2. CASE CpuHeaderData
  <2>1. /\ cpc = "header" /\ cpc' = "headerPost" /\ UNCHANGED <<base, start, list, src, dst, acked, i>>
        /\ out'[2] = Lo(dst) /\ out'[3] = Hi(dst)
    BY <1>0, <1>2 DEF CpuHeaderData, CpuGoto
  <2> QED
    BY <1>k, <2>1 DEF DataInv, Room, Counted, Posted, Aimed, Landed, spcVars
<1>3. CASE CpuHeaderPost
  <2>1. /\ cpc = "headerPost" /\ cpc' = "headerWait" /\ UNCHANGED <<base, start, list, src, dst, acked, i>>
        /\ out'[2] = out[2] /\ out'[3] = out[3] /\ out'[0] = Bump(out[0])
    BY <1>0, <1>3 DEF CpuHeaderPost, CpuGoto, Post
  <2>2. echo' # out'[0] /\ spc' \notin {"headerKind", "headerEcho"}
    BY <1>0, <1>k, <2>1, BumpFacts DEF Phase, HeaderUnposted, Between, spcVars
  <2> QED
    BY <1>k, <2>1, <2>2 DEF DataInv, Room, Counted, Posted, Aimed, Landed, spcVars
<1>4. CASE CpuHeaderAck
  <2>1. /\ cpc = "headerWait" /\ echo = out[0] /\ i' = 0 /\ acked' = dst
        /\ cpc' = IF list = <<>> THEN "idle" ELSE IF Head(list).kind = 3 THEN "count" ELSE "byte"
        /\ UNCHANGED <<base, start, list, src, dst, out>>
    BY <1>4 DEF CpuHeaderAck
  <2>2. Bump(echo) # echo
    BY <1>0, BumpFacts
  <2>3. spc \in {"ready", "blockStart"} /\ kind = CurrentKind
        /\ (kind # 0 => spc = "blockStart")
    BY <2>1, <2>2 DEF Phase, HeaderPosted
  <2>4. Late = {}
    BY <2>3 DEF Late
  <2>5. dest = dst
    BY <2>1 DEF DataInv, Aimed
  <2>6. Room'
    BY <1>0, <1>k, <2>1, <2>4 DEF DataInv, Room, Landed
  <2>7. list # <<>> => Head(list).kind \in {1, 3} /\ CurrentKind = Head(list).kind /\ Head(list).len >= 1
    BY <1>0, ListFacts DEF CurrentKind
  <2>8. spc' = spc /\ dest' = dest
    BY <1>k, <2>1 DEF spcVars
  <2>9. Aimed' /\ Counted'
    <3>1. CASE list = <<>>
      BY <2>1, <3>1 DEF Aimed, Counted
    <3>2. CASE list # <<>> /\ Head(list).kind = 3
      BY <2>1, <2>5, <2>8, <3>2 DEF Aimed, Counted
    <3>3. CASE list # <<>> /\ Head(list).kind = 1
      <4>1. cpc' = "byte" /\ spc = "blockStart" /\ Head(list').len >= 1
        BY <2>1, <2>3, <2>7, <3>3
      <4>2. Bytes'
        BY <2>1, <2>5, <2>8, <4>1 DEF Bytes
      <4>3. Aimed'
        BY <4>1, <4>2 DEF Aimed
      <4>4. Counted'
        BY <1>0, <2>1, <3>3, <4>1, ListFacts DEF Counted
      <4> QED
        BY <4>3, <4>4
    <3> QED
      BY <2>7, <3>1, <3>2, <3>3
  <2> QED
    BY <1>0, <1>k, <2>1, <2>6, <2>9 DEF DataInv, Posted, Landed
<1>5. CASE CpuOpenCount
  <2>1. /\ cpc = "count" /\ cpc' = "open" /\ UNCHANGED <<base, start, list, src, dst, acked, i>>
        /\ out'[2] = Lo(Count) /\ out'[3] = Hi(Count)
    BY <1>0, <1>5 DEF CpuOpenCount, CpuGoto, Count
  <2>2. Count' = Count
    BY <2>1 DEF Count
  <2> QED
    BY <1>k, <2>1, <2>2 DEF DataInv, Room, Counted, Posted, Aimed, Landed, spcVars
<1>6. CASE CpuOpenPost
  <2>1. /\ cpc = "open" /\ cpc' = "opening" /\ UNCHANGED <<base, start, list, src, dst, acked, i>>
        /\ out'[2] = out[2] /\ out'[3] = out[3]
    BY <1>0, <1>6 DEF CpuOpenPost, CpuGoto, Post
  <2>2. Count' = Count
    BY <2>1 DEF Count
  <2>3. spc = "blockStart" /\ dest = dst
    BY <2>1 DEF Phase, DataInv, Aimed
  <2> QED
    BY <1>k, <2>1, <2>2, <2>3 DEF DataInv, Room, Counted, Posted, Aimed, Landed, spcVars
<1>n. ASSUME cpc \in {"count", "open", "opening", "first", "second", "third", "post", "echo"}
      PROVE  kind = 3 /\ list # <<>> /\ Head(list).kind = 3
  BY <1>n DEF Phase
<1>7. CASE CpuOpening
  <2>1. /\ cpc = "opening" /\ cpc' = "first" /\ UNCHANGED <<base, start, list, src, dst, acked, out>>
        /\ i' = 0 /\ i = 0 /\ echo = out[0]
    BY <1>7 DEF CpuOpening, CpuGoto, DataInv, Counted
  <2>2. spc = "tripleLoop" /\ Streams
    BY <2>1 DEF Phase, Opening, DataInv, Aimed
  <2>3. Count' = Count /\ Index' = Index /\ Count \in Nat /\ Count >= 1
    <3>1. Count \in Nat /\ Count >= 1
      BY <1>a, <1>n, <2>1, BlockRoom
    <3> QED
      BY <1>k, <2>1, <3>1 DEF Count, Index, Ahead, spcVars
  <2>4. Streams'
    BY <1>k, <2>1, <2>2, <2>3, StreamsKept
  <2>5. Room'
    BY <1>a, <1>k, <2>1 DEF Room
  <2>6. Counted'
    <3>1. i' < Count'
      BY <2>1, <2>3
    <3> QED BY <2>1, <3>1 DEF Counted
  <2> QED
    BY <2>1, <2>4, <2>5, <2>6 DEF DataInv, Posted, Aimed, Landed
<1>s. ASSUME cpc \in {"first", "second", "third", "post", "echo"} PROVE Streams /\ Count \in Nat
  BY <1>s, <1>n, BlockRoom DEF DataInv, Aimed
<1>9. CASE CpuFirst
  <2>1. /\ cpc = "first" /\ cpc' = "second" /\ UNCHANGED <<base, start, list, src, dst, acked, i>>
        /\ out'[0] = out[0] /\ out'[1] = StreamByte(0)
    BY <1>0, <1>9 DEF CpuFirst, CpuGoto, Post
  <2>2. Count' = Count /\ Index' = Index
    BY <1>k, <2>1 DEF Count, Index, Ahead, spcVars
  <2>3. Streams'
    BY <1>k, <1>s, <2>1, <2>2, StreamsKept
  <2>4. StreamByte(0) = Wanted[dst + i]
    <3>1. StreamByte(0) = Wanted[dst + 0 * Count + i]
      BY <1>n, <2>1, StreamWanted DEF DataInv
    <3>2. dst + 0 * Count + i = dst + i
      BY <1>0, <1>s, <2>1
    <3> QED
      BY <3>1, <3>2
  <2> QED
    BY <1>k, <1>n, <2>1, <2>2, <2>3, <2>4 DEF DataInv, Room, Counted, Posted, Aimed, Landed, spcVars
<1>10. CASE CpuSecond
  <2>1. /\ cpc = "second" /\ cpc' = "third" /\ UNCHANGED <<base, start, list, src, dst, acked, i>>
        /\ out'[0] = out[0] /\ out'[1] = out[1] /\ out'[2] = StreamByte(1)
    BY <1>0, <1>10 DEF CpuSecond, CpuGoto, Post
  <2>2. Count' = Count /\ Index' = Index
    BY <1>k, <2>1 DEF Count, Index, Ahead, spcVars
  <2>3. Streams'
    BY <1>k, <1>s, <2>1, <2>2, StreamsKept
  <2>4. StreamByte(1) = Wanted[dst + Count + i]
    <3>1. StreamByte(1) = Wanted[dst + 1 * Count + i]
      BY <1>n, <2>1, StreamWanted DEF DataInv
    <3>2. dst + 1 * Count + i = dst + Count + i
      BY <1>0, <1>s, <2>1
    <3> QED
      BY <3>1, <3>2
  <2> QED
    BY <1>k, <1>n, <2>1, <2>2, <2>3, <2>4 DEF DataInv, Room, Counted, Posted, Aimed, Landed, spcVars
<1>11. CASE CpuThirdPort
  <2>1. /\ cpc = "third" /\ cpc' = "post" /\ UNCHANGED <<base, start, list, src, dst, acked, i>>
        /\ out'[0] = out[0] /\ out'[1] = out[1] /\ out'[2] = out[2] /\ out'[3] = StreamByte(2)
    BY <1>0, <1>11 DEF CpuThirdPort, CpuGoto, Post
  <2>2. Count' = Count /\ Index' = Index
    BY <1>k, <2>1 DEF Count, Index, Ahead, spcVars
  <2>3. Streams'
    BY <1>k, <1>s, <2>1, <2>2, StreamsKept
  <2>4. StreamByte(2) = Wanted[dst + 2 * Count + i]
    BY <1>n, <2>1, StreamWanted DEF DataInv
  <2> QED
    BY <1>k, <1>n, <2>1, <2>2, <2>3, <2>4 DEF DataInv, Room, Counted, Posted, Aimed, Landed, spcVars
<1>12. CASE CpuPost
  <2>1. /\ cpc = "post" /\ UNCHANGED <<base, start, list, src, dst, acked>> /\ i' = i + 1
        /\ cpc' = IF i + 1 = Count THEN "sent" ELSE "echo"
        /\ out'[0] = (i + 1) % W /\ out'[1] = out[1] /\ out'[2] = out[2] /\ out'[3] = out[3]
    BY <1>0, <1>12 DEF CpuPost, Post, Count
  <2>2. out'[0] = Inc(out[0]) /\ kind = 3
    <3>1. (i + 1) % W = Inc(i % W)
      BY <1>0, Widths, ModSucc, Zenon DEF Inc
    <3> QED
      BY <2>1, <3>1 DEF Phase
  <2>3. y = out[0] \/ y = Inc(out[0])
    BY <2>1 DEF Phase, Between
  <2>4. Inc(out[0]) # out[0] /\ Inc(Inc(out[0])) # out[0] /\ Inc(Inc(out[0])) # Inc(out[0])
    BY <1>0 DEF Inc, Byte
  <2>5. Count' = Count /\ Index' = Index
    BY <1>0, <1>k, <2>1, <2>2, <2>3, <2>4 DEF Count, Index, Ahead, spcVars
  <2>6. Streams'
    BY <1>k, <1>s, <2>1, <2>5, StreamsKept
  <2>7. i < Count /\ Count \in Nat
    BY <1>s, <2>1 DEF DataInv, Counted
  <2>8. /\ (dst + (i + 1)) - 1 = dst + i /\ (dst + Count + (i + 1)) - 1 = dst + Count + i
        /\ (dst + 2 * Count + (i + 1)) - 1 = dst + 2 * Count + i
    BY <1>0, <2>7
  <2>9. Posted'
    BY <1>0, <1>k, <2>1, <2>2, <2>5, <2>7, <2>8 DEF DataInv, Posted, spcVars
  <2>10. Counted'
    BY <1>0, <1>k, <2>1, <2>2, <2>5, <2>7 DEF Counted, spcVars
  <2> QED
    BY <1>k, <2>1, <2>2, <2>6, <2>9, <2>10 DEF DataInv, Room, Aimed, Landed, spcVars
<1>13. CASE CpuEcho
  <2>1. /\ cpc = "echo" /\ cpc' = "first" /\ UNCHANGED <<base, start, list, src, dst, acked, i, out>>
    BY <1>13 DEF CpuEcho, CpuGoto
  <2>2. Count' = Count /\ Index' = Index
    BY <1>k, <2>1 DEF Count, Index, Ahead, spcVars
  <2>3. Streams'
    BY <1>k, <1>s, <2>1, <2>2, StreamsKept
  <2> QED
    BY <1>k, <1>n, <1>s, <2>1, <2>2, <2>3 DEF DataInv, Room, Counted, Posted, Aimed, Landed, spcVars
<1>b. ASSUME cpc \in {"byte", "bytePost", "byteEcho"}
      PROVE  kind = 1 /\ list # <<>> /\ Bytes
  BY <1>b DEF Phase, DataInv, Aimed
<1>14. CASE CpuByte
  <2>1. /\ cpc = "byte" /\ cpc' = "bytePost" /\ UNCHANGED <<base, start, list, src, dst, acked, i>>
        /\ out'[0] = out[0] /\ out'[1] = Source[(src + i) % M]
    BY <1>0, <1>14 DEF CpuByte, CpuGoto, Post
  <2>2. Count' = Count /\ Index' = Index
    BY <1>k, <2>1 DEF Count, Index, Ahead, spcVars
  <2>3. Bytes'
    BY <1>k, <1>b, <2>1, <2>2, StreamsKept DEF Bytes
  <2>4. out'[1] = Wanted[dst + i]
    BY <2>1, BytesWanted DEF DataInv
  <2> QED
    BY <1>k, <1>b, <2>1, <2>2, <2>3, <2>4 DEF DataInv, Room, Counted, Posted, Aimed, Landed, spcVars
<1>15. CASE CpuBytePost
  <2>1. /\ cpc = "bytePost" /\ UNCHANGED <<base, start, list, src, dst, acked>> /\ i' = i + 1
        /\ cpc' = IF i + 1 = Head(list).len THEN "sent" ELSE "byteEcho"
        /\ out'[0] = i % W /\ out'[1] = out[1]
    BY <1>0, <1>15 DEF CpuBytePost, Post
  <2>2. \/ i = 0 /\ spc = "blockStart"
        \/ Inc(out[0]) = i % W /\ Between
    BY <2>1 DEF Phase
  <2>3. Inc(out[0]) # out[0] /\ Inc(Inc(out[0])) # out[0] /\ Inc(Inc(out[0])) # Inc(out[0])
    BY <1>0 DEF Inc, Byte
  <2>4. ASSUME Inc(out[0]) = i % W, Between PROVE Index' = Index /\ spc # "blockStart"
    <3>1. (y = out[0] \/ y = Inc(out[0])) /\ kind = 1 /\ spc # "blockStart"
      BY <1>b, <2>1, <2>4 DEF Between, Phase
    <3> QED
      BY <1>0, <1>k, <2>1, <2>3, <2>4, <3>1 DEF Index, Ahead, spcVars
  <2>5. Bytes'
    <3>1. CASE i = 0 /\ spc = "blockStart"
      BY <1>b, <1>k, <2>1, <3>1 DEF Bytes, spcVars
    <3>2. CASE Inc(out[0]) = i % W /\ Between
      BY <1>b, <1>k, <2>1, <2>4, <3>2, StreamsKept DEF Bytes
    <3> QED
      BY <2>2, <3>1, <3>2
  <2>6. i < Head(list).len /\ Head(list).len \in Nat /\ kind = 1
    BY <1>b, <2>1, BlockRoom DEF DataInv, Counted
  <2>7. (dst + (i + 1)) - 1 = dst + i
    BY <1>0
  <2>8. Posted' /\ Counted'
    BY <1>0, <1>k, <2>1, <2>6, <2>7 DEF DataInv, Posted, Counted, spcVars
  <2> QED
    BY <1>k, <2>1, <2>5, <2>6, <2>8 DEF DataInv, Room, Aimed, Landed, spcVars
<1>16. CASE CpuByteEcho
  <2>1. /\ cpc = "byteEcho" /\ cpc' = "byte" /\ UNCHANGED <<base, start, list, src, dst, acked, i, out>>
    BY <1>16 DEF CpuByteEcho, CpuGoto
  <2>2. Count' = Count /\ Index' = Index
    BY <1>k, <2>1 DEF Count, Index, Ahead, spcVars
  <2>3. Bytes'
    BY <1>k, <1>b, <2>1, <2>2, StreamsKept DEF Bytes
  <2>4. Head(list).len \in Nat
    BY <1>b, <2>1, BlockRoom DEF DataInv
  <2> QED
    BY <1>0, <1>k, <1>b, <2>1, <2>2, <2>3, <2>4 DEF DataInv, Room, Counted, Posted, Aimed, Landed, spcVars
<1>17. CASE CpuSent
  <2>1. /\ cpc = "sent" /\ cpc' = "header" /\ echo = out[0]
        /\ src' = src + Head(list).len /\ dst' = dst + Head(list).len /\ list' = Tail(list)
        /\ UNCHANGED <<base, start, acked, i, out>>
    BY <1>17 DEF CpuSent, CpuGoto
  <2>2. list # <<>> /\ kind = Head(list).kind
    BY <2>1 DEF Phase
  <2>3. /\ Head(list).len \in Nat \ {0} /\ Count \in Nat \ {0}
        /\ Head(list).len <= 3 * Count /\ 3 * Count <= Head(list).len + 2
        /\ Total(list) = Head(list).len + Total(Tail(list)) /\ Total(Tail(list)) \in Nat
        /\ dst + Head(list).len + 2 <= M /\ dst + 3 * Count <= M
    BY <2>2, BlockRoom DEF DataInv
  <2>4. acked = dst /\ kind \in {1, 3}
    BY <1>0, <2>1, <2>2, ListFacts DEF DataInv, Room
  <2>5. Room'
    <3>0. base \in Nat /\ src \in Nat /\ start \in Nat /\ base <= acked /\ src + base = start + dst
          /\ base' = base /\ start' = start
      BY <1>a, <1>k, <2>1 DEF Room, TypeOK
    <3>1. acked <= dst' /\ base' <= acked' /\ src' + base' = start' + dst'
      <4> DEFINE L == Head(list).len
      <4>1. L \in Nat /\ src' = src + L /\ dst' = dst + L /\ acked' = acked /\ acked = dst
        BY <2>1, <2>3, <2>4
      <4> HIDE DEF L
      <4> QED BY <1>0, <3>0, <4>1
    <3>2. dst' + Total(list') + Spill <= M
      <4>1. dst + Total(list) + Spill <= M
        BY <1>a DEF Room
      <4> QED
        BY <1>0, <2>1, <2>3, <4>1 DEF Spill
    <3>3. base' .. acked' - 1 \subseteq Filled'
      BY <1>a, <1>k, <2>1 DEF Room
    <3> QED
      BY <2>1, <3>1, <3>2, <3>3 DEF Room
  <2>6. y \in Nat
    BY <1>0 DEF Byte
  <2>7. /\ Late' \subseteq dst .. (dst + Head(list).len) + Spill - 1
        /\ dst .. (dst + Head(list).len) - 1 \subseteq Filled \cup Late'
        /\ spc = "storeThree" => a = Wanted[Landing(three)]
        /\ spc \in {"storeThree", "storeTwo"} => x = Wanted[Landing(two)]
        /\ spc = "byteStore" => a = Wanted[Landing(dest)]
    <3>1. CASE kind = 3
      <4>1. Streams /\ i = Count
        BY <2>1, <3>1 DEF DataInv, Aimed, Counted
      <4>2. \/ spc \in {"storeThree", "storeTwo"} /\ Index = Count
            \/ spc = "tripleLoop" /\ Index = Count + 1
        BY <1>0, <2>1, <3>1, <4>1, IncFacts DEF Phase, DataPosted, BytesOpening, Between, Index, Ahead
      <4>3. /\ dest = Pointer(0) /\ two = Pointer(1) /\ three = Pointer(2) /\ Index >= y
            /\ \A n \in 0 .. Index - 2 : {dst + n, dst + Count + n, dst + 2 * Count + n} \subseteq Filled
        BY <4>1 DEF Streams
      <4>4. CASE spc = "tripleLoop" /\ Index = Count + 1
        <5>1. Late' = {}
          BY <1>k, <2>1, <4>4 DEF Late
        <5>2. ASSUME NEW n \in dst .. (dst + Head(list).len) - 1 PROVE n \in Filled
          <6>1. \/ n - dst \in 0 .. Index - 2
                \/ n - dst - Count \in 0 .. Index - 2
                \/ n - dst - 2 * Count \in 0 .. Index - 2
            BY <1>0, <2>3, <4>4
          <6>2. /\ dst + (n - dst) = n /\ dst + Count + (n - dst - Count) = n
                /\ dst + 2 * Count + (n - dst - 2 * Count) = n
            BY <1>0, <2>3
          <6> QED
            BY <4>3, <6>1, <6>2
        <5> QED
          BY <4>4, <5>1, <5>2
      <4>5. CASE spc \in {"storeThree", "storeTwo"} /\ Index = Count
        <5>1. /\ Landing(two) = dst + Count + Index - 1
              /\ Landing(three) = dst + 2 * Count + Index - 1
          BY <2>2, <2>3, <4>1, <4>5, <1>a, LoopPlaces
        <5>2. dst + Index - 1 \in Filled /\ (spc = "storeTwo" => dst + 2 * Count + Index - 1 \in Filled)
          BY <4>1, <4>5 DEF Streams
        <5>3. ASSUME NEW n \in dst .. (dst + Head(list).len) - 1
              PROVE  n \in Filled \/ n = Landing(two) \/ (n = Landing(three) /\ spc = "storeThree")
          <6>1. \/ n - dst \in 0 .. Index - 2
                \/ n - dst - Count \in 0 .. Index - 2
                \/ n - dst - 2 * Count \in 0 .. Index - 2
                \/ n = dst + Index - 1 \/ n = dst + Count + Index - 1 \/ n = dst + 2 * Count + Index - 1
            BY <1>0, <2>3, <4>5
          <6>2. /\ dst + (n - dst) = n /\ dst + Count + (n - dst - Count) = n
                /\ dst + 2 * Count + (n - dst - 2 * Count) = n
            BY <1>0, <2>3
          <6> QED
            <7>1. CASE n = dst + Index - 1 \/ n = dst + Count + Index - 1 \/ n = dst + 2 * Count + Index - 1
              BY <4>5, <5>1, <5>2, <7>1
            <7>2. CASE n - dst \in 0 .. Index - 2
              <8>1. dst + (n - dst) \in Filled
                BY <4>3, <7>2
              <8> QED BY <6>2, <8>1
            <7>3. CASE n - dst - Count \in 0 .. Index - 2
              <8>1. dst + Count + (n - dst - Count) \in Filled
                BY <4>3, <7>3
              <8> QED BY <6>2, <8>1
            <7>4. CASE n - dst - 2 * Count \in 0 .. Index - 2
              <8>1. dst + 2 * Count + (n - dst - 2 * Count) \in Filled
                BY <4>3, <7>4
              <8> QED BY <6>2, <8>1
            <7> QED
              BY <6>1, <7>1, <7>2, <7>3, <7>4
        <5>4. /\ Late' = IF spc = "storeThree" THEN {Landing(two), Landing(three)} ELSE {Landing(two)}
          BY <1>k, <2>1, <4>5 DEF Late
        <5>5. Landing(two) \in dst .. dst + Head(list).len + 1 /\ Landing(three) \in dst .. dst + Head(list).len + 1
          BY <1>0, <2>3, <4>5, <5>1
        <5>6. /\ x = Wanted[Landing(two)]
              /\ spc = "storeThree" => a = Wanted[Landing(three)]
          BY <4>1, <4>5, <5>1 DEF Streams
        <5>7. dst + Head(list).len + Spill - 1 = dst + Head(list).len + 1
          BY <1>0, <2>3 DEF Spill
        <5> QED
          BY <4>5, <5>3, <5>4, <5>5, <5>6, <5>7
      <4> QED
        BY <4>2, <4>4, <4>5
    <3>2. CASE kind = 1
      <4>1. Bytes /\ i = Head(list).len
        BY <2>1, <3>2 DEF DataInv, Aimed, Counted
      <4>2. \/ spc = "byteStore" /\ Index = i - 1
            \/ spc \in {"byteLoop", "dispatch"} /\ Index = i
        BY <1>0, <2>1, <3>2, <4>1, IncFacts, SMTT(20) DEF Phase, DataPosted, BytesOpening, Between, Index, Ahead
      <4>3. /\ Index >= y /\ dest = (dst + (Index - y)) % M
            /\ \A n \in 0 .. Index - 1 : dst + n \in Filled
            /\ spc = "byteStore" => a = Wanted[dst + Index]
        BY <4>1, <4>2 DEF Bytes
      <4>4. ASSUME NEW n \in dst .. (dst + Head(list).len) - 1, n - dst < Index PROVE n \in Filled
        <5>1. n - dst \in 0 .. Index - 1 /\ dst + (n - dst) = n
          BY <1>0, <2>3, <4>1, <4>2, <4>4, SMTT(20)
        <5> QED
          BY <4>3, <5>1
      <4>5. CASE spc = "byteStore" /\ Index = i - 1
        <5>1. Index \in Nat /\ dst + Index < M
          <6>1. i \in Nat /\ i >= 1 /\ i + dst + 2 <= M
            BY <1>0, <2>3, <4>1, SMTT(20)
          <6> QED
            BY <1>0, <4>5, <6>1
        <5>2. Landing(dest) = dst + Index
          BY <1>0, <2>6, <4>3, <5>1, PlaceOf DEF Landing
        <5>3. Late' = {Landing(dest)}
          BY <1>k, <2>1, <4>5 DEF Late
        <5>4. ASSUME NEW n \in dst .. (dst + Head(list).len) - 1 PROVE n \in Filled \/ n = Landing(dest)
          <6>1. i \in Nat /\ i = Head(list).len /\ Index = i - 1
            BY <1>0, <4>1, <4>5
          <6>2. n \in dst .. (dst + i) - 1
            BY <6>1
          <6>3. dst \in Nat /\ Index \in Int /\ (dst + i) - 1 = dst + Index
            BY <1>0, <6>1
          <6>4. n \in dst .. dst + Index
            BY <6>2, <6>3
          <6>5. n - dst < Index \/ n = dst + Index
            BY <6>3, <6>4
          <6> QED
            BY <4>4, <5>2, <6>5
        <5>5. Landing(dest) \in dst .. dst + Head(list).len + Spill - 1
          <6>1. i \in Nat /\ i = Head(list).len /\ Index = i - 1 /\ i >= 1
            BY <1>0, <2>3, <4>1, <4>5
          <6> QED
            BY <1>0, <5>2, <6>1 DEF Spill
        <5> QED
          BY <4>3, <4>5, <5>2, <5>3, <5>4, <5>5
      <4>6. CASE spc \in {"byteLoop", "dispatch"} /\ Index = i
        <5>1. Late' = {}
          BY <1>k, <2>1, <4>6 DEF Late
        <5>2. ASSUME NEW n \in dst .. (dst + Head(list).len) - 1 PROVE n \in Filled
          BY <1>0, <2>3, <4>1, <4>4, <4>6, SMTT(20)
        <5> QED
          BY <4>6, <5>1, <5>2
      <4> QED
        BY <4>2, <4>5, <4>6
    <3> QED
      BY <2>4, <3>1, <3>2
  <2> QED
    <3>1. cpc # "idle" /\ spc' = spc /\ y' = y /\ x' = x /\ a' = a
      BY <1>k, <2>1 DEF spcVars
    <3>2. acked' = dst /\ dst' = dst + Head(list).len /\ Filled' = Filled
      BY <1>k, <2>1, <2>4
    <3>3. /\ spc' = "storeThree" => a' = Wanted'[Landing(three)']
          /\ spc' \in {"storeThree", "storeTwo"} => x' = Wanted'[Landing(two)']
          /\ spc' = "byteStore" => a' = Wanted'[Landing(dest)']
      BY <1>k, <2>7, <3>1
    <3>4. Landed'
      BY <2>7, <3>2, <3>3 DEF Landed
    <3> QED
      BY <2>1, <2>5, <3>4 DEF DataInv, Counted, Posted, Aimed
<1> QED
  BY <1>1, <1>2, <1>3, <1>4, <1>5, <1>6, <1>7, <1>9, <1>10, <1>11, <1>12,
     <1>13, <1>14, <1>15, <1>16, <1>17 DEF Cpu

-----------------------------------------------------------------------------
\* A step of the driver that keeps the block's kind, and puts nothing in memory
\* but what belongs there, leaves the part of the 65816 as it was.
LEMMA SpcKeeps ==
  ASSUME Room, Counted, Posted, UNCHANGED cpuVars, kind' = kind,
         Wanted' = Wanted, Filled \subseteq Filled'
  PROVE  Room' /\ Counted' /\ Posted' /\ Count' = Count
<1>1. Count' = Count
  BY DEF Count, cpuVars
<1>2. Room'
  BY DEF Room, cpuVars
<1>3. Counted'
  BY <1>1 DEF Counted, cpuVars
<1>4. Posted'
  BY <1>1 DEF Posted, cpuVars
<1> QED
  BY <1>1, <1>2, <1>3, <1>4

\* While the driver takes the bytes of a handshake, that handshake is the one
\* posted last.
LEMMA Taken ==
  ASSUME TypeOK, Phase, DataInv
  PROVE  /\ spc \in {"storeOne", "readTwo", "readThree", "tripleEcho"} =>
              /\ cpc \in {"echo", "sent"} /\ kind = 3 /\ list # <<>> /\ Streams
              /\ Index = i /\ i <= Count
              /\ out[1] = Wanted[dst + Index - 1]
              /\ out[2] = Wanted[dst + Count + Index - 1]
              /\ out[3] = Wanted[dst + 2 * Count + Index - 1]
         /\ spc \in {"byteRead", "byteEcho"} =>
              /\ cpc \in {"byteEcho", "sent"} /\ kind = 1 /\ list # <<>> /\ Bytes
              /\ Index = i - 1 /\ out[1] = Wanted[dst + Index]
<1>0. /\ Room /\ Counted /\ Posted /\ Aimed /\ i \in Nat /\ kind \in Byte /\ dst \in Nat
      /\ cpc \in CpuLabels
  BY DEF DataInv, TypeOK
<1>1. ASSUME spc \in {"storeOne", "readTwo", "readThree", "tripleEcho"}
      PROVE  /\ cpc \in {"echo", "sent"} /\ kind = 3 /\ list # <<>> /\ Streams
             /\ Index = i /\ i <= Count
             /\ out[1] = Wanted[dst + Index - 1]
             /\ out[2] = Wanted[dst + Count + Index - 1]
             /\ out[3] = Wanted[dst + 2 * Count + Index - 1]
  <2>1. cpc \in {"echo", "sent"} /\ kind = 3 /\ list # <<>> /\ y = out[0]
    BY <1>0, <1>1 DEF Phase, HeaderUnposted, HeaderPosted, Opening, DataPosted, BytesOpening,
       Between, TakingData, CpuLabels
  <2>2. Index = i
    BY <1>0, <2>1 DEF Index, Ahead
  <2>3. Count \in Nat /\ i <= Count
    BY <1>0, <2>1, BlockRoom DEF Counted
  <2>4. Streams
    BY <1>0, <2>1 DEF Aimed
  <2> QED
    BY <1>0, <2>1, <2>2, <2>3, <2>4 DEF Posted
<1>2. ASSUME spc \in {"byteRead", "byteEcho"}
      PROVE  /\ cpc \in {"byteEcho", "sent"} /\ kind = 1 /\ list # <<>> /\ Bytes
             /\ Index = i - 1 /\ out[1] = Wanted[dst + Index]
  <2>1. cpc \in {"byteEcho", "sent"} /\ kind = 1 /\ list # <<>> /\ y = out[0]
    BY <1>0, <1>2 DEF Phase, HeaderUnposted, HeaderPosted, Opening, DataPosted, BytesOpening,
       Between, TakingData, CpuLabels
  <2>2. Index = i - 1
    BY <1>0, <2>1 DEF Index, Ahead
  <2>3. Bytes
    BY <1>0, <2>1 DEF Aimed
  <2>4. out[1] = Wanted[dst + i - 1]
    BY <1>0, <2>1 DEF Posted
  <2>5. dst + i - 1 = dst + Index
    BY <1>0, <2>2
  <2> QED
    BY <2>1, <2>2, <2>3, <2>4, <2>5
<1> QED
  BY <1>1, <1>2

\* The stores that come after the echo belong to a handshake of the block the
\* 65816 is at, or to the last one of the block it has just left.
LEMMA Storing ==
  ASSUME TypeOK, Phase, DataInv
  PROVE  /\ spc \in {"storeThree", "storeTwo"} =>
              \/ cpc \in {"header", "headerPost", "headerWait"}
              \/ /\ cpc \in {"first", "second", "third", "post", "echo", "sent"} /\ kind = 3
                 /\ list # <<>> /\ Streams /\ Index <= Count
                 /\ y # out[0] => out[0] = Inc(y)
         /\ spc = "byteStore" =>
              \/ cpc \in {"header", "headerPost", "headerWait"}
              \/ /\ cpc \in {"byte", "bytePost", "byteEcho", "sent"} /\ kind = 1
                 /\ list # <<>> /\ Bytes /\ Index \in 0 .. Head(list).len - 1
                 /\ y # out[0] => out[0] = Inc(y)
<1>0. /\ Room /\ Counted /\ Posted /\ Aimed /\ i \in Nat /\ kind \in Byte /\ dst \in Nat
      /\ cpc \in CpuLabels /\ y \in Byte /\ echo \in Byte /\ out[0] \in Byte
  BY DEF DataInv, TypeOK
<1>1. ASSUME spc \in {"storeThree", "storeTwo"}, cpc \notin {"header", "headerPost", "headerWait"}
      PROVE  /\ cpc \in {"first", "second", "third", "post", "echo", "sent"} /\ kind = 3
             /\ list # <<>> /\ Streams /\ Index <= Count
             /\ y # out[0] => out[0] = Inc(y)
  <2>1. /\ cpc \in {"first", "second", "third", "post", "echo", "sent"} /\ kind = 3
        /\ list # <<>> /\ (y # out[0] => out[0] = Inc(y))
    BY <1>0, <1>1 DEF Phase, HeaderUnposted, HeaderPosted, Opening, DataPosted, BytesOpening,
       Between, TakingData, CpuLabels
  <2>2. Streams
    BY <1>0, <2>1 DEF Aimed
  <2>3. Count \in Nat /\ i <= Count
    BY <1>0, <2>1, BlockRoom DEF Counted
  <2>4. Inc(y) # y /\ Inc(Inc(y)) # y
    BY <1>0, Widths DEF Inc, Byte
  <2>5. Index <= i
    BY <1>0, <2>1, <2>4 DEF Index, Ahead
  <2>6. Index \in Int
    BY <1>0, <2>1 DEF Index, Ahead
  <2> QED
    BY <1>0, <2>1, <2>2, <2>3, <2>5, <2>6
<1>2. ASSUME spc = "byteStore", cpc \notin {"header", "headerPost", "headerWait"}
      PROVE  /\ cpc \in {"byte", "bytePost", "byteEcho", "sent"} /\ kind = 1
             /\ list # <<>> /\ Bytes /\ Index \in 0 .. Head(list).len - 1
             /\ y # out[0] => out[0] = Inc(y)
  <2>1. /\ cpc \in {"byte", "bytePost", "byteEcho", "sent"} /\ kind = 1
        /\ list # <<>> /\ (y # out[0] => out[0] = Inc(y))
    BY <1>0, <1>2 DEF Phase, HeaderUnposted, HeaderPosted, Opening, DataPosted, BytesOpening,
       Between, TakingData, CpuLabels
  <2>2. Bytes
    BY <1>0, <2>1 DEF Aimed
  <2>3. Head(list).len \in Nat /\ i <= Head(list).len
    BY <1>0, <2>1, BlockRoom, SMTT(20) DEF Counted
  <2>4. Inc(y) # y /\ Inc(Inc(y)) # y
    BY <1>0, Widths DEF Inc, Byte
  <2>5. Index <= i - 1 /\ Index \in Int
    BY <1>0, <2>1, <2>4 DEF Index, Ahead
  <2>6. Index >= y /\ y \in Nat
    BY <1>0, <1>2, <2>2 DEF Bytes, Byte
  <2> QED
    BY <1>0, <2>1, <2>2, <2>3, <2>5, <2>6
<1> QED
  BY <1>1, <1>2

\* Advancing the store index advances the handshake it stands for.
LEMMA IndexMoves ==
  ASSUME TypeOK, y # out[0] => out[0] = Inc(y), y' = NextIndex, UNCHANGED <<i, kind, out>>
  PROVE  Index' = Index + 1
<1>1. y \in Byte /\ out[0] \in Byte /\ i \in Nat
  BY DEF TypeOK
<1>2. y' = Inc(y)
  BY <1>1, IncFacts DEF NextIndex
<1>3. Inc(y) # y /\ Inc(Inc(y)) # y /\ Inc(Inc(y)) # Inc(y)
  BY <1>1, Widths DEF Inc, Byte
<1> QED
  BY <1>1, <1>2, <1>3 DEF Index, Ahead

\* Wherever the driver stores, it stores in sound memory.
LEMMA LandsInMemory ==
  ASSUME TypeOK
  PROVE  Landing(dest) \in Addr /\ Landing(two) \in Addr /\ Landing(three) \in Addr
<1>1. dest + y \in Nat /\ two + y \in Nat /\ three + y \in Nat
  BY Widths DEF TypeOK, Addr, Byte
<1>2. \A n \in Nat : n % M \in Addr
  BY HalfFacts
<1> QED
  BY <1>1, <1>2 DEF Landing

\* Every step of the driver keeps the data's invariant.
LEMMA SpcData == TypeOK /\ Phase /\ DataInv /\ Spc => DataInv'
<1> SUFFICES ASSUME TypeOK, Phase, DataInv, Spc PROVE DataInv'
  OBVIOUS
<1>0. /\ out \in [0 .. 3 -> Byte] /\ echo \in Byte /\ i \in Nat /\ list \in Seq(Block)
      /\ W \in Nat /\ W >= 8 /\ y \in Byte /\ kind \in Byte /\ dst \in Nat /\ acked \in Nat
      /\ base \in Nat /\ M \in Nat /\ M >= W /\ out[0] \in Byte /\ cpc \in CpuLabels /\ y \in Nat
  BY Widths DEF TypeOK, Byte
<1>a. TypeOK /\ Room /\ Counted /\ Posted /\ Aimed /\ Landed
  BY DEF DataInv
<1>p. /\ spc \in {"header", "headerKind", "headerEcho"} => cpc = "headerWait"
      /\ spc = "ready" => cpc \in {"idle", "header", "headerPost", "headerWait"}
      /\ spc \in {"setupTwo", "setupThree", "setupEcho"} =>
           cpc = "opening" /\ kind = 3 /\ list # <<>> /\ out[0] = 0
      /\ spc = "blockStart" /\ out[0] = 0 =>
           cpc = "opening" \/ (cpc \in {"byteEcho", "sent"} /\ kind = 1 /\ list # <<>>)
      /\ spc = "dispatch" =>
           \/ cpc = "opening" /\ kind = 3
           \/ cpc \in {"byte", "bytePost", "byteEcho", "sent", "header", "headerPost", "headerWait"} /\ kind = 1
      /\ spc = "byteLoop" =>
           cpc \in {"byte", "bytePost", "byteEcho", "sent", "header", "headerPost", "headerWait"} /\ kind = 1
      /\ spc = "tripleLoop" => kind = 3
  BY <1>0, BumpFacts DEF Phase, HeaderUnposted, HeaderPosted, Opening, DataPosted, BytesOpening,
     Between, TakingData, CpuLabels
<1>m. ASSUME UNCHANGED <<base, start, mem>> PROVE Wanted' = Wanted /\ Filled' = Filled
  BY <1>m, MemoryKept
<1>7. CASE SpcReady
  <2>1. /\ spc = "ready" /\ spc' = "header" /\ out[0] # echo
        /\ UNCHANGED <<echo, y, kind, dest, two, three, x, a, mem, cpuVars>>
    BY <1>7 DEF SpcReady, SpcGoto
  <2>2. Wanted' = Wanted /\ Filled' = Filled /\ cpc' = cpc /\ echo' = echo /\ out' = out
        /\ acked' = acked /\ dst' = dst
    BY <1>m, <2>1 DEF cpuVars
  <2>3. Room' /\ Counted' /\ Posted'
    BY <1>a, <2>1, <2>2, SpcKeeps
  <2>4. Late = {} /\ Late' = {}
    BY <2>1 DEF Late
  <2>5. Landed'
    BY <1>a, <2>1, <2>2, <2>4 DEF Landed
  <2>6. Aimed'
    BY <1>p, <2>1, <2>2 DEF Aimed
  <2> QED
    BY <2>3, <2>5, <2>6 DEF DataInv
<1>8. CASE SpcHeaderDest
  <2>1. /\ spc = "header" /\ spc' = "headerKind" /\ dest' = Word(out[2], out[3])
        /\ UNCHANGED <<echo, y, kind, two, three, x, a, mem, cpuVars>>
    BY <1>8 DEF SpcHeaderDest, SpcGoto
  <2>2. Wanted' = Wanted /\ Filled' = Filled /\ cpc' = cpc /\ cpc = "headerWait"
        /\ acked' = acked /\ dst' = dst
    BY <1>m, <1>p, <2>1 DEF cpuVars
  <2>3. Room' /\ Counted' /\ Posted'
    BY <1>a, <2>1, <2>2, SpcKeeps
  <2>4. Late = {} /\ Late' = {}
    BY <2>1 DEF Late
  <2>5. Landed'
    BY <1>a, <2>1, <2>2, <2>4 DEF Landed
  <2>6. dest' = dst
    <3>1. dst + Total(list) + 2 <= M /\ Total(list) \in Nat
      BY <1>0, <1>a, TotalFacts DEF Room, Spill
    <3>2. dst \in 0 .. M - 1
      BY <1>0, <3>1
    <3> QED
      BY <1>a, <2>1, <2>2, <3>2, WordOf DEF Posted
  <2>7. Aimed'
    BY <2>1, <2>2, <2>6 DEF Aimed
  <2> QED
    BY <2>3, <2>5, <2>7 DEF DataInv
<1>9. CASE SpcHeaderKind
  <2>1. /\ spc = "headerKind" /\ spc' = "headerEcho"
        /\ UNCHANGED <<echo, dest, two, three, x, a, mem, cpuVars>>
    BY <1>9 DEF SpcHeaderKind, SpcGoto
  <2>2. Wanted' = Wanted /\ Filled' = Filled /\ cpc' = cpc /\ cpc = "headerWait"
        /\ acked' = acked /\ dst' = dst
    BY <1>m, <1>p, <2>1 DEF cpuVars
  <2>3. Room' /\ Counted' /\ Posted'
    BY <1>a, <2>1, <2>2 DEF Room, Counted, Posted, cpuVars
  <2>4. Late = {} /\ Late' = {}
    BY <2>1 DEF Late
  <2>5. Landed'
    BY <1>a, <2>1, <2>2, <2>4 DEF Landed
  <2>6. Aimed'
    BY <1>a, <2>1, <2>2 DEF Aimed
  <2> QED
    BY <2>3, <2>5, <2>6 DEF DataInv
<1>10. CASE SpcHeaderEcho
  <2>1. /\ spc = "headerEcho" /\ spc' \in {"ready", "blockStart"}
        /\ UNCHANGED <<y, kind, dest, two, three, x, a, mem, cpuVars>>
    BY <1>10 DEF SpcHeaderEcho
  <2>2. Wanted' = Wanted /\ Filled' = Filled /\ cpc' = cpc /\ cpc = "headerWait"
        /\ acked' = acked /\ dst' = dst
    BY <1>m, <1>p, <2>1 DEF cpuVars
  <2>3. Room' /\ Counted' /\ Posted'
    BY <1>a, <2>1, <2>2, SpcKeeps
  <2>4. Late = {} /\ Late' = {}
    BY <2>1 DEF Late
  <2>5. Landed'
    BY <1>a, <2>1, <2>2, <2>4 DEF Landed
  <2>6. Aimed'
    BY <1>a, <2>1, <2>2 DEF Aimed
  <2> QED
    BY <2>3, <2>5, <2>6 DEF DataInv
<1>11. CASE SpcBlockStart
  <2>1. /\ spc = "blockStart" /\ spc' = "dispatch" /\ out[0] = 0 /\ y' = 0
        /\ UNCHANGED <<echo, kind, dest, two, three, x, a, mem, cpuVars>>
    BY <1>11 DEF SpcBlockStart, SpcGoto
  <2>2. Wanted' = Wanted /\ Filled' = Filled /\ cpc' = cpc /\ out' = out
        /\ i' = i /\ dst' = dst
    BY <1>m, <2>1 DEF cpuVars
  <2>3. Room' /\ Counted' /\ Posted'
    BY <1>a, <2>1, <2>2, SpcKeeps
  <2>4. cpc = "opening" \/ (cpc \in {"byteEcho", "sent"} /\ kind = 1 /\ list # <<>>)
    BY <1>p, <2>1
  <2>5. Landed'
    BY <2>2, <2>4 DEF Landed
  <2>6. CASE cpc = "opening"
    <3>1. Aimed'
      BY <1>a, <2>1, <2>2, <2>6 DEF Aimed
    <3> QED
      BY <2>3, <2>5, <3>1 DEF DataInv
  <2>7. CASE cpc \in {"byteEcho", "sent"} /\ kind = 1 /\ list # <<>>
    <3>1. dest = dst /\ i <= 1
      BY <1>a, <2>1, <2>7 DEF Aimed, Bytes
    <3>2. i >= 1
      BY <1>a, <2>7, BlockRoom DEF Counted
    <3>3. Index' = 0
      BY <1>0, <2>1, <2>2, <2>7, <3>1, <3>2 DEF Index, Ahead
    <3>4. (dst + (0 - 0)) % M = dst
      <4>1. dst \in 0 .. M - 1
        BY <1>0, <1>a, <2>7, BlockRoom
      <4>2. dst % M = dst
        BY <1>0, <4>1, ModSmall
      <4> QED
        BY <1>0, <4>2
    <3>5. Bytes'
      BY <2>1, <2>2, <3>1, <3>3, <3>4 DEF Bytes
    <3>6. Aimed'
      BY <2>1, <2>2, <2>7, <3>5 DEF Aimed
    <3> QED
      BY <2>3, <2>5, <3>6 DEF DataInv
  <2> QED
    BY <2>4, <2>6, <2>7
<1>12. CASE SpcDispatch
  <2>1. /\ spc = "dispatch" /\ spc' = IF kind = 3 THEN "setupTwo" ELSE "byteLoop"
        /\ UNCHANGED <<echo, y, kind, dest, two, three, x, a, mem, cpuVars>>
    BY <1>12 DEF SpcDispatch
  <2>2. Wanted' = Wanted /\ Filled' = Filled /\ cpc' = cpc /\ out' = out
        /\ i' = i /\ dst' = dst /\ acked' = acked /\ echo' = echo
    BY <1>m, <2>1 DEF cpuVars
  <2>3. Room' /\ Counted' /\ Posted'
    BY <1>a, <2>1, <2>2, SpcKeeps
  <2>4. Late = {} /\ Late' = {}
    BY <2>1 DEF Late
  <2>5. Landed'
    BY <1>a, <2>1, <2>2, <2>4 DEF Landed
  <2>6. Index' = Index
    BY <2>1, <2>2 DEF Index, Ahead
  <2>7. kind = 1 => (Bytes => Bytes')
    BY <2>1, <2>2, <2>6 DEF Bytes
  <2>8. Aimed'
    BY <1>a, <1>p, <2>1, <2>2, <2>7 DEF Aimed
  <2> QED
    BY <2>3, <2>5, <2>8 DEF DataInv
<1>13. CASE SpcByteLoop
  <2>1. /\ spc = "byteLoop" /\ spc' \in {"byteRead", "dispatch", "header"}
        /\ UNCHANGED <<echo, y, kind, dest, two, three, x, a, mem, cpuVars>>
    BY <1>13 DEF SpcByteLoop
  <2>2. Wanted' = Wanted /\ Filled' = Filled /\ cpc' = cpc /\ out' = out
        /\ i' = i /\ dst' = dst /\ acked' = acked /\ echo' = echo
    BY <1>m, <2>1 DEF cpuVars
  <2>3. Room' /\ Counted' /\ Posted'
    BY <1>a, <2>1, <2>2, SpcKeeps
  <2>4. Late = {} /\ Late' = {}
    BY <2>1 DEF Late
  <2>5. Landed'
    BY <1>a, <2>1, <2>2, <2>4 DEF Landed
  <2>6. Index' = Index
    BY <2>1, <2>2 DEF Index, Ahead
  <2>7. Bytes => Bytes'
    BY <2>1, <2>2, <2>6 DEF Bytes
  <2>8. Aimed'
    BY <1>a, <1>p, <2>1, <2>2, <2>7 DEF Aimed
  <2> QED
    BY <2>3, <2>5, <2>8 DEF DataInv
<1>14. CASE SpcByteRead
  <2>1. /\ spc = "byteRead" /\ spc' = "byteEcho" /\ a' = out[1]
        /\ UNCHANGED <<echo, y, kind, dest, two, three, x, mem, cpuVars>>
    BY <1>14 DEF SpcByteRead, SpcGoto
  <2>2. Wanted' = Wanted /\ Filled' = Filled /\ cpc' = cpc /\ out' = out
        /\ i' = i /\ dst' = dst
    BY <1>m, <2>1 DEF cpuVars
  <2>3. Room' /\ Counted' /\ Posted'
    BY <1>a, <2>1, <2>2, SpcKeeps
  <2>4. /\ cpc \in {"byteEcho", "sent"} /\ kind = 1 /\ Bytes /\ out[1] = Wanted[dst + Index]
    BY <2>1, Taken
  <2>5. Index' = Index
    BY <2>1, <2>2 DEF Index, Ahead
  <2>6. Bytes'
    BY <2>1, <2>2, <2>4, <2>5 DEF Bytes
  <2> QED
    BY <2>1, <2>2, <2>3, <2>4, <2>6 DEF DataInv, Aimed, Landed
<1>15. CASE SpcByteEcho
  <2>1. /\ spc = "byteEcho" /\ spc' = "byteStore"
        /\ UNCHANGED <<y, kind, dest, two, three, x, a, mem, cpuVars>>
    BY <1>15 DEF SpcByteEcho, SpcGoto
  <2>2. Wanted' = Wanted /\ Filled' = Filled /\ cpc' = cpc /\ out' = out
        /\ i' = i /\ dst' = dst
    BY <1>m, <2>1 DEF cpuVars
  <2>3. Room' /\ Counted' /\ Posted'
    BY <1>a, <2>1, <2>2, SpcKeeps
  <2>4. cpc \in {"byteEcho", "sent"} /\ kind = 1 /\ Bytes
    BY <2>1, Taken
  <2>5. Index' = Index
    BY <2>1, <2>2 DEF Index, Ahead
  <2>6. Bytes'
    BY <2>1, <2>2, <2>4, <2>5 DEF Bytes
  <2> QED
    BY <2>1, <2>2, <2>3, <2>4, <2>6 DEF DataInv, Aimed, Landed
<1>16. CASE SpcByteStore
  <2>1. /\ spc = "byteStore" /\ spc' = "byteLoop" /\ mem' = [mem EXCEPT ![Landing(dest)] = a]
        /\ y' = NextIndex /\ dest' = Carry(dest)
        /\ UNCHANGED <<echo, kind, two, three, x, a, cpuVars>>
    BY <1>16 DEF SpcByteStore, SpcGoto, Landing
  <2>2. /\ cpc' = cpc /\ out' = out /\ i' = i /\ dst' = dst /\ acked' = acked /\ echo' = echo
        /\ UNCHANGED <<base, start>>
    BY <2>1 DEF cpuVars
  <2>3. Landing(dest) \in Addr
    BY <1>a, LandsInMemory
  <2>4. CASE cpc \in {"header", "headerPost", "headerWait"}
    <3>1. Late = {Landing(dest)} /\ Late' = {}
      BY <2>1 DEF Late
    <3>2. a = Wanted[Landing(dest)] /\ acked .. dst - 1 \subseteq Filled \cup Late
      BY <1>a, <2>1, <2>4 DEF Landed
    <3>3. Wanted' = Wanted /\ Filled' = Filled \cup {Landing(dest)}
      BY <2>1, <2>2, <2>3, <3>2, StoreFills
    <3>4. Room' /\ Counted' /\ Posted'
      BY <1>a, <2>1, <3>3, SpcKeeps
    <3>5. Landed'
      BY <2>1, <2>2, <3>1, <3>2, <3>3 DEF Landed
    <3>6. cpc = "headerWait" => echo # out[0]
      BY <1>0, <2>1, BumpFacts DEF Phase, HeaderPosted
    <3>7. Aimed'
      BY <2>1, <2>2, <2>4, <3>6 DEF Aimed
    <3> QED
      BY <3>4, <3>5, <3>7 DEF DataInv
  <2>5. CASE cpc \notin {"header", "headerPost", "headerWait"}
    <3>1. /\ cpc \in {"byte", "bytePost", "byteEcho", "sent"} /\ kind = 1
          /\ list # <<>> /\ Bytes /\ Index \in 0 .. Head(list).len - 1
          /\ y # out[0] => out[0] = Inc(y)
      BY <2>1, <2>5, Storing
    <3>2. /\ Index >= y /\ dest = (dst + (Index - y)) % M
          /\ \A n \in 0 .. Index - 1 : dst + n \in Filled
          /\ a = Wanted[dst + Index]
      BY <2>1, <3>1 DEF Bytes
    <3>3. Index \in Nat /\ dst + Index < M
      BY <1>0, <1>a, <3>1, BlockRoom, SMTT(20)
    <3>4. Landing(dest) = dst + Index
      BY <1>0, <3>2, <3>3, PlaceOf DEF Landing
    <3>5. Wanted' = Wanted /\ Filled' = Filled \cup {dst + Index}
      BY <2>1, <2>2, <2>3, <3>2, <3>4, StoreFills
    <3>6. Room' /\ Counted' /\ Posted'
      BY <1>a, <2>1, <3>5, SpcKeeps
    <3>7. Index' = Index + 1
      BY <2>1, <2>2, <3>1, IndexMoves
    <3>8. dest' = (dst' + (Index' - y')) % M /\ Index' >= y'
      BY <1>0, <2>1, <2>2, <3>2, <3>3, <3>7, CarryKeeps
    <3>9. ASSUME NEW n \in 0 .. Index' - 1 PROVE dst' + n \in Filled'
      <4>1. n \in 0 .. Index - 1 \/ n = Index
        BY <3>3, <3>7
      <4> QED
        BY <2>2, <3>2, <3>5, <4>1
    <3>10. Bytes'
      BY <2>1, <3>8, <3>9 DEF Bytes
    <3> QED
      BY <2>1, <2>2, <2>5, <3>1, <3>6, <3>10 DEF DataInv, Aimed, Landed
  <2> QED
    BY <2>4, <2>5
<1>17. CASE SpcSetupTwo
  <2>1. /\ spc = "setupTwo" /\ spc' = "setupThree" /\ dest' = (dest + M - 1) % M
        /\ two' = (Word(out[2], out[3]) + dest') % M
        /\ UNCHANGED <<echo, y, kind, three, x, a, mem, cpuVars>>
    BY <1>17 DEF SpcSetupTwo, SpcGoto
  <2>2. /\ Wanted' = Wanted /\ Filled' = Filled /\ cpc' = cpc /\ cpc = "opening" /\ dst' = dst
        /\ kind = 3 /\ list # <<>>
    BY <1>m, <1>p, <2>1 DEF cpuVars
  <2>3. Room' /\ Counted' /\ Posted' /\ Count' = Count
    BY <1>a, <2>1, <2>2, SpcKeeps
  <2>4. Word(out[2], out[3]) = Count
    <3>1. Count \in 0 .. M - 1
      BY <1>0, <1>a, <2>2, BlockRoom
    <3> QED
      BY <1>a, <2>2, <3>1, WordOf DEF Posted
  <2>5. dest = dst
    BY <1>a, <2>1, <2>2 DEF Aimed
  <2> QED
    BY <2>1, <2>2, <2>3, <2>4, <2>5 DEF DataInv, Aimed, Landed
<1>18. CASE SpcSetupThree
  <2>1. /\ spc = "setupThree" /\ spc' = "setupEcho" /\ three' = (Word(out[2], out[3]) + two) % M
        /\ UNCHANGED <<echo, y, kind, dest, two, x, a, mem, cpuVars>>
    BY <1>18 DEF SpcSetupThree, SpcGoto
  <2>2. /\ Wanted' = Wanted /\ Filled' = Filled /\ cpc' = cpc /\ cpc = "opening" /\ dst' = dst
        /\ kind = 3 /\ list # <<>>
    BY <1>m, <1>p, <2>1 DEF cpuVars
  <2>3. Room' /\ Counted' /\ Posted' /\ Count' = Count
    BY <1>a, <2>1, <2>2, SpcKeeps
  <2>4. Word(out[2], out[3]) = Count
    <3>1. Count \in 0 .. M - 1
      BY <1>0, <1>a, <2>2, BlockRoom
    <3> QED
      BY <1>a, <2>2, <3>1, WordOf DEF Posted
  <2>5. dest = (dst + M - 1) % M /\ two = (Count + dest) % M
    BY <1>a, <2>1, <2>2 DEF Aimed
  <2> QED
    BY <2>1, <2>2, <2>3, <2>4, <2>5 DEF DataInv, Aimed, Landed
<1>19. CASE SpcSetupEcho
  <2>1. /\ spc = "setupEcho" /\ spc' = "tripleLoop" /\ y' = 1
        /\ UNCHANGED <<kind, dest, two, three, x, a, mem, cpuVars>>
    BY <1>19 DEF SpcSetupEcho, SpcGoto
  <2>2. /\ Wanted' = Wanted /\ Filled' = Filled /\ cpc' = cpc /\ cpc = "opening" /\ dst' = dst
        /\ kind = 3 /\ list # <<>> /\ out[0] = 0 /\ out' = out /\ i' = i
    BY <1>m, <1>p, <2>1 DEF cpuVars
  <2>3. Room' /\ Counted' /\ Posted' /\ Count' = Count
    BY <1>a, <2>1, <2>2, SpcKeeps
  <2>4. i = 0 /\ dest = (dst + M - 1) % M /\ two = (Count + dest) % M /\ three = (Count + two) % M
    BY <1>a, <2>1, <2>2 DEF Aimed, Counted
  <2>5. Inc(0) = 1
    BY <1>0 DEF Inc
  <2>6. Index' = 1
    BY <2>1, <2>2, <2>4, <2>5 DEF Index, Ahead
  <2>7. Count \in Nat /\ M \in Nat \ {0}
    BY <1>0, <1>a, <2>2, BlockRoom
  <2>8. /\ Pointer(0)' = (dst + (M - 1)) % M
        /\ Pointer(1)' = ((dst + (M - 1)) + Count) % M
        /\ Pointer(2)' = ((dst + (M - 1)) + 2 * Count) % M
    <3>1. /\ dst + 0 * Count + M - 1 + (1 - 1) = dst + (M - 1)
          /\ dst + 1 * Count + M - 1 + (1 - 1) = (dst + (M - 1)) + Count
          /\ dst + 2 * Count + M - 1 + (1 - 1) = (dst + (M - 1)) + 2 * Count
      BY <1>0, <2>7
    <3> QED
      BY <2>1, <2>2, <2>3, <2>6, <3>1 DEF Pointer
  <2>9. dest' = Pointer(0)' /\ two' = Pointer(1)' /\ three' = Pointer(2)'
    <3> DEFINE p == dst + (M - 1)
    <3>1. p \in Nat /\ p + Count \in Nat /\ (p + Count) + Count = p + 2 * Count
      BY <1>0, <2>7
    <3>2. dest = p % M
      BY <2>4
    <3> HIDE DEF p
    <3>3. Count + dest = (p % M) + Count
      BY <1>0, <2>7, <3>1, <3>2
    <3>4. two = (p + Count) % M
      BY <2>4, <2>7, <3>1, <3>3, ModAdd, ZenonT(30)
    <3>5. Count + two = ((p + Count) % M) + Count
      BY <1>0, <2>7, <3>1, <3>4
    <3>6. three = ((p + Count) + Count) % M
      BY <2>4, <2>7, <3>1, <3>5, ModAdd, ZenonT(30)
    <3> QED
      BY <2>1, <2>8, <3>1, <3>2, <3>4, <3>6 DEF p
  <2>10. Streams'
    BY <2>1, <2>6, <2>9 DEF Streams
  <2> QED
    BY <2>1, <2>2, <2>3, <2>10 DEF DataInv, Aimed, Landed
<1>20. CASE SpcTripleLoop
  <2>1. /\ spc = "tripleLoop" /\ spc' \in {"storeOne", "header"}
        /\ UNCHANGED <<echo, y, kind, dest, two, three, x, a, mem, cpuVars>>
    BY <1>20 DEF SpcTripleLoop
  <2>2. Wanted' = Wanted /\ Filled' = Filled /\ cpc' = cpc /\ out' = out
        /\ i' = i /\ dst' = dst /\ acked' = acked /\ echo' = echo
    BY <1>m, <2>1 DEF cpuVars
  <2>3. Room' /\ Counted' /\ Posted' /\ Count' = Count
    BY <1>a, <2>1, <2>2, SpcKeeps
  <2>4. Late = {} /\ Late' = {}
    BY <2>1 DEF Late
  <2>5. Landed'
    BY <1>a, <2>1, <2>2, <2>4 DEF Landed
  <2>6. Index' = Index
    BY <2>1, <2>2 DEF Index, Ahead
  <2>7. Pointer(0)' = Pointer(0) /\ Pointer(1)' = Pointer(1) /\ Pointer(2)' = Pointer(2)
    BY <2>1, <2>2, <2>3, <2>6 DEF Pointer
  <2>8. Streams => Streams'
    BY <2>1, <2>2, <2>3, <2>6, <2>7 DEF Streams
  <2>9. Aimed'
    BY <1>a, <1>p, <2>1, <2>2, <2>8 DEF Aimed
  <2> QED
    BY <2>3, <2>5, <2>9 DEF DataInv
<1>t. ASSUME spc \in {"storeOne", "readTwo", "readThree", "tripleEcho"}
      PROVE  /\ cpc \in {"echo", "sent"} /\ kind = 3 /\ list # <<>> /\ Streams
             /\ Index = i /\ Index \in Nat /\ Index <= Count /\ Count \in Nat
             /\ dst + Index - 1 \in Nat
             /\ out[1] = Wanted[dst + Index - 1]
             /\ out[2] = Wanted[dst + Count + Index - 1]
             /\ out[3] = Wanted[dst + 2 * Count + Index - 1]
             /\ Landing(dest) = dst + Index - 1
  <2>1. /\ cpc \in {"echo", "sent"} /\ kind = 3 /\ list # <<>> /\ Streams
        /\ Index = i /\ i <= Count
        /\ out[1] = Wanted[dst + Index - 1]
        /\ out[2] = Wanted[dst + Count + Index - 1]
        /\ out[3] = Wanted[dst + 2 * Count + Index - 1]
    BY <1>t, Taken
  <2>2. Count \in Nat /\ Index >= 1
    BY <1>a, <2>1, BlockRoom DEF Streams
  <2>3. Landing(dest) = dst + Index - 1
    BY <1>a, <2>1, <2>2, LoopPlaces
  <2> QED
    BY <1>0, <2>1, <2>2, <2>3
<1>21. CASE SpcStoreOne
  <2>1. /\ spc = "storeOne" /\ spc' = "readTwo" /\ mem' = [mem EXCEPT ![Landing(dest)] = out[1]]
        /\ UNCHANGED <<echo, y, kind, dest, two, three, x, a, cpuVars>>
    BY <1>21 DEF SpcStoreOne, SpcGoto, Landing
  <2>2. cpc' = cpc /\ out' = out /\ i' = i /\ dst' = dst /\ UNCHANGED <<base, start>>
    BY <2>1 DEF cpuVars
  <2>3. Landing(dest) \in Addr
    BY <1>a, LandsInMemory
  <2>4. Wanted' = Wanted /\ Filled' = Filled \cup {dst + Index - 1}
    BY <1>t, <2>1, <2>2, <2>3, StoreFills
  <2>5. Room' /\ Counted' /\ Posted' /\ Count' = Count
    BY <1>a, <2>1, <2>4, SpcKeeps
  <2>6. Index' = Index
    BY <2>1, <2>2 DEF Index, Ahead
  <2>7. Pointer(0)' = Pointer(0) /\ Pointer(1)' = Pointer(1) /\ Pointer(2)' = Pointer(2)
    BY <2>1, <2>2, <2>5, <2>6 DEF Pointer
  <2>8. Streams'
    BY <1>t, <2>1, <2>2, <2>4, <2>5, <2>6, <2>7 DEF Streams
  <2> QED
    BY <1>t, <2>1, <2>2, <2>5, <2>8 DEF DataInv, Aimed, Landed
<1>22. CASE SpcReadTwo
  <2>1. /\ spc = "readTwo" /\ spc' = "readThree" /\ x' = out[2]
        /\ UNCHANGED <<echo, y, kind, dest, two, three, a, mem, cpuVars>>
    BY <1>22 DEF SpcReadTwo, SpcGoto
  <2>2. cpc' = cpc /\ out' = out /\ i' = i /\ dst' = dst /\ Wanted' = Wanted /\ Filled' = Filled
    BY <1>m, <2>1 DEF cpuVars
  <2>5. Room' /\ Counted' /\ Posted' /\ Count' = Count
    BY <1>a, <2>1, <2>2, SpcKeeps
  <2>6. Index' = Index
    BY <2>1, <2>2 DEF Index, Ahead
  <2>7. Pointer(0)' = Pointer(0) /\ Pointer(1)' = Pointer(1) /\ Pointer(2)' = Pointer(2)
    BY <2>1, <2>2, <2>5, <2>6 DEF Pointer
  <2>8. Streams'
    BY <1>t, <2>1, <2>2, <2>5, <2>6, <2>7 DEF Streams
  <2> QED
    BY <1>t, <2>1, <2>2, <2>5, <2>8 DEF DataInv, Aimed, Landed
<1>23. CASE SpcReadThree
  <2>1. /\ spc = "readThree" /\ spc' = "tripleEcho" /\ a' = out[3]
        /\ UNCHANGED <<echo, y, kind, dest, two, three, x, mem, cpuVars>>
    BY <1>23 DEF SpcReadThree, SpcGoto
  <2>2. cpc' = cpc /\ out' = out /\ i' = i /\ dst' = dst /\ Wanted' = Wanted /\ Filled' = Filled
    BY <1>m, <2>1 DEF cpuVars
  <2>5. Room' /\ Counted' /\ Posted' /\ Count' = Count
    BY <1>a, <2>1, <2>2, SpcKeeps
  <2>6. Index' = Index
    BY <2>1, <2>2 DEF Index, Ahead
  <2>7. Pointer(0)' = Pointer(0) /\ Pointer(1)' = Pointer(1) /\ Pointer(2)' = Pointer(2)
    BY <2>1, <2>2, <2>5, <2>6 DEF Pointer
  <2>8. Streams'
    BY <1>t, <2>1, <2>2, <2>5, <2>6, <2>7 DEF Streams
  <2> QED
    BY <1>t, <2>1, <2>2, <2>5, <2>8 DEF DataInv, Aimed, Landed
<1>24. CASE SpcTripleEcho
  <2>1. /\ spc = "tripleEcho" /\ spc' = "storeThree"
        /\ UNCHANGED <<y, kind, dest, two, three, x, a, mem, cpuVars>>
    BY <1>24 DEF SpcTripleEcho, SpcGoto
  <2>2. cpc' = cpc /\ out' = out /\ i' = i /\ dst' = dst /\ Wanted' = Wanted /\ Filled' = Filled
    BY <1>m, <2>1 DEF cpuVars
  <2>5. Room' /\ Counted' /\ Posted' /\ Count' = Count
    BY <1>a, <2>1, <2>2, SpcKeeps
  <2>6. Index' = Index
    BY <2>1, <2>2 DEF Index, Ahead
  <2>7. Pointer(0)' = Pointer(0) /\ Pointer(1)' = Pointer(1) /\ Pointer(2)' = Pointer(2)
    BY <2>1, <2>2, <2>5, <2>6 DEF Pointer
  <2>8. Streams'
    BY <1>t, <2>1, <2>2, <2>5, <2>6, <2>7 DEF Streams
  <2> QED
    BY <1>t, <2>1, <2>2, <2>5, <2>8 DEF DataInv, Aimed, Landed
<1>w. ASSUME spc \in {"storeThree", "storeTwo"}, cpc \in {"header", "headerPost", "headerWait"}
      PROVE  cpc = "headerWait" => echo # out[0]
  BY <1>0, <1>w, BumpFacts DEF Phase, HeaderPosted
<1>u. ASSUME spc \in {"storeThree", "storeTwo"}, cpc \notin {"header", "headerPost", "headerWait"}
      PROVE  /\ cpc \in {"first", "second", "third", "post", "echo", "sent"} /\ kind = 3
             /\ list # <<>> /\ Streams /\ Index <= Count /\ Index \in Nat /\ Count \in Nat
             /\ y # out[0] => out[0] = Inc(y)
             /\ Landing(two) = dst + Count + Index - 1
             /\ Landing(three) = dst + 2 * Count + Index - 1
  <2>1. /\ cpc \in {"first", "second", "third", "post", "echo", "sent"} /\ kind = 3
        /\ list # <<>> /\ Streams /\ Index <= Count
        /\ y # out[0] => out[0] = Inc(y)
    BY <1>u, Storing
  <2>2. Count \in Nat /\ Index >= 1
    BY <1>a, <2>1, BlockRoom DEF Streams
  <2>3. Index \in Nat
    BY <1>0, <2>2 DEF Index, Ahead
  <2> QED
    BY <1>a, <2>1, <2>2, <2>3, LoopPlaces
<1>25. CASE SpcStoreThree
  <2>1. /\ spc = "storeThree" /\ spc' = "storeTwo" /\ mem' = [mem EXCEPT ![Landing(three)] = a]
        /\ UNCHANGED <<echo, y, kind, dest, two, three, x, a, cpuVars>>
    BY <1>25 DEF SpcStoreThree, SpcGoto, Landing
  <2>2. /\ cpc' = cpc /\ out' = out /\ i' = i /\ dst' = dst /\ acked' = acked /\ echo' = echo
        /\ UNCHANGED <<base, start>> /\ Landing(two)' = Landing(two)
    BY <2>1 DEF cpuVars, Landing
  <2>3. Landing(three) \in Addr
    BY <1>a, LandsInMemory
  <2>4. CASE cpc \in {"header", "headerPost", "headerWait"}
    <3>1. Late = {Landing(three), Landing(two)} /\ Late' = {Landing(two)}
      BY <2>1, <2>2 DEF Late
    <3>2. /\ a = Wanted[Landing(three)] /\ x = Wanted[Landing(two)]
          /\ acked .. dst - 1 \subseteq Filled \cup Late /\ Late \subseteq acked .. dst + Spill - 1
      BY <1>a, <2>1, <2>4 DEF Landed
    <3>3. Wanted' = Wanted /\ Filled' = Filled \cup {Landing(three)}
      BY <2>1, <2>2, <2>3, <3>2, StoreFills
    <3>4. Room' /\ Counted' /\ Posted'
      BY <1>a, <2>1, <3>3, SpcKeeps
    <3>5. Landed'
      BY <2>1, <2>2, <3>1, <3>2, <3>3 DEF Landed
    <3>7. Aimed'
      BY <1>w, <2>1, <2>2, <2>4 DEF Aimed
    <3> QED
      BY <3>4, <3>5, <3>7 DEF DataInv
  <2>5. CASE cpc \notin {"header", "headerPost", "headerWait"}
    <3>1. a = Wanted[dst + 2 * Count + Index - 1]
      BY <1>u, <2>1, <2>5 DEF Streams
    <3>2. Wanted' = Wanted /\ Filled' = Filled \cup {dst + 2 * Count + Index - 1}
      BY <1>u, <2>1, <2>2, <2>3, <2>5, <3>1, StoreFills
    <3>3. Room' /\ Counted' /\ Posted' /\ Count' = Count
      BY <1>a, <2>1, <3>2, SpcKeeps
    <3>4. Index' = Index
      BY <2>1, <2>2 DEF Index, Ahead
    <3>5. Pointer(0)' = Pointer(0) /\ Pointer(1)' = Pointer(1) /\ Pointer(2)' = Pointer(2)
      BY <2>1, <2>2, <3>3, <3>4 DEF Pointer
    <3>6. Streams'
      BY <1>u, <2>1, <2>2, <2>5, <3>2, <3>3, <3>4, <3>5 DEF Streams
    <3> QED
      BY <1>u, <2>1, <2>2, <2>5, <3>3, <3>6 DEF DataInv, Aimed, Landed
  <2> QED
    BY <2>4, <2>5
<1>26. CASE SpcStoreTwo
  <2>1. /\ spc = "storeTwo" /\ spc' = "tripleLoop" /\ mem' = [mem EXCEPT ![Landing(two)] = x]
        /\ y' = NextIndex /\ dest' = Carry(dest) /\ two' = Carry(two) /\ three' = Carry(three)
        /\ UNCHANGED <<echo, kind, x, a, cpuVars>>
    BY <1>26 DEF SpcStoreTwo, SpcGoto, Landing
  <2>2. /\ cpc' = cpc /\ out' = out /\ i' = i /\ dst' = dst /\ acked' = acked /\ echo' = echo
        /\ UNCHANGED <<base, start>>
    BY <2>1 DEF cpuVars
  <2>3. Landing(two) \in Addr
    BY <1>a, LandsInMemory
  <2>4. CASE cpc \in {"header", "headerPost", "headerWait"}
    <3>1. Late = {Landing(two)} /\ Late' = {}
      BY <2>1 DEF Late
    <3>2. x = Wanted[Landing(two)] /\ acked .. dst - 1 \subseteq Filled \cup Late
      BY <1>a, <2>1, <2>4 DEF Landed
    <3>3. Wanted' = Wanted /\ Filled' = Filled \cup {Landing(two)}
      BY <2>1, <2>2, <2>3, <3>2, StoreFills
    <3>4. Room' /\ Counted' /\ Posted'
      BY <1>a, <2>1, <3>3, SpcKeeps
    <3>5. Landed'
      BY <2>1, <2>2, <3>1, <3>2, <3>3 DEF Landed
    <3>7. Aimed'
      BY <1>w, <2>1, <2>2, <2>4 DEF Aimed
    <3> QED
      BY <3>4, <3>5, <3>7 DEF DataInv
  <2>5. CASE cpc \notin {"header", "headerPost", "headerWait"}
    <3>1. /\ x = Wanted[dst + Count + Index - 1] /\ Index >= 1 /\ Index >= y
          /\ dest = Pointer(0) /\ two = Pointer(1) /\ three = Pointer(2)
          /\ dst + Index - 1 \in Filled /\ dst + 2 * Count + Index - 1 \in Filled
          /\ \A n \in 0 .. Index - 2 : {dst + n, dst + Count + n, dst + 2 * Count + n} \subseteq Filled
      BY <1>u, <2>1, <2>5 DEF Streams
    <3>2. Wanted' = Wanted /\ Filled' = Filled \cup {dst + Count + Index - 1}
      BY <1>u, <2>1, <2>2, <2>3, <2>5, <3>1, StoreFills
    <3>3. Room' /\ Counted' /\ Posted' /\ Count' = Count
      BY <1>a, <2>1, <3>2, SpcKeeps
    <3>4. Index' = Index + 1
      BY <1>u, <2>1, <2>2, <2>5, IndexMoves
    <3>5. ASSUME NEW k \in {0, 1, 2} PROVE Carry(Pointer(k)) = Pointer(k)' /\ Index' >= y'
      <4> DEFINE q == dst + k * Count + M - 1
      <4>1. q \in Nat /\ Index \in Nat
        <5>1. Index \in Nat /\ Count \in Nat /\ k * Count \in Nat
          BY <1>u, <2>1, <2>5
        <5>2. dst + k * Count \in Nat /\ M - 1 \in Nat
          BY <1>0, <5>1
        <5> QED
          BY <5>1, <5>2
      <4>2. Pointer(k) = (q + (Index - y)) % M
        BY DEF Pointer
      <4>3. Pointer(k)' = (q + (Index' - y')) % M
        BY <2>2, <3>3 DEF Pointer
      <4> HIDE DEF q
      <4> QED
        BY <1>0, <2>1, <3>1, <3>4, <4>1, <4>2, <4>3, CarryKeeps
    <3>6. ASSUME NEW n \in 0 .. Index' - 2
          PROVE  {dst' + n, dst' + Count' + n, dst' + 2 * Count' + n} \subseteq Filled'
      <4>1. n \in 0 .. Index - 2 \/ n = Index - 1
        BY <1>u, <2>1, <2>5, <3>1, <3>4
      <4>2. CASE n \in 0 .. Index - 2
        BY <2>2, <3>1, <3>2, <3>3, <4>2
      <4>3. CASE n = Index - 1
        BY <2>2, <3>1, <3>2, <3>3, <4>3
      <4> QED
        BY <4>1, <4>2, <4>3
    <3>7. Index' >= 1
      BY <1>u, <2>1, <2>5, <3>4
    <3>8. dest' = Pointer(0)' /\ two' = Pointer(1)' /\ three' = Pointer(2)' /\ Index' >= y'
      BY <2>1, <3>1, <3>5
    <3>9. Streams'
      BY <2>1, <3>6, <3>7, <3>8 DEF Streams
    <3> QED
      BY <1>u, <2>1, <2>2, <2>5, <3>3, <3>9 DEF DataInv, Aimed, Landed
  <2> QED
    BY <2>4, <2>5
<1> QED
  BY <1>7, <1>8, <1>9, <1>10, <1>11, <1>12, <1>13, <1>14, <1>15, <1>16,
     <1>17, <1>18, <1>19, <1>20, <1>21, <1>22, <1>23, <1>24, <1>25, <1>26
  DEF Spc

-----------------------------------------------------------------------------
\* The division's inductive invariant.
ThirdInv == ThirdTypeOK /\ NoOvershoot /\ Quotient

\* A quarter, four times over, is no more than the whole.
LEMMA QuarterFacts ==
  ASSUME NEW n \in Nat
  PROVE  n \div 4 \in Nat /\ 4 * (n \div 4) <= n
  OBVIOUS

\* A step of the division keeps the running quotient below the value's third.
LEMMA ThirdStep == ThirdInv /\ [ThirdNext]_thirdVars => ThirdInv'
<1> USE WordAssumption DEF Words
<1>1. ThirdInv /\ [ThirdNext]_thirdVars => ThirdInv'
  <2> SUFFICES ASSUME ThirdInv, [ThirdNext]_thirdVars PROVE ThirdInv'
    OBVIOUS
  <2> DEFINE q == ra \div 4
  <2>0. ra \in Nat /\ q \in Nat /\ 4 * q <= ra
    BY QuarterFacts DEF ThirdInv, ThirdTypeOK
  <2> HIDE DEF q
  <2>1. CASE Entry
    <3>1. ra' = q /\ quotient' = q /\ value' = ra /\ rx' = Terms /\ tpc' = "term"
      BY <2>1 DEF Entry, q
    <3> QED
      BY <2>0, <3>1 DEF ThirdInv, ThirdTypeOK, NoOvershoot, Quotient
  <2>2. CASE Term
    <3>1. /\ tpc = "term" /\ ra' = q /\ quotient' = (quotient + q) % R /\ value' = value
          /\ rx' = rx - 1 /\ tpc' = IF rx = 1 THEN "correct" ELSE "term"
      BY <2>2 DEF Term, q
    <3>2. 3 * (quotient + q) + q <= value
      BY <2>0, <3>1 DEF ThirdInv, ThirdTypeOK, NoOvershoot
    <3>3. quotient + q \in 0 .. R - 1
      BY <2>0, <3>2 DEF ThirdInv, ThirdTypeOK
    <3>4. quotient' = quotient + q
      BY <3>1, <3>3, ModSmall
    <3> QED
      BY <2>0, <3>1, <3>2, <3>3, <3>4 DEF ThirdInv, ThirdTypeOK, NoOvershoot, Quotient
  <2>3. ASSUME tpc = "correct" PROVE Remainder = value - 3 * quotient
    <3>1. value - 3 * quotient \in 0 .. R - 1
      BY <2>3 DEF ThirdInv, ThirdTypeOK, NoOvershoot
    <3> QED
      BY <3>1, ModSmall DEF Remainder
  <2>4. CASE Correct
    <3>1. 3 * (quotient + 1) <= value
      BY <2>3, <2>4 DEF Correct, TooSmall, ThirdInv, ThirdTypeOK
    <3>2. quotient + 1 \in 0 .. R - 1
      BY <3>1 DEF ThirdInv, ThirdTypeOK
    <3>3. quotient' = quotient + 1 /\ ra' = quotient'
      BY <2>4, <3>2, ModSmall DEF Correct
    <3> QED
      BY <2>4, <3>1, <3>2, <3>3 DEF Correct, ThirdInv, ThirdTypeOK, NoOvershoot, Quotient
  <2>5. CASE Exact
    BY <2>3, <2>5 DEF Exact, TooSmall, ThirdInv, ThirdTypeOK, NoOvershoot, Quotient
  <2>7. ASSUME NEW v \in Words, Call(v) PROVE ThirdInv'
    BY <2>7 DEF Call, ThirdInv, ThirdTypeOK, NoOvershoot, Quotient
  <2>8. CASE Return
    BY <2>8 DEF Return, ThirdInv, ThirdTypeOK, NoOvershoot, Quotient
  <2>6. CASE UNCHANGED thirdVars
    BY <2>6 DEF thirdVars, ThirdInv, ThirdTypeOK, NoOvershoot, Quotient
  <2> QED
    BY <2>1, <2>2, <2>4, <2>5, <2>6, <2>7, <2>8 DEF ThirdNext, Divide
<1> QED
  BY <1>1

\* The division by three is exact: what is returned is the quotient, nothing
\* wraps on the way, and the types hold.
THEOREM DivisionIsExact == ThirdSpec => []ThirdInv
<1>1. ThirdInit => ThirdInv
  BY WordAssumption DEF ThirdInit, ThirdInv, ThirdTypeOK, NoOvershoot, Quotient, Words
<1> QED
  BY <1>1, ThirdStep, PTL DEF ThirdSpec

\* The routine answers the exact quotient of whatever word it is given.
THEOREM QuotientCorrect == ThirdSpec => []Quotient
<1>1. ThirdInv => Quotient
  BY DEF ThirdInv
<1> QED
  BY <1>1, DivisionIsExact, PTL

-----------------------------------------------------------------------------
(* What the data's invariant gives. *)

\* A step that changes nothing keeps the data's invariant.
LEMMA StutterData == DataInv /\ UNCHANGED vars => DataInv'
<1> SUFFICES ASSUME DataInv, UNCHANGED vars PROVE DataInv'
  OBVIOUS
<1>1. /\ UNCHANGED <<cpc, base, start, list, src, dst, acked, i, out>>
      /\ UNCHANGED <<spc, echo, y, kind, dest, two, three, x, a, mem>>
  BY DEF vars
<1>2. UNCHANGED <<Wanted, Filled, Index, Late, Count>>
  BY <1>1, MemoryKept DEF Index, Ahead, Late, Landing, Count
<1>3. Streams' = Streams /\ Bytes' = Bytes
  BY <1>1, <1>2, StreamsKept DEF spcVars, Bytes
<1>4. Room' /\ Counted' /\ Posted'
  BY <1>1, <1>2 DEF DataInv, Room, Counted, Posted
<1>5. Aimed'
  BY <1>1, <1>2, <1>3 DEF DataInv, Aimed
<1>6. Landed'
  BY <1>1, <1>2 DEF DataInv, Landed, Landing
<1> QED
  BY <1>4, <1>5, <1>6 DEF DataInv

\* What is in memory and in the latches, and where the driver stores, fits the
\* 65816's place in the session, always.
THEOREM DataInvariant == Spec => [](TypeOK /\ Phase /\ DataInv)
<1>1. Init => DataInv
  <2> SUFFICES ASSUME Init PROVE DataInv
    OBVIOUS
  <2>1. /\ cpc = "idle" /\ base = 0 /\ start = 0 /\ list = <<>> /\ src = 0 /\ dst = 0
        /\ acked = 0
    BY DEF Init
  <2>2. Total(list) = 0
    <3>1. list \in Seq(Block)
      BY <2>1
    <3> QED
      BY <2>1, <3>1, TotalFacts
  <2>3. Room
    BY <2>1, <2>2, Widths DEF Room, Spill
  <2>4. Counted /\ Posted /\ Aimed /\ Landed
    BY <2>1 DEF Counted, Posted, Aimed, Landed
  <2> QED
    BY <2>3, <2>4 DEF DataInv
<1>2. TypeOK /\ Phase /\ DataInv /\ [Next]_vars => DataInv'
  BY CpuData, SpcData, StutterData DEF Next
<1> QED
  BY <1>1, <1>2, PhaseInvariant, PTL DEF Spec

\* Once a header handshake has confirmed a block, every byte of it is in sound
\* memory, whatever is sent afterwards.
THEOREM BytesArrive == Spec => []AckedIntact
<1>1. TypeOK /\ Phase /\ DataInv => AckedIntact
  <2> SUFFICES ASSUME TypeOK, DataInv, NEW j \in 0 .. acked - base - 1
               PROVE  mem[(base + j) % M] = Source[(start + j) % M]
    BY DEF AckedIntact
  <2>1. base \in Nat /\ start \in Nat /\ acked \in Nat /\ base .. acked - 1 \subseteq Filled
    BY DEF TypeOK, DataInv, Room
  <2>2. base + j \in base .. acked - 1 /\ base + j \in Nat
    BY <2>1
  <2>3. base + j \in Addr /\ mem[base + j] = Wanted[base + j]
    BY <2>1, <2>2 DEF Filled
  <2>4. start + (base + j) - base = start + j
    BY <2>1
  <2>5. Wanted[base + j] = Source[(start + j) % M]
    BY <2>2, <2>4 DEF Wanted
  <2>6. (base + j) % M = base + j
    BY <2>3, ModSmall, Widths DEF Addr
  <2> QED
    BY <2>3, <2>5, <2>6
<1> QED
  BY <1>1, DataInvariant, PTL

-----------------------------------------------------------------------------
(* The block copy *)

\* A store of what belongs there, ahead of what is delivered and within the
\* spill, is a store of the block copy.
LEMMA CopyStores ==
  ASSUME TypeOK, Room, UNCHANGED <<base, start, dst, list, acked>>,
         NEW n \in Int, n >= acked, n <= dst + Total(list) + 1,
         mem' = [mem EXCEPT ![n] = Wanted[n]]
  PROVE  Copy!Next
<1>1. acked \in Nat /\ dst \in Nat /\ dst + Total(list) + 2 <= M /\ M \in Nat \ {0}
  BY Widths DEF TypeOK, Room, Spill
<1>2. Total(list) \in Nat
  BY TotalFacts DEF TypeOK
<1>3. n \in Nat /\ n \in 0 .. M - 1
  BY <1>1, <1>2
<1>4. n % M = n
  BY <1>1, <1>3, ModSmall
<1>5. Wanted[n] = Copy!Wanted(n)
  BY <1>3 DEF Wanted, Copy!Wanted
<1>6. Copy!Store(n)
  BY <1>4, <1>5 DEF Copy!Store
<1>7. n \in acked .. (dst + Total(list)) + Copy!Spill - 1
  BY <1>1, <1>2, <1>3 DEF Copy!Spill
<1> QED
  BY <1>6, <1>7 DEF Copy!Next

\* A step of the 65816 opens a session, confirms a prefix, or shows nothing.
LEMMA CpuCopies == TypeOK /\ Phase /\ DataInv /\ Cpu => [Copy!Next]_(Copy!vars)
<1> SUFFICES ASSUME TypeOK, Phase, DataInv, Cpu PROVE [Copy!Next]_(Copy!vars)
  OBVIOUS
<1>a. /\ Room /\ Landed /\ list \in Seq(Block) /\ dst \in Nat /\ acked \in Nat /\ base \in Nat
      /\ start \in Nat /\ echo \in Byte /\ Total(list) \in Nat
  BY TotalFacts DEF TypeOK, DataInv
<1>1. ASSUME NEW s \in Sessions, OpenSession(s) PROVE Copy!Next
  <2> DEFINE u == [base |-> s.base, start |-> s.start, total |-> Total(s.list)]
  <2>1. /\ cpc = "idle" /\ base' = s.base /\ dst' = s.base /\ acked' = s.base
        /\ start' = s.start /\ list' = s.list /\ mem' = mem
    BY <1>1 DEF OpenSession, CpuGoto, spcVars
  <2>2. list = <<>> /\ acked = dst
    BY <1>a, <2>1 DEF Phase, Room
  <2>3. acked = dst + Total(list)
    <3>1. Total(list) = 0
      BY <1>a, <2>2, TotalFacts
    <3> QED
      BY <1>a, <2>2, <3>1
  <2>4. Copy!Open(u)
    BY <2>1, <2>3 DEF Copy!Open
  <2>5. u \in {[base |-> t.base, start |-> t.start, total |-> Total(t.list)] : t \in Sessions}
    OBVIOUS
  <2> QED
    BY <2>4, <2>5 DEF Copy!Next
<1>2. CASE CpuHeaderAck
  <2>1. /\ cpc = "headerWait" /\ echo = out[0] /\ acked' = dst
        /\ UNCHANGED <<base, start, list, dst, mem>>
    BY <1>2 DEF CpuHeaderAck, spcVars
  <2>2. spc \in {"ready", "blockStart"}
    BY <1>a, <2>1, BumpFacts DEF Phase, HeaderPosted
  <2>3. Late = {}
    BY <2>2 DEF Late
  <2>4. acked .. dst - 1 \subseteq Filled
    BY <1>a, <2>1, <2>3 DEF Landed
  <2>5. ASSUME NEW k \in acked .. dst - 1 PROVE mem[k % M] = Copy!Wanted(k)
    <3>1. k \in Nat /\ k \in Addr /\ mem[k] = Wanted[k]
      BY <1>a, <2>4 DEF Filled
    <3>2. k % M = k
      BY <3>1, ModSmall, Widths DEF Addr
    <3> QED
      BY <3>1, <3>2 DEF Wanted, Copy!Wanted
  <2>6. Copy!Deliver(dst)
    BY <2>1, <2>5 DEF Copy!Deliver
  <2>7. dst \in acked .. dst + Total(list)
    BY <1>a DEF Room
  <2> QED
    BY <2>6, <2>7 DEF Copy!Next
<1>3. CASE CpuSent
  <2>1. /\ dst' = dst + Head(list).len /\ list' = Tail(list) /\ cpc = "sent"
        /\ UNCHANGED <<base, start, acked, mem>>
    BY <1>3 DEF CpuSent, CpuGoto, spcVars
  <2>2. list # <<>>
    BY <2>1 DEF Phase
  <2>3. /\ Head(list).len \in Nat /\ Total(list) = Head(list).len + Total(Tail(list))
        /\ Total(Tail(list)) \in Nat
    BY <1>a, <2>2, BlockRoom
  <2>4. (dst + Total(list))' = dst + Total(list)
    BY <1>a, <2>1, <2>3
  <2> QED
    BY <2>1, <2>4 DEF Copy!vars
<1>4. ASSUME ~ \E s \in Sessions : OpenSession(s), ~CpuHeaderAck, ~CpuSent
      PROVE  UNCHANGED <<base, start, list, dst, acked, mem>>
  BY <1>4 DEF Cpu, CpuHeaderData, CpuHeaderPost, CpuOpenCount, CpuOpenPost, CpuOpening, CpuFirst,
     CpuSecond, CpuThirdPort, CpuPost, CpuEcho, CpuByte, CpuBytePost, CpuByteEcho, spcVars
<1> QED
  BY <1>1, <1>2, <1>3, <1>4 DEF Copy!vars

\* A step of the driver stores one byte where the copy may, or shows nothing.
LEMMA SpcCopies == TypeOK /\ Phase /\ DataInv /\ Spc => [Copy!Next]_(Copy!vars)
<1> SUFFICES ASSUME TypeOK, Phase, DataInv, Spc PROVE [Copy!Next]_(Copy!vars)
  OBVIOUS
<1>a. /\ TypeOK /\ Room /\ Landed /\ list \in Seq(Block) /\ dst \in Nat /\ acked \in Nat
      /\ y \in Nat /\ Total(list) \in Nat
  BY TotalFacts DEF TypeOK, DataInv, Byte
<1>b. UNCHANGED <<base, start, dst, list, acked>>
  BY DEF Spc, cpuVars, SpcReady, SpcHeaderDest, SpcHeaderKind, SpcHeaderEcho, SpcBlockStart,
     SpcDispatch, SpcByteLoop, SpcByteRead, SpcByteEcho, SpcByteStore, SpcSetupTwo,
     SpcSetupThree, SpcSetupEcho, SpcTripleLoop, SpcStoreOne, SpcReadTwo, SpcReadThree,
     SpcTripleEcho, SpcStoreThree, SpcStoreTwo
<1>l. /\ Landing(dest) \in Addr /\ Landing(two) \in Addr /\ Landing(three) \in Addr
      /\ Addr \subseteq Int
  BY LandsInMemory DEF Addr
<1>c. ASSUME cpc \in {"header", "headerPost", "headerWait"}, NEW n \in Late,
             n \in Int, mem' = [mem EXCEPT ![n] = Wanted[n]]
      PROVE  Copy!Next
  <2>1. n >= acked /\ n <= dst + 1
    BY <1>a, <1>c DEF Landed, Spill
  <2>2. n <= dst + Total(list) + 1
    BY <1>a, <1>c, <2>1
  <2> QED
    BY <1>a, <1>b, <1>c, <2>1, <2>2, CopyStores
<1>d. ASSUME list # <<>>, Streams, Index <= Count, NEW k \in {0, 1, 2}, acked = dst,
             mem' = [mem EXCEPT ![dst + k * Count + Index - 1] = Wanted[dst + k * Count + Index - 1]]
      PROVE  Copy!Next
  <2> DEFINE n == dst + k * Count + Index - 1
  <2>1. /\ Count \in Nat /\ 3 * Count <= Head(list).len + 2 /\ Head(list).len <= Total(list)
        /\ Head(list).len \in Nat
    BY <1>a, <1>d, BlockRoom
  <2>2. Index \in Int /\ Index >= 1
    BY <1>d DEF Streams, Index, Ahead, TypeOK
  <2>3. k * Count \in Nat /\ k * Count <= 2 * Count
    BY <2>1
  <2>4. n \in Int /\ n >= acked /\ n <= dst + Total(list) + 1
    BY <1>a, <1>d, <2>1, <2>2, <2>3
  <2>5. mem' = [mem EXCEPT ![n] = Wanted[n]]
    BY <1>d
  <2> HIDE DEF n
  <2> QED
    BY <1>a, <1>b, <2>4, <2>5, CopyStores
<1>1. CASE SpcStoreOne
  <2>1. spc = "storeOne" /\ mem' = [mem EXCEPT ![Landing(dest)] = out[1]]
    BY <1>1 DEF SpcStoreOne, SpcGoto, Landing
  <2>2. /\ cpc \in {"echo", "sent"} /\ list # <<>> /\ Streams /\ Index = i /\ i <= Count
        /\ out[1] = Wanted[dst + Index - 1]
    BY <2>1, Taken
  <2>3. acked = dst
    BY <1>a, <2>2 DEF Room
  <2>4. Landing(dest) = dst + Index - 1
    BY <1>a, <2>2, LoopPlaces
  <2>5. dst + 0 * Count + Index - 1 = dst + Index - 1
    <3>1. Count \in Nat /\ Index \in Int
      BY <1>a, <2>2, BlockRoom DEF TypeOK
    <3> QED
      BY <1>a, <3>1
  <2>6. mem' = [mem EXCEPT ![dst + 0 * Count + Index - 1] = Wanted[dst + 0 * Count + Index - 1]]
    BY <2>1, <2>2, <2>4, <2>5
  <2>7. Index <= Count
    BY <2>2
  <2> QED
    BY <1>d, <2>2, <2>3, <2>6, <2>7
<1>2. CASE SpcStoreThree
  <2>1. spc = "storeThree" /\ mem' = [mem EXCEPT ![Landing(three)] = a]
    BY <1>2 DEF SpcStoreThree, SpcGoto, Landing
  <2>2. CASE cpc \in {"header", "headerPost", "headerWait"}
    <3>1. Landing(three) \in Late /\ a = Wanted[Landing(three)]
      BY <1>a, <2>1, <2>2 DEF Landed, Late
    <3> QED
      BY <1>c, <1>l, <2>1, <2>2, <3>1
  <2>3. CASE cpc \notin {"header", "headerPost", "headerWait"}
    <3>1. list # <<>> /\ Streams /\ Index <= Count /\ acked = dst
      BY <1>a, <2>1, <2>3, Storing DEF Room
    <3>2. Landing(three) = dst + 2 * Count + Index - 1
      BY <1>a, <3>1, LoopPlaces
    <3>3. a = Wanted[dst + 2 * Count + Index - 1]
      BY <2>1, <3>1 DEF Streams
    <3> QED
      BY <1>d, <2>1, <3>1, <3>2, <3>3
  <2> QED
    BY <2>2, <2>3
<1>3. CASE SpcStoreTwo
  <2>1. spc = "storeTwo" /\ mem' = [mem EXCEPT ![Landing(two)] = x]
    BY <1>3 DEF SpcStoreTwo, SpcGoto, Landing
  <2>2. CASE cpc \in {"header", "headerPost", "headerWait"}
    <3>1. Landing(two) \in Late /\ x = Wanted[Landing(two)]
      BY <1>a, <2>1, <2>2 DEF Landed, Late
    <3> QED
      BY <1>c, <1>l, <2>1, <2>2, <3>1
  <2>3. CASE cpc \notin {"header", "headerPost", "headerWait"}
    <3>1. list # <<>> /\ Streams /\ Index <= Count /\ acked = dst
      BY <1>a, <2>1, <2>3, Storing DEF Room
    <3>2. Landing(two) = dst + Count + Index - 1
      BY <1>a, <3>1, LoopPlaces
    <3>3. x = Wanted[dst + Count + Index - 1]
      BY <2>1, <3>1 DEF Streams
    <3>4. 1 * Count = Count
      BY <1>a, <3>1, BlockRoom
    <3>5. mem' = [mem EXCEPT ![dst + 1 * Count + Index - 1] = Wanted[dst + 1 * Count + Index - 1]]
      BY <2>1, <3>2, <3>3, <3>4
    <3> QED
      BY <1>d, <3>1, <3>5
  <2> QED
    BY <2>2, <2>3
<1>4. CASE SpcByteStore
  <2>1. spc = "byteStore" /\ mem' = [mem EXCEPT ![Landing(dest)] = a]
    BY <1>4 DEF SpcByteStore, SpcGoto, Landing
  <2>2. CASE cpc \in {"header", "headerPost", "headerWait"}
    <3>1. Landing(dest) \in Late /\ a = Wanted[Landing(dest)]
      BY <1>a, <2>1, <2>2 DEF Landed, Late
    <3> QED
      BY <1>c, <1>l, <2>1, <2>2, <3>1
  <2>3. CASE cpc \notin {"header", "headerPost", "headerWait"}
    <3>1. list # <<>> /\ Bytes /\ Index \in 0 .. Head(list).len - 1 /\ acked = dst
      BY <1>a, <2>1, <2>3, Storing DEF Room
    <3>2. /\ Head(list).len \in Nat /\ Head(list).len <= Total(list)
          /\ dst + Head(list).len + 2 <= M /\ M \in Nat
      BY <1>a, <3>1, BlockRoom
    <3>3. Index >= y /\ dest = (dst + (Index - y)) % M /\ a = Wanted[dst + Index]
      BY <2>1, <3>1 DEF Bytes
    <3>4. Landing(dest) = dst + Index
      <4>1. Index \in Nat /\ dst + Index < M
        BY <1>a, <3>1, <3>2
      <4> QED
        BY <1>a, <3>3, <4>1, PlaceOf DEF Landing
    <3>5. dst + Index \in Int /\ dst + Index >= acked /\ dst + Index <= dst + Total(list) + 1
      BY <1>a, <3>1, <3>2
    <3> QED
      BY <1>a, <1>b, <2>1, <3>3, <3>4, <3>5, CopyStores
  <2> QED
    BY <2>2, <2>3
<1>5. ASSUME ~SpcStoreOne, ~SpcStoreTwo, ~SpcStoreThree, ~SpcByteStore
      PROVE  mem' = mem
  BY <1>5 DEF Spc, SpcReady, SpcHeaderDest, SpcHeaderKind, SpcHeaderEcho, SpcBlockStart,
     SpcDispatch, SpcByteLoop, SpcByteRead, SpcByteEcho, SpcSetupTwo,
     SpcSetupThree, SpcSetupEcho, SpcTripleLoop, SpcReadTwo, SpcReadThree, SpcTripleEcho
<1> QED
  BY <1>b, <1>1, <1>2, <1>3, <1>4, <1>5 DEF Copy!vars

\* The two processors together do what the block copy promises.
THEOREM CopyImplemented == Spec => ImplementsCopy
<1>1. Init => Copy!Init
  <2> SUFFICES ASSUME Init PROVE Copy!Init
    OBVIOUS
  <2>1. /\ base = 0 /\ start = 0 /\ list = <<>> /\ dst = 0 /\ acked = 0
        /\ mem = [n \in 0 .. M - 1 |-> 0] /\ list \in Seq(Block)
    BY DEF Init, Addr
  <2>2. Total(list) = 0
    BY <2>1, TotalFacts
  <2> QED
    BY <2>1, <2>2 DEF Copy!Init
<1>2. TypeOK /\ Phase /\ DataInv /\ [Next]_vars => [Copy!Next]_(Copy!vars)
  <2>1. UNCHANGED vars => UNCHANGED Copy!vars
    BY DEF vars, Copy!vars
  <2> QED
    BY <2>1, CpuCopies, SpcCopies DEF Next
<1> QED
  BY <1>1, <1>2, DataInvariant, PTL DEF Spec, ImplementsCopy, Copy!Spec

-----------------------------------------------------------------------------
(* The upload with its division *)

\* Every block still to send rounds up within a word.
Rounded == \A k \in 1 .. Len(list) : list[k].len + 2 < R

\* While the division runs the 65816 is at its call, and what is divided is the
\* block's length rounded up.
Dividing ==
  /\ tpc # "idle" => cpc = "count"
  /\ tpc = "entry" => ra = Head(list).len + 2
  /\ tpc \in {"term", "correct", "done"} => value = Head(list).len + 2

\* The composition runs the upload.
THEOREM UploadRuns == UploadSpec => Spec
<1>1. UploadInit => Init
  BY DEF UploadInit
<1>2. [UploadNext]_allVars => [Next]_vars
  BY DEF UploadNext, CpuUpload, CallThird, Next, Cpu, allVars
<1> QED
  BY <1>1, <1>2, PTL DEF UploadSpec, Spec

\* A step of the composition keeps the division's invariant and divides the
\* right number.
LEMMA UploadStep ==
  TypeOK /\ Phase /\ ThirdInv /\ Rounded /\ Dividing /\ [UploadNext]_allVars
    => (ThirdInv /\ Rounded /\ Dividing)'
<1> SUFFICES ASSUME TypeOK, Phase, ThirdInv, Rounded, Dividing, [UploadNext]_allVars
             PROVE  (ThirdInv /\ Rounded /\ Dividing)'
  OBVIOUS
<1>a. list \in Seq(Block) /\ R \in Nat /\ (cpc = "count" => list # <<>>)
  BY WordAssumption DEF TypeOK, Phase
<1>1. CASE CallThird
  <2>1. cpc = "count" /\ UNCHANGED vars /\ Call((Head(list).len + 2) % R)
    BY <1>1 DEF CallThird
  <2>2. Head(list).len \in Nat /\ Head(list).len + 2 < R
    <3>1. Head(list) = list[1] /\ 1 \in 1 .. Len(list)
      BY <1>a, <2>1
    <3> QED
      BY <1>a, <2>1, <3>1, ListFacts DEF Rounded
  <2>3. (Head(list).len + 2) % R = Head(list).len + 2 /\ Head(list).len + 2 \in Words
    <3>1. Head(list).len + 2 \in 0 .. R - 1
      BY <1>a, <2>2
    <3> QED
      BY <3>1, ModSmall, WordAssumption DEF Words
  <2>4. ThirdInv'
    BY <2>1, <2>3, ThirdStep DEF ThirdNext
  <2>5. Rounded' /\ Dividing'
    BY <2>1, <2>3 DEF Call, vars, Rounded, Dividing
  <2> QED
    BY <2>4, <2>5
<1>2. CASE Divide /\ UNCHANGED vars
  <2>1. ThirdInv'
    BY <1>2, ThirdStep DEF ThirdNext
  <2>2. Rounded' /\ Dividing'
    BY <1>2 DEF Divide, Entry, Term, Correct, Exact, vars, Rounded, Dividing
  <2> QED
    BY <2>1, <2>2
<1>3. CASE Return /\ CpuOpenCount
  <2>1. ThirdInv'
    BY <1>3, ThirdStep DEF ThirdNext
  <2>2. Rounded' /\ Dividing'
    BY <1>3 DEF Return, CpuOpenCount, Rounded, Dividing
  <2> QED
    BY <2>1, <2>2
<1>4. CASE cpc # "count" /\ Cpu /\ UNCHANGED thirdVars
  <2>1. ThirdInv'
    BY <1>4, ThirdStep
  <2>2. Dividing'
    BY <1>4 DEF Dividing, thirdVars
  <2>3. Rounded'
    <3>1. ASSUME NEW s \in Sessions, OpenSession(s) PROVE Rounded'
      BY <3>1, RoundAssumption DEF OpenSession, Rounded
    <3>2. CASE CpuSent
      <4>1. list' = Tail(list) /\ list # <<>>
        BY <3>2 DEF CpuSent, CpuGoto, Phase
      <4>2. /\ Len(Tail(list)) = Len(list) - 1 /\ Len(list) \in Nat
            /\ \A k \in 1 .. Len(Tail(list)) : Tail(list)[k] = list[k + 1]
        BY <1>a, <4>1
      <4> QED
        BY <4>1, <4>2 DEF Rounded
    <3>3. ASSUME ~ \E s \in Sessions : OpenSession(s), ~CpuSent
          PROVE  list' = list
      BY <1>4, <3>3 DEF Cpu, CpuHeaderData, CpuHeaderPost, CpuHeaderAck, CpuOpenCount,
         CpuOpenPost, CpuOpening, CpuFirst, CpuSecond, CpuThirdPort, CpuPost, CpuEcho, CpuByte,
         CpuBytePost, CpuByteEcho
    <3> QED
      BY <3>1, <3>2, <3>3 DEF Rounded
  <2> QED
    BY <2>1, <2>2, <2>3
<1>5. CASE Spc /\ UNCHANGED thirdVars
  <2>1. ThirdInv'
    BY <1>5, ThirdStep
  <2>2. UNCHANGED cpuVars
    BY <1>5 DEF Spc, cpuVars, SpcReady, SpcHeaderDest, SpcHeaderKind, SpcHeaderEcho, SpcBlockStart,
       SpcDispatch, SpcByteLoop, SpcByteRead, SpcByteEcho, SpcByteStore, SpcSetupTwo,
       SpcSetupThree, SpcSetupEcho, SpcTripleLoop, SpcStoreOne, SpcReadTwo, SpcReadThree,
       SpcTripleEcho, SpcStoreThree, SpcStoreTwo
  <2>3. Rounded' /\ Dividing'
    BY <1>5, <2>2 DEF cpuVars, thirdVars, Rounded, Dividing
  <2> QED
    BY <2>1, <2>3
<1>6. CASE UNCHANGED allVars
  <2>1. UNCHANGED <<vars, thirdVars>>
    BY <1>6 DEF allVars
  <2>2. ThirdInv'
    BY <2>1, ThirdStep
  <2>3. Rounded' /\ Dividing'
    BY <2>1 DEF vars, thirdVars, Rounded, Dividing
  <2> QED
    BY <2>2, <2>3
<1> QED
  BY <1>1, <1>2, <1>3, <1>4, <1>5, <1>6 DEF UploadNext, CpuUpload

\* Beside the upload, the division keeps its invariant and is given the length
\* of the block at hand, rounded up, every time.
THEOREM UploadInvariant == UploadSpec => [](TypeOK /\ Phase /\ ThirdInv /\ Rounded /\ Dividing)
<1>1. UploadInit => ThirdInv /\ Rounded /\ Dividing
  <2> SUFFICES ASSUME UploadInit PROVE ThirdInv /\ Rounded /\ Dividing
    OBVIOUS
  <2>1. ThirdInv
    BY WordAssumption DEF UploadInit, ThirdInit, ThirdInv, ThirdTypeOK, NoOvershoot, Quotient, Words
  <2>2. list = <<>> /\ tpc = "idle"
    BY DEF UploadInit, Init, ThirdInit
  <2> QED
    BY <2>1, <2>2 DEF Rounded, Dividing
<1>2. UploadSpec => [](TypeOK /\ Phase)
  BY UploadRuns, PhaseInvariant, PTL
<1> QED
  BY <1>1, <1>2, UploadStep, PTL DEF UploadSpec

\* What cpu_third hands back is the number of handshakes that covers the block,
\* and no more, while the driver waits where the block starts.
THEOREM CountsAreThirds == UploadSpec => []CountIsThird
<1>1. TypeOK /\ Phase /\ ThirdInv /\ Rounded /\ Dividing => CountIsThird
  <2> SUFFICES ASSUME TypeOK, Phase, ThirdInv, Dividing, tpc # "idle"
               PROVE  /\ spc = "blockStart"
                      /\ tpc = "done" => /\ 3 * ra >= Head(list).len
                                         /\ 3 * ra < Head(list).len + 3
                                         /\ ra = Handshakes(Head(list).len)
    BY DEF CountIsThird
  <2>1. cpc = "count" /\ spc = "blockStart" /\ list # <<>>
    BY DEF Dividing, Phase
  <2>2. ASSUME tpc = "done"
        PROVE  /\ 3 * ra >= Head(list).len /\ 3 * ra < Head(list).len + 3
               /\ ra = Handshakes(Head(list).len)
    <3>1. Head(list).len \in Nat /\ ra \in Nat
      BY <2>1, ListFacts, WordAssumption DEF TypeOK, ThirdInv, ThirdTypeOK, Words
    <3>2. 3 * ra <= Head(list).len + 2 /\ Head(list).len + 2 < 3 * ra + 3
      BY <2>2 DEF ThirdInv, Quotient, Dividing
    <3> QED
      BY <3>1, <3>2 DEF Handshakes
  <2> QED
    BY <2>1, <2>2
<1> QED
  BY <1>1, UploadInvariant, PTL

\* All that is proved of the two processors holds of the upload with its
\* subroutine, which is what the run checks.
THEOREM UploadKeeps ==
  UploadSpec => [](TypeOK /\ NoFalseHeader /\ AckedIntact /\ Quotient) /\ LatchesHeld /\ ImplementsCopy
<1>1. UploadSpec => []Quotient
  <2>1. ThirdInv => Quotient
    BY DEF ThirdInv
  <2> QED
    BY <2>1, UploadInvariant, PTL
<1> QED
  BY <1>1, UploadRuns, TypeCorrect, HeadersAreReal, BytesArrive, LatchesAreHeld, CopyImplemented, PTL

-----------------------------------------------------------------------------
(* The repeat-load patch *)

RamBytes == (Lists \cup Groups \cup {0}) \X Nat
Remembering == {"remember id", "remember low", "remember high"}

Types ==
  /\ pc \in {"idle", "hook", "engine", "list", "groups"} \cup Remembering
  /\ id \in Lists \cup {0} /\ asked \in Lists \cup {0} /\ last \in Lists
  /\ groups \in Seq(Groups) /\ alloc \in Nat /\ saved \in Nat /\ sent \in Nat
  /\ ram \in [Address -> RamBytes] /\ stock \in [Address -> RamBytes]

Valid == low = Magic /\ high = Magic
Whole(l) == Resident(l) /\ saved = SizeOf[l]

\* A valid record is about a list that is whole, but for the stretch between
\* the patch writing the record and the engine sending the list.
RecordTrue ==
  /\ pc \in {"idle", "hook", "groups"} /\ Valid => Whole(last)
  /\ pc = "engine" /\ id = 0 => Whole(asked)

\* The record is about the list last asked for, unless it is being written.
RecordCurrent ==
  /\ pc = "idle" /\ asked # 0 => Valid /\ last = asked
  /\ pc # "idle" => asked # 0
  /\ pc = "hook" => IF id = 0 THEN Valid /\ last = asked ELSE id = asked
  /\ pc \in Remembering \cup {"list"} => id = asked
  /\ pc \in {"remember low", "remember high"} => last = id
  /\ pc = "remember high" => low = Magic
  /\ pc = "engine" => id \in {0, asked}
  /\ pc \in {"engine", "list", "groups"} => Valid /\ last = asked

\* How much of the list is there while it goes up.
ListSoFar ==
  pc = "list" =>
    /\ alloc = 0 /\ sent <= SizeOf[id]
    /\ \A n \in 0 .. sent - 1 : ram[n] = <<id, n>>

\* What the byte at n will be once groups gs follow one another from address
\* `from` in memory bytes.
Length(gs, k) == IF k <= Len(gs) THEN SizeOf[gs[k]] ELSE 0
Due(bytes, from, gs, n) ==
  LET b == from + Length(gs, 1)
      c == b + Length(gs, 2)
      d == c + Length(gs, 3)
  IN  IF n < from \/ n >= d THEN bytes[n]
      ELSE IF n < b THEN <<gs[1], n - from>>
      ELSE IF n < c THEN <<gs[2], n - b>>
      ELSE <<gs[3], n - c>>

\* The load under way ends where the unpatched engine has been since it began.
Converging ==
  /\ pc = "idle" => ram = stock
  /\ pc \notin {"idle", "groups"} =>
       Len(groups) = 3 /\ stock = Stacked(ram, <<asked>> \o groups)
  /\ pc = "groups" =>
       /\ Len(groups) <= 3 /\ alloc >= SizeOf[asked]
       /\ \A n \in Address : stock[n] = Due(ram, alloc, groups, n)

LoadInv == Types /\ RecordTrue /\ RecordCurrent /\ ListSoFar /\ Converging

-----------------------------------------------------------------------------
(* What the engine leaves behind, byte by byte *)

\* Sizes are positive, and once there is a group every list fits.
LEMMA SizeFacts ==
  /\ Top \in Nat
  /\ \A e \in Lists \cup Groups : SizeOf[e] \in Nat /\ SizeOf[e] >= 1
  /\ \A l \in Lists, g \in Seq(Groups) :
       Len(g) = 3 => SizeOf[l] + SizeOf[g[1]] + SizeOf[g[2]] + SizeOf[g[3]] <= Top
<1>1. ASSUME NEW l \in Lists, NEW g \in Seq(Groups), Len(g) = 3
      PROVE  SizeOf[l] + SizeOf[g[1]] + SizeOf[g[2]] + SizeOf[g[3]] <= Top
  <2>1. g \in [1 .. 3 -> Groups]
    BY <1>1, LenProperties
  <2> QED
    BY <2>1, RepeatAssumption
<1> QED
  BY <1>1, RepeatAssumption

\* A list with afterThree groups, one after another.
LEMMA ItemFacts ==
  ASSUME NEW l \in Lists, NEW g \in Seq(Groups), Len(g) = 3
  PROVE  LET items == <<l>> \o g IN
         items[1] = l /\ items[2] = g[1] /\ items[3] = g[2] /\ items[4] = g[3]
<1>1. <<l>> \in Seq(Lists \cup Groups) /\ Len(<<l>>) = 1 /\ <<l>>[1] = l
  OBVIOUS
<1>2. g \in Seq(Lists \cup Groups)
  BY SeqMonotonic
<1> QED
  BY <1>1, <1>2, ConcatProperties

\* The byte at n is the list's, one of the groups' or what was there.
LEMMA StackedAt ==
  ASSUME NEW l \in Lists, NEW g \in Seq(Groups), Len(g) = 3, NEW bytes, NEW n \in Address
  PROVE  Stacked(bytes, <<l>> \o g)[n] =
           LET b == SizeOf[l]
               c == b + SizeOf[g[1]]
               d == c + SizeOf[g[2]]
               e == d + SizeOf[g[3]]
           IN  IF n < b THEN <<l, n>>
               ELSE IF n < c THEN <<g[1], n - b>>
               ELSE IF n < d THEN <<g[2], n - c>>
               ELSE IF n < e THEN <<g[3], n - d>>
               ELSE bytes[n]
<1> DEFINE items == <<l>> \o g
           b == SizeOf[l]
           c == b + SizeOf[g[1]]
           d == c + SizeOf[g[2]]
           e == d + SizeOf[g[3]]
<1>1. items[1] = l /\ items[2] = g[1] /\ items[3] = g[2] /\ items[4] = g[3]
  BY ItemFacts
<1>s. /\ SizeOf[l] \in Nat /\ SizeOf[l] >= 1
      /\ SizeOf[g[1]] \in Nat /\ SizeOf[g[1]] >= 1
      /\ SizeOf[g[2]] \in Nat /\ SizeOf[g[2]] >= 1
      /\ SizeOf[g[3]] \in Nat /\ SizeOf[g[3]] >= 1
  <2>1. g \in [1 .. 3 -> Groups]
    BY LenProperties
  <2>2. g[1] \in Groups /\ g[2] \in Groups /\ g[3] \in Groups
    BY <2>1
  <2> QED
    BY <2>2, SizeFacts
<1>2. /\ b \in Nat /\ c \in Nat /\ d \in Nat /\ e \in Nat /\ n \in Nat
      /\ 0 < b /\ b < c /\ c < d /\ d < e
  <2>1. n \in Nat
    BY SizeFacts DEF Address
  <2>2. b \in Nat /\ 0 < b
    BY <1>s
  <2> HIDE DEF b
  <2>3. c \in Nat /\ b < c
    BY <1>s, <2>2
  <2> HIDE DEF c
  <2>4. d \in Nat /\ c < d
    BY <1>s, <2>3
  <2> HIDE DEF d
  <2>5. e \in Nat /\ d < e
    BY <1>s, <2>4
  <2> HIDE DEF e
  <2> QED
    BY <2>1, <2>2, <2>3, <2>4, <2>5
<1>3. /\ Start(items, 1) = 0 /\ Start(items, 2) = b
      /\ Start(items, 3) = c /\ Start(items, 4) = d
  BY <1>1 DEF Start
<1>4. /\ Holds(items, 1, n) <=> 0 <= n /\ n < b
      /\ Holds(items, 2, n) <=> b <= n /\ n < c
      /\ Holds(items, 3, n) <=> c <= n /\ n < d
      /\ Holds(items, 4, n) <=> d <= n /\ n < e
  <2>1. /\ SizeOf[items[1]] = b /\ SizeOf[items[2]] = c - b
        /\ SizeOf[items[3]] = d - c /\ SizeOf[items[4]] = e - d
    <3>1. SizeOf[items[1]] = b /\ SizeOf[items[2]] = SizeOf[g[1]]
          /\ SizeOf[items[3]] = SizeOf[g[2]] /\ SizeOf[items[4]] = SizeOf[g[3]]
      BY <1>1
    <3> HIDE DEF items
    <3>2. c - b = SizeOf[g[1]]
      <4> HIDE DEF b
      <4> QED BY <1>2, <1>s
    <3>3. d - c = SizeOf[g[2]]
      <4> HIDE DEF c
      <4> QED BY <1>2, <1>s
    <3>4. e - d = SizeOf[g[3]]
      <4> HIDE DEF d
      <4> QED BY <1>2, <1>s
    <3> HIDE DEF b, c, d, e
    <3> QED
      BY <3>1, <3>2, <3>3, <3>4
  <2> HIDE DEF items, b, c, d, e
  <2> QED
    BY <1>2, <1>3, <2>1 DEF Holds
<1> HIDE DEF items, b, c, d, e
<1>5. Stacked(bytes, items)[n] =
        IF \E k \in 1 .. 4 : Holds(items, k, n)
        THEN LET k == CHOOSE k \in 1 .. 4 : Holds(items, k, n) IN <<items[k], n - Start(items, k)>>
        ELSE bytes[n]
  BY DEF Stacked
<1>6. ASSUME NEW k \in 1 .. 4, Holds(items, k, n)
      PROVE  Stacked(bytes, items)[n] = <<items[k], n - Start(items, k)>>
  <2>1. \A j \in 1 .. 4 : Holds(items, j, n) => j = k
    BY <1>2, <1>4, <1>6
  <2>2. (CHOOSE j \in 1 .. 4 : Holds(items, j, n)) = k
    BY <1>6, <2>1
  <2> QED
    BY <1>5, <1>6, <2>2
<1>7. n >= e => Stacked(bytes, items)[n] = bytes[n]
  BY <1>2, <1>4, <1>5
<1>8. Stacked(bytes, items)[n] =
        IF n < b THEN <<l, n>>
        ELSE IF n < c THEN <<g[1], n - b>>
        ELSE IF n < d THEN <<g[2], n - c>>
        ELSE IF n < e THEN <<g[3], n - d>>
        ELSE bytes[n]
  BY <1>1, <1>2, <1>3, <1>4, <1>6, <1>7
<1> QED
  BY <1>8 DEF items, b, c, d, e

\* It is the same whatever was under the list.
LEMMA StackedHides ==
  ASSUME NEW l \in Lists, NEW g \in Seq(Groups), Len(g) = 3, NEW m1, NEW m2,
         \A n \in Address : n >= SizeOf[l] => m1[n] = m2[n]
  PROVE  Stacked(m1, <<l>> \o g) = Stacked(m2, <<l>> \o g)
<1>1. ASSUME NEW n \in Address
      PROVE  Stacked(m1, <<l>> \o g)[n] = Stacked(m2, <<l>> \o g)[n]
  <2> DEFINE b == SizeOf[l]
             c == b + SizeOf[g[1]]
             d == c + SizeOf[g[2]]
             e == d + SizeOf[g[3]]
             At(m) == IF n < b THEN <<l, n>>
                      ELSE IF n < c THEN <<g[1], n - b>>
                      ELSE IF n < d THEN <<g[2], n - c>>
                      ELSE IF n < e THEN <<g[3], n - d>>
                      ELSE m[n]
  <2>1. Stacked(m1, <<l>> \o g)[n] = At(m1) /\ Stacked(m2, <<l>> \o g)[n] = At(m2)
    BY StackedAt, ZenonT(30)
  <2>2. b \in Nat /\ n \in Nat /\ (n >= b => m1[n] = m2[n])
    BY SizeFacts DEF Address
  <2> HIDE DEF b, c, d, e
  <2>3. At(m1) = At(m2)
    BY <2>2
  <2> QED
    BY <2>1, <2>3
<1> QED
  BY <1>1 DEF Stacked

\* And it is sound memory still.
LEMMA StackedType ==
  ASSUME NEW l \in Lists, NEW g \in Seq(Groups), Len(g) = 3, NEW bytes \in [Address -> RamBytes]
  PROVE  Stacked(bytes, <<l>> \o g) \in [Address -> RamBytes]
<1>1. ASSUME NEW n \in Address
      PROVE  Stacked(bytes, <<l>> \o g)[n] \in RamBytes
  <2>1. g \in [1 .. 3 -> Groups]
    BY LenProperties
  <2>2. g[1] \in Groups /\ g[2] \in Groups /\ g[3] \in Groups
    BY <2>1
  <2>3. SizeOf[l] \in Nat /\ SizeOf[g[1]] \in Nat /\ SizeOf[g[2]] \in Nat /\ n \in Nat
    BY <2>2, SizeFacts DEF Address
  <2> DEFINE b == SizeOf[l]
             c == b + SizeOf[g[1]]
             d == c + SizeOf[g[2]]
             e == d + SizeOf[g[3]]
  <2>4. b \in Nat /\ c \in Nat /\ d \in Nat
    BY <2>3
  <2>5. Stacked(bytes, <<l>> \o g)[n] =
          IF n < b THEN <<l, n>>
          ELSE IF n < c THEN <<g[1], n - b>>
          ELSE IF n < d THEN <<g[2], n - c>>
          ELSE IF n < e THEN <<g[3], n - d>>
          ELSE bytes[n]
    BY StackedAt
  <2> HIDE DEF b, c, d, e
  <2> QED
    BY <2>2, <2>3, <2>4, <2>5 DEF RamBytes
<1> QED
  BY <1>1 DEF Stacked

\* Behind a list that is there, all that is due is the afterThree groups.
LEMMA DueBehindList ==
  ASSUME NEW l \in Lists, NEW g \in Seq(Groups), Len(g) = 3, NEW bytes,
         \A n \in 0 .. SizeOf[l] - 1 : bytes[n] = <<l, n>>,
         NEW n \in Address
  PROVE  Stacked(bytes, <<l>> \o g)[n] = Due(bytes, SizeOf[l], g, n)
<1> DEFINE b == SizeOf[l]
           c == b + SizeOf[g[1]]
           d == c + SizeOf[g[2]]
           e == d + SizeOf[g[3]]
<1>1. Stacked(bytes, <<l>> \o g)[n] =
        IF n < b THEN <<l, n>>
        ELSE IF n < c THEN <<g[1], n - b>>
        ELSE IF n < d THEN <<g[2], n - c>>
        ELSE IF n < e THEN <<g[3], n - d>>
        ELSE bytes[n]
  BY StackedAt
<1>2. Due(bytes, b, g, n) =
        IF n < b \/ n >= e THEN bytes[n]
        ELSE IF n < c THEN <<g[1], n - b>>
        ELSE IF n < d THEN <<g[2], n - c>>
        ELSE <<g[3], n - d>>
  BY DEF Due, Length
<1>3. b \in Nat /\ n \in Nat /\ e \in Int /\ c \in Int /\ d \in Int
  <2>1. g \in [1 .. 3 -> Groups]
    BY LenProperties
  <2>2. g[1] \in Groups /\ g[2] \in Groups /\ g[3] \in Groups
    BY <2>1
  <2>3. SizeOf[l] \in Nat /\ SizeOf[g[1]] \in Nat /\ SizeOf[g[2]] \in Nat /\ SizeOf[g[3]] \in Nat
    BY <2>2, SizeFacts
  <2>4. n \in Nat
    BY SizeFacts DEF Address
  <2>5. b \in Nat
    BY <2>3
  <2> HIDE DEF b
  <2>6. c \in Nat
    BY <2>3, <2>5
  <2> HIDE DEF c
  <2>7. d \in Nat
    BY <2>3, <2>6
  <2> HIDE DEF d
  <2>8. e \in Nat
    BY <2>3, <2>7
  <2> HIDE DEF e
  <2> QED
    BY <2>4, <2>5, <2>6, <2>7, <2>8
<1>4. n < b => bytes[n] = <<l, n>>
  BY <1>3
<1>5. b < c /\ c < d /\ d < e
  <2>1. g \in [1 .. 3 -> Groups]
    BY LenProperties
  <2>2. g[1] \in Groups /\ g[2] \in Groups /\ g[3] \in Groups
    BY <2>1
  <2>3. /\ SizeOf[g[1]] \in Nat /\ SizeOf[g[1]] >= 1
        /\ SizeOf[g[2]] \in Nat /\ SizeOf[g[2]] >= 1
        /\ SizeOf[g[3]] \in Nat /\ SizeOf[g[3]] >= 1
    BY <2>2, SizeFacts
  <2>4. b < c
    <3> HIDE DEF b
    <3> QED BY <1>3, <2>3
  <2>5. c < d
    <3> HIDE DEF c
    <3> QED BY <1>3, <2>3
  <2>6. d < e
    <3> HIDE DEF d
    <3> QED BY <1>3, <2>3
  <2> QED
    BY <2>4, <2>5, <2>6
<1> HIDE DEF b, c, d, e
<1>6. Stacked(bytes, <<l>> \o g)[n] = Due(bytes, b, g, n)
  BY <1>1, <1>2, <1>3, <1>4, <1>5, SMTT(20)
<1> QED
  BY <1>6 DEF b

\* Sending the first of the groups leaves the same due.
LEMMA DueAfterGroup ==
  ASSUME NEW gs \in Seq(Groups), gs # <<>>, Len(gs) <= 3,
         NEW from \in Nat, NEW bytes, NEW n \in Address
  PROVE  LET sum == from + SizeOf[Head(gs)]
             sentMem == [m \in Address |-> IF m \in from .. from + SizeOf[Head(gs)] - 1
                                           THEN <<Head(gs), m - from>> ELSE bytes[m]]
         IN  Due(sentMem, sum, Tail(gs), n) = Due(bytes, from, gs, n)
<1> DEFINE sum == from + SizeOf[Head(gs)]
           sentMem == [m \in Address |-> IF m \in from .. from + SizeOf[Head(gs)] - 1
                                         THEN <<Head(gs), m - from>> ELSE bytes[m]]
           afterTwo == Length(gs, 2)
           afterThree == Length(gs, 3)
<1>1. /\ Len(gs) \in 1 .. 3 /\ Len(Tail(gs)) = Len(gs) - 1
      /\ Head(gs) = gs[1]
      /\ Len(gs) >= 2 => Tail(gs)[1] = gs[2]
      /\ Len(gs) >= 3 => Tail(gs)[2] = gs[3]
  <2>1. Len(gs) \in Nat /\ Len(gs) # 0
    BY LenProperties, EmptySeq
  <2>2. /\ Head(gs) = gs[1] /\ Len(Tail(gs)) = Len(gs) - 1
        /\ \A k \in 1 .. Len(Tail(gs)) : Tail(gs)[k] = gs[k + 1]
    BY HeadTailProperties
  <2> QED
    BY <2>1, <2>2
<1>2. \A k \in 1 .. Len(gs) : SizeOf[gs[k]] \in Nat /\ SizeOf[gs[k]] >= 1
  BY ElementOfSeq, SizeFacts
<1>3. /\ Length(gs, 1) = SizeOf[Head(gs)]
      /\ Length(Tail(gs), 1) = afterTwo /\ Length(Tail(gs), 2) = afterThree /\ Length(Tail(gs), 3) = 0
  BY <1>1 DEF Length
<1>4. /\ afterTwo \in Nat /\ afterThree \in Nat /\ SizeOf[Head(gs)] \in Nat
      /\ afterTwo # 0 => Len(gs) >= 2 
      /\ afterThree # 0 => Len(gs) >= 3
      /\ Len(gs) >= 3 => afterTwo # 0
  BY <1>1, <1>2 DEF Length
<1>5. sum \in Nat /\ n \in Nat
  BY <1>4, SizeFacts DEF Address
<1>6. sentMem[n] = IF n >= from /\ n < sum THEN <<gs[1], n - from>> ELSE bytes[n]
  <2>1. n \in from .. from + SizeOf[Head(gs)] - 1 <=> n >= from /\ n < sum
    BY <1>4, <1>5
  <2> HIDE DEF sum
  <2> QED BY <1>1, <1>5, <2>1
<1>7. Due(bytes, from, gs, n) =
        IF n < from \/ n >= sum + afterTwo + afterThree THEN bytes[n]
        ELSE IF n < sum THEN <<gs[1], n - from>>
        ELSE IF n < sum + afterTwo THEN <<gs[2], n - sum>>
        ELSE <<gs[3], n - (sum + afterTwo)>>
  BY <1>3 DEF Due
<1>8. Due(sentMem, sum, Tail(gs), n) =
        IF n < sum \/ n >= sum + afterTwo + afterThree + 0 THEN sentMem[n]
        ELSE IF n < sum + afterTwo THEN <<Tail(gs)[1], n - sum>>
        ELSE IF n < sum + afterTwo + afterThree THEN <<Tail(gs)[2], n - (sum + afterTwo)>>
        ELSE <<Tail(gs)[3], n - (sum + afterTwo + afterThree)>>
  BY <1>3 DEF Due
<1> HIDE DEF sum, sentMem, afterTwo, afterThree
<1>9. sum >= from
  BY <1>4, <1>5 DEF sum
<1> SUFFICES Due(sentMem, sum, Tail(gs), n) = Due(bytes, from, gs, n)
  BY DEF sum, sentMem
<1> QED
  BY <1>1, <1>4, <1>5, <1>6, <1>7, <1>8, <1>9

-----------------------------------------------------------------------------
(* The invariant *)

LEMMA LoadInvInit == LoadInit => LoadInv
<1> SUFFICES ASSUME LoadInit PROVE LoadInv
  OBVIOUS
<1>1. Top \in Nat
  BY SizeFacts
<1>2. Unknown \in RamBytes
  BY DEF Unknown, RamBytes
<1>3. Types
  <2>1. ram \in [Address -> RamBytes] /\ stock = ram
    BY <1>2 DEF LoadInit
  <2>2. groups \in Seq(Groups)
    BY EmptySeq DEF LoadInit
  <2> QED
    BY <2>1, <2>2 DEF LoadInit, Types
<1>4. RecordTrue /\ RecordCurrent /\ ListSoFar /\ Converging
  BY DEF LoadInit, RecordTrue, RecordCurrent, ListSoFar, Converging, Valid, Remembering
<1> QED
  BY <1>3, <1>4 DEF LoadInv

\* A load: the engine asks, nothing has moved yet.
LEMMA LoadStep ==
  ASSUME LoadInv, NEW l \in Lists \cup {0}, NEW g \in [1 .. 3 -> Groups], Load(l, g)
  PROVE  LoadInv'
<1>1. g \in Seq(Groups) /\ Len(g) = 3
  <2>1. g \in Seq(Groups)
    BY SeqDef
  <2>2. Len(g) \in Nat /\ 1 .. Len(g) = 1 .. 3
    BY <2>1, LenProperties
  <2> QED
    BY <2>1, <2>2
<1>2. asked' \in Lists
  BY DEF LoadInv, Types, Load
<1>3. ram = stock /\ pc = "idle"
  BY DEF LoadInv, Converging, Load
<1>4. stock' = Stacked(ram, <<asked'>> \o g)
  BY <1>3 DEF Load
<1>5. Types'
  <2>1. stock' \in [Address -> RamBytes]
    BY <1>1, <1>2, <1>4, StackedType DEF LoadInv, Types
  <2> QED
    BY <1>1, <1>2, <2>1 DEF LoadInv, Types, Load, Remembering
<1>6. RecordTrue'
  BY <1>3 DEF LoadInv, RecordTrue, Load, Valid, Whole, Resident
<1>7. RecordCurrent'
  BY <1>2, <1>3, RepeatAssumption DEF LoadInv, RecordCurrent, Load, Valid, Remembering
<1>8. ListSoFar' /\ Converging'
  BY <1>1, <1>4 DEF ListSoFar, Converging, Load
<1> QED
  BY <1>5, <1>6, <1>7, <1>8 DEF LoadInv

\* The patch: it reads or writes the record and the id on the stack.
LEMMA HookStep ==
  ASSUME LoadInv, Hook
  PROVE  LoadInv'
<1> USE DEF LoadInv, Valid, Whole
<1>1. ListSoFar'
  BY DEF Hook, HookZero, HookSkip, HookMiss, RememberId, RememberLow, RememberHigh, ListSoFar
<1>2. Converging'
  BY DEF Hook, HookZero, HookSkip, HookMiss, RememberId, RememberLow, RememberHigh, Converging
<1>3. CASE HookZero
  BY <1>1, <1>2, <1>3 DEF HookZero, Types, RecordTrue, RecordCurrent, Resident, Remembering
<1>4. CASE HookSkip
  BY <1>1, <1>2, <1>4, RepeatAssumption
  DEF HookSkip, Matches, Types, RecordTrue, RecordCurrent, Resident, Remembering
<1>5. CASE HookMiss
  BY <1>1, <1>2, <1>5 DEF HookMiss, Types, RecordTrue, RecordCurrent, Resident, Remembering
<1>6. CASE RememberId
  <2>1. id \in Lists
    BY <1>6 DEF RememberId, RecordCurrent, Remembering, Types
  <2> QED
    BY <1>1, <1>2, <1>6, <2>1 DEF RememberId, Types, RecordTrue, RecordCurrent, Resident, Remembering
<1>7. CASE RememberLow
  BY <1>1, <1>2, <1>7 DEF RememberLow, Types, RecordTrue, RecordCurrent, Resident, Remembering
<1>8. CASE RememberHigh
  BY <1>1, <1>2, <1>8 DEF RememberHigh, Types, RecordTrue, RecordCurrent, Resident, Remembering
<1> QED
  BY <1>3, <1>4, <1>5, <1>6, <1>7, <1>8 DEF Hook

\* Resuming: with no list to send, what is due is the groups.
LEMMA ResumeStep ==
  ASSUME LoadInv, Resume
  PROVE  LoadInv'
<1> USE DEF LoadInv, Valid, Whole
<1>1. asked \in Lists /\ id \in {0, asked} /\ pc = "engine"
  BY DEF Resume, RecordCurrent, Types
<1>2. 0 \notin Lists /\ (\A l \in Lists : SizeOf[l] \in Nat)
  BY RepeatAssumption
<1>3. Len(groups) = 3 /\ groups \in Seq(Groups) /\ stock = Stacked(ram, <<asked>> \o groups)
  BY <1>1 DEF Converging, Types
<1>4. CASE id = 0
  <2>1. Whole(asked) /\ Valid /\ last = asked
    BY <1>1, <1>4 DEF RecordTrue, RecordCurrent
  <2>2. alloc' = SizeOf[asked] /\ pc' = "groups"
    BY <1>4, <2>1 DEF Resume
  <2>3. \A n \in Address : stock[n] = Due(ram, SizeOf[asked], groups, n)
    BY <1>1, <1>3, <2>1, DueBehindList DEF Resident
  <2>4. Types'
    BY <1>1, <1>2, <2>2 DEF Types, Resume
  <2>5. Converging'
    <3>1. alloc' >= SizeOf[asked]
      BY <1>1, <1>2, <2>2
    <3> QED
      BY <1>3, <2>2, <2>3, <3>1 DEF Converging, Resume
  <2>6. RecordTrue' /\ RecordCurrent' /\ ListSoFar'
    BY <1>1, <1>2, <2>1, <2>2
    DEF RecordTrue, RecordCurrent, ListSoFar, Remembering, Resident, Resume
  <2> QED
    BY <2>4, <2>5, <2>6
<1>5. CASE id # 0
  <2>1. pc' = "list" /\ alloc' = 0 /\ sent' = 0 /\ id = asked
    BY <1>1, <1>5 DEF Resume
  <2>2. Types'
    BY <2>1 DEF Types, Resume
  <2>3. RecordTrue' /\ RecordCurrent' /\ ListSoFar'
    BY <1>1, <1>2, <2>1
    DEF RecordTrue, RecordCurrent, ListSoFar, Remembering, Resume
  <2>4. Converging'
    BY <1>1, <2>1 DEF Converging, Resume
  <2> QED
    BY <2>2, <2>3, <2>4
<1> QED
  BY <1>4, <1>5

\* A byte of the list: hidden under the list in what the engine leaves.
LEMMA SendListStep ==
  ASSUME LoadInv, SendList
  PROVE  LoadInv'
<1> USE DEF LoadInv, Valid, Whole
<1>1. /\ pc = "list" /\ id = asked /\ asked \in Lists /\ alloc = 0
      /\ sent \in Nat /\ sent < SizeOf[id] /\ SizeOf[id] \in Nat
  <2>1. pc = "list" /\ id = asked /\ asked \in Lists
    BY DEF SendList, RecordCurrent, Remembering, Types
  <2> QED
    BY <2>1, RepeatAssumption DEF SendList, ListSoFar, Types
<1>2. Len(groups) = 3 /\ groups \in Seq(Groups) /\ stock = Stacked(ram, <<asked>> \o groups)
  BY <1>1 DEF Converging, Types
<1>3. sent \in Address
  <2>1. groups \in [1 .. 3 -> Groups]
    BY <1>2, LenProperties
  <2>2. /\ SizeOf[groups[1]] \in Nat /\ SizeOf[groups[2]] \in Nat /\ SizeOf[groups[3]] \in Nat
    BY <2>1, SizeFacts
  <2>3. SizeOf[id] + SizeOf[groups[1]] + SizeOf[groups[2]] + SizeOf[groups[3]] <= Top
    BY <1>1, <1>2, SizeFacts
  <2> QED
    BY <1>1, <2>2, <2>3, SizeFacts DEF Address
<1>4. ram' = [ram EXCEPT ![sent] = <<id, sent>>] /\ sent' = sent + 1
  BY <1>1 DEF SendList, SendByte
<1>5. \A n \in Address : ram'[n] = IF n = sent THEN <<id, sent>> ELSE ram[n]
  BY <1>4 DEF Types
<1>6. Types'
  <2>1. <<id, sent>> \in RamBytes
    BY <1>1 DEF RamBytes
  <2>2. ram' \in [Address -> RamBytes]
    BY <1>3, <1>4, <2>1 DEF Types
  <2>3. sent' \in Nat
    BY <1>1, <1>4
  <2> QED
    BY <2>2, <2>3 DEF Types, SendList
<1>7. ListSoFar'
  <2>1. \A n \in 0 .. sent' - 1 : n \in Address
    BY <1>1, <1>3, <1>4, SizeFacts DEF Address
  <2>2. \A n \in 0 .. sent' - 1 : n = sent \/ n \in 0 .. sent - 1
    BY <1>1, <1>4
  <2> QED
    BY <1>1, <1>4, <1>5, <2>1, <2>2 DEF ListSoFar, SendList
<1>8. Converging'
  <2>1. \A n \in Address : n >= SizeOf[asked] => ram[n] = ram'[n]
    BY <1>1, <1>5
  <2>2. Stacked(ram', <<asked>> \o groups) = Stacked(ram, <<asked>> \o groups)
    BY <1>1, <1>2, <2>1, StackedHides
  <2> QED
    BY <1>1, <1>2, <2>2 DEF Converging, SendList
<1>9. RecordTrue' /\ RecordCurrent'
  BY <1>1 DEF RecordTrue, RecordCurrent, Remembering, SendList
<1> QED
  BY <1>6, <1>7, <1>8, <1>9

LEMMA ListSentStep ==
  ASSUME LoadInv, ListSent
  PROVE  LoadInv'
<1> USE DEF LoadInv, Valid, Whole
<1>1. /\ pc = "list" /\ id = asked /\ asked \in Lists /\ alloc = 0 /\ Valid /\ last = asked
      /\ sent = SizeOf[id] /\ SizeOf[id] \in Nat
  <2>1. pc = "list" /\ id = asked /\ asked \in Lists /\ Valid /\ last = asked
    BY DEF ListSent, RecordCurrent, Remembering, Types
  <2> QED
    BY <2>1, RepeatAssumption DEF ListSent, ListSoFar, Types
<1>2. Len(groups) = 3 /\ groups \in Seq(Groups) /\ stock = Stacked(ram, <<asked>> \o groups)
  BY <1>1 DEF Converging, Types
<1>3. Resident(asked)
  BY <1>1 DEF ListSoFar, Resident
<1>4. alloc' = SizeOf[asked] /\ saved' = SizeOf[asked] /\ pc' = "groups"
  BY <1>1 DEF ListSent
<1>5. \A n \in Address : stock[n] = Due(ram, SizeOf[asked], groups, n)
  BY <1>1, <1>2, <1>3, DueBehindList DEF Resident
<1>6. Types'
  BY <1>1, <1>4 DEF Types, ListSent
<1>7. Converging'
  <2>1. alloc' >= SizeOf[asked]
    BY <1>1, <1>4
  <2> QED
    BY <1>2, <1>4, <1>5, <2>1 DEF Converging, ListSent
<1>8. RecordTrue' /\ RecordCurrent' /\ ListSoFar'
  BY <1>1, <1>3, <1>4
  DEF RecordTrue, RecordCurrent, ListSoFar, Remembering, Resident, ListSent
<1> QED
  BY <1>6, <1>7, <1>8

\* A group goes above the list and leaves it whole.
LEMMA SendGroupStep ==
  ASSUME LoadInv, SendGroup
  PROVE  LoadInv'
<1> USE DEF LoadInv, Valid, Whole
<1> DEFINE g == Head(groups)
           sum == alloc + SizeOf[g]
<1>1. /\ pc = "groups" /\ asked \in Lists /\ Valid /\ last = asked
      /\ alloc \in Nat /\ alloc >= SizeOf[asked] /\ SizeOf[asked] \in Nat
  <2>1. pc = "groups" /\ asked \in Lists /\ Valid /\ last = asked
    BY DEF SendGroup, RecordCurrent, Remembering, Types
  <2> QED
    BY <2>1, RepeatAssumption DEF Converging, Types
<1>2. groups \in Seq(Groups) /\ groups # <<>> /\ Len(groups) <= 3
  BY <1>1 DEF SendGroup, Converging, Types
<1>3. /\ g \in Groups /\ Tail(groups) \in Seq(Groups) /\ Len(Tail(groups)) = Len(groups) - 1
      /\ Len(groups) \in Nat /\ SizeOf[g] \in Nat
  <2>1. /\ g \in Groups /\ Tail(groups) \in Seq(Groups) /\ Len(Tail(groups)) = Len(groups) - 1
    BY <1>2, HeadTailProperties
  <2> QED
    BY <1>2, <2>1, LenProperties, SizeFacts
<1>4. /\ ram' = [m \in Address |-> IF m \in alloc .. alloc + SizeOf[Head(groups)] - 1
                                  THEN <<Head(groups), m - alloc>> ELSE ram[m]]
      /\ alloc' = sum /\ groups' = Tail(groups) /\ pc' = "groups"
  <2>1. ram' = [m \in Address |-> IF m \in alloc .. alloc + SizeOf[Head(groups)] - 1
                                  THEN <<Head(groups), m - alloc>> ELSE ram[m]]
    <3> HIDE DEF g, sum, LoadInv, Valid, Whole
    <3> QED BY DEF SendGroup
  <2> QED
    BY <1>1, <2>1 DEF SendGroup
<1>5. Types'
  <2>1. ASSUME NEW m \in Address, m \in alloc .. alloc + SizeOf[Head(groups)] - 1
        PROVE  <<g, m - alloc>> \in RamBytes
    BY <1>1, <1>3, <2>1, SizeFacts DEF RamBytes, Address
  <2>2. ram' \in [Address -> RamBytes]
    BY <1>4, <2>1 DEF Types
  <2>3. sum \in Nat
    BY <1>1, <1>3
  <2> QED
    BY <1>3, <1>4, <2>2, <2>3 DEF Types, SendGroup
<1>6. Converging'
  <2>1. \A n \in Address : Due(ram', sum, Tail(groups), n) = Due(ram, alloc, groups, n)
    BY <1>1, <1>2, <1>4, DueAfterGroup
  <2>2. sum >= SizeOf[asked] /\ Len(Tail(groups)) <= 3
    BY <1>1, <1>2, <1>3
  <2> QED
    BY <1>1, <1>4, <2>1, <2>2 DEF Converging, SendGroup
<1>7. Resident(asked) => Resident(asked)'
  <2>1. ASSUME NEW n \in 0 .. SizeOf[asked] - 1, n \in Address
        PROVE  ram'[n] = ram[n]
    <3>1. n \notin alloc .. alloc + SizeOf[Head(groups)] - 1
      BY <1>1, <1>3
    <3> QED
      BY <1>4, <2>1, <3>1
  <2>2. \A n \in 0 .. SizeOf[asked] - 1 : n \in Address
    <3>1. SizeOf[asked] <= Top
      <4> DEFINE h == [k \in 1 .. 3 |-> g]
      <4>1. h \in [1 .. 3 -> Groups] /\ h[1] = g /\ h[2] = g /\ h[3] = g
        BY <1>3
      <4> HIDE DEF h, g, sum
      <4>2. SizeOf[asked] + SizeOf[h[1]] + SizeOf[h[2]] + SizeOf[h[3]] <= Top
        BY <1>1, <4>1, RepeatAssumption
      <4> QED
        BY <1>1, <1>3, <4>1, <4>2, SizeFacts
    <3> QED
      BY <1>1, <3>1, SizeFacts DEF Address
  <2> QED
    BY <2>1, <2>2 DEF Resident, SendGroup
<1>8. RecordTrue' /\ RecordCurrent' /\ ListSoFar'
  BY <1>1, <1>4, <1>7
  DEF RecordTrue, RecordCurrent, ListSoFar, Remembering, SendGroup, Resident
<1> QED
  BY <1>5, <1>6, <1>8

\* With no group left nothing is due: sound RAM is the unpatched engine's.
LEMMA LoadedStep ==
  ASSUME LoadInv, Loaded
  PROVE  LoadInv'
<1> USE DEF LoadInv, Valid, Whole
<1>1. pc = "groups" /\ groups = <<>> /\ asked \in Lists /\ Valid /\ last = asked /\ alloc \in Nat
  BY DEF Loaded, RecordCurrent, Types
<1>2. \A n \in Address : Due(ram, alloc, groups, n) = ram[n]
  <2>1. Length(groups, 1) = 0 /\ Length(groups, 2) = 0 /\ Length(groups, 3) = 0
    BY <1>1, EmptySeq DEF Length
  <2> QED
    BY <1>1, <2>1, SizeFacts DEF Due, Address
<1>3. ram = stock
  BY <1>1, <1>2 DEF Converging, Types
<1>4. Types'
  BY DEF Types, Loaded
<1> QED
  BY <1>1, <1>3, <1>4 DEF RecordTrue, RecordCurrent, ListSoFar, Converging, Remembering, Loaded, Resident

\* The type invariant, the truth of the record, and where the load under way
\* will end: an invariant of the patched engine.
THEOREM LoadInvariant == LoadSpec => []LoadInv
<1>1. LoadInv /\ [LoadNext]_loadVars => LoadInv'
  <2> SUFFICES ASSUME LoadInv, [LoadNext]_loadVars PROVE LoadInv'
    OBVIOUS
  <2>1. CASE \E l \in Lists \cup {0}, g \in [1 .. 3 -> Groups] : Load(l, g)
    BY <2>1, LoadStep
  <2>2. CASE Hook
    BY <2>2, HookStep
  <2>3. CASE Engine
    BY <2>3, ResumeStep, SendListStep, ListSentStep, SendGroupStep, LoadedStep DEF Engine
  <2>4. CASE UNCHANGED loadVars
    BY <2>4 DEF loadVars, LoadInv, Types, RecordTrue, RecordCurrent, ListSoFar, Converging,
                Valid, Whole, Resident
  <2> QED
    BY <2>1, <2>2, <2>3, <2>4 DEF LoadNext
<1> QED
  BY <1>1, LoadInvInit, PTL DEF LoadSpec

\* The patch skips a list only when it is whole in sound RAM and the engine
\* still knows where it ends, and a load leaves sound RAM as it would without
\* the patch.
THEOREM SkipIsRightTheorem == LoadSpec => []SkipIsRight
<1>1. LoadInv => SkipIsRight
  BY DEF LoadInv, RecordTrue, Converging, SkipIsRight, Matches, Valid, Whole
<1> QED
  BY <1>1, LoadInvariant, PTL
=============================================================================
