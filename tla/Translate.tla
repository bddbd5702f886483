----------------------------- MODULE Translate -----------------------------
(***************************************************************************)
(* asm/sdd1-translate.asm and its hook sites in asm/sdd1-bypass.asm: the   *)
(* routine that turns the source of an armed transfer into the address of  *)
(* the decompressed copy.  Registers, the stack byte by byte and the DMA   *)
(* channels are modelled; the tables it scans are the variable rom.        *)
(*                                                                         *)
(* A is always kept as a word; with an 8-bit accumulator an instruction    *)
(* changes its low byte only.  The top of the stack is its first element.  *)
(***************************************************************************)
EXTENDS Integers, Sequences

CONSTANTS
  Byte,         \* values of one byte
  KeyBank,      \* bank of the key table, $60; the other tables follow it
  Channels,     \* register offsets of the DMA channels the engine uses
  ByY           \* the entry point that takes the channel in Y, sdd1_chy

Word == 0 .. Byte * Byte - 1
Flags == [m8 : BOOLEAN, x8 : BOOLEAN, carry : BOOLEAN]

VARIABLES
  ip,           \* the place in the routine, or "caller"
  entry,        \* the channel the entry point was assembled for, or ByY
  a, x, y, dbr, p, stack,
  dma,          \* per channel: [fixed, mode, lo, hi, bank]; DMAP is its
                \* bit 3, fixed, and the rest of it, mode
  rom,          \* the tables: key, low, high, bank
  called,       \* registers and channels as the caller had them (history)
  started       \* what a transfer was started with: [channel, state]

cpuVars == <<ip, entry, a, x, y, dbr, p, stack, dma, called, started>>

Registers == [a |-> a, x |-> x, y |-> y, dbr |-> dbr, p |-> p, stack |-> stack]

-----------------------------------------------------------------------------
Low(w) == w % Byte
High(w) == w \div Byte
SetLow(w, v) == High(w) * Byte + v

\* Bytes of a word as they lie on the stack, and back.
Pushed(w) == <<Low(w), High(w)>>
At(s, n) == s[n] + s[n + 1] * Byte         \* "lda n,s" with a wide accumulator
Drop(s, n) == SubSeq(s, n + 1, Len(s))

Coded(f) == (IF f.m8 THEN 4 ELSE 0) + (IF f.x8 THEN 2 ELSE 0) + (IF f.carry THEN 1 ELSE 0)
Decoded(n) == [m8 |-> (n \div 4) % 2 = 1, x8 |-> (n \div 2) % 2 = 1, carry |-> n % 2 = 1]

Wide(f) == [f EXCEPT !.m8 = FALSE, !.x8 = FALSE]     \* rep #$30
Narrow(f) == [f EXCEPT !.m8 = TRUE]                  \* sep #$20

\* The byte "cmp $0000,y" reads: a key only while DBR names the key table.
Key(slot) == IF dbr = KeyBank THEN rom.key[slot] ELSE 0

\* The channel the routine works on: assembled in, or found in a register.
Channel == IF entry = ByY THEN x ELSE entry

-----------------------------------------------------------------------------
\* The engine programs a channel, arms it and reaches a hook: jsl pushes the
\* three bytes of the return address.  Only ByY takes the channel in Y.
Call(e, c, lo, hi, bank, mode) ==
  /\ ip = "caller"
  /\ e = ByY => y = c
  /\ e # ByY => e = c
  /\ dma' = [dma EXCEPT ![c] = [fixed |-> TRUE, mode |-> mode, lo |-> lo, hi |-> hi, bank |-> bank]]
  /\ entry' = e /\ ip' = "save"
  /\ stack' = <<3, 2, 1>> \o stack
  /\ called' = [regs |-> [Registers EXCEPT !.stack = stack'], dma |-> dma', channel |-> c]
  /\ started' = <<>>
  /\ UNCHANGED <<a, x, y, dbr, p, rom>>

\* php phb, rep #$30, pha phx phy; the variant then copies Y to X.
Save ==
  /\ ip = "save" /\ ip' = "source"
  /\ stack' = Pushed(y) \o Pushed(x) \o Pushed(a) \o <<dbr, Coded(p)>> \o stack
  /\ p' = Wide(p)
  /\ x' = IF entry = ByY THEN y ELSE x
  /\ UNCHANGED <<entry, a, y, dbr, dma, rom, called, started>>

\* The source address becomes the cursor.  The variant reads through bank
\* zero and parks the channel on the stack.
Source ==
  /\ ip = "source" /\ ip' = "bank"
  /\ a' = dma[Channel].lo + dma[Channel].hi * Byte
  /\ y' = a'
  /\ IF entry = ByY THEN dbr' = 0 /\ stack' = Pushed(x) \o stack
     ELSE UNCHANGED <<dbr, stack>>
  /\ UNCHANGED <<entry, x, p, dma, rom, called, started>>

\* sep #$20, the source bank, and DBR to the key table: pea and two pulls.
SourceBank ==
  /\ ip = "bank" /\ ip' = "scan"
  /\ p' = Narrow(p)
  /\ a' = SetLow(a, dma[Channel].bank)
  /\ dbr' = KeyBank
  /\ UNCHANGED <<entry, x, y, stack, dma, rom, called, started>>

ScanUnwrapped ==
  /\ ip = "scan"
  /\ IF Key(y) = Low(a) THEN ip' = "found" /\ UNCHANGED y
     ELSE ip' = ip /\ y' = IF y = Byte * Byte - 1 THEN y ELSE y + 1
  /\ UNCHANGED <<entry, a, x, dbr, p, stack, dma, rom, called, started>>

\* One turn of the loop; iny wraps at the word.
Scan ==
  /\ ip = "scan"
  /\ IF Key(y) = Low(a) THEN ip' = "found" /\ UNCHANGED y
     ELSE ip' = ip /\ y' = (y + 1) % (Byte * Byte)
  /\ UNCHANGED <<entry, a, x, dbr, p, stack, dma, rom, called, started>>

\* Fixed channel: keep the slot on the stack and copy the three bytes.
Found ==
  /\ ip = "found" /\ entry # ByY /\ ip' = "unfix"
  /\ stack' = Pushed(y) \o stack
  /\ x' = y
  /\ dma' = [dma EXCEPT ![entry] = [@ EXCEPT !.lo = rom.low[y], !.hi = rom.high[y],
                                             !.bank = rom.bank[y]]]
  /\ a' = SetLow(a, rom.bank[y])
  /\ UNCHANGED <<entry, y, dbr, p, rom, called, started>>

\* Channel in Y: the three bytes wait on the stack while X goes back to the
\* channel, which lies just below them.
FoundStash ==
  /\ ip = "found" /\ entry = ByY /\ ip' = "restore channel"
  /\ stack' = <<rom.bank[y], rom.high[y], rom.low[y]>> \o stack
  /\ x' = y
  /\ a' = SetLow(a, rom.bank[y])
  /\ UNCHANGED <<entry, y, dbr, p, dma, rom, called, started>>

RestoreChannelShort ==
  /\ ip = "restore channel" /\ ip' = "write"
  /\ a' = At(stack, 3) /\ x' = At(stack, 3)
  /\ dbr' = 0
  /\ UNCHANGED <<entry, y, p, stack, dma, rom, called, started>>

\* rep #$20, lda $04,s, tax, sep #$20, and DBR back to bank zero.
RestoreChannel ==
  /\ ip = "restore channel" /\ ip' = "write"
  /\ a' = At(stack, 4) /\ x' = At(stack, 4)
  /\ dbr' = 0
  /\ UNCHANGED <<entry, y, p, stack, dma, rom, called, started>>

\* Three pulls, three stores: bank, high, low.  A store past the channels
\* changes none of them.
Write ==
  /\ ip = "write" /\ ip' = "unfix"
  /\ dma' = [c \in Channels |->
       IF c = x THEN [dma[c] EXCEPT !.bank = stack[1], !.hi = stack[2], !.lo = stack[3]]
       ELSE dma[c]]
  /\ a' = SetLow(a, stack[3])
  /\ stack' = Drop(stack, 3)
  /\ UNCHANGED <<entry, x, y, dbr, p, rom, called, started>>

UnfixZero ==
  /\ ip = "unfix" /\ ip' = "restore"
  /\ dma' = [dma EXCEPT ![0].fixed = FALSE]
  /\ a' = SetLow(a, dma[0].mode)
  /\ UNCHANGED <<entry, x, y, dbr, p, stack, rom, called, started>>

\* Bit 3 of DMAP is cleared, so that the address walks.
Unfix ==
  /\ ip = "unfix" /\ ip' = "restore"
  /\ dma' = [c \in Channels |-> IF c = Channel THEN [dma[c] EXCEPT !.fixed = FALSE]
                                               ELSE dma[c]]
  /\ a' = SetLow(a, IF Channel \in Channels THEN dma[Channel].mode ELSE 0)
  /\ UNCHANGED <<entry, x, y, dbr, p, stack, rom, called, started>>

\* What the pulls of the exit take when n bytes are discarded first.
Pulls(n) ==
  LET s == Drop(stack, n) IN
  /\ y' = At(s, 1) /\ x' = At(s, 3) /\ a' = At(s, 5)
  /\ dbr' = s[7] /\ p' = Decoded(s[8])
  /\ stack' = Drop(s, 8)

\* The slot or the parked channel is dropped, then everything comes back.
Restore ==
  /\ ip = "restore" /\ ip' = "return"
  /\ Pulls(2)
  /\ UNCHANGED <<entry, dma, rom, called, started>>

\* rtl, the surviving dummy access of the hook, which changes nothing more
\* than the original did, and the caller's "sta $420b".
Return ==
  /\ ip = "return"
  /\ ip' = IF SubSeq(stack, 1, 3) = <<3, 2, 1>> THEN "caller" ELSE "lost"
  /\ stack' = Drop(stack, 3)
  /\ started' = <<called.channel, dma[called.channel]>>
  /\ UNCHANGED <<entry, a, x, y, dbr, p, dma, rom, called>>

Run == \/ Save \/ Source \/ SourceBank \/ Scan \/ Found \/ FoundStash
       \/ RestoreChannel \/ Write \/ Unfix \/ Restore \/ Return

-----------------------------------------------------------------------------
\* "A, X, Y, DBR, DP and all flags restored exactly": at the return the
\* registers are the caller's and the stack is as jsl left it.  "Clobbers: the
\* DMA channel's $4302-$4304 and bit 3 of its $4300. Nothing else": at no step
\* is another channel, or the rest of the mode, anything but the caller's.
CallerRestored ==
  /\ ip = "return" => Registers = called.regs
  /\ ip # "caller" => \A c \in Channels :
       /\ c # called.channel => dma[c] = called.dma[c]
       /\ dma[c].mode = called.dma[c].mode
=============================================================================
