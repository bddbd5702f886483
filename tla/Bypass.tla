------------------------------ MODULE Bypass ------------------------------
(***************************************************************************)
(* The tables a build makes and the routine that reads them, together: the *)
(* builder of KeyTables runs to its end, then the console translates the   *)
(* transfers of the listed streams.                                        *)
(***************************************************************************)
EXTENDS Translate

CONSTANTS
  WindowBase, MaxRepairs, Inputs,     \* as in KeyTables
  Callers,                            \* registers a caller may have
  Modes                               \* DMAP bytes, less bit 3

\* A stream's bank fits the byte the key table keeps, a register holds no
\* negative number, and the entry point that takes its channel in Y is no
\* channel.
ASSUME BypassAssumption ==
  /\ Byte \in Nat \ {0, 1} /\ WindowBase \in Nat \ {0} /\ MaxRepairs \in Nat
  /\ Inputs \subseteq Seq([source : Nat, dest : Nat])
  /\ \A list \in Inputs : \A i \in DOMAIN list :
       WindowBase + (list[i].source \div (Byte * Byte)) < Byte
  /\ Channels \subseteq Nat /\ ByY \notin Channels
  /\ Callers \subseteq [a : Nat, x : Nat, y : Nat, dbr : Nat, p : Flags]
  /\ Modes \subseteq Nat /\ KeyBank \in Nat

VARIABLES pc, pairs, todo, table, placed, rounds

buildVars == <<pc, pairs, todo, table, placed, rounds>>
vars == <<pc, pairs, todo, table, placed, rounds, rom,
          ip, entry, a, x, y, dbr, p, stack, dma, called, started>>

Tables == INSTANCE KeyTables

Idle == [fixed |-> FALSE, mode |-> 0, lo |-> 0, hi |-> 0, bank |-> 0]

Init ==
  /\ Tables!Init
  /\ \E r \in Callers :
       /\ a = r.a /\ x = r.x /\ y = r.y /\ dbr = r.dbr /\ p = r.p
  /\ ip = "caller" /\ entry = ByY /\ stack = <<>> /\ started = <<>>
  /\ dma = [c \in Channels |-> Idle]
  /\ called = [regs |-> Registers, dma |-> dma, channel |-> 0]

Build == Tables!Next /\ UNCHANGED cpuVars

\* The engine transfers stream i.  One transfer per behaviour is the bound.
Transfer(i, e, c, mode) ==
  /\ pc = "built" /\ started = <<>>
  /\ Call(e, c, Low(Tables!AddrOf(i)), High(Tables!AddrOf(i)), Tables!BankOf(i), mode)
  /\ UNCHANGED buildVars

Next ==
  \/ Build
  \/ \E i \in DOMAIN pairs, e \in Channels \cup {ByY}, c \in Channels, m \in Modes :
       Transfer(i, e, c, m)
  \/ Run /\ UNCHANGED buildVars

Spec == Init /\ [][Next]_vars
LiveSpec == Spec /\ WF_vars(Build) /\ WF_vars(Run /\ UNCHANGED buildVars)

\* The address a channel reads from.
dma_source(channel) == channel.lo + channel.hi * Byte + channel.bank * Byte * Byte

\* A failure of walk() for stream i: the wrong destination, or the right one
\* with the fixed-address bit still set.
walk(i, channel) == dma_source(channel) # pairs[i].dest \/ channel.fixed

-----------------------------------------------------------------------------
\* Whatever entry point a hook uses, the transfer it starts reads the
\* decompressed copy of exactly that stream, with a walking address: walk()
\* counts no failure, for any channel and not only for the one it runs.
TransferCorrect ==
  started # <<>> =>
    LET want == called.dma[called.channel]
        got == started[2]
    IN  \E i \in DOMAIN pairs :
          /\ Tables!BankOf(i) = want.bank
          /\ Tables!AddrOf(i) = want.lo + want.hi * Byte
          /\ ~walk(i, got) /\ got.mode = want.mode

\* The unbounded scan ends for every stream of an accepted table, also when
\* its slot lies past the wrap of the index.
ScanEnds == ip = "save" ~> ip = "caller"
=============================================================================
