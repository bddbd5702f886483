------------------------------ MODULE CpuThird ------------------------------
(***************************************************************************)
(* cpu_third of asm/spc-fast-upload.asm: a 16-bit division by three made   *)
(* of shifts.  Two words of the private stack hold the value and the       *)
(* running quotient; every sum and difference wraps at the word.           *)
(***************************************************************************)
EXTENDS Integers

CONSTANTS
  R,        \* values of one word, 65536 on the console
  Terms     \* shift terms after the first, 6 in the code

ASSUME WordAssumption == R \in Nat /\ R > 3 /\ Terms \in Nat \ {0}

VARIABLES
  tpc, ra, rx,    \* the place in the routine, A and X
  value,          \* $03,s: what is divided
  quotient        \* $01,s: the running quotient

thirdVars == <<tpc, ra, rx, value, quotient>>

Words == 0 .. R - 1

ThirdInit == tpc = "idle" /\ ra = 0 /\ rx = 0 /\ value = 0 /\ quotient = 0

\* The caller's jsr, with what it divides in A, and the rts.
Call(v) ==
  /\ tpc = "idle" /\ tpc' = "entry"
  /\ ra' = v
  /\ UNCHANGED <<rx, value, quotient>>

Return ==
  /\ tpc = "done" /\ tpc' = "idle"
  /\ UNCHANGED <<ra, rx, value, quotient>>

\* The value is parked and the first term, a quarter of it, starts the sum.
Entry ==
  /\ tpc = "entry" /\ tpc' = "term"
  /\ value' = ra
  /\ ra' = ra \div 4 /\ quotient' = ra \div 4
  /\ rx' = Terms

\* Each term is a quarter of the one before.
Term ==
  /\ tpc = "term"
  /\ ra' = ra \div 4
  /\ quotient' = (quotient + ra \div 4) % R
  /\ rx' = rx - 1
  /\ tpc' = IF rx = 1 THEN "correct" ELSE "term"
  /\ UNCHANGED value

\* What three times the quotient leaves behind, as three subtractions leave it.
Remainder == (value - 3 * quotient) % R

LeavesEnough == Remainder > 3
TooSmall == Remainder >= 3

\* One more, while what is left is a three or more.
Correct ==
  /\ tpc = "correct" /\ TooSmall
  /\ quotient' = (quotient + 1) % R
  /\ ra' = quotient'
  /\ UNCHANGED <<tpc, rx, value>>

\* The quotient is pulled into A and the value dropped into X.
Exact ==
  /\ tpc = "correct" /\ ~TooSmall
  /\ tpc' = "done"
  /\ ra' = quotient /\ rx' = value
  /\ UNCHANGED <<value, quotient>>

Divide == Entry \/ Term \/ Correct \/ Exact

ThirdNext == (\E v \in Words : Call(v)) \/ Divide \/ Return

ThirdSpec == ThirdInit /\ [][ThirdNext]_thirdVars

-----------------------------------------------------------------------------
\* Registers are words and the term counter counts down from Terms.
ThirdTypeOK ==
  /\ tpc \in {"idle", "entry", "term", "correct", "done"}
  /\ ra \in Words /\ rx \in Nat
  /\ value \in Words /\ quotient \in Words
  /\ tpc = "term" => rx >= 1

\* The routine returns the exact quotient whatever the value: the shifted
\* terms never overshoot and the correction stops exactly there.
Quotient == tpc = "done" => 3 * ra <= value /\ value < 3 * ra + 3

\* While terms are summed, three times the quotient and one more term still
\* fit under the value, so no sum wraps and no difference goes negative.
NoOvershoot ==
  /\ tpc = "term" => 3 * quotient + ra <= value
  /\ tpc = "correct" => 3 * quotient <= value
=============================================================================
