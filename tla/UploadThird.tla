----------------------------- MODULE UploadThird -----------------------------
(***************************************************************************)
(* The upload with its subroutine: before N goes out on the ports, the     *)
(* 65816 rounds the block's length up and divides it by three in cpu_third *)
(* while the driver waits for the counter.                                 *)
(***************************************************************************)
EXTENDS SpcUpload, CpuThird

\* A block's length rounds up within the word that holds it.
ASSUME RoundAssumption ==
  \A s \in Sessions : \A k \in 1 .. Len(s.list) : s.list[k].len + 2 < R

allVars == <<vars, thirdVars>>

UploadInit == Init /\ ThirdInit

CallThirdOneShort ==
  /\ cpc = "count" /\ Call((Head(list).len + 1) % R)
  /\ UNCHANGED vars

\* Two increments round the length up; a length near the word's end wraps.
CallThird ==
  /\ cpc = "count" /\ Call((Head(list).len + 2) % R)
  /\ UNCHANGED vars

CpuUpload ==
  \/ CallThird
  \/ Divide /\ UNCHANGED vars
  \/ Return /\ CpuOpenCount
  \/ cpc # "count" /\ Cpu /\ UNCHANGED thirdVars

UploadNext == CpuUpload \/ (Spc /\ UNCHANGED thirdVars)

\* Each processor keeps executing; whether the game asks is its own business.
UploadSpec ==
  /\ UploadInit /\ [][UploadNext]_allVars
  /\ WF_allVars(CpuUpload /\ cpc # "idle")
  /\ WF_allVars(Spc /\ UNCHANGED thirdVars)

\* What the routine hands back is the number of handshakes that covers the
\* block, and no more than that, while the driver stays where it waits
\* (cpu_send_triples, the jsr to cpu_third).
CountIsThird ==
  tpc # "idle" =>
    /\ spc = "blockStart"
    /\ tpc = "done" => /\ 3 * ra >= Head(list).len
                       /\ 3 * ra < Head(list).len + 3
                       /\ ra = Handshakes(Head(list).len)

-----------------------------------------------------------------------------
Copy == INSTANCE BlockCopy WITH
  limit <- dst + Total(list),
  Uploads <- {[base |-> s.base, start |-> s.start, total |-> Total(s.list)] : s \in Sessions}

\* Every step of the two processors is a step of the block copy, or one it
\* does not see: the interleaved stores of the three streams, the echo that
\* precedes two of them and the rounding never show outside.
ImplementsCopy == Copy!Spec
=============================================================================
