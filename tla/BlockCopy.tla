------------------------------ MODULE BlockCopy ------------------------------
(***************************************************************************)
(* What a sample upload promises, with no processors and no latches: the   *)
(* bytes of a session arrive in sound memory, in any order, and a prefix   *)
(* of them is reported as delivered only when all of it is there.  Stores  *)
(* stay inside the part not yet delivered and at most two bytes beyond the *)
(* end, the spill of a block whose length three does not divide.           *)
(***************************************************************************)
EXTENDS Integers

CONSTANTS
  M,         \* bytes of sound memory
  Source,    \* the sample bank
  Uploads    \* the uploads that may be asked for: base, start and total

Spill == 2

VARIABLES
  base,      \* where the session's data goes
  start,     \* where it comes from
  limit,     \* where it ends
  acked,     \* where the delivered prefix ends
  mem        \* sound memory

vars == <<base, start, limit, acked, mem>>

Init ==
  /\ base = 0 /\ start = 0 /\ limit = 0 /\ acked = 0
  /\ mem = [n \in 0 .. M - 1 |-> 0]

Wanted(n) == Source[(start + n - base) % M]

Open(u) ==
  /\ acked = limit
  /\ base' = u.base /\ acked' = u.base /\ start' = u.start
  /\ limit' = u.base + u.total
  /\ UNCHANGED mem

Store(n) ==
  /\ mem' = [mem EXCEPT ![n % M] = Wanted(n)]
  /\ UNCHANGED <<base, start, limit, acked>>

Deliver(n) ==
  /\ \A k \in acked .. n - 1 : mem[k % M] = Wanted(k)
  /\ acked' = n
  /\ UNCHANGED <<base, start, limit, mem>>

Next ==
  \/ \E u \in Uploads : Open(u)
  \/ \E n \in acked .. limit + Spill - 1 : Store(n)
  \/ \E n \in acked .. limit : Deliver(n)

Spec == Init /\ [][Next]_vars
=============================================================================
