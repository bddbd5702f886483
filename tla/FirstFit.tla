------------------------------ MODULE FirstFit ------------------------------
(***************************************************************************)
(* allocate() of rombuild.py: every stream goes at the cursor of the first *)
(* free region with room for it, and that cursor moves past it.            *)
(***************************************************************************)
EXTENDS FreeSpace

VARIABLES
  cursor,    \* the next unused address of each free region
  queue,     \* the [key, size] requests still to place
  at         \* what is placed: a set of [key, bank, addr, size]

fitVars == <<regions, free, cursor, queue, at>>

Room(n, size) == free[n].end - cursor[n] >= size

\* The region the inner loop stops at.
FirstWithRoom(n, size) ==
  /\ n \in DOMAIN free /\ Room(n, size)
  /\ \A m \in 1 .. n - 1 : ~Room(m, size)

TakeShort(n) ==
  /\ queue # <<>> /\ FirstWithRoom(n, Head(queue).size)
  /\ at' = at \cup {[key |-> Head(queue).key, bank |-> free[n].bank,
                     addr |-> cursor[n], size |-> Head(queue).size]}
  /\ cursor' = [cursor EXCEPT ![n] = @ + Head(queue).size - 1]
  /\ queue' = Tail(queue)
  /\ UNCHANGED <<regions, free>>

\* The request at the head of the list goes into region n.
Take(n) ==
  /\ queue # <<>> /\ FirstWithRoom(n, Head(queue).size)
  /\ at' = at \cup {[key |-> Head(queue).key, bank |-> free[n].bank,
                     addr |-> cursor[n], size |-> Head(queue).size]}
  /\ cursor' = [cursor EXCEPT ![n] = @ + Head(queue).size]
  /\ queue' = Tail(queue)
  /\ UNCHANGED <<regions, free>>

\* The loop over the regions ran to its end: AllocationError.
NoRoom == queue # <<>> /\ \A n \in DOMAIN free : ~Room(n, Head(queue).size)

-----------------------------------------------------------------------------
Apart(b1, s1, e1, b2, s2, e2) == b1 # b2 \/ e1 <= s2 \/ e2 <= s1

\* No two streams share a byte of the cartridge, and none leaves the region,
\* and so the bank, it was given.
StreamsApart ==
  /\ \A p, q \in at :
       p.key # q.key => Apart(p.bank, p.addr, p.addr + p.size, q.bank, q.addr, q.addr + q.size)
  /\ \A p \in at : \E n \in DOMAIN free :
       /\ free[n].bank = p.bank /\ free[n].start <= p.addr
       /\ p.addr + p.size <= free[n].end
=============================================================================
