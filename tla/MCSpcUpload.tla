----------------------------- MODULE MCSpcUpload -----------------------------
(* A byte has eight values, so indices wrap and change sign within a block. *)
EXTENDS UploadThird

MCSource == [n \in Addr |-> (3 * n + n \div W) % W]

B(k, n) == [kind |-> k, len |-> n]

\* One handshake, lengths that do not divide by three, one index wrap exactly
\* (24 bytes in triples) and past it, the same for the stock loop, and lists
\* that mix the two, so that a rounded block is followed by another.
MCLists ==
  {<<>>, <<B(3, 1)>>, <<B(3, 24)>>, <<B(3, 28)>>, <<B(3, 22)>>, <<B(1, 9)>>, <<B(1, 17)>>, <<B(1, 3), B(1, 2)>>,
   <<B(3, 5), B(1, 4)>>, <<B(1, 8), B(3, 5)>>, <<B(3, 7), B(3, 2), B(3, 3)>>}

MCSessions == {[base |-> 6, start |-> 5, list |-> l] : l \in MCLists}
=============================================================================
