----------------------------- MODULE MCBypass -----------------------------
(* Bytes of four values, banks of sixteen slots. *)
EXTENDS Bypass

Streams(sources) ==
  [i \in DOMAIN sources |-> [source |-> sources[i], dest |-> 16 + 9 * i]]

\* One stream; two of a bank; a shared address; a probe past the wrap, alone
\* and with a stream at its end; lists the repair rounds give up on; a pair
\* of duplicates.
SmallInputs ==
  {Streams(s) : s \in {<<0>>, <<5, 14>>, <<7, 23>>, <<15, 31>>, <<31, 15, 16>>,
                       <<3, 19, 4>>, <<19, 3, 20>>, <<2, 2>>}}

SmallCallers ==
  {r \in [a : {1, 14}, x : {2, 11}, y : {0, 5}, dbr : {1}, p : Flags] :
     r.p.x8 => r.x < Byte /\ r.y < Byte}
=============================================================================
