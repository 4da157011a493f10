-------------------------------- MODULE Sums --------------------------------
(***************************************************************************)
(* Sums of sequences of naturals, and of the credit carried by a sequence  *)
(* of stream frames.  Total is written with a recursive function (and not  *)
(* with a RECURSIVE operator) so that its algebra can be proved.           *)
(***************************************************************************)
EXTENDS Naturals, Sequences

\* The partial sums of s: Partial(s)[i] = s[1] + ... + s[i].
Partial(s) ==
  LET sum[i \in 0..Len(s)] == IF i = 0 THEN 0 ELSE sum[i - 1] + s[i]
  IN  sum

Total(s) == Partial(s)[Len(s)]

\* The item and byte credit that the frames of q carry.
ItemsOf(q) == Total([i \in 1..Len(q) |-> q[i].items])
BytesOf(q) == Total([i \in 1..Len(q) |-> q[i].bytes])
=============================================================================
