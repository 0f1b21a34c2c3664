----------------------------- MODULE ByteStream -----------------------------
(***************************************************************************)
(* What either direction of a buffered connection promises: bytes go in at *)
(* one end and come out at the other in the same order, each of them once. *)
(***************************************************************************)
EXTENDS Naturals, Sequences

VARIABLES
  line,  \* the bytes that are inside
  in,    \* the bytes the last step put in
  out    \* the bytes the last step took out

vars == <<line, in, out>>

\* What is taken out is the front of what was inside and what comes in.
Move ==
  LET all == line \o in'
  IN  \E k \in 0..Len(all) : /\ out' = SubSeq(all, 1, k)
                             /\ line' = SubSeq(all, k + 1, Len(all))

Init == line = <<>> /\ in = <<>> /\ out = <<>>

Spec == Init /\ [][Move]_vars
=============================================================================
