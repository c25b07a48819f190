------------------------------- MODULE ByteChannel -------------------------------
(***************************************************************************)
(* What the driver promises of either direction: a first-in first-out      *)
(* channel with room for Capacity bytes.  The reader is given positions 1, *)
(* 2, 3 ... of the stream, none of them lost, doubled or before it was put *)
(* in, and the writer is never let more than Capacity bytes ahead.         *)
(***************************************************************************)
EXTENDS Naturals, Sequences

CONSTANT Capacity

VARIABLES in, out      \* bytes put in; the bytes taken out

Init == in = 0 /\ out = <<>>

\* A call of the writer puts some bytes in.
Put == /\ \E n \in 1..Capacity : in' = in + n
       /\ in' - Len(out) <= Capacity
       /\ UNCHANGED out

\* A call of the reader takes some bytes out.
Get == /\ \E n \in 1..(in - Len(out)) :
              out' = out \o [i \in 1..n |-> Len(out) + i]
       /\ UNCHANGED in

Spec == Init /\ [][Put \/ Get]_<<in, out>>
=============================================================================
