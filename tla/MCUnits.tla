-------------------------------- MODULE MCUnits --------------------------------
(* The small units in the instance TLC checks: words of five bits; a cache   *)
(* of two lines of four bytes and five lines of memory; a second of twelve   *)
(* microseconds and four ticks, whose product passes the word, 32, at tick   *)
(* 11; FIFOs of two bytes; and the cores and cycles of the repository's two  *)
(* components.                                                               *)
EXTENDS Units

MCLengths == 3..30

\* Three turns in a microsecond and big loops of 31: up to six of them, and
\* every rest, none included.
MCTimes == 0..63

\* The component of CUSTOM_TOP.v and that of CORDIC_Top.v.
MCComponents == {{"sub", "mult"}, {"cordic"}}
MCCycles     == [c \in MCComponents |-> IF "cordic" \in c THEN 22 ELSE 7]
MCStages     == [sub |-> 14, mult |-> 5, cordic |-> 21]
MCWiped      == {"cordic"}
=============================================================================
