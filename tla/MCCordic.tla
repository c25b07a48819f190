-------------------------------- MODULE MCCordic --------------------------------
(* The vectors of software/CORDIC/hello_world.c, a pair <<num, frac>> for    *)
(* the element num / 2^frac.                                                *)
EXTENDS Cordic

\* Test case 1: step 5, 52 elements.  Test case 2: step 1/8, 2041 elements.
\* Test case 3, step 1/1024: every 51st of its 261121 elements.
SmallSteps == {<<5 * k, 0>> : k \in 0..51}
                \cup {<<k, 3>> : k \in 0..2040}
                \cup {<<51 * k, 10>> : k \in 0..5120}

\* The range the theorem on the stages is stated for.
ASSUME SmallStepsInRange ==
    \A p \in SmallSteps : p[1] < 2^24 /\ p[2] \in 0..14 /\ p[1] <= 256 * 2^p[2]

\* Test case 5: step 5, 2041 elements.
LongRange == {<<5 * k, 0>> : k \in 0..2040}
=============================================================================
