---------------------------------- MODULE Sums ----------------------------------
(* Sums of the values of a function on 1..n, and how often an element is in *)
(* a bag: the counts of terms in the registers of the pipeline.             *)
EXTENDS Naturals

SumTo(g, n) ==
    LET s[i \in Nat] == IF i = 0 THEN 0 ELSE s[i - 1] + g[i] IN s[n]

CopiesOf(t, b) == IF t \in DOMAIN b THEN b[t] ELSE 0
=============================================================================
