-------------------------------- MODULE Deadlines --------------------------------
(***************************************************************************)
(* What the alarms promise, with no ring, no counter that wraps and no     *)
(* flag: each started alarm has a number of ticks to go.  A tick takes one *)
(* off, calls back those with none left, in some order and each once, and  *)
(* ends when they have been called.  A callback may start and stop alarms, *)
(* its own included, and says when it is to be called again.               *)
(***************************************************************************)
EXTENDS Naturals

CONSTANTS Alarm,
          Longest    \* the longest delay that a start or a callback asks for

VARIABLES due,       \* the ticks to go, of the alarms that are started
          ticking,   \* whether a tick is in progress
          calling    \* the alarm whose callback runs, if any

Started == DOMAIN due
Asking  == ticking => calling # {}       \* program or callback may start and stop

Init == due = [a \in {} |-> 0] /\ ticking = FALSE /\ calling = {}

With(a, n)  == [b \in Started \cup {a} |-> IF b = a THEN n ELSE due[b]]
Without(a)  == [b \in Started \ {a} |-> due[b]]

Start(a) == /\ Asking /\ a \notin Started
            /\ \E n \in 0..Longest : due' = With(a, n + 1)
            /\ UNCHANGED <<ticking, calling>>

Stop(a) == /\ Asking /\ a \in Started
           /\ due' = Without(a)
           /\ UNCHANGED <<ticking, calling>>

Tick == /\ ~ticking /\ ticking' = TRUE
        /\ due' = [a \in Started |-> due[a] - 1]
        /\ UNCHANGED calling

Call(a) == /\ ticking /\ calling = {}
           /\ a \in Started /\ due[a] = 0
           /\ calling' = {a}
           /\ UNCHANGED <<due, ticking>>

\* The callback of a has returned: with no further call, with one some ticks
\* ahead, or having stopped its alarm itself.
Return(a) == /\ calling = {a} /\ calling' = {}
             /\ \/ due' = Without(a)
                \/ a \in Started /\ \E n \in 1..Longest : due' = With(a, n)
             /\ UNCHANGED ticking

EndTick == /\ ticking /\ calling = {}
           /\ \A a \in Started : due[a] > 0
           /\ ticking' = FALSE
           /\ UNCHANGED <<due, calling>>

Next == \/ Tick \/ EndTick
        \/ \E a \in Alarm : Start(a) \/ Stop(a) \/ Call(a) \/ Return(a)

Spec == Init /\ [][Next]_<<due, ticking, calling>>
=============================================================================
