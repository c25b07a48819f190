-------------------------------- MODULE Alarms --------------------------------
(***************************************************************************)
(* The system tick and the alarms of the HAL: alt_tick() walks a ring of   *)
(* alarms from the timer interrupt, and calls back those that are due;     *)
(* programs and callbacks start and stop alarms.  The tick counter wraps   *)
(* at W (2^32 in the code), and a flag of each alarm says that its time is *)
(* of the counter's next round.                                            *)
(*                                                                         *)
(* The timer's handler runs with interrupts disabled, and so does the body *)
(* of alt_alarm_start() and of alt_alarm_stop(): the program takes no step *)
(* between two steps of a tick, but the callbacks do.                      *)
(***************************************************************************)
EXTENDS Integers

CONSTANTS
    W,           \* the number of values of _alt_nticks
    ALARMS,      \* the alarms the program has
    Head, Nil,   \* &alt_alarm_list, and the link of an alarm never started
    MaxDelay,    \* bound: the longest delay a program asks of alt_alarm_start()
    StopsNext    \* whether a callback stops the alarm the tick would visit next

ASSUME AlarmsAssumption == /\ W \in Nat \ {0, 1}
                           /\ MaxDelay \in 0..(W - 1)
                           /\ Head \notin ALARMS /\ Nil \notin ALARMS
                           /\ Nil # Head
                           /\ StopsNext \in BOOLEAN

VARIABLES
    tick_rate,   \* whether _alt_tick_rate has been set
    nticks,      \* _alt_nticks
    next, prev,  \* the links of the alarms and of the head
    time, rollover,
    pc,          \* where the tick is: "main" is outside, "call" in a callback
    alarm, saved,\* its locals alarm and next
    left,        \* history: the ticks until the alarm is due
    behind       \* history: the registered alarms that follow in the ring

vars == <<tick_rate, nticks, next, prev, time, rollover, pc, alarm, saved,
          left, behind>>

Nodes      == ALARMS \cup {Head}
Registered == behind[Head]

Init == /\ tick_rate = FALSE /\ nticks = 0
        /\ next = [x \in Nodes |-> IF x = Head THEN Head ELSE Nil]
        /\ prev = [x \in Nodes |-> IF x = Head THEN Head ELSE Nil]
        /\ time = [a \in ALARMS |-> 0] /\ rollover = [a \in ALARMS |-> FALSE]
        /\ pc = "main" /\ alarm = Head /\ saved = Head
        /\ left = [a \in ALARMS |-> 0] /\ behind = [x \in Nodes |-> {}]

\* alt_llist_insert() at the head, and alt_llist_remove(): a removed entry
\* points to itself.  The last write wins where two entries coincide.
Insert(a) ==
    /\ prev' = [x \in Nodes |-> IF x = next[Head] THEN a
                                ELSE IF x = a THEN Head ELSE prev[x]]
    /\ next' = [x \in Nodes |-> IF x = Head THEN a
                                ELSE IF x = a THEN next[Head] ELSE next[x]]
    /\ behind' = [x \in Nodes |-> IF x = Head THEN behind[Head] \cup {a}
                                  ELSE IF x = a THEN behind[Head] ELSE behind[x]]

HalfRemove(a) ==                                                    \* mutant
    /\ prev' = [prev EXCEPT ![a] = a]
    /\ next' = [x \in Nodes |-> IF x = a THEN a
                                ELSE IF x = prev[a] THEN next[a] ELSE next[x]]
    /\ behind' = [x \in Nodes |-> IF x = a THEN {} ELSE behind[x] \ {a}]
Remove(a) ==
    /\ prev' = [x \in Nodes |-> IF x = a THEN a
                                ELSE IF x = next[a] THEN prev[a] ELSE prev[x]]
    /\ next' = [x \in Nodes |-> IF x = a THEN a
                                ELSE IF x = prev[a] THEN next[a] ELSE next[x]]
    /\ behind' = [x \in Nodes |-> IF x = a THEN {} ELSE behind[x] \ {a}]

Sum32(x, y)   == (x + y) % W

\* altera_avalon_timer_sc_init() sets the rate before it enables the interrupt.
SysclkInit == /\ ~tick_rate
              /\ tick_rate' = TRUE
              /\ UNCHANGED <<nticks, next, prev, time, rollover, pc, alarm,
                             saved, left, behind>>

WrapsAtZero(t) == FALSE                                             \* mutant
Wraps(t)       == t < nticks

\* alt_alarm_start() of an alarm that is not registered; without a clock it
\* returns -ENOTSUP, and without an alarm -EINVAL, and does nothing.
Start(a, n) ==
    LET t == Sum32(n, nticks + 1) IN
    /\ tick_rate /\ a \notin Registered
    /\ time' = [time EXCEPT ![a] = t]
    /\ rollover' = [rollover EXCEPT ![a] = Wraps(t)]
    /\ left' = [left EXCEPT ![a] = n + 1]
    /\ Insert(a)
    /\ UNCHANGED <<tick_rate, nticks, pc, alarm, saved>>

\* alt_alarm_stop() of an alarm that was started, registered still or not.
Stop(a) == /\ next[a] # Nil
           /\ Remove(a)
           /\ UNCHANGED <<tick_rate, nticks, time, rollover, pc, alarm, saved,
                          left>>

Program == /\ pc = "main"
           /\ \E a \in ALARMS : Stop(a) \/ \E n \in 0..MaxDelay : Start(a, n)

\* The timer's interrupt: alt_tick() counts and starts to walk the ring.
TickBegin ==
    /\ pc = "main" /\ tick_rate
    /\ nticks' = Sum32(nticks, 1)
    /\ left' = [a \in ALARMS |-> IF a \in Registered THEN left[a] - 1 ELSE 0]
    /\ alarm' = next[Head]
    /\ pc' = "walk"
    /\ UNCHANGED <<tick_rate, next, prev, time, rollover, saved, behind>>

StillRolls(a)  == rollover[a] /\ nticks # 0

Due(a) == time[a] <= nticks /\ ~StillRolls(a)

Visit == /\ pc = "walk" /\ alarm # Head
         /\ saved' = next[alarm]
         /\ rollover' = [rollover EXCEPT ![alarm] = StillRolls(alarm)]
         /\ IF Due(alarm) THEN pc' = "call" /\ alarm' = alarm
                          ELSE pc' = "walk" /\ alarm' = next[alarm]
         /\ UNCHANGED <<tick_rate, nticks, next, prev, time, left, behind>>

\* What a callback may do: stop its own alarm or others, start others.
CallbackStops == /\ pc = "call"
                 /\ \E b \in ALARMS : Stop(b) /\ (b = saved => StopsNext)

CallbackStarts == /\ pc = "call"
                  /\ \E b \in ALARMS \ {alarm}, n \in 0..MaxDelay : Start(b, n)

FollowLink == next[alarm]                                           \* mutant
Successor  == saved

\* The callback returns 0, or the ticks until its next call.
Unregister == /\ Remove(alarm)
              /\ UNCHANGED <<time, rollover, left>>

Rearm(n) ==
    LET t == Sum32(time[alarm], n) IN
    /\ time' = [time EXCEPT ![alarm] = t]
    /\ rollover' = [rollover EXCEPT ![alarm] = @ \/ Wraps(t)]
    /\ left' = [left EXCEPT ![alarm] = @ + n]
    /\ UNCHANGED <<next, prev, behind>>

CallbackReturns ==
    /\ pc = "call"
    /\ Unregister \/ \E n \in 1..(W - 1) : Rearm(n)
    /\ alarm' = Successor
    /\ pc' = "walk"
    /\ UNCHANGED <<tick_rate, nticks, saved>>

TickEnd == /\ pc = "walk" /\ alarm = Head
           /\ pc' = "main"
           /\ UNCHANGED <<tick_rate, nticks, next, prev, time, rollover, alarm,
                          saved, left, behind>>

TickStep == Visit \/ CallbackReturns \/ TickEnd

Next == \/ SysclkInit \/ Program
        \/ TickBegin \/ TickStep \/ CallbackStops \/ CallbackStarts

Spec == Init /\ [][Next]_vars /\ WF_vars(TickStep)

-----------------------------------------------------------------------------

\* The alarms from x on, in the order of the walk.
From(x) == IF x = Head THEN {} ELSE {x} \cup behind[x]

\* The links hold exactly the registered alarms, the latest first, whatever
\* starts and stops a tick's callbacks make while it walks them.
RingOK == \A x \in Registered \cup {Head} :
             /\ next[x] \in Registered \cup {Head} /\ prev[next[x]] = x
             /\ behind[x] = From(next[x])
             /\ next[x] # Head => next[x] \notin behind[next[x]]

\* No alarm is called before it is due, though its time may be of another
\* round of the counter.
NeverEarly == pc = "call" /\ alarm \in Registered => left[alarm] <= 0

\* No alarm is missed: after a tick none that is registered is due.
NeverLate == pc = "main" => \A a \in Registered : left[a] > 0

\* An alarm that has been stopped is not called back.
StoppedIsSilent == pc = "walk" /\ alarm # Head /\ Due(alarm)
                      => alarm \in Registered

\* Together: an alarm is called back in its tick and in no other, whatever
\* round of the counter its time is of and whatever callbacks do to the list.
CalledInItsTick == NeverEarly /\ NeverLate /\ StoppedIsSilent

Promise == INSTANCE Deadlines WITH
    Alarm <- ALARMS, Longest <- W - 1,
    due <- [a \in Registered |-> left[a]], ticking <- pc # "main",
    calling <- IF pc = "call" THEN {alarm} ELSE {}

\* With its ring, its counter and its flags the list behaves like a set of
\* deadlines: a tick calls what is due, each alarm once, and leaves none out.
ImplementsDeadlines == Promise!Spec

\* A tick ends, so that interrupts are enabled again.
TickEnds == pc = "walk" ~> pc = "main"
=============================================================================
