----------------------------- MODULE Alarms_proofs -----------------------------
(***************************************************************************)
(* For every width of the tick counter and every set of alarms: the ring   *)
(* stays whole, and every alarm is called on its tick, never before and    *)
(* never after, if no delay is the longest one and no callback stops the   *)
(* alarm that the tick visits next.  Careful names the two conditions.     *)
(***************************************************************************)
EXTENDS Alarms, TLAPS

Careful == MaxDelay <= W - 2 /\ ~StopsNext

(***************************************************************************)
(* The ring: what RingOK needs to survive an insertion and a removal.      *)
(***************************************************************************)
InRing == Registered \cup {Head}

Ring == /\ RingOK
        /\ \A x \in InRing : prev[x] \in InRing /\ next[prev[x]] = x
        /\ \A x \in Nodes : behind[x] \subseteq Registered
        /\ \A a \in ALARMS \ Registered :
              behind[a] = {} /\ next[a] \in {a, Nil} /\ prev[a] = next[a]

LinksOK == /\ next \in [Nodes -> Nodes \cup {Nil}]
           /\ prev \in [Nodes -> Nodes \cup {Nil}]
           /\ behind \in [Nodes -> SUBSET ALARMS]

\* alt_llist_insert() puts an alarm in front of those there are.
LEMMA InsertRing ==
    ASSUME LinksOK, Ring, NEW a \in ALARMS, a \notin Registered, Insert(a)
    PROVE  /\ LinksOK' /\ Ring'
           /\ Registered' = Registered \cup {a}
           /\ \A x \in InRing : From(x)' = From(x)
<1> USE AlarmsAssumption
<1>1. a # Head /\ Head \in Nodes /\ a \in Nodes /\ Nil \notin Nodes
      BY DEF Nodes
<1>2. LinksOK'
      BY <1>1 DEF LinksOK, Insert, RingOK, Ring, InRing, Registered, Nodes
<1>3. Registered' = Registered \cup {a}
      BY <1>1 DEF Insert, Registered
<1>4. \A x \in Nodes : x # Head /\ x # a => behind'[x] = behind[x]
      BY DEF Insert
<1>5. behind'[a] = Registered /\ next'[a] = next[Head] /\ next'[Head] = a
      BY <1>1 DEF Insert, Registered
<1>6. \A x \in Nodes : x # Head /\ x # a => next'[x] = next[x]
      BY DEF Insert
<1>7. InRing \subseteq Nodes /\ InRing' = InRing \cup {a} /\ a \notin InRing
      BY <1>1, <1>3 DEF InRing, Nodes, Registered, LinksOK
<1>8. \A x \in InRing : From(x)' = From(x)
      BY <1>4, <1>7 DEF From
<1>9. RingOK'
  <2> SUFFICES ASSUME NEW x \in InRing'
               PROVE  /\ next'[x] \in InRing' /\ prev'[next'[x]] = x
                      /\ behind'[x] = From(next[x])'
                      /\ next'[x] # Head => next'[x] \notin behind'[next'[x]]
      BY DEF RingOK, InRing
  <2>1. CASE x = a
    <3>1. next'[x] = next[Head] /\ next[Head] \in InRing /\ next[Head] \in Nodes
          BY <1>5, <1>7, <2>1 DEF Ring, RingOK, InRing
    <3>2. prev'[next'[x]] = x
      <4>1. \A y \in Nodes : y = next[Head] => prev'[y] = a
            BY DEF Insert
      <4> QED BY <4>1, <3>1, <2>1
    <3>3. behind'[x] = From(next[x])'
      <4>1. behind'[x] = From(next[Head])
            BY <2>1, <1>5 DEF Ring, RingOK, InRing, Registered
      <4>2. next[Head] # Head => behind'[next[Head]] = behind[next[Head]]
            BY <3>1, <1>4, <1>7
      <4> QED BY <4>1, <4>2, <3>1 DEF From
    <3>4. next'[x] # Head => next'[x] \notin behind'[next'[x]]
          BY <3>1, <1>4, <1>7 DEF Ring, RingOK, InRing
    <3> QED BY <3>1, <3>2, <3>3, <3>4, <1>7
  <2>2. CASE x = Head
    <3>1. next'[x] = a /\ prev'[a] = Head
          BY <1>1, <1>5, <2>2, <1>7 DEF Insert, Ring, RingOK, InRing
    <3>2. behind'[x] = {a} \cup behind'[a]
          BY <1>3, <1>5, <2>2 DEF Registered
    <3> QED BY <3>1, <3>2, <1>1, <1>5, <1>7, <2>2 DEF From
  <2>3. CASE x # a /\ x # Head
    <3>1. x \in InRing /\ x \in Nodes /\ next'[x] = next[x]
          BY <1>6, <1>7, <2>3
    <3>2. next[x] \in InRing /\ next[x] # next[Head] /\ next[x] # a
          BY <3>1, <1>7, <2>3 DEF Ring, RingOK, InRing
    <3>3. prev'[next[x]] = x
          BY <3>1, <3>2, <1>7 DEF Insert, Ring, RingOK, InRing
    <3>4. behind'[x] = From(next[x])'
      <4>1. behind'[x] = behind[x] /\ behind[x] = From(next[x])
            BY <3>1, <1>4, <2>3 DEF Ring, RingOK, InRing
      <4>2. next[x] # Head => behind'[next[x]] = behind[next[x]]
            BY <3>2, <1>4, <1>7
      <4> QED BY <4>1, <4>2, <3>1 DEF From
    <3>5. next[x] # Head => next[x] \notin behind'[next[x]]
          BY <3>1, <3>2, <1>4, <1>7 DEF Ring, RingOK, InRing
    <3> QED BY <3>1, <3>2, <3>3, <3>4, <3>5, <1>7
  <2> QED BY <2>1, <2>2, <2>3
<1>10. \A x \in InRing' : prev'[x] \in InRing' /\ next'[prev'[x]] = x
  <2> SUFFICES ASSUME NEW x \in InRing'
               PROVE  prev'[x] \in InRing' /\ next'[prev'[x]] = x
      OBVIOUS
  <2>1. CASE x = a
        BY <2>1, <1>1, <1>5, <1>7 DEF Insert, InRing, Ring, RingOK
  <2>2. CASE x # a /\ x = next[Head]
        BY <2>2, <1>1, <1>5, <1>7 DEF Insert
  <2>3. CASE x # a /\ x # next[Head]
    <3>1. x \in InRing /\ prev'[x] = prev[x]
          BY <2>3, <1>7 DEF Insert
    <3>2. prev[x] \in InRing /\ next[prev[x]] = x /\ prev[x] # Head
          BY <3>1, <2>3 DEF Ring
    <3> QED BY <3>1, <3>2, <1>6, <1>7
  <2> QED BY <2>1, <2>2, <2>3
<1>11. \A x \in Nodes : behind'[x] \subseteq Registered'
       BY <1>3, <1>4, <1>5 DEF Ring, Registered
<1>12. \A b \in ALARMS \ Registered' :
          behind'[b] = {} /\ next'[b] \in {b, Nil} /\ prev'[b] = next'[b]
  <2> SUFFICES ASSUME NEW b \in ALARMS \ Registered'
               PROVE  behind'[b] = {} /\ next'[b] \in {b, Nil} /\ prev'[b] = next'[b]
      OBVIOUS
  <2>1. b \in Nodes /\ b # a /\ b # Head /\ b \notin Registered
        BY <1>3 DEF Nodes
  <2>2. b # next[Head]
        BY <2>1 DEF Ring, RingOK
  <2>3. prev'[b] = prev[b]
        BY <2>1, <2>2 DEF Insert
  <2> QED BY <2>1, <2>3, <1>4, <1>6 DEF Ring
<1> QED BY <1>2, <1>3, <1>8, <1>9, <1>10, <1>11, <1>12 DEF Ring

\* alt_llist_remove() takes one alarm out and leaves the order of the others.
LEMMA RemoveRing ==
    ASSUME LinksOK, Ring, NEW a \in ALARMS, next[a] # Nil, Remove(a)
    PROVE  /\ LinksOK' /\ Ring'
           /\ Registered' = Registered \ {a}
           /\ \A x \in InRing \ {a} : From(x)' = From(x) \ {a}
<1> USE AlarmsAssumption
<1>1. a # Head /\ Head \in Nodes /\ a \in Nodes /\ Nil \notin Nodes
      BY DEF Nodes
<1>2. LinksOK'
      BY <1>1 DEF LinksOK, Remove, Nodes
<1>3. Registered' = Registered \ {a}
      BY <1>1 DEF Remove, Registered
<1>4. \A x \in Nodes : behind'[x] = IF x = a THEN {} ELSE behind[x] \ {a}
      BY DEF Remove
<1>5. InRing \subseteq Nodes /\ InRing' = InRing \ {a}
      BY <1>1, <1>3 DEF InRing, Nodes, Registered, LinksOK
<1>6. \A x \in InRing \ {a} : From(x)' = From(x) \ {a}
      BY <1>4, <1>5 DEF From
<1>7. \A x \in Nodes : behind'[x] \subseteq behind[x]
      BY <1>4
<1>8. CASE a \in Registered
  <2>1. a \in InRing
        BY <1>8 DEF InRing
  <2>2. a \notin behind[a] /\ next[a] # a /\ prev[a] # a
    <3>1. prev[a] \in InRing /\ next[prev[a]] = a
          BY <2>1 DEF Ring
    <3>2. a \notin behind[a]
          BY <3>1, <1>1 DEF Ring, RingOK, InRing
    <3>3. behind[a] = From(next[a])
          BY <2>1 DEF Ring, RingOK, InRing
    <3>4. next[a] # a
          BY <3>2, <3>3, <1>1 DEF From
    <3> QED BY <3>1, <3>2, <3>4
  <2>3. next[a] \in InRing \ {a} /\ prev[a] \in InRing \ {a} /\ next[prev[a]] = a
        BY <2>1, <2>2 DEF Ring, RingOK, InRing
  <2>4. \A x \in InRing \ {a} : x # prev[a] <=> next[x] # a
        BY <2>3 DEF Ring, RingOK, InRing
  <2>5. \A x \in InRing \ {a} : x # next[a] <=> prev[x] # a
        BY <2>1, <2>3 DEF Ring, RingOK, InRing
  <2>6. \A x \in InRing \ {a} : next'[x] = IF x = prev[a] THEN next[a] ELSE next[x]
        BY <1>5 DEF Remove
  <2>7. \A x \in InRing \ {a} : prev'[x] = IF x = next[a] THEN prev[a] ELSE prev[x]
        BY <1>5 DEF Remove
  <2>8. RingOK'
    <3> SUFFICES ASSUME NEW x \in InRing \ {a}
                 PROVE  /\ next'[x] \in InRing' /\ prev'[next'[x]] = x
                        /\ behind'[x] = From(next[x])'
                        /\ next'[x] # Head => next'[x] \notin behind'[next'[x]]
        BY <1>5 DEF RingOK, InRing
    <3>1. CASE x = prev[a]
      <4>1. next'[x] = next[a]
            BY <3>1, <2>6
      <4>2. prev'[next[a]] = x
            BY <3>1, <2>3, <2>7
      <4>3. behind'[x] = From(next[x])'
        <5>1. behind[x] = {a} \cup behind[a]
              BY <3>1, <2>3, <1>1 DEF Ring, RingOK, InRing, From
        <5>2. behind[a] = From(next[a])
              BY <2>1 DEF Ring, RingOK, InRing
        <5>3. behind'[x] = behind[a]
              BY <5>1, <2>2, <1>4, <1>5
        <5>4. next[a] # Head => behind'[next[a]] = behind[next[a]]
          <6>1. next[a] # Head => a \notin behind[next[a]]
                BY <5>2, <2>2 DEF From
          <6>2. behind'[next[a]] = behind[next[a]] \ {a}
                BY <1>4, <1>5, <2>3
          <6> QED BY <6>1, <6>2
        <5> QED BY <5>2, <5>3, <5>4, <4>1 DEF From
      <4>4. next[a] # Head => next[a] \notin behind'[next[a]]
        <5>1. next[a] # Head => next[a] \notin behind[next[a]]
              BY <2>1 DEF Ring, RingOK, InRing
        <5>2. behind'[next[a]] \subseteq behind[next[a]]
              BY <1>7, <2>3, <1>5
        <5> QED BY <5>1, <5>2
      <4> QED BY <4>1, <4>2, <4>3, <4>4, <2>3, <1>5
    <3>2. CASE x # prev[a]
      <4>1. next'[x] = next[x] /\ next[x] \in InRing \ {a} /\ prev[next[x]] = x
            BY <3>2, <2>4, <2>6 DEF Ring, RingOK, InRing
      <4>2. next[x] # next[a]
            BY <4>1, <2>1 DEF Ring, RingOK, InRing
      <4>3. prev'[next[x]] = x
            BY <4>1, <4>2, <2>7
      <4>4. behind'[x] = From(next[x])'
        <5>1. behind'[x] = behind[x] \ {a} /\ behind[x] = From(next[x])
              BY <1>4, <1>5 DEF Ring, RingOK, InRing
        <5>2. next[x] # Head => behind'[next[x]] = behind[next[x]] \ {a}
              BY <4>1, <1>4, <1>5
        <5> QED BY <5>1, <5>2, <4>1 DEF From
      <4>5. next[x] # Head => next[x] \notin behind'[next[x]]
        <5>1. next[x] # Head => next[x] \notin behind[next[x]]
              BY DEF Ring, RingOK, InRing
        <5>2. behind'[next[x]] \subseteq behind[next[x]]
              BY <1>7, <4>1, <1>5
        <5> QED BY <5>1, <5>2
      <4> QED BY <4>1, <4>3, <4>4, <4>5, <1>5
    <3> QED BY <3>1, <3>2
  <2>9. \A x \in InRing' : prev'[x] \in InRing' /\ next'[prev'[x]] = x
    <3> SUFFICES ASSUME NEW x \in InRing \ {a}
                 PROVE  prev'[x] \in InRing \ {a} /\ next'[prev'[x]] = x
        BY <1>5
    <3>1. CASE x = next[a]
          BY <3>1, <2>3, <2>6, <2>7
    <3>2. CASE x # next[a]
      <4>1. prev'[x] = prev[x] /\ prev[x] \in InRing \ {a} /\ next[prev[x]] = x
            BY <3>2, <2>5, <2>7 DEF Ring
      <4>2. prev[x] # prev[a]
            BY <4>1, <2>3
      <4> QED BY <4>1, <4>2, <2>6
    <3> QED BY <3>1, <3>2
  <2>10. \A x \in Nodes : behind'[x] \subseteq Registered'
    <3> SUFFICES ASSUME NEW x \in Nodes
                 PROVE  behind'[x] \subseteq Registered'
        OBVIOUS
    <3>1. a \notin behind'[x] /\ behind'[x] \subseteq behind[x]
          BY <1>4, <1>7
    <3>2. behind[x] \subseteq Registered
          BY DEF Ring
    <3> QED BY <3>1, <3>2, <1>3
  <2>11. \A b \in ALARMS \ Registered' :
            behind'[b] = {} /\ next'[b] \in {b, Nil} /\ prev'[b] = next'[b]
    <3> SUFFICES ASSUME NEW b \in ALARMS \ Registered'
                 PROVE  behind'[b] = {} /\ next'[b] \in {b, Nil} /\ prev'[b] = next'[b]
        OBVIOUS
    <3>1. CASE b = a
          BY <3>1, <1>1, <1>4 DEF Remove
    <3>2. CASE b # a
      <4>1. b \notin InRing /\ b \in Nodes /\ b \notin Registered
            BY <3>2, <1>1, <1>3 DEF InRing, Nodes
      <4>2. next'[b] = next[b] /\ prev'[b] = prev[b]
            BY <4>1, <3>2, <2>3 DEF Remove
      <4> QED BY <4>1, <4>2, <3>2, <1>4 DEF Ring
    <3> QED BY <3>1, <3>2
  <2> QED BY <1>2, <1>3, <1>6, <2>8, <2>9, <2>10, <2>11 DEF Ring
<1>9. CASE a \notin Registered
  <2>1. next[a] = a /\ prev[a] = a /\ behind[a] = {}
        BY <1>9 DEF Ring
  <2>2. next' = next /\ prev' = prev
        BY <2>1 DEF Remove, LinksOK
  <2>3. behind' = behind
        BY <2>1, <1>9 DEF Remove, LinksOK, Ring
  <2> QED BY <1>2, <1>3, <1>6, <2>2, <2>3 DEF Ring, RingOK, InRing, From, Registered
<1> QED BY <1>8, <1>9

(***************************************************************************)
(* The walk: the alarms it has passed have a call to come, those it has    *)
(* not may be due, and a flag set in an earlier round may still be set.    *)
(***************************************************************************)
ToVisit == IF pc = "walk" THEN From(alarm)
           ELSE IF pc = "call" THEN From(saved) ELSE {}

Later(a) == IF rollover[a] THEN left[a] = W + time[a] - nticks /\ time[a] < nticks
                           ELSE left[a] = time[a] - nticks /\ left[a] > 0

Pending(a) == \/ Later(a)
              \/ rollover[a] /\ nticks = 0 /\ left[a] = time[a]
              \/ ~rollover[a] /\ left[a] = 0 /\ time[a] = nticks

WalkOK == /\ pc = "walk" => alarm \in InRing
          /\ pc = "call" => saved \in InRing /\ saved # alarm /\ next[alarm] # Nil
          /\ pc = "call" /\ alarm \in Registered
                => ~rollover[alarm] /\ left[alarm] = 0 /\ time[alarm] = nticks

OnTime == \A a \in Registered :
             /\ a \in ToVisit => Pending(a)
             /\ a \notin ToVisit => Later(a) \/ (pc = "call" /\ a = alarm)

Typed == /\ nticks \in 0..(W - 1)
         /\ time \in [ALARMS -> 0..(W - 1)]
         /\ rollover \in [ALARMS -> BOOLEAN]
         /\ left \in [ALARMS -> Int]
         /\ pc \in {"main", "walk", "call"}
         /\ alarm \in Nodes /\ saved \in Nodes
         /\ pc = "call" => alarm \in ALARMS

IInv == Typed /\ LinksOK /\ Ring /\ WalkOK /\ OnTime

\* The sum of two values of the counter's width wraps at most once.
LEMMA SumOnce ==
    ASSUME NEW x \in 0..(W - 1), NEW y \in 0..W
    PROVE  /\ Sum32(x, y) \in 0..(W - 1)
           /\ x + y < W => Sum32(x, y) = x + y
           /\ x + y >= W => Sum32(x, y) = x + y - W
<1> USE AlarmsAssumption
<1>1. \A z \in 0..(2 * W - 1) : z % W = IF z < W THEN z ELSE z - W
      OBVIOUS
<1>2. x + y \in 0..(2 * W - 1)
      OBVIOUS
<1> QED BY <1>1, <1>2 DEF Sum32

\* The ring is empty, and no tick has begun.
LEMMA InitInv == Init => IInv
<1> SUFFICES ASSUME Init PROVE IInv
    OBVIOUS
<1> USE AlarmsAssumption
<1>1. Head \in Nodes /\ Registered = {} /\ InRing = {Head}
      BY DEF Init, Registered, InRing, Nodes
<1>2. Typed
      BY <1>1 DEF Init, Typed
<1>3. LinksOK
      BY DEF Init, LinksOK, Nodes
<1>4. Ring
  <2>1. next[Head] = Head /\ prev[Head] = Head /\ behind[Head] = {}
        BY <1>1 DEF Init
  <2>2. RingOK
        BY <2>1, <1>1 DEF RingOK, From, InRing
  <2>3. \A x \in Nodes : behind[x] = {}
        BY DEF Init
  <2>4. \A a \in ALARMS : next[a] = Nil /\ prev[a] = Nil
        BY DEF Init, Nodes
  <2> QED BY <2>1, <2>2, <2>3, <2>4, <1>1 DEF Ring, Nodes
<1> QED BY <1>1, <1>2, <1>3, <1>4 DEF Init, IInv, WalkOK, OnTime

\* An alarm started for n more ticks has its call n + 1 ticks ahead, unless n
\* is the longest delay there is.
LEMMA StartInv ==
    ASSUME Careful, IInv, NEW a \in ALARMS, NEW n \in 0..MaxDelay, Start(a, n),
           pc = "main" \/ (pc = "call" /\ a # alarm)
    PROVE  IInv'
<1> USE AlarmsAssumption
<1>1. LinksOK' /\ Ring' /\ Registered' = Registered \cup {a} /\ a \notin Registered
      /\ \A x \in InRing : From(x)' = From(x)
      BY InsertRing DEF Start, IInv
<1>2. InRing' = InRing \cup {a} /\ a \notin InRing /\ a # Head /\ a \in Nodes
      BY <1>1 DEF InRing, Nodes
<1>3. pc' = pc /\ alarm' = alarm /\ saved' = saved /\ nticks' = nticks
      BY DEF Start
<1>4. n \in 0..(W - 2) /\ nticks \in 0..(W - 1) /\ nticks + 1 \in 0..W
      BY DEF Careful, IInv, Typed
<1>5. n \in 0..(W - 1)
      BY <1>4
<1>6. /\ Sum32(n, nticks + 1) \in 0..(W - 1)
      /\ n + (nticks + 1) < W => Sum32(n, nticks + 1) = n + (nticks + 1)
      /\ n + (nticks + 1) >= W => Sum32(n, nticks + 1) = n + (nticks + 1) - W
      BY <1>4, <1>5, SumOnce
<1>7. time'[a] = Sum32(n, nticks + 1) /\ left'[a] = n + 1
      /\ (rollover'[a] <=> Sum32(n, nticks + 1) < nticks)
      BY DEF Start, Wraps, IInv, Typed
<1>8. \A b \in ALARMS : b # a => /\ time'[b] = time[b] /\ left'[b] = left[b]
                                 /\ rollover'[b] = rollover[b]
      BY DEF Start, IInv, Typed
<1>9. Later(a)'
      BY <1>3, <1>4, <1>6, <1>7 DEF Later
<1>10. Typed'
  <2>1. time' \in [ALARMS -> 0..(W - 1)] /\ left' \in [ALARMS -> Int]
        BY <1>4, <1>6 DEF Start, IInv, Typed
  <2>2. Wraps(Sum32(n, nticks + 1)) \in BOOLEAN
        BY DEF Wraps
  <2>3. rollover' \in [ALARMS -> BOOLEAN]
        BY <2>2 DEF Start, IInv, Typed
  <2> QED BY <1>3, <2>1, <2>3 DEF IInv, Typed
<1>11. ToVisit' = ToVisit
       BY <1>1, <1>3, <1>2 DEF ToVisit, IInv, WalkOK, From
<1>12. WalkOK'
  <2>1. pc = "call" => next'[alarm] = next[alarm]
        BY DEF Start, Insert, IInv, Typed, Nodes
  <2> QED BY <2>1, <1>1, <1>2, <1>3, <1>8 DEF IInv, WalkOK, Typed, Nodes
<1>13. OnTime'
  <2> SUFFICES ASSUME NEW b \in Registered'
               PROVE  /\ b \in ToVisit' => Pending(b)'
                      /\ b \notin ToVisit' => Later(b)' \/ (pc = "call" /\ b = alarm)
      BY <1>3 DEF OnTime
  <2>1. CASE b = a
        BY <1>9, <2>1 DEF Pending
  <2>2. CASE b # a
    <3>1. b \in Registered /\ b \in ALARMS
          BY <1>1, <2>2 DEF IInv, LinksOK, Registered, Nodes
    <3>2. (Later(b)' <=> Later(b)) /\ (Pending(b)' <=> Pending(b))
          BY <3>1, <2>2, <1>3, <1>8 DEF Later, Pending
    <3> QED BY <3>1, <3>2, <1>11 DEF IInv, OnTime
  <2> QED BY <2>1, <2>2
<1> QED BY <1>1, <1>10, <1>12, <1>13 DEF IInv

\* Stopping an alarm touches no other, if it is not the one visited next.
LEMMA StopInv ==
    ASSUME IInv, NEW a \in ALARMS, Stop(a),
           pc = "main" \/ (pc = "call" /\ a # saved)
    PROVE  IInv'
<1> USE AlarmsAssumption
<1>1. LinksOK' /\ Ring' /\ Registered' = Registered \ {a}
      /\ \A x \in InRing \ {a} : From(x)' = From(x) \ {a}
      BY RemoveRing DEF Stop, IInv
<1>2. InRing' = InRing \ {a} /\ a # Head
      BY <1>1 DEF InRing
<1>3. UNCHANGED <<pc, alarm, saved, nticks, time, rollover, left>>
      BY DEF Stop
<1>4. Typed'
      BY <1>3 DEF IInv, Typed
<1>5. WalkOK'
  <2>1. pc = "call" => next'[alarm] \in {alarm, next[a], next[alarm]} /\ alarm # Nil
        BY DEF Stop, Remove, IInv, Typed, Nodes
  <2>2. next[a] # Nil
        BY DEF Stop
  <2> QED BY <1>1, <1>2, <1>3, <2>1, <2>2 DEF IInv, WalkOK
<1>6. ToVisit' = ToVisit \ {a}
      BY <1>1, <1>3 DEF ToVisit, IInv, WalkOK
<1>7. OnTime'
      BY <1>1, <1>3, <1>6 DEF IInv, OnTime, Later, Pending
<1> QED BY <1>1, <1>4, <1>5, <1>7 DEF IInv

\* The tick counts: what had a call to come may be due now.
LEMMA TickBeginInv == ASSUME IInv, TickBegin PROVE IInv'
<1> USE AlarmsAssumption
<1>1. UNCHANGED <<next, prev, behind, time, rollover, saved>> /\ pc = "main"
      /\ pc' = "walk" /\ alarm' = next[Head]
      BY DEF TickBegin
<1>2. LinksOK' /\ Ring' /\ InRing' = InRing /\ Registered' = Registered
      /\ \A x : From(x)' = IF x = Head THEN {} ELSE {x} \cup behind[x]
      BY <1>1 DEF IInv, LinksOK, Ring, RingOK, InRing, Registered, From
<1>3. next[Head] \in InRing /\ Registered = From(next[Head])
      BY DEF IInv, Ring, RingOK, InRing, Registered
<1>4. ToVisit' = Registered
      BY <1>1, <1>3 DEF ToVisit, From
<1>5. nticks \in 0..(W - 1) /\ nticks' = IF nticks = W - 1 THEN 0 ELSE nticks + 1
  <2>1. \A z \in 0..(2 * W - 1) : z % W = IF z < W THEN z ELSE z - W
        OBVIOUS
  <2>2. nticks \in 0..(W - 1) /\ nticks + 1 \in 0..(2 * W - 1)
        BY DEF IInv, Typed
  <2> QED BY <2>1, <2>2 DEF TickBegin, Sum32
<1>6. Registered \subseteq ALARMS /\ InRing \subseteq Nodes
      BY DEF IInv, LinksOK, Registered, InRing, Nodes
<1>7. left' \in [ALARMS -> Int] /\ \A a \in Registered : left'[a] = left[a] - 1
      BY <1>6 DEF TickBegin, IInv, Typed
<1>8. \A a \in Registered : Pending(a)'
  <2> SUFFICES ASSUME NEW a \in Registered PROVE Pending(a)'
      OBVIOUS
  <2>1. Later(a)
        BY <1>1 DEF IInv, OnTime, ToVisit
  <2>2. time[a] \in 0..(W - 1) /\ left[a] \in Int /\ rollover[a] \in BOOLEAN
        BY <1>6 DEF IInv, Typed
  <2>3. left'[a] = left[a] - 1 /\ time'[a] = time[a] /\ rollover'[a] = rollover[a]
        BY <1>1, <1>7
  <2>4. CASE rollover[a]
        BY <2>1, <2>2, <2>3, <2>4, <1>5 DEF Later, Pending
  <2>5. CASE ~rollover[a]
        BY <2>1, <2>2, <2>3, <2>5, <1>5 DEF Later, Pending
  <2> QED BY <2>4, <2>5
<1>9. Typed'
      BY <1>1, <1>3, <1>5, <1>6, <1>7 DEF IInv, Typed
<1>10. WalkOK'
       BY <1>1, <1>2, <1>3 DEF WalkOK
<1> QED BY <1>2, <1>4, <1>8, <1>9, <1>10 DEF IInv, OnTime

\* The walk looks at one alarm: it calls it back on its tick and not before.
LEMMA VisitInv == ASSUME IInv, Visit PROVE IInv'
<1> USE AlarmsAssumption
<1>1. UNCHANGED <<next, prev, behind, time, nticks, left>> /\ pc = "walk"
      /\ alarm # Head /\ saved' = next[alarm]
      BY DEF Visit
<1>2. LinksOK' /\ Ring' /\ InRing' = InRing /\ Registered' = Registered
      /\ \A x : From(x)' = From(x)
      BY <1>1 DEF IInv, LinksOK, Ring, RingOK, InRing, Registered, From
<1>3. alarm \in Registered /\ alarm \in ALARMS /\ Registered \subseteq ALARMS
      BY <1>1 DEF IInv, WalkOK, InRing, LinksOK, Registered, Nodes
<1>4. /\ next[alarm] \in InRing /\ next[alarm] \in Nodes
      /\ next[alarm] # alarm /\ next[alarm] # Nil
      /\ From(alarm) = {alarm} \cup From(next[alarm])
  <2>1. /\ next[alarm] \in InRing
        /\ behind[alarm] = From(next[alarm])
        /\ next[alarm] # Head => next[alarm] \notin behind[next[alarm]]
        BY <1>3 DEF IInv, Ring, RingOK, InRing
  <2>2. next[alarm] # alarm
        BY <2>1, <1>1 DEF From
  <2>3. next[alarm] \in Nodes
        BY <2>1, <1>3 DEF InRing, Nodes
  <2>4. Nil \notin Nodes
        BY DEF Nodes
  <2> QED BY <2>1, <2>2, <2>3, <2>4, <1>1 DEF From
<1>5. /\ rollover' \in [ALARMS -> BOOLEAN]
      /\ rollover'[alarm] <=> (rollover[alarm] /\ nticks # 0)
      /\ \A b \in ALARMS : b # alarm => rollover'[b] = rollover[b]
      BY <1>3 DEF Visit, StillRolls, IInv, Typed
<1>6. /\ nticks \in 0..(W - 1) /\ time[alarm] \in 0..(W - 1) /\ left[alarm] \in Int
      /\ rollover[alarm] \in BOOLEAN
      BY <1>3 DEF IInv, Typed
<1>7. Pending(alarm)
      BY <1>1, <1>3 DEF IInv, OnTime, ToVisit, From
<1>8. CASE Due(alarm)
  <2>1. pc' = "call" /\ alarm' = alarm
        BY <1>8 DEF Visit
  <2>2. ~rollover'[alarm] /\ left[alarm] = 0 /\ time[alarm] = nticks
    <3>1. time[alarm] <= nticks /\ (rollover[alarm] => nticks = 0)
          BY <1>8 DEF Due, StillRolls
    <3>2. left[alarm] = 0 /\ time[alarm] = nticks
      <4>1. CASE rollover[alarm]
            BY <3>1, <4>1, <1>6, <1>7 DEF Pending, Later
      <4>2. CASE ~rollover[alarm]
            BY <3>1, <4>2, <1>6, <1>7 DEF Pending, Later
      <4> QED BY <4>1, <4>2
    <3> QED BY <3>1, <3>2, <1>5
  <2>3. ToVisit' = From(next[alarm])
        BY <2>1, <1>1, <1>2 DEF ToVisit, From
  <2>4. Typed'
        BY <1>1, <1>3, <1>4, <1>5, <2>1 DEF IInv, Typed
  <2>5. WalkOK'
        BY <1>1, <1>2, <1>4, <2>1, <2>2 DEF WalkOK, InRing
  <2>6. OnTime'
    <3> SUFFICES ASSUME NEW b \in Registered
                 PROVE  /\ b \in ToVisit' => Pending(b)'
                        /\ b \notin ToVisit' => Later(b)' \/ b = alarm
        BY <1>2, <2>1 DEF OnTime
    <3>1. CASE b = alarm
          BY <3>1, <1>1, <2>2 DEF Pending
    <3>2. CASE b # alarm
      <4>1. (Later(b)' <=> Later(b)) /\ (Pending(b)' <=> Pending(b))
            BY <3>2, <1>1, <1>3, <1>5 DEF Later, Pending
      <4>2. b \in ToVisit' <=> b \in ToVisit
            BY <3>2, <2>3, <1>1, <1>4 DEF ToVisit
      <4> QED BY <4>1, <4>2, <1>1 DEF IInv, OnTime
    <3> QED BY <3>1, <3>2
  <2> QED BY <1>2, <2>4, <2>5, <2>6 DEF IInv
<1>9. CASE ~Due(alarm)
  <2>1. pc' = "walk" /\ alarm' = next[alarm]
        BY <1>9 DEF Visit
  <2>2. ASSUME NEW b, b = alarm PROVE Later(b)'
    <3>1. time[alarm] > nticks \/ (rollover[alarm] /\ nticks # 0)
          BY <1>6, <1>9 DEF Due, StillRolls
    <3>2. CASE rollover[alarm] /\ nticks # 0
      <4>1. left[alarm] = W + time[alarm] - nticks /\ time[alarm] < nticks
            BY <3>2, <1>7 DEF Pending, Later
      <4>2. rollover'[alarm]
            BY <3>2, <1>5
      <4> QED BY <4>1, <4>2, <2>2, <1>1 DEF Later
    <3>3. CASE ~(rollover[alarm] /\ nticks # 0)
      <4>1. time[alarm] > nticks /\ (rollover[alarm] => nticks = 0)
            BY <3>1, <3>3
      <4>2. left[alarm] = time[alarm] - nticks /\ left[alarm] > 0
            BY <4>1, <1>6, <1>7 DEF Pending, Later
      <4>3. ~rollover'[alarm]
            BY <3>3, <1>5
      <4> QED BY <4>2, <4>3, <2>2, <1>1 DEF Later
    <3> QED BY <3>2, <3>3
  <2>3. ToVisit' = From(next[alarm])
        BY <2>1, <1>1, <1>2 DEF ToVisit, From
  <2>4. Typed'
        BY <1>1, <1>3, <1>4, <1>5, <2>1 DEF IInv, Typed
  <2>5. WalkOK'
        BY <1>1, <1>2, <1>4, <2>1 DEF WalkOK
  <2>6. OnTime'
    <3> SUFFICES ASSUME NEW b \in Registered
                 PROVE  (b \in ToVisit' => Pending(b)') /\ (b \notin ToVisit' => Later(b)')
        BY <1>2, <2>1 DEF OnTime
    <3>1. CASE b = alarm
          BY <3>1, <2>2 DEF Pending
    <3>2. CASE b # alarm
      <4>1. (Later(b)' <=> Later(b)) /\ (Pending(b)' <=> Pending(b))
            BY <3>2, <1>1, <1>3, <1>5 DEF Later, Pending
      <4>2. b \in ToVisit' <=> b \in ToVisit
            BY <3>2, <2>3, <1>1, <1>4 DEF ToVisit
      <4> QED BY <4>1, <4>2, <1>1 DEF IInv, OnTime
    <3> QED BY <3>1, <3>2
  <2> QED BY <1>2, <2>4, <2>5, <2>6 DEF IInv
<1> QED BY <1>8, <1>9

\* A callback that returns a delay has its next call that far ahead; one that
\* returns 0 takes its alarm out of the ring.
LEMMA ReturnsInv == ASSUME IInv, CallbackReturns PROVE IInv'
<1> USE AlarmsAssumption
<1>1. pc = "call" /\ pc' = "walk" /\ alarm' = saved /\ saved' = saved
      /\ nticks' = nticks /\ alarm \in ALARMS /\ saved \in InRing /\ saved # alarm
      BY DEF CallbackReturns, Successor, IInv, WalkOK, Typed
<1>2. CASE Unregister
  <2>0. next[alarm] # Nil
        BY <1>1 DEF IInv, WalkOK
  <2>1. LinksOK' /\ Ring' /\ Registered' = Registered \ {alarm}
        /\ \A x \in InRing \ {alarm} : From(x)' = From(x) \ {alarm}
        BY <1>1, <1>2, <2>0, RemoveRing DEF Unregister, IInv
  <2>2. InRing' = InRing \ {alarm} /\ alarm # Head
        BY <1>1, <2>1 DEF InRing
  <2>3. UNCHANGED <<time, rollover, left>>
        BY <1>2 DEF Unregister
  <2>4. ToVisit' = From(saved) \ {alarm}
        BY <1>1, <2>1 DEF ToVisit, From
  <2>5. Typed'
        BY <1>1, <2>3 DEF IInv, Typed
  <2>6. WalkOK'
        BY <1>1, <2>2 DEF WalkOK
  <2>7. OnTime'
        BY <1>1, <2>1, <2>3, <2>4 DEF IInv, OnTime, Later, Pending, ToVisit
  <2> QED BY <2>1, <2>5, <2>6, <2>7 DEF IInv
<1>3. ASSUME NEW n \in 1..(W - 1), Rearm(n) PROVE IInv'
  <2>1. UNCHANGED <<next, prev, behind>>
        BY <1>3 DEF Rearm
  <2>2. LinksOK' /\ Ring' /\ InRing' = InRing /\ Registered' = Registered
        /\ \A x : From(x)' = From(x)
        BY <2>1 DEF IInv, LinksOK, Ring, RingOK, InRing, Registered, From
  <2>3. time[alarm] \in 0..(W - 1) /\ left[alarm] \in Int /\ nticks \in 0..(W - 1)
        BY <1>1 DEF IInv, Typed
  <2>4. /\ Sum32(time[alarm], n) \in 0..(W - 1)
        /\ time[alarm] + n < W => Sum32(time[alarm], n) = time[alarm] + n
        /\ time[alarm] + n >= W => Sum32(time[alarm], n) = time[alarm] + n - W
    <3>1. n \in 0..W
          OBVIOUS
    <3> QED BY <2>3, <3>1, SumOnce
  <2>5. /\ time'[alarm] = Sum32(time[alarm], n)
        /\ left'[alarm] = left[alarm] + n
        /\ rollover'[alarm] <=> (rollover[alarm] \/ Sum32(time[alarm], n) < nticks)
        BY <1>1, <1>3 DEF Rearm, Wraps, IInv, Typed
  <2>6. \A b \in ALARMS : b # alarm => /\ time'[b] = time[b] /\ left'[b] = left[b]
                                       /\ rollover'[b] = rollover[b]
        BY <1>3 DEF Rearm, IInv, Typed
  <2>7. Typed'
    <3>1. time' \in [ALARMS -> 0..(W - 1)]
          BY <1>3, <2>4 DEF Rearm, IInv, Typed
    <3>3. left[alarm] + n \in Int
          BY <2>3
    <3>4. left' \in [ALARMS -> Int]
          BY <1>3, <3>3 DEF Rearm, IInv, Typed
    <3>2. rollover' \in [ALARMS -> BOOLEAN]
          BY <1>1, <1>3, <2>5, <2>6 DEF Rearm, IInv, Typed
    <3> QED BY <1>1, <3>1, <3>2, <3>4 DEF IInv, Typed, InRing, Nodes
  <2>8. WalkOK'
        BY <1>1, <2>2 DEF WalkOK
  <2>9. ToVisit' = ToVisit
        BY <1>1, <2>2 DEF ToVisit
  <2>10. OnTime'
    <3> SUFFICES ASSUME NEW b \in Registered
                 PROVE  (b \in ToVisit' => Pending(b)') /\ (b \notin ToVisit' => Later(b)')
        BY <2>2, <1>1 DEF OnTime
    <3>1. CASE b = alarm
      <4>1. ~rollover[alarm] /\ left[alarm] = 0 /\ time[alarm] = nticks
            BY <1>1, <3>1 DEF IInv, WalkOK
      <4>2. Later(b)'
            BY <4>1, <3>1, <1>1, <2>3, <2>4, <2>5 DEF Later
      <4> QED BY <4>2 DEF Pending
    <3>2. CASE b # alarm
      <4>1. b \in ALARMS
            BY DEF IInv, LinksOK, Registered, Nodes
      <4>2. (Later(b)' <=> Later(b)) /\ (Pending(b)' <=> Pending(b))
            BY <4>1, <3>2, <1>1, <2>6 DEF Later, Pending
      <4> QED BY <4>2, <3>2, <2>9 DEF IInv, OnTime
    <3> QED BY <3>1, <3>2
  <2> QED BY <2>2, <2>7, <2>8, <2>10 DEF IInv
<1> QED BY <1>2, <1>3 DEF CallbackReturns

\* The invariant is inductive for a careful program.
LEMMA StepInv == ASSUME Careful, IInv, [Next]_vars PROVE IInv'
<1>1. CASE SysclkInit \/ TickEnd \/ UNCHANGED vars
  <2>1. UNCHANGED <<nticks, next, prev, time, rollover, alarm, saved, left, behind>>
        BY <1>1 DEF SysclkInit, TickEnd, vars
  <2>2. pc' = pc \/ (pc = "walk" /\ alarm = Head /\ pc' = "main")
        BY <1>1 DEF SysclkInit, TickEnd, vars
  <2>3. ToVisit' = ToVisit
        BY <2>1, <2>2 DEF ToVisit, From
  <2>4. LinksOK' /\ Ring' /\ Registered' = Registered /\ InRing' = InRing
        BY <2>1 DEF IInv, LinksOK, Ring, RingOK, InRing, Registered, From
  <2> QED BY <2>1, <2>2, <2>3, <2>4
          DEF IInv, Typed, WalkOK, OnTime, Later, Pending
<1>2. CASE Program
      BY <1>2, StartInv, StopInv DEF Program
<1>3. CASE TickBegin
      BY <1>3, TickBeginInv
<1>4. CASE Visit
      BY <1>4, VisitInv
<1>5. CASE CallbackReturns
      BY <1>5, ReturnsInv
<1>6. CASE CallbackStops
      BY <1>6, StopInv DEF CallbackStops, Careful
<1>7. CASE CallbackStarts
      BY <1>7, StartInv DEF CallbackStarts
<1> QED BY <1>1, <1>2, <1>3, <1>4, <1>5, <1>6, <1>7 DEF Next, TickStep

\* For every width of the counter and every set of alarms, the links are a
\* ring of the registered alarms, and every alarm is called on the very tick
\* it asked for: none early across the counter's wrap, none missed by a walk
\* whose callbacks start and stop alarms, and none after it was stopped.
THEOREM AlarmsOnTime ==
    ASSUME Careful
    PROVE  Spec => [](RingOK /\ CalledInItsTick)
<1>1. IInv /\ [Next]_vars => IInv'
      BY StepInv
<1>2. IInv => RingOK /\ CalledInItsTick
  <2> SUFFICES ASSUME IInv PROVE RingOK /\ NeverEarly /\ NeverLate /\ StoppedIsSilent
      BY DEF CalledInItsTick
  <2>1. RingOK
        BY DEF IInv, Ring
  <2>2. NeverEarly
        BY DEF IInv, WalkOK, NeverEarly
  <2>3. NeverLate
    <3> SUFFICES ASSUME pc = "main", NEW a \in Registered PROVE left[a] > 0
        BY DEF NeverLate
    <3>1. Later(a) /\ a \in ALARMS
          BY DEF IInv, OnTime, ToVisit, LinksOK, Registered, Nodes
    <3> QED BY <3>1, AlarmsAssumption DEF Later, IInv, Typed
  <2>4. StoppedIsSilent
        BY DEF IInv, WalkOK, StoppedIsSilent, InRing
  <2> QED BY <2>1, <2>2, <2>3, <2>4
<1> QED BY InitInv, <1>1, <1>2, PTL DEF Spec

-----------------------------------------------------------------------------
(***************************************************************************)
(* The ring alone, without Careful: whatever the delays and whatever the   *)
(* callbacks stop, the tick walks on alarms that have been in the ring, so *)
(* that it never follows or unlinks the entry of an alarm never started.   *)
(***************************************************************************)
RingInv == /\ LinksOK /\ Ring
           /\ alarm \in Nodes /\ saved \in Nodes
           /\ next[alarm] # Nil /\ next[saved] # Nil
           /\ pc = "call" => alarm \in ALARMS

\* An alarm that is started or stopped keeps the two links of the walk.
LEMMA LinksStay ==
    ASSUME RingInv, UNCHANGED <<pc, alarm, saved>>, NEW a \in ALARMS,
           \/ Insert(a) /\ a \notin Registered
           \/ Remove(a) /\ next[a] # Nil
    PROVE  RingInv'
<1>1. LinksOK' /\ Ring'
  BY InsertRing, RemoveRing DEF RingInv
<1>2. \A x \in Nodes : next[x] # Nil => next'[x] # Nil
  <2>1. a # Nil /\ a # Head /\ next[Head] # Nil /\ Head \in Nodes /\ a \in Nodes
    BY AlarmsAssumption DEF Nodes, RingInv, Ring, RingOK, Registered, LinksOK
  <2>2. CASE Insert(a)
    BY <2>1, <2>2 DEF Insert
  <2>3. CASE Remove(a) /\ next[a] # Nil
    BY <2>1, <2>3 DEF Remove
  <2> QED
    BY <2>2, <2>3
<1> QED
  BY <1>1, <1>2 DEF RingInv

\* Without a change of the links the walk stays on them.
LEMMA WalkStays ==
    ASSUME RingInv, UNCHANGED <<next, prev, behind>>,
           alarm' \in {alarm, saved, next[alarm], next[Head]},
           saved' \in {saved, next[alarm]},
           pc' = "call" => alarm' \in ALARMS
    PROVE  RingInv'
<1>1. LinksOK' /\ Ring'
  <2>1. \A x : From(x)' = From(x)
    BY DEF From
  <2>2. Registered' = Registered /\ InRing' = InRing
    BY DEF Registered, InRing
  <2>3. RingOK'
    BY <2>1, <2>2 DEF RingInv, Ring, RingOK
  <2> QED
    BY <2>2, <2>3 DEF RingInv, LinksOK, Ring
<1>2. \A x \in Nodes : next[x] # Nil => next[x] \in Nodes /\ next[next[x]] # Nil
  <2> SUFFICES ASSUME NEW x \in Nodes, next[x] # Nil
               PROVE  next[x] \in Nodes /\ next[next[x]] # Nil
    OBVIOUS
  <2>1. next[x] \in Nodes
    BY DEF RingInv, LinksOK
  <2>2. CASE x \in InRing
    <3>1. next[x] \in InRing /\ next[next[x]] \in InRing
      BY <2>2 DEF RingInv, Ring, RingOK, InRing
    <3>2. Nil \notin InRing
      BY AlarmsAssumption DEF InRing, Registered, RingInv, LinksOK, Nodes
    <3> QED
      BY <2>1, <3>1, <3>2
  <2>3. CASE x \notin InRing
    <3>1. next[x] = x
      BY <2>3 DEF RingInv, Ring, InRing, Nodes
    <3> QED
      BY <2>1, <3>1
  <2> QED
    BY <2>2, <2>3
<1>3. Head \in Nodes /\ next[Head] # Nil
  BY AlarmsAssumption DEF Nodes, RingInv, Ring, RingOK, Registered, LinksOK
<1> QED
  BY <1>1, <1>2, <1>3 DEF RingInv

LEMMA RingStep ==
    ASSUME RingInv, [Next]_vars
    PROVE  RingInv'
<1>1. ASSUME NEW a \in ALARMS, Stop(a) PROVE RingInv'
  BY <1>1, LinksStay DEF Stop
<1>2. ASSUME NEW a \in ALARMS, NEW n \in 0..MaxDelay, Start(a, n) PROVE RingInv'
  BY <1>2, LinksStay DEF Start
<1>3. CASE Program \/ CallbackStops \/ CallbackStarts
  BY <1>1, <1>2, <1>3 DEF Program, CallbackStops, CallbackStarts
<1>4. CASE SysclkInit
  BY <1>4, WalkStays DEF SysclkInit, RingInv
<1>5. CASE TickBegin
  BY <1>5, WalkStays DEF TickBegin
<1>6. CASE Visit
  <2>1. alarm \in ALARMS
    BY <1>6 DEF Visit, RingInv, Nodes
  <2> QED
    BY <1>6, <2>1, WalkStays DEF Visit
<1>7. CASE CallbackReturns
  <2>1. alarm' = saved /\ saved' = saved /\ pc' = "walk" /\ alarm \in ALARMS
    BY <1>7 DEF CallbackReturns, Successor, RingInv
  <2>2. CASE Unregister
    <3>1. LinksOK' /\ Ring'
      BY <2>1, <2>2, RemoveRing DEF Unregister, RingInv
    <3>2. next'[saved] # Nil
      <4>1. alarm # Nil
        BY <2>1, AlarmsAssumption
      <4> QED
        BY <2>1, <2>2, <4>1 DEF Unregister, Remove, RingInv
    <3> QED
      BY <2>1, <3>1, <3>2 DEF RingInv
  <2>3. CASE \E n \in 1..(W - 1) : Rearm(n)
    <3>1. UNCHANGED <<next, prev, behind>>
      BY <2>3 DEF Rearm
    <3> QED
      BY <2>1, <3>1, WalkStays
  <2> QED
    BY <1>7, <2>2, <2>3 DEF CallbackReturns
<1>8. CASE TickEnd
  BY <1>8, WalkStays DEF TickEnd
<1>9. CASE UNCHANGED vars
  BY <1>9, WalkStays DEF vars, RingInv
<1> QED
  BY <1>3, <1>4, <1>5, <1>6, <1>7, <1>8, <1>9 DEF Next, TickStep

\* The ring of alarms stays whole for every width of the counter and every
\* delay, also when a callback stops the very alarm that the tick goes to next.
THEOREM RingStaysWhole == Spec => []RingOK
<1>1. Init => RingInv
  BY InitInv, AlarmsAssumption DEF Init, IInv, RingInv, Typed, Nodes
<1>2. RingInv => RingOK
  BY DEF RingInv, Ring
<1> QED
  BY <1>1, <1>2, RingStep, PTL DEF Spec

-----------------------------------------------------------------------------
(***************************************************************************)
(* The refinement: the ring of alarms, with a counter that wraps, behaves  *)
(* like a set of deadlines.  A step of the walk that calls nothing back    *)
(* changes no deadline.                                                    *)
(***************************************************************************)
ToGo    == [a \in Registered |-> left[a]]
Ticking == pc # "main"
Calling == IF pc = "call" THEN {alarm} ELSE {}

DeadlinesStep == [Promise!Next]_<<ToGo, Ticking, Calling>>

\* What a deadline is, of the alarms in the ring.
LEMMA Numbers ==
    ASSUME IInv
    PROVE  /\ Registered \subseteq ALARMS /\ left \in [ALARMS -> Int]
           /\ pc \in {"main", "walk", "call"} /\ W \in Nat /\ W >= 2
           /\ nticks \in 0..(W - 1)
           /\ DOMAIN ToGo = Registered
           /\ \A a \in Registered : ToGo[a] = left[a]
BY AlarmsAssumption DEF IInv, Typed, LinksOK, Registered, Nodes, ToGo

\* An alarm that the tick has no need to look at has ticks to go.
LEMMA LaterHasTicks ==
    ASSUME IInv, NEW a \in Registered, Later(a)
    PROVE  left[a] > 0
<1>1. a \in ALARMS /\ W \in Nat /\ nticks \in 0..(W - 1)
  BY Numbers
<1>2. time[a] \in 0..(W - 1) /\ left[a] \in Int /\ rollover[a] \in BOOLEAN
  BY <1>1 DEF IInv, Typed
<1> QED
  BY <1>1, <1>2 DEF Later

LEMMA StartPromised ==
    ASSUME Careful, IInv, NEW a \in ALARMS, NEW n \in 0..MaxDelay, Start(a, n),
           pc = "main" \/ pc = "call"
    PROVE  Promise!Start(a)
<1>1. Registered' = Registered \cup {a} /\ a \notin Registered
  BY InsertRing DEF Start, IInv
<1>2. left' = [left EXCEPT ![a] = n + 1] /\ UNCHANGED <<pc, alarm>>
  BY DEF Start
<1>3. n \in 0..(W - 1)
  BY AlarmsAssumption
<1>4. ToGo' = [b \in Registered \cup {a} |-> IF b = a THEN n + 1 ELSE ToGo[b]]
  BY <1>1, <1>2, Numbers DEF ToGo
<1>5. Promise!With(a, n + 1) = [b \in Registered \cup {a} |-> IF b = a THEN n + 1 ELSE ToGo[b]]
  BY Numbers DEF Promise!With, Promise!Started, ToGo
<1> QED
  BY <1>1, <1>2, <1>3, <1>4, <1>5, Numbers
  DEF Promise!Start, Promise!Asking, Promise!Started, ToGo, Ticking, Calling

LEMMA StopPromised ==
    ASSUME IInv, NEW a \in ALARMS, Stop(a), pc = "main" \/ pc = "call"
    PROVE  Promise!Stop(a) \/ UNCHANGED <<ToGo, Ticking, Calling>>
<1>1. Registered' = Registered \ {a} /\ UNCHANGED <<left, pc, alarm>>
  BY RemoveRing DEF Stop, IInv
<1>2. CASE a \in Registered
  <2>1. ToGo' = [b \in Registered \ {a} |-> ToGo[b]]
    BY <1>1, Numbers DEF ToGo
  <2>2. Promise!Without(a) = [b \in Registered \ {a} |-> ToGo[b]]
    BY Numbers DEF Promise!Without, Promise!Started, ToGo
  <2> QED
    BY <1>1, <1>2, <2>1, <2>2, Numbers
    DEF Promise!Stop, Promise!Asking, Promise!Started, ToGo, Ticking, Calling
<1>3. CASE a \notin Registered
  <2>1. Registered' = Registered
    BY <1>1, <1>3
  <2> QED
    BY <1>1, <2>1 DEF ToGo, Ticking, Calling
<1> QED
  BY <1>2, <1>3

LEMMA TickPromised == ASSUME IInv, TickBegin PROVE Promise!Tick
<1>1. Registered' = Registered /\ pc = "main" /\ pc' = "walk"
  BY DEF TickBegin, Registered
<1>2. \A a \in Registered : left'[a] = left[a] - 1
  BY Numbers DEF TickBegin
<1>3. ToGo' = [a \in Registered |-> ToGo[a] - 1]
  BY <1>1, <1>2, Numbers DEF ToGo
<1>4. DOMAIN [a \in Registered |-> left[a]] = Registered
  OBVIOUS
<1> QED
  BY <1>1, <1>3, <1>4 DEF Promise!Tick, Promise!Started, ToGo

\* The walk calls an alarm back when it has no tick to go, and only then.
LEMMA VisitPromised ==
    ASSUME IInv, IInv', Visit
    PROVE  Promise!Call(alarm) \/ UNCHANGED <<ToGo, Ticking, Calling>>
<1>1. Registered' = Registered /\ left' = left /\ ToGo' = ToGo /\ pc = "walk"
  BY DEF Visit, Registered, ToGo
<1>2. CASE Due(alarm)
  <2>1. pc' = "call" /\ alarm' = alarm /\ alarm \in Registered
    BY <1>1, <1>2 DEF Visit, IInv, WalkOK, InRing
  <2>2. left[alarm] = 0
    BY <1>1, <2>1 DEF IInv, WalkOK
  <2> QED
    BY <1>1, <2>1, <2>2 DEF Promise!Call, Promise!Started, ToGo
<1>3. CASE ~Due(alarm)
  <2>1. pc' = "walk"
    BY <1>3 DEF Visit
  <2> QED
    BY <1>1, <2>1 DEF Ticking, Calling
<1> QED
  BY <1>2, <1>3

\* A callback that returns a delay is called again so many ticks later.
LEMMA ReturnPromised == ASSUME IInv, CallbackReturns PROVE Promise!Return(alarm)
<1>1. pc = "call" /\ pc' = "walk" /\ alarm \in ALARMS /\ next[alarm] # Nil
  BY DEF CallbackReturns, IInv, WalkOK, Typed
<1>2. Promise!Without(alarm) = [b \in Registered \ {alarm} |-> ToGo[b]]
  BY DEF Promise!Without, Promise!Started, ToGo
<1>3. \/ ToGo' = Promise!Without(alarm)
      \/ /\ alarm \in Registered
         /\ \E n \in 1..(W - 1) : ToGo' = Promise!With(alarm, n)
  <2>1. CASE Unregister
    <3>1. Registered' = Registered \ {alarm} /\ left' = left
      BY <1>1, <2>1, RemoveRing DEF Unregister, IInv
    <3>2. ToGo' = [b \in Registered \ {alarm} |-> ToGo[b]]
      BY <3>1, Numbers DEF ToGo
    <3> QED
      BY <3>2, <1>2
  <2>2. ASSUME NEW n \in 1..(W - 1), Rearm(n), alarm \notin Registered
        PROVE  ToGo' = Promise!Without(alarm)
    <3>1. Registered' = Registered /\ left' = [left EXCEPT ![alarm] = left[alarm] + n]
      BY <2>2 DEF Rearm, Registered
    <3>2. \A b \in Registered : left'[b] = left[b]
      BY <3>1, <2>2, Numbers
    <3>3. Registered \ {alarm} = Registered
      BY <2>2
    <3> QED
      BY <1>2, <3>1, <3>2, <3>3, Numbers DEF ToGo
  <2>3. ASSUME NEW n \in 1..(W - 1), Rearm(n), alarm \in Registered
        PROVE  ToGo' = Promise!With(alarm, n)
    <3>1. Registered' = Registered /\ left' = [left EXCEPT ![alarm] = left[alarm] + n]
      BY <2>3 DEF Rearm, Registered
    <3>2. left[alarm] = 0
      BY <1>1, <2>3 DEF IInv, WalkOK
    <3>3. \A b \in Registered : left'[b] = IF b = alarm THEN n ELSE left[b]
      BY <3>1, <3>2, Numbers
    <3>4. Registered \cup {alarm} = Registered
      BY <2>3
    <3>5. Promise!With(alarm, n) =
             [b \in Registered \cup {alarm} |-> IF b = alarm THEN n ELSE ToGo[b]]
      BY DEF Promise!With, Promise!Started, ToGo
    <3>6. ToGo' = [b \in Registered |-> IF b = alarm THEN n ELSE ToGo[b]]
      BY <3>1, <3>3, Numbers DEF ToGo
    <3> QED
      BY <3>4, <3>5, <3>6
  <2> QED
    BY <2>1, <2>2, <2>3 DEF CallbackReturns
<1> QED
  BY <1>1, <1>3, Numbers DEF Promise!Return, Promise!Started, ToGo

\* The walk is at its end: no alarm is left that it should have called.
LEMMA EndPromised == ASSUME IInv, TickEnd PROVE Promise!EndTick
<1>1. pc = "walk" /\ alarm = Head /\ pc' = "main" /\ ToVisit = {}
  BY DEF TickEnd, ToVisit, From
<1>2. Registered' = Registered /\ left' = left /\ ToGo' = ToGo
  BY DEF TickEnd, Registered, ToGo
<1>3. \A a \in Registered : left[a] > 0
  BY <1>1, LaterHasTicks DEF IInv, OnTime
<1> QED
  BY <1>1, <1>2, <1>3 DEF Promise!EndTick, Promise!Started, ToGo

LEMMA DeadlinesKept == ASSUME Careful, IInv, IInv', [Next]_vars PROVE DeadlinesStep
<1>1. CASE SysclkInit \/ UNCHANGED vars
  BY <1>1 DEF SysclkInit, vars, ToGo, Ticking, Calling, Registered, DeadlinesStep
<1>2. CASE Program
  BY <1>2, StartPromised, StopPromised DEF Program, Promise!Next, DeadlinesStep
<1>3. CASE CallbackStops \/ CallbackStarts
  BY <1>3, StartPromised, StopPromised
  DEF CallbackStops, CallbackStarts, Promise!Next, DeadlinesStep
<1>4. CASE TickBegin
  BY <1>4, TickPromised DEF Promise!Next, DeadlinesStep
<1>5. CASE Visit
  <2>1. CASE Due(alarm)
    <3>1. alarm \in ALARMS
      BY <1>5, Numbers DEF Visit, IInv, WalkOK, InRing
    <3> QED
      BY <1>5, <3>1, VisitPromised DEF Promise!Next, DeadlinesStep
  <2>2. CASE ~Due(alarm)
    BY <1>5, <2>2 DEF Visit, ToGo, Ticking, Calling, Registered, DeadlinesStep
  <2> QED
    BY <2>1, <2>2
<1>6. CASE CallbackReturns
  <2>1. alarm \in ALARMS
    BY <1>6 DEF CallbackReturns, IInv, Typed
  <2>2. Promise!Return(alarm)
    BY <1>6, ReturnPromised
  <2> QED
    BY <2>1, <2>2 DEF Promise!Next, Promise!Return, DeadlinesStep
<1>7. CASE TickEnd
  BY <1>7, EndPromised DEF Promise!Next, DeadlinesStep
<1> QED
  BY <1>1, <1>2, <1>3, <1>4, <1>5, <1>6, <1>7 DEF Next, TickStep

\* For every width of the counter and every set of alarms, what programs and
\* callbacks see of the ring is a set of deadlines: each alarm is called once in
\* the tick it is due, a tick ends when all that are due have been called, and
\* a callback that stops or starts others moves no deadline but theirs.
THEOREM AlarmsAreDeadlines ==
    ASSUME Careful
    PROVE  Spec => ImplementsDeadlines
<1>1. Init => Promise!Init
  <2> SUFFICES ASSUME Init PROVE Promise!Init
    OBVIOUS
  <2>1. Registered = {} /\ pc = "main"
    BY DEF Init, Registered, Nodes
  <2>2. [a \in Registered |-> left[a]] = [a \in {} |-> 0]
    BY <2>1
  <2> QED
    BY <2>1, <2>2 DEF Promise!Init
<1>2. IInv /\ [Next]_vars => IInv'
  BY StepInv
<1>3. IInv /\ IInv' /\ [Next]_vars => DeadlinesStep
  BY DeadlinesKept
<1> QED
  BY InitInv, <1>1, <1>2, <1>3, PTL
  DEF Spec, ImplementsDeadlines, Promise!Spec, DeadlinesStep, ToGo, Ticking, Calling

-----------------------------------------------------------------------------
(***************************************************************************)
(* Why a tick ends: the walk comes by each alarm at most once, whatever    *)
(* the callbacks start and stop in front of it and behind it.              *)
(***************************************************************************)
WalkShrinks == [][/\ Ticking => ToVisit' \subseteq ToVisit
                  /\ Visit => alarm \in ToVisit /\ alarm \notin ToVisit']_vars

\* No alarm is behind itself.
LEMMA OwnBehind ==
    ASSUME IInv, NEW x \in Registered
    PROVE  x \notin behind[x]
<1>1. x \in InRing /\ x # Head
  BY Numbers, AlarmsAssumption DEF InRing
<1>2. prev[x] \in InRing /\ next[prev[x]] = x
  BY <1>1 DEF IInv, Ring
<1> QED
  BY <1>1, <1>2 DEF IInv, Ring, RingOK, InRing

LEMMA ReturnShortens == ASSUME IInv, CallbackReturns PROVE ToVisit' \subseteq ToVisit
<1>1. /\ pc = "call" /\ pc' = "walk" /\ alarm' = saved /\ alarm \in ALARMS
      /\ saved' = saved /\ saved \in InRing /\ saved # alarm /\ next[alarm] # Nil
  BY DEF CallbackReturns, Successor, IInv, WalkOK, Typed
<1>2. From(saved)' \subseteq From(saved)
  <2>1. CASE Unregister
    <3>1. \A x \in InRing \ {alarm} : From(x)' = From(x) \ {alarm}
      BY <1>1, <2>1, RemoveRing DEF Unregister, IInv
    <3> QED
      BY <1>1, <3>1 DEF From
  <2>2. CASE \E n \in 1..(W - 1) : Rearm(n)
    BY <1>1, <2>2 DEF Rearm, From
  <2> QED
    BY <2>1, <2>2 DEF CallbackReturns
<1> QED
  BY <1>1, <1>2 DEF ToVisit, From

\* For every set of alarms: a walk never gets longer, and every visit takes
\* one alarm off it, so that a tick ends after as many visits as there were
\* alarms when it began, if no callback stops the one that is visited next.
THEOREM WalksShorten ==
    ASSUME Careful
    PROVE  Spec => WalkShrinks
<1>1. ASSUME IInv, IInv', [Next]_vars
      PROVE  [/\ Ticking => ToVisit' \subseteq ToVisit
              /\ Visit => alarm \in ToVisit /\ alarm \notin ToVisit']_vars
  <2>1. CASE Visit
    <3>1. pc = "walk" /\ alarm \in ALARMS /\ alarm # Head /\ alarm \in Registered
      BY <1>1, <2>1, Numbers DEF Visit, IInv, WalkOK, InRing
    <3>2. /\ next[alarm] \in InRing /\ behind[alarm] = From(next[alarm])
          /\ alarm \notin behind[alarm]
      BY <1>1, <3>1, OwnBehind DEF IInv, Ring, RingOK, InRing
    <3>3. ToVisit = {alarm} \cup behind[alarm]
      BY <3>1 DEF ToVisit, From
    <3>4. ToVisit' = From(next[alarm])
      BY <2>1, <3>1 DEF Visit, ToVisit, From
    <3> QED
      BY <3>2, <3>3, <3>4
  <2>2. CASE CallbackReturns
    <3>1. ToVisit' \subseteq ToVisit
      BY <1>1, <2>2, ReturnShortens
    <3> QED
      BY <2>2, <3>1 DEF CallbackReturns, Visit
  <2>3. ASSUME NEW a \in ALARMS, Stop(a), pc = "call", a # saved
        PROVE  ToVisit' \subseteq ToVisit
    <3>1. \A x \in InRing \ {a} : From(x)' = From(x) \ {a}
      BY <1>1, <2>3, RemoveRing DEF Stop, IInv
    <3> QED
      BY <1>1, <2>3, <3>1 DEF Stop, ToVisit, IInv, WalkOK
  <2>4. ASSUME NEW a \in ALARMS, NEW n \in 0..MaxDelay, Start(a, n), pc = "call"
        PROVE  ToVisit' \subseteq ToVisit
    <3>1. \A x \in InRing : From(x)' = From(x)
      BY <1>1, <2>4, InsertRing DEF Start, IInv
    <3> QED
      BY <1>1, <2>4, <3>1 DEF Start, ToVisit, IInv, WalkOK
  <2>5. CASE TickEnd
    BY <2>5 DEF TickEnd, ToVisit, From, Visit
  <2>6. CASE SysclkInit \/ UNCHANGED vars
    <3>1. ToVisit' = ToVisit
      BY <2>6 DEF SysclkInit, vars, ToVisit, From
    <3> QED
      BY <2>6, <3>1 DEF SysclkInit, vars, Visit
  <2>7. CASE Program \/ TickBegin
    BY <2>7 DEF Program, TickBegin, Ticking, Visit
  <2> QED
    BY <1>1, <2>1, <2>2, <2>3, <2>4, <2>5, <2>6, <2>7
    DEF Next, TickStep, CallbackStops, CallbackStarts, Careful, Visit
<1>2. IInv /\ [Next]_vars => IInv'
  BY StepInv
<1> QED
  BY InitInv, <1>1, <1>2, PTL DEF Spec, WalkShrinks
=============================================================================
