----------------------------- MODULE Units_proofs -----------------------------
(***************************************************************************)
(* The small units of the system and the cosine path, each for all its     *)
(* constants, and that putting the units side by side changes none.        *)
(***************************************************************************)
EXTENDS Units, Cordic, Sums_proofs, FunctionTheorems, TLAPS

-----------------------------------------------------------------------------
(* sbrk(): the blocks never overlap, for every heap and every sequence of  *)
(* requests of the program and of a handler that interrupts it.            *)

\* One call at a time is under way, and it has interrupts disabled.
Busy == {c \in Callers : at[c] # "idle"}

TypeInv ==
    /\ heap_end \in Nat /\ pie \in BOOLEAN
    /\ at \in [Callers -> {"idle", "align", "check", "extend", "return"}]
    /\ incr \in [Callers -> Nat] /\ start \in [Callers -> Nat]

\* Granted blocks lie below the end of the heap, and apart from the one a call
\* is about to return.
HeapInv ==
    /\ TypeInv
    /\ \A c, d \in Busy : c = d
    /\ Busy # {} => ~pie
    /\ START <= heap_end
    /\ \A b \in blocks : /\ b = <<b[1], b[2]>>
                         /\ b[1] \in Nat /\ b[2] \in Nat
                         /\ b[1] < b[2]
                         /\ b[1] % 4 = 0 /\ START <= b[1] /\ b[2] <= LIMIT
                         /\ b[2] <= heap_end
    /\ \A b, d \in blocks : b # d => b[2] <= d[1] \/ d[2] <= b[1]
    /\ \A c \in Callers :
          /\ at[c] # "idle" => incr[c] > 0
          /\ at[c] \in {"check", "extend"} => heap_end % 4 = 0
          /\ at[c] = "extend" => /\ start[c] = heap_end
                                 /\ heap_end + incr[c] <= LIMIT
          /\ at[c] = "return" =>
                /\ start[c] % 4 = 0 /\ START <= start[c]
                /\ start[c] + incr[c] = heap_end /\ heap_end <= LIMIT
                /\ \A b \in blocks : b[2] <= start[c]

\* Rounding up reaches a multiple of four and goes down nowhere.
LEMMA AlignedUp ==
    ASSUME NEW a \in Nat
    PROVE  Aligned(a) \in Nat /\ a <= Aligned(a) /\ Aligned(a) % 4 = 0
<1>1. (a + 3) \div 4 \in Nat /\ a + 3 <= ((a + 3) \div 4) * 4 + 3
  OBVIOUS
<1>2. ((a + 3) \div 4) * 4 % 4 = 0
  BY <1>1
<1> QED
  BY <1>1, <1>2 DEF Aligned

\* The blocks are apart in every state, for every heap and every request.
THEOREM HeapBlocksApart == HeapSpec => []BlocksApart
<1>1. HeapInit => HeapInv
  BY HeapAssumption DEF HeapInit, HeapInv, TypeInv, Busy, Callers
<1>2. HeapInv /\ [HeapNext]_heapVars => HeapInv'
  <2> SUFFICES ASSUME HeapInv, [HeapNext]_heapVars PROVE HeapInv'
    OBVIOUS
  <2> USE DEF HeapInv, TypeInv, Busy, Callers, Goes, CanRun
  <2>1. ASSUME NEW c \in Callers, NEW k \in 1..MaxIncr, Call(c, k) PROVE HeapInv'
    <3>1. Busy = {}
      BY <2>1 DEF Call
    <3>2. at' = [at EXCEPT ![c] = "align"] /\ Busy' = {c}
      BY <2>1, <3>1 DEF Call
    <3>3. k \in Nat /\ k > 0
      BY HeapAssumption
    <3>4. \A e \in Callers : at[e] = "idle"
      BY <3>1
    <3>5. /\ incr' = [incr EXCEPT ![c] = k] /\ pie' = FALSE
          /\ UNCHANGED <<heap_end, start, blocks>>
      BY <2>1 DEF Call, Masked
    <3>6. TypeInv'
      BY <3>2, <3>3, <3>5
    <3>7. \A e \in Callers : /\ at'[e] # "idle" => incr'[e] > 0
                             /\ at'[e] \in {"idle", "align"}
      BY <3>2, <3>3, <3>4, <3>5
    <3> QED
      BY <3>2, <3>5, <3>6, <3>7
  <2>2. ASSUME NEW c \in Callers, Align(c) PROVE HeapInv'
    BY <2>2, AlignedUp, HeapAssumption DEF Align
  <2>3. ASSUME NEW c \in Callers, Refuse(c) PROVE HeapInv'
    BY <2>3 DEF Refuse
  <2>4. ASSUME NEW c \in Callers, TakeStart(c) PROVE HeapInv'
    BY <2>4, HeapAssumption DEF TakeStart, Exceeds
  <2>5. ASSUME NEW c \in Callers, Extend(c) PROVE HeapInv'
    BY <2>5, HeapAssumption DEF Extend
  <2>6. ASSUME NEW c \in Callers, Return(c) PROVE HeapInv'
    <3> DEFINE new == <<start[c], start[c] + incr[c]>>
    <3>1. /\ start[c] \in Nat /\ incr[c] \in Nat /\ incr[c] > 0
          /\ start[c] % 4 = 0 /\ START <= start[c]
          /\ start[c] + incr[c] = heap_end /\ heap_end <= LIMIT
          /\ \A b \in blocks : b[2] <= start[c]
      BY <2>6 DEF Return
    <3>2. new[1] = start[c] /\ new[2] = start[c] + incr[c]
      OBVIOUS
    <3>3. Busy = {c} /\ Busy' = {} /\ at' = [at EXCEPT ![c] = "idle"]
      BY <2>6 DEF Return
    <3>4. blocks' = blocks \cup {new}
      BY <2>6 DEF Return
    <3> HIDE DEF new
    <3>5. \A b \in blocks' : /\ b = <<b[1], b[2]>>
                            /\ b[1] \in Nat /\ b[2] \in Nat
                            /\ b[1] < b[2]
                            /\ b[1] % 4 = 0 /\ START <= b[1] /\ b[2] <= LIMIT
                            /\ b[2] <= heap_end
      BY <3>1, <3>2, <3>4 DEF new
    <3>6. \A b, d \in blocks' : b # d => b[2] <= d[1] \/ d[2] <= b[1]
      BY <3>1, <3>2, <3>4
    <3> QED
      BY <2>6, <3>3, <3>5, <3>6 DEF Return
  <2>7. CASE UNCHANGED heapVars
    BY <2>7 DEF heapVars
  <2> QED
    BY <2>1, <2>2, <2>3, <2>4, <2>5, <2>6, <2>7 DEF HeapNext
<1>3. HeapInv => BlocksApart
  BY DEF HeapInv, BlocksApart
<1> QED
  BY <1>1, <1>2, <1>3, PTL DEF HeapSpec

-----------------------------------------------------------------------------
(* The vector driver: for vectors of every length it gives the accelerator *)
(* each element once, and from behind the vector at most one word.         *)

\* The elements before j have been summed, and j is an element.
SumInv == /\ M \in Lengths /\ j \in Nat /\ j % 2 = 0 /\ j < M
          /\ pc \in {"loop", "last", "returned"}
          /\ pc # "returned" => sum = SetToBag(0..(j - 1))
          /\ pc = "last" => M <= j + 2
          /\ pc = "returned" => y = sum /\ sum = SetToBag(0..(M - 1) \cup Stray)

(* Two values more, added to a bag of others.                              *)
LEMMA AddPair ==
    ASSUME NEW S, NEW e, NEW f, e \notin S, f \notin S, e # f
    PROVE  SetToBag(S) (+) Terms(<<e, f>>) = SetToBag(S \cup {e, f})
<1>1. SetToBag({e}) (+) SetToBag({f}) = SetToBag({e, f})
  BY DEF SetToBag, (+)
<1>2. SetToBag(S) (+) SetToBag({e, f}) = SetToBag(S \cup {e, f})
  BY DEF SetToBag, (+)
<1>3. QED
  BY <1>1, <1>2 DEF Terms

(* A call adds what is at j and j + 1: two elements, or the last one of an *)
(* odd vector and the word behind it.                                      *)
LEMMA CallAdds ==
    ASSUME SumInv, pc # "returned", Accelerate(<<x(j), x(j + 1)>>)
    PROVE  /\ j + 2 <= M => sum' = SetToBag(0..(j + 1))
           /\ j + 1 = M => sum' = SetToBag(0..j \cup {Outside})
<1>1. M \in Nat /\ j \in Nat /\ j < M /\ Outside \notin Nat
  BY LengthsAssumption DEF SumInv
<1>2. x(j) = j /\ sum' = SetToBag(0..(j - 1)) (+) Terms(<<j, x(j + 1)>>)
  BY <1>1 DEF x, Accelerate, SumInv
<1>3. ASSUME j + 2 <= M PROVE sum' = SetToBag(0..(j + 1))
  <2>1. x(j + 1) = j + 1
    <3>1. j + 1 < M
      BY <1>1, <1>3
    <3>2. QED
      BY <3>1 DEF x
  <2>2. /\ 0..(j - 1) \cup {j, j + 1} = 0..(j + 1)
        /\ j \notin 0..(j - 1) /\ j + 1 \notin 0..(j - 1) /\ j # j + 1
    <3>1. \A k \in Int : k \in 0..(j - 1) \/ k = j \/ k = j + 1 <=> k \in 0..(j + 1)
      BY <1>1
    <3>2. 0..(j - 1) \cup {j, j + 1} = 0..(j + 1)
      BY <1>1, <3>1
    <3>3. QED
      BY <1>1, <3>2
  <2>3. SetToBag(0..(j - 1)) (+) Terms(<<j, j + 1>>)
          = SetToBag(0..(j - 1) \cup {j, j + 1})
    BY <2>2, AddPair, Zenon
  <2>4. QED
    BY <1>2, <2>1, <2>2, <2>3
<1>4. ASSUME j + 1 = M PROVE sum' = SetToBag(0..j \cup {Outside})
  <2>1. x(j + 1) = Outside
    BY <1>1, <1>4 DEF x
  <2>2. /\ j \notin 0..(j - 1) /\ Outside \notin 0..(j - 1) /\ j # Outside
    BY <1>1
  <2>3. 0..(j - 1) \cup {j, Outside} = 0..j \cup {Outside}
    <3>1. 0..(j - 1) \cup {j} = 0..j
      BY <1>1
    <3>2. QED
      BY <3>1
  <2>4. SetToBag(0..(j - 1)) (+) Terms(<<j, Outside>>)
          = SetToBag(0..(j - 1) \cup {j, Outside})
    BY <2>2, AddPair, Zenon
  <2>5. QED
    BY <1>2, <2>1, <2>3, <2>4
<1>5. QED
  BY <1>3, <1>4

LEMMA SumInvHolds == Init /\ [][Next]_driverVars => []SumInv
<1> USE LengthsAssumption
<1>1. Init => SumInv
  <2> SUFFICES ASSUME Init PROVE SumInv
    OBVIOUS
  <2>1. 0..(0 - 1) = {}
    OBVIOUS
  <2>2. EmptyBag = SetToBag({})
    BY DEF EmptyBag, SetToBag
  <2>3. QED
    BY <2>1, <2>2 DEF Init, SumInv
<1>2. SumInv /\ [Next]_driverVars => SumInv'
  <2> SUFFICES ASSUME SumInv, [Next]_driverVars PROVE SumInv'
    OBVIOUS
  <2>1. M \in Nat
    BY DEF SumInv
  <2>2. CASE Loop
    <3>1. j + 2 < M /\ j' = j + 2 /\ M' = M /\ pc' = pc /\ pc = "loop"
      BY <2>2 DEF Loop, More
    <3>2. sum' = SetToBag(0..(j + 1))
      BY <2>1, <2>2, <3>1, CallAdds DEF Loop, SumInv
    <3>3. j' % 2 = 0 /\ j' < M /\ j' \in Nat /\ j' - 1 = j + 1
      BY <2>1, <3>1 DEF SumInv
    <3>4. QED
      BY <3>1, <3>2, <3>3 DEF SumInv
  <2>3. CASE LoopEnd
    <3>1. ~(j + 2 < M) /\ UNCHANGED <<M, j, y, sum>> /\ pc = "loop" /\ pc' = "last"
      BY <2>3 DEF LoopEnd, More
    <3>2. M <= j + 2
      BY <2>1, <3>1 DEF SumInv
    <3>3. QED
      BY <3>1, <3>2 DEF SumInv
  <2>4. CASE LastCall
    <3>1. /\ Accelerate(<<x(j), x(j + 1)>>) /\ y' = sum' /\ pc' = "returned"
          /\ M' = M /\ j' = j /\ pc = "last" /\ M <= j + 2 /\ j < M /\ j \in Nat
          /\ j % 2 = 0
      BY <2>4 DEF LastCall, SumInv
    <3>2. sum' = SetToBag(0..(M - 1) \cup Stray)
      <4>1. CASE j + 2 = M
        <5>1. M - 1 = j + 1 /\ M % 2 = 0
          BY <2>1, <3>1, <4>1
        <5>2. sum' = SetToBag(0..(j + 1))
          BY <2>1, <3>1, <4>1, CallAdds
        <5>3. 0..(M - 1) \cup Stray = 0..(j + 1)
          BY <5>1 DEF Stray
        <5>4. QED
          BY <5>2, <5>3
      <4>2. CASE j + 1 = M
        <5>1. M - 1 = j /\ M % 2 = 1
          BY <2>1, <3>1, <4>2
        <5>2. sum' = SetToBag(0..j \cup {Outside})
          BY <2>1, <3>1, <4>2, CallAdds
        <5>3. 0..(M - 1) \cup Stray = 0..j \cup {Outside}
          BY <5>1 DEF Stray
        <5>4. QED
          BY <5>2, <5>3
      <4>3. QED
        BY <2>1, <3>1, <4>1, <4>2
    <3>3. Stray' = Stray
      BY <3>1 DEF Stray
    <3>4. QED
      BY <3>1, <3>2, <3>3 DEF SumInv
  <2>5. CASE UNCHANGED driverVars
    BY <2>5 DEF driverVars, SumInv, Stray
  <2>6. CASE Returned
    BY <2>6 DEF Returned, driverVars, SumInv, Stray
  <2>7. QED
    BY <2>2, <2>3, <2>4, <2>5, <2>6 DEF Next
<1>3. QED
  BY <1>1, <1>2, PTL

LEMMA SumInvSummed == SumInv => SumsTheVector
<1> SUFFICES ASSUME SumInv, BagIn(Outside, sum)
             PROVE  M % 2 = 1 /\ pc = "returned"
  BY DEF SumInv, SumsTheVector
<1>1. /\ Outside \notin Nat /\ M \in Nat /\ j \in Nat
      /\ Outside \notin 0..(j - 1) /\ Outside \notin 0..(M - 1)
  BY LengthsAssumption DEF SumInv
<1>2. Outside \in DOMAIN sum
  BY DEF BagIn, BagToSet
<1>3. pc = "returned"
  BY <1>1, <1>2 DEF SumInv, SetToBag
<1>4. Outside \in Stray
  BY <1>1, <1>2, <1>3 DEF SumInv, SetToBag
<1>5. QED
  BY <1>3, <1>4 DEF Stray

(* The function sums the elements of its vector, each of them once, and    *)
(* one word behind it exactly if the length is odd: for every length.      *)
THEOREM VectorsSummed == Spec => []SumsTheVector
  BY SumInvSummed, SumInvHolds, PTL DEF Spec

-----------------------------------------------------------------------------
(* The wall clock.                                                         *)

\* A tick is a whole number of microseconds.
ClockNumbers ==
    /\ WORD \in Nat \ {0} /\ ALT_US \in Nat \ {0} /\ RATE \in Nat \ {0}
    /\ MaxSec \in Nat
    /\ ALT_US % RATE = 0

\* How far the offset and the ticks are ahead of what has passed since 0.
Ahead == reset_sec * ALT_US + reset_usec + nticks * Clock!PerTick - wall

ClockInv ==
    /\ nticks \in Nat /\ reset_sec \in Int /\ reset_usec \in Int /\ wall \in Nat
    /\ reset_sec + (nticks \div RATE) >= 0
    /\ Ahead \in (1 - ALT_US)..(ALT_US - 1)
    /\ exact => Ahead = 0

(* Quotient and remainder of whole numbers.                                *)
LEMMA DivMod ==
    ASSUME NEW a \in Int, NEW b \in Nat \ {0}
    PROVE  /\ a \div b \in Int /\ (a % b) \in 0..(b - 1)
           /\ a = (a \div b) * b + (a % b)
           /\ a >= 0 => a \div b >= 0
OBVIOUS

LEMMA DivUnique ==
    ASSUME NEW b \in Nat \ {0}, NEW q \in Int, NEW r \in 0..(b - 1)
    PROVE  (q * b + r) \div b = q /\ ((q * b + r) % b) = r
OBVIOUS

(* Whole seconds and the rest of a number of ticks.                        *)
LEMMA TicksSplit ==
    ASSUME ClockNumbers, NEW k \in Nat
    PROVE  /\ Clock!PerTick \in Nat
           /\ k \div RATE \in Nat
           /\ ((k * Clock!PerTick) % ALT_US) \in Nat
           /\ k * Clock!PerTick
                = (k \div RATE) * ALT_US + ((k * Clock!PerTick) % ALT_US)
<1> DEFINE p == Clock!PerTick
           q == k \div RATE
           r == k % RATE
<1>1. p \in Nat /\ ALT_US = p * RATE
  <2>1. ALT_US \div RATE \in Int /\ ALT_US = (ALT_US \div RATE) * RATE + (ALT_US % RATE)
    BY DivMod DEF ClockNumbers
  <2>2. ALT_US \div RATE >= 0
    BY DEF ClockNumbers
  <2>3. p = ALT_US \div RATE
    BY DEF Clock!PerTick
  <2>4. QED
    BY <2>1, <2>2, <2>3 DEF ClockNumbers
<1>2. q \in Int /\ q >= 0 /\ r \in 0..(RATE - 1) /\ k = q * RATE + r
  <2>1. RATE \in Nat \ {0} /\ k \in Int /\ k >= 0
    BY DEF ClockNumbers
  <2>2. QED
    BY ONLY <2>1, DivMod DEF q, r
<1> HIDE DEF p, q, r
<1>3. p * RATE \in Nat /\ q * RATE \in Nat /\ r * p \in Nat /\ k * p \in Nat
  BY <1>1, <1>2 DEF ClockNumbers
<1>4. k * p = q * (p * RATE) + r * p
  BY <1>1, <1>2 DEF ClockNumbers
<1>5. r * p \in 0..(ALT_US - 1)
  <2>1. p # 0
    BY <1>1 DEF ClockNumbers
  <2>2. RATE - r \in Nat \ {0}
    BY <1>2 DEF ClockNumbers
  <2>3. (RATE - r) * p >= 1
    BY <1>1, <2>1, <2>2
  <2>4. (RATE - r) * p = RATE * p - r * p /\ RATE * p = p * RATE
    BY <1>1, <1>2 DEF ClockNumbers
  <2>5. QED
    BY <1>1, <1>3, <2>3, <2>4
<1>6. k * p = q * ALT_US + r * p
  BY <1>1, <1>4
<1>7. (k * p) % ALT_US = r * p
  <2>1. PICK z \in 0..(ALT_US - 1) : z = r * p
    BY <1>5
  <2>2. ((q * ALT_US + z) % ALT_US) = z
    BY <1>2, DivUnique DEF ClockNumbers
  <2>3. QED
    BY <1>6, <2>1, <2>2
<1>8. QED
  BY <1>1, <1>2, <1>3, <1>6, <1>7 DEF p, q

(* The fraction stays within a second, and is the right one as long as the *)
(* product has not passed the word.                                        *)
LEMMA Fraction ==
    ASSUME ClockNumbers, NEW k \in Nat
    PROVE  /\ Clock!TickFraction(k) \in 0..(ALT_US - 1)
           /\ k * Clock!PerTick < WORD
                => Clock!TickFraction(k) = (k * Clock!PerTick) % ALT_US
<1> DEFINE f == k * Clock!PerTick
<1>1. f \in Nat
  <2>1. Clock!PerTick \in Nat
    BY TicksSplit
  <2>2. QED
    BY <2>1
<1>2. Clock!TickFraction(k) = (f % WORD) % ALT_US
  BY DEF Clock!TickFraction
<1> HIDE DEF f
<1>3. f % WORD \in Int
  BY <1>1 DEF ClockNumbers
<1>4. (f % WORD) % ALT_US \in 0..(ALT_US - 1)
  BY <1>3, DivMod DEF ClockNumbers
<1>5. f < WORD => f % WORD = f
  BY <1>1 DEF ClockNumbers
<1>6. QED
  BY <1>2, <1>4, <1>5 DEF f

(* The seconds do not fall from one tick to the next.                      *)
LEMMA SecondsGrow ==
    ASSUME NEW r \in Nat \ {0}, NEW k \in Nat
    PROVE  k \div r \in Nat /\ (k + 1) \div r \in Nat /\ (k + 1) \div r >= k \div r
OBVIOUS

(* What gettimeofday() makes of a count of seconds and microseconds.       *)
LEMMA NormalizedIsExact ==
    ASSUME NEW s \in Int, NEW u \in Int, NEW t \in Nat, t = s * ALT_US + u,
           ALT_US \in Nat \ {0}
    PROVE  Clock!Normalized([sec |-> s, usec |-> u])
             = [sec |-> t \div ALT_US, usec |-> t % ALT_US]
<1> DEFINE q == u \div ALT_US
           r == u % ALT_US
<1>1. q \in Int /\ r \in 0..(ALT_US - 1) /\ u = q * ALT_US + r
  BY DivMod
<1> HIDE DEF q, r
<1>2. t = (s + q) * ALT_US + r
  BY <1>1
<1>3. t \div ALT_US = s + q /\ (t % ALT_US) = r
  BY <1>1, <1>2, DivUnique
<1>4. t \div ALT_US >= 0
  OBVIOUS
<1>5. Clock!Carry([sec |-> s, usec |-> u]) = [sec |-> s + q, usec |-> r]
  BY DEF Clock!Carry, q, r
<1>6. QED
  BY <1>3, <1>4, <1>5 DEF Clock!Normalized

(* A count before zero is read as zero.                                    *)
LEMMA NormalizedIsZero ==
    ASSUME NEW s \in Nat, NEW u \in Int, s * ALT_US + u < 0, ALT_US \in Nat \ {0}
    PROVE  Clock!Normalized([sec |-> s, usec |-> u]) = [sec |-> 0, usec |-> 0]
<1> DEFINE q == u \div ALT_US
           r == u % ALT_US
<1>1. q \in Int /\ r \in 0..(ALT_US - 1) /\ u = q * ALT_US + r
  BY DivMod
<1> HIDE DEF q, r
<1>2. s * ALT_US \in Nat /\ u < 0
  BY s * ALT_US + u < 0
<1>3. s + q < 0
  <2> SUFFICES ASSUME s + q >= 0 PROVE FALSE
    BY <1>1
  <2>1. (s + q) * ALT_US >= 0 /\ (s + q) * ALT_US = s * ALT_US + q * ALT_US
    BY <1>1
  <2>2. q * ALT_US \in Int
    BY <1>1
  <2>3. QED
    BY <1>1, <1>2, <2>1, <2>2
<1>4. Clock!Carry([sec |-> s, usec |-> u]) = [sec |-> s + q, usec |-> r]
  BY DEF Clock!Carry, q, r
<1>5. QED
  BY <1>2, <1>3, <1>4 DEF Clock!Normalized

(* What is read is what was set plus the time since, for every tick rate   *)
(* that divides a second, every word and every time of setting: exactly if *)
(* the product had not passed the word then, and within a second if it had.*)
THEOREM ClockReadsWall == ClockNumbers => (Clock!Spec => []GetIsWall)
<1> SUFFICES ASSUME ClockNumbers PROVE Clock!Spec => []GetIsWall
  OBVIOUS
<1>1. Clock!Init => ClockInv
  <2> SUFFICES ASSUME Clock!Init PROVE ClockInv
    OBVIOUS
  <2>1. /\ nticks = 0 /\ reset_sec = 0 /\ reset_usec = 0 /\ wall = 0
        /\ Clock!PerTick \in Nat /\ 0 \div RATE \in Nat
    BY TicksSplit DEF Clock!Init
  <2>2. 0 * ALT_US = 0 /\ 0 * Clock!PerTick = 0
    BY <2>1 DEF ClockNumbers
  <2>3. Ahead = 0
    BY <2>1, <2>2 DEF Ahead
  <2>4. QED
    BY <2>1, <2>3 DEF ClockInv, ClockNumbers
<1>2. ClockInv /\ [Clock!Next]_Clock!vars => ClockInv'
  <2> SUFFICES ASSUME ClockInv, [Clock!Next]_Clock!vars PROVE ClockInv'
    OBVIOUS
  <2>0. Clock!PerTick \in Nat /\ Clock!PerTick' = Clock!PerTick
    BY TicksSplit DEF Clock!PerTick
  <2>1. CASE Clock!Tick
    <3>1. /\ nticks' = nticks + 1 /\ wall' = wall + Clock!PerTick
          /\ reset_sec' = reset_sec /\ reset_usec' = reset_usec /\ exact' = exact
      BY <2>1 DEF Clock!Tick
    <3>2. (nticks + 1) * Clock!PerTick = nticks * Clock!PerTick + Clock!PerTick
          /\ nticks * Clock!PerTick \in Nat /\ reset_sec * ALT_US \in Int
      BY <2>0 DEF ClockInv, ClockNumbers
    <3>3. Ahead' = Ahead
      BY <2>0, <3>1, <3>2 DEF Ahead, ClockInv
    <3>4. /\ nticks \div RATE \in Nat /\ (nticks + 1) \div RATE \in Nat
          /\ (nticks + 1) \div RATE >= nticks \div RATE
      BY SecondsGrow DEF ClockInv, ClockNumbers
    <3>5. reset_sec' + (nticks' \div RATE) >= 0
      BY <3>1, <3>4 DEF ClockInv
    <3>6. QED
      BY <2>0, <3>1, <3>3, <3>5 DEF ClockInv
  <2>2. ASSUME NEW s \in 0..MaxSec, NEW u \in 0..(ALT_US - 1),
               Clock!Settimeofday(s, u)
        PROVE  ClockInv'
    <3> DEFINE q == nticks \div RATE
               f == (nticks * Clock!PerTick) % ALT_US
               g == Clock!TickFraction(nticks)
    <3>1. /\ reset_sec' = s - q /\ reset_usec' = u - g
          /\ wall' = s * ALT_US + u /\ nticks' = nticks
          /\ exact' = (nticks * Clock!PerTick < WORD)
      BY <2>2 DEF Clock!Settimeofday
    <3>2. /\ q \in Nat /\ f \in Nat
          /\ nticks * Clock!PerTick = q * ALT_US + f
      BY TicksSplit DEF ClockInv
    <3>3. f \in 0..(ALT_US - 1)
      BY <2>0, DivMod DEF ClockInv, ClockNumbers
    <3>4. g \in 0..(ALT_US - 1) /\ (exact' => g = f)
      BY <3>1, Fraction DEF ClockInv
    <3>5. nticks' \div RATE = q
      BY <3>1
    <3> HIDE DEF q, f, g
    <3>6. s \in Nat /\ u \in Nat /\ s * ALT_US \in Nat
      BY DEF ClockNumbers
    <3>7. (s - q) * ALT_US = s * ALT_US - q * ALT_US /\ q * ALT_US \in Nat
      BY <3>2, <3>6 DEF ClockNumbers
    <3>8. Ahead' = (s - q) * ALT_US + (u - g) + (q * ALT_US + f) - (s * ALT_US + u)
      BY <2>0, <3>1, <3>2 DEF Ahead
    <3>9. Ahead' = f - g
      BY <3>3, <3>4, <3>6, <3>7, <3>8
    <3>10. Ahead' \in (1 - ALT_US)..(ALT_US - 1) /\ (exact' => Ahead' = 0)
      BY <3>3, <3>4, <3>9 DEF ClockNumbers
    <3>11. reset_sec' + (nticks' \div RATE) >= 0
      BY <3>1, <3>2, <3>5, <3>6
    <3>12. QED
      BY <3>1, <3>2, <3>4, <3>6, <3>10, <3>11 DEF ClockInv
  <2>3. CASE Clock!SysclkInit \/ Clock!NoSystemClock \/ UNCHANGED Clock!vars
    <3>1. UNCHANGED <<nticks, reset_sec, reset_usec, wall, exact>>
      BY <2>3 DEF Clock!SysclkInit, Clock!NoSystemClock, Clock!vars
    <3>2. Ahead' = Ahead
      BY <2>0, <3>1 DEF Ahead
    <3>3. QED
      BY <3>1, <3>2 DEF ClockInv
  <2>4. QED
    BY <2>1, <2>2, <2>3 DEF Clock!Next
<1>3. ClockInv => GetIsWall
  <2> SUFFICES ASSUME ClockInv PROVE Clock!GetIsWall
    BY DEF GetIsWall
  <2> DEFINE q == nticks \div RATE
             f == (nticks * Clock!PerTick) % ALT_US
             sec == reset_sec + q
             usec == reset_usec + f
             t == Clock!Gettimeofday
  <2>1. q \in Nat /\ f \in Nat /\ nticks * Clock!PerTick = q * ALT_US + f
    BY TicksSplit DEF ClockInv
  <2>2. t = Clock!Normalized([sec |-> sec, usec |-> usec])
    BY DEF Clock!Gettimeofday
  <2>3. sec \in Nat /\ usec \in Int
    BY <2>1 DEF ClockInv
  <2>4. /\ ALT_US \in Nat \ {0} /\ wall \in Nat
        /\ Ahead \in (1 - ALT_US)..(ALT_US - 1) /\ (exact => Ahead = 0)
    BY DEF ClockInv, ClockNumbers
  <2>5. Ahead = sec * ALT_US + usec - wall
    <3>1. sec * ALT_US = reset_sec * ALT_US + q * ALT_US
          /\ reset_sec * ALT_US \in Int /\ q * ALT_US \in Int
      BY <2>1 DEF ClockInv, ClockNumbers
    <3> HIDE DEF q, f
    <3>2. QED
      BY <2>1, <3>1 DEF Ahead, ClockInv
  <2> HIDE DEF q, f, sec, usec, t
  <2>6. PICK n \in Int : n = sec * ALT_US + usec
    BY <2>3, <2>4
  <2>7. CASE n >= 0
    <3>1. t = [sec |-> n \div ALT_US, usec |-> n % ALT_US]
      BY <2>2, <2>3, <2>4, <2>6, <2>7, NormalizedIsExact
    <3>2. /\ n = (n \div ALT_US) * ALT_US + (n % ALT_US)
          /\ n % ALT_US \in 0..(ALT_US - 1) /\ n \div ALT_US >= 0
      BY <2>4, <2>7, DivMod
    <3>3. t.sec * ALT_US + t.usec = n /\ t.sec >= 0 /\ t.usec \in 0..(ALT_US - 1)
      BY <3>1, <3>2
    <3>4. n - wall = Ahead
      BY <2>3, <2>4, <2>5, <2>6
    <3>5. t.sec * ALT_US + t.usec - wall = Ahead
      <4>1. t.sec \in Int /\ t.usec \in Int
        BY <3>1, <3>2, <2>4
      <4>2. QED
        BY <2>4, <3>3, <3>4, <4>1
    <3>6. QED
      BY <2>4, <3>3, <3>5 DEF Clock!GetIsWall, t
  <2>8. CASE n < 0
    <3>1. t = [sec |-> 0, usec |-> 0]
      BY <2>2, <2>3, <2>4, <2>6, <2>8, NormalizedIsZero
    <3>2. t.sec = 0 /\ t.usec = 0 /\ 0 * ALT_US = 0
      BY <2>4, <3>1
    <3>3. Ahead = n - wall
      BY <2>3, <2>4, <2>5, <2>6
    <3>4. ~exact /\ 0 - wall \in (1 - ALT_US)..(ALT_US - 1)
      BY <2>4, <2>8, <3>3
    <3>5. QED
      BY <2>4, <3>2, <3>4 DEF Clock!GetIsWall, t
  <2>9. QED
    BY <2>6, <2>7, <2>8
<1>4. QED
  BY <1>1, <1>2, <1>3, PTL DEF Clock!Spec

-----------------------------------------------------------------------------
(* The fixed-latency instructions.                                         *)

\* Components that declare a cycle at least, of cores of any depth; only a core
\* that the gaps wipe has to be through before the reading cycle ends.
FixedNumbers ==
    /\ MaxCalls \in Nat
    /\ \A p \in Component :
          /\ Cycles[p] \in Nat \ {0}
          /\ \A c \in p : /\ Stages[c] \in Nat \ {0}
                          /\ c \in Wiped => Stages[c] < Cycles[p]

\* The edges that have clocked the cores since the reset.
Clocked == IF clk_en THEN (data - 1) * Cycles[comp] + edges ELSE data * Cycles[comp]

\* Call o was on the bus at edge e, of those that clocked the cores; 0 is what
\* the reset has left, as from edges before the first.
OnBusAt(o, e) == /\ o \in Nat
                 /\ o = 0 => e <= 0
                 /\ o # 0 => (o - 1) * Cycles[comp] < e /\ e <= o * Cycles[comp]

\* Register k holds the call that was on the bus k edges ago; in a core that the
\* gaps wipe the edges of the instruction count.
FixedInv ==
    /\ comp \in Component /\ N \in comp
    /\ clk_en \in BOOLEAN /\ data \in Nat /\ edges \in 0..(Cycles[comp] - 1)
    /\ clk_en => data # 0
    /\ ~clk_en => edges = 0
    /\ \A c \in comp : IsChain(chain[c], Stages[c])
    /\ \A c \in comp \ Wiped : \A k \in 1..Stages[c] :
          OnBusAt(chain[c][k], Clocked - k + 1)
    /\ clk_en => \A c \in comp \cap Wiped : \A k \in 1..Stages[c] :
                    k <= edges => chain[c][k] = data

Passed(v, f) == <<v>> \o Fixed!Front(f)

(* A register passes its content to the next one.                          *)
LEMMA CoreMoves ==
    ASSUME NEW n \in Nat \ {0}, NEW f, IsChain(f, n), NEW v
    PROVE  /\ IsChain(Passed(v, f), n)
           /\ \A k \in 1..n : Passed(v, f)[k] = IF k = 1 THEN v ELSE f[k - 1]
<1> DEFINE S == {f[k] : k \in 1..n} \cup {v}
           g == Passed(v, f)
<1>1. f \in Seq(S) /\ Len(f) = n
  <2>1. f \in [1..n -> S]
    BY DEF IsChain
  <2> HIDE DEF S
  <2>2. QED
    BY <2>1, ChainEnd
<1>2. /\ Fixed!Front(f) \in Seq(S) /\ Len(Fixed!Front(f)) = n - 1
      /\ \A k \in 1 .. n - 1 : Fixed!Front(f)[k] = f[k]
  <2> HIDE DEF S
  <2>1. QED
    BY <1>1 DEF Fixed!Front
<1>3. <<v>> \in Seq(S) /\ Len(<<v>>) = 1 /\ <<v>>[1] = v
  <2>1. v \in S
    OBVIOUS
  <2> HIDE DEF S
  <2>2. QED
    BY <2>1
<1> HIDE DEF S
<1>4. /\ g \in Seq(S) /\ Len(g) = n
      /\ \A k \in 1..n : g[k] = IF k = 1 THEN v ELSE f[k - 1]
  BY <1>2, <1>3 DEF Passed
<1>5. IsChain(g, n)
  <2> HIDE DEF g
  <2>1. QED
    BY <1>4 DEF IsChain
<1>6. QED
  BY <1>4, <1>5

(* One edge more on the bus.                                               *)
LEMMA ClockedEdge ==
    ASSUME NEW C \in Nat \ {0}, NEW d \in Nat
    PROVE  (d + 1) * C = d * C + C /\ d * C \in Nat
           /\ (d # 0 => (d - 1) * C = d * C - C /\ (d - 1) * C \in Nat)
OBVIOUS

(* The cores at an edge that clocks them.                                  *)
LEMMA CoresAtEdge ==
    ASSUME FixedNumbers, FixedInv, Fixed!CoreEdge, clk_en, comp' = comp
    PROVE  /\ \A c \in comp : IsChain(chain'[c], Stages[c])
           /\ \A c \in comp \ Wiped : \A k \in 1..Stages[c] :
                 OnBusAt(chain'[c][k], Clocked + 1 - k + 1)
           /\ \A c \in comp \cap Wiped : \A k \in 1..Stages[c] :
                 k <= edges + 1 => chain'[c][k] = data
<1>1. ASSUME NEW c \in comp
      PROVE  /\ Stages[c] \in Nat \ {0} /\ IsChain(chain'[c], Stages[c])
             /\ \A k \in 1..Stages[c] :
                   chain'[c][k] = IF k = 1 THEN data ELSE chain[c][k - 1]
  <2>1. chain'[c] = Passed(data, chain[c])
    BY DEF Fixed!CoreEdge, Fixed!Shifted, Passed
  <2>2. Stages[c] \in Nat \ {0} /\ IsChain(chain[c], Stages[c])
    BY DEF FixedInv, FixedNumbers
  <2>3. QED
    BY <2>1, <2>2, CoreMoves
<1>2. Cycles[comp] \in Nat \ {0} /\ data \in Nat /\ data # 0
      /\ edges \in 0..(Cycles[comp] - 1)
      /\ Clocked = (data - 1) * Cycles[comp] + edges
  BY DEF FixedInv, FixedNumbers, Clocked
<1>3. /\ (data - 1) * Cycles[comp] = data * Cycles[comp] - Cycles[comp]
      /\ (data - 1) * Cycles[comp] \in Nat /\ data * Cycles[comp] \in Nat
  BY <1>2, ClockedEdge
<1>4. ASSUME NEW c \in comp \ Wiped, NEW k \in 1..Stages[c]
      PROVE  OnBusAt(chain'[c][k], Clocked + 1 - k + 1)
  <2>1. CASE k = 1
    <3>1. chain'[c][k] = data /\ Clocked + 1 - k + 1 = Clocked + 1
      BY <1>1, <1>2, <1>3, <2>1
    <3>2. OnBusAt(data, Clocked + 1)
      BY <1>2, <1>3 DEF OnBusAt
    <3>3. QED
      BY <3>1, <3>2
  <2>2. CASE k # 1
    <3>1. k - 1 \in 1..Stages[c] /\ chain'[c][k] = chain[c][k - 1]
      BY <1>1, <2>2
    <3>2. OnBusAt(chain[c][k - 1], Clocked - (k - 1) + 1)
      BY <3>1 DEF FixedInv
    <3>3. Clocked - (k - 1) + 1 = Clocked + 1 - k + 1
      BY <1>2, <1>3
    <3>4. QED
      BY <3>1, <3>2, <3>3
  <2>3. QED
    BY <2>1, <2>2
<1>5. ASSUME NEW c \in comp \cap Wiped, NEW k \in 1..Stages[c], k <= edges + 1
      PROVE  chain'[c][k] = data
  <2>1. CASE k = 1
    BY <1>1, <2>1
  <2>2. CASE k # 1
    <3>1. k - 1 \in 1..Stages[c] /\ k - 1 <= edges /\ chain'[c][k] = chain[c][k - 1]
      BY <1>1, <1>2, <1>5, <2>2
    <3>2. QED
      BY <3>1 DEF FixedInv
  <2>3. QED
    BY <2>1, <2>2
<1>6. QED
  BY <1>1, <1>4, <1>5

(* Every edge of the processor and the cores keeps the invariant.          *)
LEMMA FixedEdge ==
    ASSUME FixedNumbers, FixedInv, Fixed!Edge
    PROVE  FixedInv'
<1> DEFINE C == Cycles[comp]
<1>1. /\ C \in Nat \ {0} /\ data \in Nat /\ edges \in 0..(C - 1)
      /\ comp' = comp /\ comp \in Component /\ N \in comp
      /\ clk_en \in BOOLEAN /\ (clk_en => data # 0) /\ (~clk_en => edges = 0)
      /\ Fixed!CoreEdge
  BY DEF FixedInv, FixedNumbers, Fixed!Edge
<1>2. /\ (data + 1) * C = data * C + C /\ data * C \in Nat
      /\ (data # 0 => (data - 1) * C = data * C - C /\ (data - 1) * C \in Nat)
  <2> HIDE DEF C
  <2>1. QED
    BY <1>1, ClockedEdge
<1>3. /\ N' \in comp /\ clk_en' \in BOOLEAN /\ data' \in Nat /\ edges' \in 0..(C - 1)
      /\ clk_en' => data' # 0
      /\ ~clk_en' => edges' = 0
      /\ clk_en => Clocked' = Clocked + 1
      /\ ~clk_en => Clocked' = Clocked
      /\ edges' = 0 \/ (clk_en /\ clk_en' /\ edges' = edges + 1 /\ data' = data)
  <2>1. Clocked' = IF clk_en' THEN (data' - 1) * C + edges' ELSE data' * C
    BY <1>1 DEF Clocked
  <2>2. CASE Fixed!CpuCount
    <3>1. clk_en /\ clk_en' /\ edges' = edges + 1 /\ N' = N /\ data' = data
          /\ edges # C - 1
      BY <2>2 DEF Fixed!CpuCount, Fixed!Reading
    <3>2. Clocked' = Clocked + 1
      BY <1>1, <1>2, <2>1, <3>1 DEF Clocked
    <3>3. edges' \in 0..(C - 1)
      BY <1>1, <3>1
    <3>4. QED
      BY <1>1, <3>1, <3>2, <3>3
  <2>3. CASE Fixed!CpuIssue
    <3>1. /\ clk_en' = TRUE /\ edges' = 0 /\ N' \in comp /\ data' = data + 1
          /\ clk_en => edges = C - 1
      BY <1>1, <2>3 DEF Fixed!CpuIssue, Fixed!Reading
    <3>2. data' - 1 = data /\ Clocked' = data * C
      BY <1>1, <1>2, <2>1, <3>1
    <3>3. clk_en => Clocked + 1 = data * C
      BY <1>1, <1>2, <3>1 DEF Clocked
    <3>4. ~clk_en => Clocked' = Clocked
      BY <3>2 DEF Clocked
    <3>5. 0 \in 0..(C - 1) /\ data + 1 # 0 /\ data + 1 \in Nat
      BY <1>1
    <3>6. QED
      BY <1>1, <3>1, <3>2, <3>3, <3>4, <3>5
  <2>4. CASE Fixed!CpuPause
    <3>1. /\ clk_en' = FALSE /\ edges' = 0 /\ N' = N /\ data' = data
          /\ clk_en => edges = C - 1
      BY <1>1, <2>4 DEF Fixed!CpuPause, Fixed!Reading
    <3>2. Clocked' = data * C
      BY <2>1, <3>1
    <3>3. clk_en => Clocked + 1 = data * C
      BY <1>1, <1>2, <3>1 DEF Clocked
    <3>4. ~clk_en => Clocked' = Clocked
      BY <3>2 DEF Clocked
    <3>5. 0 \in 0..(C - 1) /\ data + 1 # 0 /\ data + 1 \in Nat
      BY <1>1
    <3>6. QED
      BY <1>1, <3>1, <3>2, <3>3, <3>4, <3>5
  <2>5. QED
    BY <2>2, <2>3, <2>4 DEF Fixed!Edge
<1> HIDE DEF C
<1>4. CASE clk_en
  <2>1. /\ \A c \in comp : IsChain(chain'[c], Stages[c])
        /\ \A c \in comp \ Wiped : \A k \in 1..Stages[c] :
              OnBusAt(chain'[c][k], Clocked' - k + 1)
        /\ \A c \in comp \cap Wiped : \A k \in 1..Stages[c] :
              k <= edges + 1 => chain'[c][k] = data
    <3>1. /\ \A c \in comp : IsChain(chain'[c], Stages[c])
          /\ \A c \in comp \ Wiped : \A k \in 1..Stages[c] :
                OnBusAt(chain'[c][k], Clocked + 1 - k + 1)
          /\ \A c \in comp \cap Wiped : \A k \in 1..Stages[c] :
                k <= edges + 1 => chain'[c][k] = data
      BY <1>1, <1>4, CoresAtEdge
    <3>2. ASSUME NEW c \in comp \ Wiped, NEW k \in 1..Stages[c]
          PROVE  OnBusAt(chain'[c][k], Clocked' - k + 1)
      <4>1. Clocked' = Clocked + 1
        BY <1>3, <1>4
      <4>2. \A e : e = Clocked + 1 - k + 1 => OnBusAt(chain'[c][k], e)
        BY <3>1
      <4>3. Clocked + 1 - k + 1 = Clocked' - k + 1
        <5>1. Clocked \in Int
          BY <1>1, <1>2 DEF Clocked, C
        <5>2. QED
          BY <4>1, <5>1
      <4>4. QED
        BY <4>2, <4>3
    <3>3. QED
      BY <3>1, <3>2
  <2>2. \A c \in comp \ Wiped : \A k \in 1..Stages[c] :
              OnBusAt(chain[c][k], Clocked - k + 1)'
    BY <1>1, <2>1 DEF OnBusAt
  <2>3. ASSUME clk_en', NEW c \in comp \cap Wiped, NEW k \in 1..Stages[c], k <= edges'
        PROVE  chain'[c][k] = data'
    <3>1. edges' # 0
      BY <2>3
    <3>2. QED
      BY <1>3, <2>1, <2>3, <3>1
  <2>4. QED
    BY <1>1, <1>3, <2>1, <2>2, <2>3 DEF FixedInv, C
<1>5. CASE ~clk_en
  <2>1. \A c \in comp : chain'[c] = IF c \in Wiped THEN Fixed!Cleared(c) ELSE chain[c]
    BY <1>1, <1>5 DEF Fixed!CoreEdge
  <2>2. \A c \in comp : IsChain(chain'[c], Stages[c])
    BY <2>1 DEF FixedInv, Fixed!Cleared, IsChain
  <2>3. \A c \in comp \ Wiped : \A k \in 1..Stages[c] :
              OnBusAt(chain[c][k], Clocked - k + 1)'
    <3>1. \A c \in comp \ Wiped : \A k \in 1..Stages[c] :
              OnBusAt(chain'[c][k], Clocked' - k + 1)
      BY <1>3, <1>5, <2>1 DEF FixedInv
    <3>2. QED
      BY <1>1, <3>1 DEF OnBusAt
  <2>4. \A c : \A k \in 1..Stages[c] : ~(k <= edges')
    BY <1>3, <1>5
  <2>5. QED
    BY <1>1, <1>3, <2>2, <2>3, <2>4 DEF FixedInv, C
<1>6. QED
  BY <1>1, <1>4, <1>5

(* After the reset every register holds what no call has put there.        *)
ResetState ==
    /\ comp \in Component /\ N \in comp /\ chain = [c \in comp |-> Fixed!Cleared(c)]
    /\ clk_en = FALSE /\ data = 0 /\ edges = 0

LEMMA FixedCleared == FixedNumbers /\ ResetState => FixedInv
<1> SUFFICES ASSUME FixedNumbers, ResetState PROVE FixedInv
  OBVIOUS
<1> USE DEF ResetState
<1>1. Cycles[comp] \in Nat \ {0} /\ \A c \in comp : Stages[c] \in Nat \ {0}
  BY DEF FixedNumbers
<1>2. Clocked = 0
  BY <1>1 DEF Clocked
<1>3. \A c \in comp : IsChain(chain[c], Stages[c])
                      /\ \A k \in 1..Stages[c] : chain[c][k] = 0
  BY DEF Fixed!Cleared, Fixed!NoData, IsChain
<1>4. ASSUME NEW c \in comp \ Wiped, NEW k \in 1..Stages[c]
      PROVE  OnBusAt(chain[c][k], Clocked - k + 1)
  BY <1>1, <1>2, <1>3 DEF OnBusAt
<1>5. edges \in 0..(Cycles[comp] - 1)
  BY <1>1
<1>6. QED
  BY <1>3, <1>4, <1>5 DEF FixedInv

(* Which call is in the last register of a core in the reading cycle.      *)
LEMMA DueCall ==
    ASSUME FixedNumbers, FixedInv, Fixed!Reading
    PROVE  chain[N][Stages[N]]
             = IF data > Fixed!Lag(N) THEN data - Fixed!Lag(N) ELSE 0
<1> DEFINE C == Cycles[comp]
           s == Stages[N]
           l == s \div C
           o == chain[N][s]
<1>1. /\ C \in Nat \ {0} /\ s \in Nat \ {0} /\ data \in Nat \ {0}
      /\ clk_en /\ edges = C - 1 /\ N \in comp /\ (N \in Wiped => s < C)
  BY DEF FixedInv, FixedNumbers, Fixed!Reading
<1>2. l \in Nat /\ l * C <= s /\ s < l * C + C /\ Fixed!Lag(N) = l
  <2>1. l \in Int /\ l >= 0 /\ s % C \in 0..(C - 1) /\ s = l * C + (s % C)
    <3>1. C \in Nat \ {0} /\ s \in Int /\ s >= 0
      BY <1>1
    <3> HIDE DEF C, s
    <3>2. QED
      BY ONLY <3>1, DivMod DEF l
  <2>2. QED
    BY <1>1, <2>1 DEF Fixed!Lag
<1>3. CASE N \in Wiped
  <2>1. l = 0
    <3> HIDE DEF C, s, l
    <3>1. ~(l >= 1)
      <4>1. l >= 1 => (l - 1) * C >= 0 /\ (l - 1) * C = l * C - C
        BY <1>1, <1>2
      <4>2. l * C \in Int
        BY <1>1, <1>2
      <4>3. QED
        BY <1>1, <1>2, <1>3, <4>1, <4>2
    <3>2. QED
      BY <1>2, <3>1
  <2>2. o = data
    BY <1>1, <1>3 DEF FixedInv
  <2>3. Fixed!Lag(N) = 0
    BY <1>2, <2>1
  <2>4. data > 0 /\ data - 0 = data
    BY <1>1
  <2>5. QED
    BY <2>2, <2>3, <2>4
<1>4. CASE N \notin Wiped
  <2>1. OnBusAt(o, Clocked - s + 1)
    BY <1>1, <1>4 DEF FixedInv
  <2>2. Clocked = (data - 1) * C + (C - 1)
    BY <1>1 DEF Clocked
  <2>3. /\ o \in Nat
        /\ o = 0 => Clocked - s + 1 <= 0
        /\ o # 0 => (o - 1) * C < Clocked - s + 1 /\ Clocked - s + 1 <= o * C
    BY <2>1 DEF OnBusAt
  <2> HIDE DEF C, s, l, o
  <2>4. Clocked - s + 1 = data * C - s /\ data * C \in Int
    BY <1>1, <2>2, ClockedEdge
  <2>5. CASE o # 0
    <3>1. (o - 1) * C = o * C - C /\ o * C \in Int /\ l * C \in Int
      BY <1>1, <1>2, <2>3
    <3>2. o * C - C < data * C - s /\ data * C - s <= o * C
      BY <2>3, <2>4, <2>5, <3>1
    <3>3. o * C + l * C - data * C < C /\ 0 - C < o * C + l * C - data * C
      BY <1>1, <1>2, <2>4, <3>1, <3>2
    <3>4. (o + l - data) * C = o * C + l * C - data * C
      BY <1>1, <1>2, <2>3
    <3>5. o + l - data = 0
      <4> DEFINE z == o + l - data
      <4>1. z \in Int /\ z * C < C /\ 0 - C < z * C
        BY <1>1, <1>2, <2>3, <3>3, <3>4
      <4> HIDE DEF z
      <4>2. z < 1
        <5> SUFFICES ASSUME z >= 1 PROVE FALSE
          BY <4>1
        <5>1. (z - 1) * C >= 0 /\ (z - 1) * C = z * C - C /\ z * C \in Int
          BY <1>1, <4>1
        <5>2. QED
          BY <1>1, <4>1, <5>1
      <4>3. z > 0 - 1
        <5> SUFFICES ASSUME z <= 0 - 1 PROVE FALSE
          BY <4>1
        <5>1. (0 - 1 - z) * C >= 0 /\ (0 - 1 - z) * C = 0 - C - z * C /\ z * C \in Int
          BY <1>1, <4>1
        <5>2. QED
          BY <1>1, <4>1, <5>1
      <4>4. QED
        BY <4>1, <4>2, <4>3 DEF z
    <3>6. o = data - l /\ data > l
      BY <1>1, <1>2, <2>3, <2>5, <3>5
    <3>7. QED
      BY <1>2, <3>6 DEF o, s
  <2>6. CASE o = 0
    <3>1. data * C <= s
      BY <1>1, <2>3, <2>4, <2>6
    <3>2. ~(data > l)
      <4> SUFFICES ASSUME data > l PROVE FALSE
        OBVIOUS
      <4>1. (data - l - 1) * C >= 0
        BY <1>1, <1>2
      <4>2. (data - l - 1) * C = data * C - l * C - C /\ l * C \in Int
        BY <1>1, <1>2
      <4>3. QED
        BY <1>1, <1>2, <2>4, <3>1, <4>1, <4>2
    <3>3. QED
      BY <1>2, <2>6, <3>2 DEF o, s
  <2>7. QED
    BY <2>5, <2>6
<1>5. QED
  BY <1>3, <1>4

(* An instruction takes the result of the call that its core's depth and   *)
(* its component's cycles make due, for components of any number of cores  *)
(* of any depth and instructions of all cores at every distance.           *)
THEOREM FixedTakesDue == FixedNumbers => (Fixed!Spec => []TakesDueResult)
<1> SUFFICES ASSUME FixedNumbers PROVE Fixed!Spec => []TakesDueResult
  OBVIOUS
<1>1. Fixed!Init => FixedInv
  BY FixedCleared DEF Fixed!Init, Fixed!NoData, ResetState
<1>2. FixedInv /\ [Fixed!Next]_Fixed!fixedVars => FixedInv'
  <2>1. FixedInv /\ Fixed!Edge => FixedInv'
    BY FixedEdge
  <2>2. FixedInv /\ Fixed!Aclr => FixedInv'
    <3> SUFFICES ASSUME FixedInv, Fixed!Aclr PROVE FixedInv'
      OBVIOUS
    <3>1. (FixedNumbers /\ ResetState => FixedInv)'
      BY FixedCleared, PTL
    <3>2. FixedNumbers' <=> FixedNumbers
      BY DEF FixedNumbers
    <3>3. /\ comp' = comp /\ N' = N /\ comp \in Component /\ N \in comp
          /\ chain' = [c \in comp |-> Fixed!Cleared(c)]
          /\ clk_en' = FALSE /\ data' = 0 /\ edges' = 0
      BY DEF Fixed!Aclr, Fixed!NoData, FixedInv
    <3>4. chain' = [c \in comp' |-> Fixed!Cleared(c)']
      BY <3>3 DEF Fixed!Cleared, Fixed!NoData
    <3>5. QED
      BY <3>1, <3>2, <3>3, <3>4 DEF ResetState
  <2>3. FixedInv /\ UNCHANGED Fixed!fixedVars => FixedInv'
    BY DEF Fixed!fixedVars, FixedInv, OnBusAt, Clocked
  <2>4. QED
    BY <2>1, <2>2, <2>3 DEF Fixed!Next
<1>3. FixedInv => TakesDueResult
  <2> SUFFICES ASSUME FixedInv, Fixed!Reading
               PROVE  Fixed!result = IF data > Fixed!Lag(N) THEN data - Fixed!Lag(N)
                                     ELSE 0
    BY DEF TakesDueResult, Fixed!TakesDueResult, Fixed!NoData
  <2>1. Fixed!result = chain[N][Stages[N]]
    <3>1. Len(chain[N]) = Stages[N]
      BY ChainEnd DEF FixedInv, FixedNumbers
    <3>2. QED
      BY <3>1 DEF Fixed!result, Fixed!Last
  <2>2. QED
    BY <2>1, DueCall
<1>4. QED
  BY <1>1, <1>2, <1>3, PTL DEF Fixed!Spec

-----------------------------------------------------------------------------
(* The busy delay.                                                         *)

\* A big loop spins for a microsecond at least.
SleepNumbers ==
    /\ INT_MAX \in Nat /\ PER_US \in Nat \ {0} /\ PER_US <= INT_MAX
    /\ SleepTimes \subseteq Nat

\* How many of the first b big loops start at zero.
Unloaded(b) == IF reloads \/ b = 0 THEN 0 ELSE b - 1

\* While the big loops run, us is what is left and turns what has been spent.
SleepInv ==
    /\ sleepPc \in {"main", "big"}
    /\ sleepPc = "big" =>
         /\ asked \in SleepTimes /\ big_loops = asked \div Sleep!PerLoop
         /\ big_done \in 0..big_loops
         /\ us = asked - big_done * Sleep!PerLoop
         /\ turns \in big_done * INT_MAX
                        .. big_done * INT_MAX + Unloaded(big_done) * Sleep!W
    /\ Sleep!SleepsAsAsked

(* What is left for the last loop, in turns, fits into the word.           *)
LEMMA LastTurns ==
    ASSUME SleepNumbers, NEW t \in SleepTimes
    PROVE  LET L == Sleep!PerLoop
               q == t \div L
               n == (t - q * L) * PER_US
           IN  /\ L \in Nat \ {0} /\ q \in Nat
               /\ n \in 0..INT_MAX
               /\ n = 0 => t % L = 0
               /\ q * INT_MAX + n \in t * PER_US .. (t + q) * PER_US
<1> DEFINE L == Sleep!PerLoop
           q == t \div L
           m == t % L
           r == INT_MAX % PER_US
<1>0. INT_MAX \in Nat /\ PER_US \in Nat \ {0} /\ PER_US <= INT_MAX /\ t \in Nat
  BY DEF SleepNumbers
<1>1. L \in Int /\ r \in 0..(PER_US - 1) /\ INT_MAX = L * PER_US + r
  BY <1>0, DivMod DEF Sleep!PerLoop
<1>2. L \in Nat \ {0}
  <2> HIDE DEF L, r
  <2>1. L * PER_US >= 1
    BY <1>0, <1>1
  <2>2. CASE L <= 0
    <3>1. (0 - L) * PER_US >= 0
      BY <1>0, <1>1, <2>2
    <3>2. (0 - L) * PER_US = 0 - L * PER_US /\ L * PER_US \in Int
      BY <1>0, <1>1
    <3>3. QED
      BY <2>1, <3>1, <3>2
  <2>3. QED
    BY <1>1, <2>2
<1>3. q \in Nat /\ m \in 0..(L - 1) /\ t = q * L + m
  <2>1. PICK l \in Nat \ {0} : l = L
    BY <1>2
  <2> HIDE DEF L
  <2>2. t \div l \in Int /\ (t % l) \in 0..(l - 1) /\ t = (t \div l) * l + (t % l)
        /\ t \div l >= 0
    <3>1. t \in Int /\ t >= 0
      BY <1>0
    <3>2. QED
      BY ONLY <3>1, l \in Nat \ {0}, DivMod
  <2>3. q = t \div l /\ m = (t % l)
    BY <2>1
  <2>4. QED
    BY <2>1, <2>2, <2>3
<1> HIDE DEF L, q, m, r
<1>5. q * L \in Nat /\ t - q * L = m
  BY <1>2, <1>3
<1>7. m * PER_US \in 0..INT_MAX /\ (m * PER_US = 0 => m = 0)
  <2>1. m * PER_US \in Nat /\ L * PER_US \in Nat
    BY <1>0, <1>2, <1>3
  <2>2. (L - m) * PER_US >= 0 /\ (L - m) * PER_US = L * PER_US - m * PER_US
    BY <1>0, <1>2, <1>3
  <2>3. m # 0 => m * PER_US >= 1
    BY <1>0, <1>3
  <2>4. QED
    BY <1>0, <1>1, <2>1, <2>2, <2>3
<1>8. q * INT_MAX + m * PER_US = t * PER_US + q * r
  <2>1. q * INT_MAX = q * (L * PER_US) + q * r
    BY <1>1, <1>2, <1>3, <1>0
  <2>2. t * PER_US = (q * L) * PER_US + m * PER_US
    BY <1>0, <1>2, <1>3
  <2>3. (q * L) * PER_US = q * (L * PER_US)
    BY <1>0, <1>2, <1>3
  <2>4. q * (L * PER_US) \in Int /\ q * r \in Int /\ m * PER_US \in Int
    BY <1>0, <1>1, <1>2, <1>3
  <2>5. QED
    BY <2>1, <2>2, <2>3, <2>4
<1>9. q * r \in Nat /\ q * r <= q * PER_US
      /\ (t + q) * PER_US = t * PER_US + q * PER_US
  <2>1. q * (PER_US - r) >= 0 /\ q * (PER_US - r) = q * PER_US - q * r
    BY <1>0, <1>1, <1>3
  <2>2. q * r \in Nat /\ q * PER_US \in Nat
    BY <1>0, <1>1, <1>3
  <2>3. (t + q) * PER_US = t * PER_US + q * PER_US
    BY <1>0, <1>3
  <2>4. QED
    BY <2>1, <2>2, <2>3
<1>10. t * PER_US \in Nat /\ q * PER_US \in Nat
  BY <1>0, <1>3
<1>11. q * INT_MAX + m * PER_US \in t * PER_US .. (t + q) * PER_US
  BY <1>8, <1>9, <1>10
<1>12. QED
  <2>1. (t - q * L) * PER_US = m * PER_US
    BY <1>5
  <2>2. t % L = m
    BY DEF m
  <2>3. QED
    BY <1>2, <1>3, <1>7, <1>11, <2>1, <2>2 DEF L, q

(* Of two whole numbers of words the larger.                               *)
LEMMA WordsMore ==
    ASSUME NEW w \in Nat, NEW a \in Nat
    PROVE  a * w \in Nat /\ (a + 1) * w = a * w + w /\ 0 * w = 0
OBVIOUS

(* A call never spins shorter than it was asked to, and longer only by the *)
(* rounding of each big loop, one turn, and a word for each loop that      *)
(* starts at zero: for every word, every speed, every time and either way  *)
(* to build the big loop.                                                  *)
THEOREM DelaySleepsAsAsked == SleepNumbers => (Sleep!Spec => []SleepsAsAsked)
<1> SUFFICES ASSUME SleepNumbers PROVE Sleep!Spec => []SleepsAsAsked
  OBVIOUS
<1>0. /\ INT_MAX \in Nat \ {0} /\ PER_US \in Nat /\ SleepTimes \subseteq Nat
      /\ Sleep!W = 2 * (INT_MAX + 1) /\ Sleep!W \in Nat /\ INT_MAX < Sleep!W
  BY DEF SleepNumbers, Sleep!W
<1>1. Sleep!Init => SleepInv
  BY DEF Sleep!Init, SleepInv, Sleep!SleepsAsAsked
<1>2. SleepInv /\ [Sleep!Next]_Sleep!vars => SleepInv'
  <2> SUFFICES ASSUME SleepInv, [Sleep!Next]_Sleep!vars PROVE SleepInv'
    OBVIOUS
  <2>0. Sleep!PerLoop' = Sleep!PerLoop /\ Sleep!W' = Sleep!W
    BY DEF Sleep!PerLoop, Sleep!W
  <2>1. ASSUME NEW t \in SleepTimes, Sleep!Call(t) PROVE SleepInv'
    <3>1. t \div Sleep!PerLoop \in Nat /\ Sleep!PerLoop \in Nat /\ t \in Nat
      BY LastTurns DEF SleepNumbers
    <3>2. /\ asked' = t /\ us' = t /\ big_done' = 0 /\ turns' = 0
          /\ big_loops' = t \div Sleep!PerLoop /\ sleepPc' = "big"
      BY <2>1 DEF Sleep!Call
    <3>3. 0 * Sleep!PerLoop = 0 /\ 0 * INT_MAX = 0 /\ t - 0 = t /\ 0 * Sleep!W = 0
      BY <1>0, <3>1
    <3>4. Unloaded(big_done)' = 0
      BY <3>2 DEF Unloaded
    <3>5. turns' \in big_done' * INT_MAX
                       .. big_done' * INT_MAX + Unloaded(big_done)' * Sleep!W'
      BY <2>0, <3>2, <3>3, <3>4
    <3>6. QED
      BY <2>0, <3>1, <3>2, <3>3, <3>5 DEF SleepInv, Sleep!SleepsAsAsked
  <2>2. CASE Sleep!BigLoop
    <3>1. /\ sleepPc = "big" /\ sleepPc' = "big" /\ big_done < big_loops
          /\ turns' = turns + Sleep!UntilZero(Sleep!Counter)
          /\ us' = us - Sleep!PerLoop
          /\ big_done' = big_done + 1 /\ asked' = asked /\ big_loops' = big_loops
          /\ reloads' = reloads
      BY <2>2 DEF Sleep!BigLoop, Sleep!LessUs
    <3>2. /\ asked \in SleepTimes /\ big_loops = asked \div Sleep!PerLoop
          /\ big_done \in 0..big_loops
          /\ us = asked - big_done * Sleep!PerLoop
          /\ turns \in big_done * INT_MAX
                         .. big_done * INT_MAX + Unloaded(big_done) * Sleep!W
      BY <3>1 DEF SleepInv
    <3>3. Sleep!PerLoop \in Nat /\ big_loops \in Nat /\ asked \in Nat
          /\ big_done \in Nat /\ big_done < big_loops
      BY <1>0, <3>1, <3>2, LastTurns
    <3>4. /\ (big_done + 1) * Sleep!PerLoop
               = big_done * Sleep!PerLoop + Sleep!PerLoop
          /\ (big_done + 1) * INT_MAX = big_done * INT_MAX + INT_MAX
          /\ big_done * Sleep!PerLoop \in Int /\ big_done * INT_MAX \in Nat
      BY <1>0, <3>3
    <3>5. us' = asked - (big_done + 1) * Sleep!PerLoop
      BY <3>1, <3>2, <3>3, <3>4
    <3>6. big_done' \in 0..big_loops
      BY <3>1, <3>3
    <3>7. PICK a \in Nat : a = Unloaded(big_done)
      BY <3>3 DEF Unloaded
    <3>8. a * Sleep!W \in Nat /\ (a + 1) * Sleep!W = a * Sleep!W + Sleep!W
      BY <1>0, WordsMore
    <3>9. \/ Sleep!UntilZero(Sleep!Counter) = INT_MAX /\ Unloaded(big_done)' = a
          \/ Sleep!UntilZero(Sleep!Counter) = Sleep!W /\ Unloaded(big_done)' = a + 1
      <4>1. CASE reloads \/ big_done = 0
        <5>1. Sleep!UntilZero(Sleep!Counter) = INT_MAX
          BY <1>0, <4>1 DEF Sleep!UntilZero, Sleep!Counter
        <5>2. Unloaded(big_done)' = 0 /\ a = 0
          BY <3>1, <3>3, <3>7, <4>1 DEF Unloaded
        <5>3. QED
          BY <5>1, <5>2
      <4>2. CASE ~(reloads \/ big_done = 0)
        <5>1. Sleep!UntilZero(Sleep!Counter) = Sleep!W
          BY <4>2 DEF Sleep!UntilZero, Sleep!Counter
        <5>2. Unloaded(big_done)' = big_done /\ a = big_done - 1
          BY <3>1, <3>3, <3>7, <4>2 DEF Unloaded
        <5>3. QED
          BY <3>3, <5>1, <5>2
      <4>3. QED
        BY <4>1, <4>2
    <3>10. turns' \in (big_done + 1) * INT_MAX
                        .. (big_done + 1) * INT_MAX + Unloaded(big_done)' * Sleep!W
      BY <1>0, <3>1, <3>2, <3>4, <3>7, <3>8, <3>9
    <3>11. QED
      BY <2>0, <3>1, <3>2, <3>5, <3>6, <3>10 DEF SleepInv, Sleep!SleepsAsAsked
  <2>3. CASE Sleep!LastLoop
    <3> DEFINE rest == us * PER_US
               n    == rest % Sleep!W
    <3>1. /\ sleepPc = "big" /\ sleepPc' = "main" /\ big_done = big_loops
          /\ turns' = turns + IF big_loops # 0 THEN Sleep!UntilZero(n)
                                               ELSE Sleep!WhilePositive(n)
          /\ UNCHANGED <<asked, us, big_done, big_loops, reloads>>
      BY <2>3 DEF Sleep!LastLoop
    <3>2. /\ asked \in SleepTimes /\ big_loops = asked \div Sleep!PerLoop
          /\ us = asked - big_loops * Sleep!PerLoop
          /\ turns \in big_loops * INT_MAX
                         .. big_loops * INT_MAX + Unloaded(big_loops) * Sleep!W
      BY <3>1 DEF SleepInv
    <3>3. /\ rest \in 0..INT_MAX /\ big_loops \in Nat
          /\ rest = 0 => asked % Sleep!PerLoop = 0
          /\ big_loops * INT_MAX + rest
               \in asked * PER_US .. (asked + big_loops) * PER_US
      BY <3>2, LastTurns
    <3>4. n = rest
      <4>1. \A k \in 0..INT_MAX : k % Sleep!W = k
        BY <1>0
      <4>2. QED
        BY <3>3, <4>1
    <3>5. /\ asked * PER_US \in Nat /\ (asked + big_loops) * PER_US \in Nat
          /\ big_loops * INT_MAX \in Nat
      BY <1>0, <3>2, <3>3
    <3> HIDE DEF rest, n
    <3>6. PICK a \in Nat : a = Unloaded(big_loops)
      BY <3>3 DEF Unloaded
    <3>7. a * Sleep!W \in Nat /\ (a + 1) * Sleep!W = a * Sleep!W + Sleep!W
      BY <1>0, WordsMore
    <3>8. \/ turns' = turns + rest /\ Sleep!Rounds \in {a, a + 1}
          \/ turns' = turns + 1 /\ rest = 0 /\ Sleep!Rounds = a
          \/ turns' = turns + Sleep!W /\ rest = 0 /\ Sleep!Rounds = a + 1
      <4>1. Sleep!Rounds = a + (IF big_loops # 0 /\ asked % Sleep!PerLoop = 0
                                THEN 1 ELSE 0)
        BY <3>6 DEF Sleep!Rounds, Unloaded
      <4>2. QED
        BY <3>1, <3>3, <3>4, <4>1 DEF Sleep!UntilZero, Sleep!WhilePositive
    <3>9. turns' \in asked * PER_US
                       .. (asked + big_loops) * PER_US + 1 + Sleep!Rounds * Sleep!W
      BY <1>0, <3>2, <3>3, <3>5, <3>6, <3>7, <3>8
    <3>10. Sleep!Rounds' = Sleep!Rounds
      BY <2>0, <3>1 DEF Sleep!Rounds
    <3>11. QED
      BY <2>0, <3>1, <3>9, <3>10 DEF SleepInv, Sleep!SleepsAsAsked
  <2>4. CASE UNCHANGED Sleep!vars
    BY <2>0, <2>4 DEF Sleep!vars, SleepInv, Sleep!SleepsAsAsked, Sleep!Rounds, Unloaded
  <2>5. QED
    BY <2>1, <2>2, <2>3, <2>4 DEF Sleep!Next
<1>3. SleepInv => SleepsAsAsked
  BY DEF SleepInv, SleepsAsAsked
<1>4. QED
  BY <1>1, <1>2, <1>3, PTL DEF Sleep!Spec

-----------------------------------------------------------------------------
(* Powers of two, for every exponent.                                      *)

(* Doubling: a set with one element more has twice as many subsets.         *)
LEMMA Doubles == ASSUME NEW n \in Nat PROVE 2^n \in Nat /\ 2^(n + 1) = 2 * 2^n
<1>1. PICK e, I : e = n + 1 /\ I = 1..n
  OBVIOUS
<1>2. e \notin I /\ I \cup {e} = 1..(n + 1)
  BY <1>1
<1> DEFINE A == SUBSET I
           B == {s \cup {e} : s \in A}
<1>3. /\ IsFiniteSet(I) /\ Cardinality(I) = n
      /\ IsFiniteSet(I \cup {e}) /\ Cardinality(I \cup {e}) = n + 1
  <2>1. /\ IsFiniteSet(1..n) /\ Cardinality(1..n) = IF 1 > n THEN 0 ELSE n - 1 + 1
    BY FS_Interval
  <2>2. Cardinality(1..n) = n
    BY <2>1
  <2>3. IsFiniteSet(I) /\ Cardinality(I) = n
    BY <1>1, <2>1, <2>2
  <2>4. QED
    BY <1>2, <2>3, FS_AddElement
<1>4. /\ IsFiniteSet(A) /\ Cardinality(A) = 2^n /\ Cardinality(A) \in Nat
      /\ Cardinality(SUBSET (I \cup {e})) = 2^(n + 1)
  BY <1>3, FS_SUBSET, FS_CardinalityType
<1>5. IsFiniteSet(B) /\ Cardinality(B) = Cardinality(A)
  <2> DEFINE f == [s \in A |-> s \cup {e}]
  <2>1. ASSUME NEW s \in A, NEW t \in A, f[s] = f[t] PROVE s = t
    <3>1. s \cup {e} = t \cup {e} /\ e \notin s /\ e \notin t
      BY <1>2, <2>1
    <3>2. QED
      BY <3>1
  <2>2. f \in [A -> B] /\ \A t \in B : \E s \in A : f[s] = t
    OBVIOUS
  <2> HIDE DEF f, A, B
  <2>3. f \in Bijection(A, B)
    BY <2>1, <2>2, Fun_IsBij
  <2>4. ExistsBijection(A, B)
    BY <2>3 DEF ExistsBijection
  <2>5. QED
    BY <1>4, <2>4, FS_Bijection
<1>6. SUBSET (I \cup {e}) = A \cup B
  <2>1. ASSUME NEW s \in SUBSET (I \cup {e}) PROVE s \in A \cup B
    <3>1. s \ {e} \in A
      OBVIOUS
    <3>2. CASE e \in s
      <4>1. s = (s \ {e}) \cup {e}
        BY <3>2
      <4>2. QED
        BY <3>1, <4>1
    <3>3. CASE e \notin s
      <4>1. s \in A
        BY <3>3
      <4>2. QED
        BY <4>1
    <3>4. QED
      BY <3>2, <3>3
  <2>2. ASSUME NEW s \in A \cup B PROVE s \in SUBSET (I \cup {e})
    OBVIOUS
  <2>3. QED
    BY <2>1, <2>2
<1>7. A \cap B = {}
  <2>1. ASSUME NEW t \in A, NEW s \in A, t = s \cup {e} PROVE FALSE
    <3>1. e \in t
      BY <2>1
    <3>2. QED
      BY <1>2, <3>1
  <2>2. QED
    BY <2>1
<1>8. Cardinality(A \cup B) = Cardinality(A) + Cardinality(B)
  <2> HIDE DEF A, B
  <2>1. Cardinality(A \cup B) = Cardinality(A) + Cardinality(B) - Cardinality({})
    BY <1>4, <1>5, <1>7, FS_Union
  <2>2. Cardinality({}) = 0
    BY FS_EmptySet
  <2>3. QED
    BY <1>4, <1>5, <2>1, <2>2
<1>9. Cardinality(A \cup B) = 2^(n + 1)
  <2>1. Cardinality(SUBSET (I \cup {e})) = 2^(n + 1)
    BY <1>4
  <2> HIDE DEF A, B
  <2>2. QED
    BY <1>6, <2>1
<1> HIDE DEF A, B
<1>10. 2^(n + 1) = 2^n + 2^n /\ 2^n \in Nat
  BY <1>4, <1>5, <1>8, <1>9
<1>11. QED
  BY <1>10

\* 2^n is never zero.
LEMMA PowPositive == \A n \in Nat : 2^n \in Nat \ {0}
<1> DEFINE S == {n \in Nat : 2^n \in Nat \ {0}}
<1>1. 0 \in S
  OBVIOUS
<1>2. ASSUME NEW n \in Nat, n \in S PROVE n + 1 \in S
  BY <1>2, Doubles
<1>3. Nat \subseteq S
  <2> HIDE DEF S
  <2>1. QED
    BY <1>1, <1>2, Induction
<1>4. QED
  BY <1>3

\* Exponents add.
LEMMA PowAdds == ASSUME NEW a \in Nat, NEW b \in Nat PROVE 2^(a + b) = 2^a * 2^b
<1> DEFINE S == {n \in Nat : 2^(a + n) = 2^a * 2^n}
<1>1. 0 \in S
  <2>1. a + 0 = a /\ 2^0 = 1 /\ 2^a \in Nat
    BY Doubles
  <2>2. QED
    BY <2>1
<1>2. ASSUME NEW n \in Nat, n \in S PROVE n + 1 \in S
  <2>1. 2^(a + (n + 1)) = 2 * 2^(a + n)
    <3>1. a + (n + 1) = (a + n) + 1 /\ a + n \in Nat
      OBVIOUS
    <3>2. QED
      BY <3>1, Doubles
  <2>2. 2^(n + 1) = 2 * 2^n /\ 2^n \in Nat /\ 2^a \in Nat
    BY Doubles
  <2>3. 2^(a + n) = 2^a * 2^n
    BY <1>2
  <2>4. 2 * (2^a * 2^n) = 2^a * (2 * 2^n)
    BY <2>2
  <2>5. QED
    BY <2>1, <2>2, <2>3, <2>4
<1>3. Nat \subseteq S
  <2> HIDE DEF S
  <2>1. QED
    BY <1>1, <1>2, Induction
<1>4. QED
  BY <1>3
-----------------------------------------------------------------------------
(* The emulated multiplications and divisions.                             *)

\* A word has a sign bit.
WordNumbers == BITS \in Nat \ {0}

Dividend == IF op = "div" THEN MulDiv!Magnitude(rA) ELSE rA
Divisor  == IF op = "div" THEN MulDiv!Magnitude(rB) ELSE rB

\* With p and q the powers of two of the turns to come and of the turns that
\* were: r3 holds the bits of the dividend that are left above those of the
\* quotient so far, which with the remainder makes up the bits that were taken.
Divided(p, q) ==
    /\ r13 \in Nat /\ r13 < r6
    /\ \E quot \in 0..(q - 1), rest \in 0..(p - 1) :
          /\ r3 = rest * q + quot
          /\ Dividend = (quot * r6 + r13) * p + rest

\* r6 holds the bits of the multiplier that are left at its top, r12 those that
\* are left at its end; r9 is the product of the others up to a multiple of a
\* word, r10 the product of the others without its lowest bits.
Multiplied(p, q) ==
    /\ r9 \in MulDiv!Word /\ r10 \in MulDiv!Word
    /\ \E top, over \in Nat, rest \in 0..(p - 1) :
          rB = top * p + rest /\ r6 = rest * q /\ rA * top = over * MulDiv!W + r9
    /\ \E end, cut \in 0..(q - 1) :
          r12 \in Nat /\ rB = r12 * q + end /\ rA * end = r10 * q + cut

MulDivInv ==
    /\ mulDivPc \in {"main", "divide", "multiply", "store"}
    /\ rA \in MulDiv!Word /\ rB \in MulDiv!Word
    /\ mulDivPc \in {"divide", "multiply"} => r14 \in 0..BITS
    /\ mulDivPc = "divide" =>
          /\ op \in MulDiv!Divisions /\ r6 = Divisor
          /\ r17 = (op = "div" /\ MulDiv!Negative(rA) # MulDiv!Negative(rB))
          /\ r6 # 0 => Divided(2^r14, 2^(BITS - r14))
    /\ mulDivPc = "multiply" =>
          /\ op \in MulDiv!Multiplications /\ r3 = rA
          /\ Multiplied(2^r14, 2^(BITS - r14))
    /\ MulDiv!EmulationMatches

(* A turn takes the top bit of what is left, for p and q of the turns after *)
(* it and before it.                                                        *)
LEMMA TopBit ==
    ASSUME NEW p \in Nat \ {0}, NEW q \in Nat \ {0}, NEW rest \in 0..(2 * p - 1),
           NEW low \in 0..(q - 1), NEW v \in Nat, v = rest * q + low
    PROVE  \E bit \in 0..1, rem \in 0..(p - 1) :
              /\ rest = bit * p + rem
              /\ (v >= p * q) <=> (bit = 1)
              /\ v \in 0..(2 * (p * q) - 1)
              /\ (2 * v) % (2 * (p * q)) = rem * (2 * q) + 2 * low
<1>1. PICK bit \in 0..1, rem \in 0..(p - 1) : rest = bit * p + rem
  <2>1. CASE rest < p
    <3>1. rest = 0 * p + rest /\ rest \in 0..(p - 1)
      BY <2>1
    <3>2. QED
      BY <3>1
  <2>2. CASE rest >= p
    <3>1. rest = 1 * p + (rest - p) /\ rest - p \in 0..(p - 1)
      BY <2>2
    <3>2. QED
      BY <3>1
  <2>3. QED
    BY <2>1, <2>2
<1>2. PICK pq \in Nat \ {0}, lq \in Nat : pq = p * q /\ lq = rem * q
  <2>1. p * q \in Nat \ {0} /\ rem * q \in Nat
    <3>1. p * q \in Nat /\ rem * q \in Nat
      OBVIOUS
    <3>2. p * q # 0
      OBVIOUS
    <3>3. QED
      BY <3>1, <3>2
  <2>2. QED
    BY <2>1
<1>3. lq + low < pq
  <2>1. (p - 1 - rem) * q >= 0
    <3>1. p - 1 - rem \in Nat /\ q \in Nat
      OBVIOUS
    <3>2. QED
      BY <3>1
  <2>2. (p - 1 - rem) * q = pq - q - lq
    BY <1>2
  <2>3. QED
    BY <2>1, <2>2
<1>4. v = bit * pq + (lq + low)
  <2>1. (bit * p + rem) * q = bit * (p * q) + rem * q
    OBVIOUS
  <2>2. QED
    BY <1>1, <1>2, <2>1
<1>5. bit = 0 \/ bit = 1
  OBVIOUS
<1>6. ((v >= pq) <=> (bit = 1)) /\ v \in 0..(2 * pq - 1)
  BY ONLY <1>2, <1>3, <1>4, <1>5, low \in 0..(q - 1), q \in Nat
<1>7. (2 * v) % (2 * pq) = 2 * lq + 2 * low
  <2>1. 2 * v = bit * (2 * pq) + (2 * lq + 2 * low)
    BY <1>4, <1>5
  <2>2. 2 * lq + 2 * low \in 0..(2 * pq - 1) /\ 2 * pq \in Nat \ {0} /\ bit \in Int
    BY <1>3
  <2>3. QED
    BY ONLY <2>1, <2>2, DivUnique
<1>8. rem * (2 * q) = 2 * lq
  BY <1>2
<1>9. QED
  BY <1>1, <1>2, <1>6, <1>7, <1>8

(* A turn of the division.                                                 *)
LEMMA DivideTurn ==
    ASSUME NEW p \in Nat \ {0}, NEW q \in Nat \ {0},
           MulDiv!W = 2 * (p * q), MulDiv!W \div 2 = p * q,
           Dividend \in 0..(MulDiv!W - 1), r6 \in Nat,
           Divided(2 * p, q), MulDiv!DivideLoop, Dividend' = Dividend
    PROVE  Divided(p, 2 * q)'
<1>1. PICK quot \in 0..(q - 1), rest \in 0..(2 * p - 1) :
         r3 = rest * q + quot /\ Dividend = (quot * r6 + r13) * (2 * p) + rest
  BY DEF Divided
<1>2. r13 \in Nat /\ r13 < r6
  BY DEF Divided
<1>3. r3 \in Nat
  <2>1. rest * q \in Nat
    OBVIOUS
  <2>2. QED
    BY <1>1, <2>1
<1>4. PICK bit \in 0..1, rem \in 0..(p - 1) :
         /\ rest = bit * p + rem
         /\ (r3 >= p * q) <=> (bit = 1)
         /\ r3 \in 0..(2 * (p * q) - 1)
         /\ (2 * r3) % (2 * (p * q)) = rem * (2 * q) + 2 * quot
  BY <1>1, <1>3, TopBit
<1>5. r13 < p * q
  <2>1. SUFFICES ASSUME r13 >= p * q PROVE FALSE
    BY <1>2
  <2>2. quot * r6 \in Nat
    BY <1>2
  <2>3. PICK t \in Nat : t = quot * r6 + r13
    BY <1>2, <2>2
  <2>4. t >= p * q
    BY <2>1, <2>2, <2>3, <1>2
  <2>5. t * (2 * p) >= 2 * t
    <3>1. t * (p - 1) >= 0
      <4>1. p - 1 \in Nat
        OBVIOUS
      <4>2. QED
        BY <4>1
    <3>2. t * (2 * p) = 2 * t + 2 * (t * (p - 1))
      OBVIOUS
    <3>3. t * (p - 1) \in Int
      OBVIOUS
    <3>4. QED
      BY <3>1, <3>2, <3>3
  <2>6. t * (2 * p) \in Int /\ p * q \in Int
    OBVIOUS
  <2>7. Dividend = t * (2 * p) + rest
    BY <1>1, <2>3
  <2>8. Dividend <= 2 * (p * q) - 1
    BY <2>6
  <2>9. QED
    BY <2>4, <2>5, <2>6, <2>7, <2>8
<1>6. MulDiv!Double(r13) = 2 * r13
  <2>1. PICK w \in Nat \ {0} : w = p * q
    <3>1. p * q \in Nat
      OBVIOUS
    <3>2. QED
      BY <1>2, <1>5, <3>1
  <2>2. 2 * r13 = 0 * (2 * w) + 2 * r13 /\ 2 * r13 \in 0..(2 * w - 1)
        /\ 2 * w \in Nat \ {0} /\ 0 \in Int
    BY <1>2, <1>5, <2>1
  <2>3. (2 * r13) % (2 * w) = 2 * r13
    BY ONLY <2>2, DivUnique
  <2>4. QED
    BY <2>1, <2>3 DEF MulDiv!Double
<1>7. PICK r \in Nat : r = MulDiv!Shifted(r13, r3) /\ r = 2 * r13 + bit
  <2>1. MulDiv!Shifted(r13, r3) = 2 * r13 + bit
    <3>1. MulDiv!Negative(r3) <=> bit = 1
      BY <1>4 DEF MulDiv!Negative
    <3>2. QED
      BY <1>6, <3>1 DEF MulDiv!Shifted
  <2>2. QED
    BY <1>2, <2>1
<1>8. PICK one \in 0..1 :
         /\ one = IF r >= r6 THEN 1 ELSE 0
         /\ r13' = r - one * r6
         /\ r3' = MulDiv!Double(r3) + one
         /\ r6' = r6
  <2>1. /\ r3' = MulDiv!Double(r3) + IF r >= r6 THEN 1 ELSE 0
        /\ r13' = (IF r >= r6 THEN r - r6 ELSE r) /\ r6' = r6
    BY <1>7 DEF MulDiv!DivideLoop, MulDiv!Subtracts
  <2>2. CASE r >= r6
    <3>1. r - r6 = r - 1 * r6
      BY <1>7
    <3>2. QED
      BY <2>1, <2>2, <3>1
  <2>3. CASE ~(r >= r6)
    <3>1. r = r - 0 * r6
      BY <1>7
    <3>2. QED
      BY <2>1, <2>3, <3>1
  <2>4. QED
    BY <2>2, <2>3
<1>9. r13' \in Nat /\ r13' < r6'
  BY <1>2, <1>7, <1>8
<1> DEFINE quot2 == 2 * quot + one
<1>10. quot2 \in 0..(2 * q - 1)
  OBVIOUS
<1>11. r3' = rem * (2 * q) + quot2
  <2>1. MulDiv!Double(r3) = rem * (2 * q) + 2 * quot
    BY <1>4 DEF MulDiv!Double
  <2>2. rem * (2 * q) \in Int
    OBVIOUS
  <2>3. QED
    BY <1>8, <2>1, <2>2
<1>12. Dividend' = (quot2 * r6' + r13') * p + rem
  <2>1. quot2 * r6 + r13' = 2 * (quot * r6) + 2 * r13 + bit
    <3>1. quot2 * r6 = 2 * (quot * r6) + one * r6
      OBVIOUS
    <3>2. quot * r6 \in Int /\ one * r6 \in Int
      OBVIOUS
    <3>3. QED
      BY <1>2, <1>7, <1>8, <3>1, <3>2
  <2>2. PICK s \in Int : s = quot * r6
    OBVIOUS
  <2>3. (2 * s + 2 * r13 + bit) * p + rem = (s + r13) * (2 * p) + (bit * p + rem)
    BY <1>2
  <2>4. Dividend = (s + r13) * (2 * p) + (bit * p + rem)
    BY <1>1, <1>4, <2>2
  <2>5. QED
    BY <1>8, <2>1, <2>2, <2>3, <2>4
<1>13. \E k \in 0..(2 * q - 1), l \in 0..(p - 1) :
          r3' = l * (2 * q) + k /\ Dividend' = (k * r6' + r13') * p + l
  <2> HIDE DEF quot2
  <2>1. QED
    BY <1>10, <1>11, <1>12
<1>14. QED
  BY <1>9, <1>13 DEF Divided

(* A turn of the multiplication.                                           *)
LEMMA MultiplyTurn ==
    ASSUME NEW p \in Nat \ {0}, NEW q \in Nat \ {0},
           MulDiv!W = 2 * (p * q), MulDiv!W \div 2 = p * q,
           rA \in 0..(MulDiv!W - 1), r3 = rA,
           Multiplied(2 * p, q), MulDiv!MultiplyLoop
    PROVE  Multiplied(p, 2 * q)'
<1> DEFINE w == 2 * (p * q)
<1>0. w \in Nat \ {0} /\ MulDiv!W = w /\ MulDiv!W' = w
  <2>1. p * q \in Nat /\ p * q # 0
    OBVIOUS
  <2>2. MulDiv!W' = MulDiv!W
    BY DEF MulDiv!W
  <2>3. QED
    BY <2>1, <2>2
<1>1. rA' = rA /\ rB' = rB /\ rA \in Nat
  BY <1>0 DEF MulDiv!MultiplyLoop, MulDiv!operands
<1>2. PICK top \in Nat, over \in Nat, rest \in 0..(2 * p - 1) :
         rB = top * (2 * p) + rest /\ r6 = rest * q /\ rA * top = over * w + r9
  BY <1>0 DEF Multiplied
<1>3. PICK end \in 0..(q - 1), cut \in 0..(q - 1) :
         r12 \in Nat /\ rB = r12 * q + end /\ rA * end = r10 * q + cut
  BY DEF Multiplied
<1>4. r9 \in 0..(w - 1) /\ r10 \in 0..(w - 1)
  BY <1>0 DEF Multiplied, MulDiv!Word
<1>5. /\ r9' = (MulDiv!Double(r9) + IF MulDiv!Negative(r6) THEN rA ELSE 0) % w
      /\ r6' = MulDiv!Double(r6) /\ r12' = r12 \div 2 /\ r10' = MulDiv!Upper(r10)
  BY <1>0 DEF MulDiv!MultiplyLoop
<1>6. /\ r9' \in 0..(w - 1)
      /\ \E t, o \in Nat, l \in 0..(p - 1) :
            rB' = t * p + l /\ r6' = l * (2 * q) /\ rA' * t = o * w + r9'
  <2>1. r6 = rest * q + 0 /\ 0 \in 0..(q - 1) /\ r6 \in Nat
    <3>1. rest * q \in Nat
      OBVIOUS
    <3>2. QED
      BY <1>2, <3>1
  <2>2. PICK bit \in 0..1, rem \in 0..(p - 1) :
           /\ rest = bit * p + rem
           /\ (r6 >= p * q) <=> (bit = 1)
           /\ (2 * r6) % (2 * (p * q)) = rem * (2 * q) + 2 * 0
    BY <2>1, TopBit
  <2>3. r6' = rem * (2 * q)
    <3>1. rem * (2 * q) \in Int
      OBVIOUS
    <3>2. QED
      BY <1>0, <1>5, <2>2, <3>1 DEF MulDiv!Double
  <2>4. rB' = (2 * top + bit) * p + rem
    <3>1. top * (2 * p) + (bit * p + rem) = (2 * top + bit) * p + rem
      OBVIOUS
    <3>2. QED
      BY <1>1, <1>2, <2>2, <3>1
  <2>5. PICK two, v \in Nat :
           two * w + v = 2 * r9 /\ v = MulDiv!Double(r9)
    <3> HIDE DEF w
    <3>1. 2 * r9 \in Int /\ 2 * r9 >= 0
      BY <1>0, <1>4
    <3>2. /\ (2 * r9) \div w \in Int /\ ((2 * r9) % w) \in 0..(w - 1)
          /\ 2 * r9 = ((2 * r9) \div w) * w + ((2 * r9) % w)
          /\ (2 * r9) \div w >= 0
      BY <1>0, <3>1, DivMod
    <3>3. MulDiv!Double(r9) = (2 * r9) % w
      BY <1>0 DEF MulDiv!Double
    <3>4. (2 * r9) \div w \in Nat /\ ((2 * r9) % w) \in Nat
      BY <1>0, <3>2
    <3>5. QED
      BY <3>2, <3>3, <3>4
  <2>6. PICK s \in Nat : s = v + bit * rA /\ r9' = s % w
    <3>1. (IF MulDiv!Negative(r6) THEN rA ELSE 0) = bit * rA
      <4>1. MulDiv!Negative(r6) <=> bit = 1
        BY <2>2 DEF MulDiv!Negative
      <4>2. bit = 0 \/ bit = 1
        OBVIOUS
      <4>3. QED
        BY <1>1, <4>1, <4>2
    <3>2. bit * rA \in Nat
      BY <1>1
    <3>3. QED
      BY <1>5, <2>5, <3>1, <3>2
  <2> HIDE DEF w
  <2>7. PICK h \in Nat : s = h * w + r9' /\ r9' \in 0..(w - 1)
    <3>1. /\ s \div w \in Int /\ (s % w) \in 0..(w - 1)
          /\ s = (s \div w) * w + (s % w) /\ s \div w >= 0
      <4>1. s \in Int /\ s >= 0 /\ w \in Nat \ {0}
        BY <1>0, <2>6
      <4>2. QED
        BY ONLY <4>1, DivMod
    <3>2. s \div w \in Nat
      BY <3>1
    <3>3. QED
      BY <2>6, <3>1, <3>2
  <2>8. rA' * (2 * top + bit) = (2 * over + two + h) * w + r9'
    <3>1. rA * (2 * top + bit) = 2 * (rA * top) + bit * rA
      BY <1>1
    <3>2. (2 * over + two + h) * w = 2 * (over * w) + two * w + h * w
      BY <1>0
    <3>3. over * w \in Int /\ two * w \in Int /\ h * w \in Int /\ rA * top \in Int
          /\ bit * rA \in Int /\ r9 \in Int /\ r9' \in Int
      BY <1>0, <1>1, <1>4, <2>7
    <3>4. 2 * (rA * top) = 2 * (over * w) + 2 * r9
      <4>1. rA * top = over * w + r9
        BY <1>2
      <4>2. QED
        BY ONLY <3>3, <4>1
    <3>5. two * w + (h * w + r9') = 2 * r9 + bit * rA
      <4>1. two * w + v = 2 * r9 /\ h * w + r9' = v + bit * rA /\ v \in Int
        BY <2>5, <2>6, <2>7
      <4>2. QED
        BY ONLY <3>3, <4>1
    <3>6. QED
      BY <1>1, <3>1, <3>2, <3>3, <3>4, <3>5
  <2>9. 2 * top + bit \in Nat /\ 2 * over + two + h \in Nat
    OBVIOUS
  <2>10. QED
    BY <2>3, <2>4, <2>7, <2>8, <2>9
<1>7. /\ r10' \in 0..(w - 1)
      /\ \E e, c \in 0..(2 * q - 1) :
            r12' \in Nat /\ rB' = r12' * (2 * q) + e /\ rA' * e = r10' * (2 * q) + c
  <2>1. PICK bit \in 0..1, half \in Nat : r12 = half * 2 + bit /\ r12' = half
                                          /\ bit = (r12 % 2)
    <3>1. r12 \div 2 \in Nat /\ (r12 % 2) \in 0..1 /\ r12 = (r12 \div 2) * 2 + (r12 % 2)
      BY <1>3
    <3>2. QED
      BY <1>5, <3>1
  <2>2. PICK s \in Nat : s = r10 + bit * rA /\ r10' = s \div 2 /\ s < 2 * w - 1
    <3>1. CASE bit = 0
      <4>1. r10' = r10 \div 2
        BY <1>5, <2>1, <3>1 DEF MulDiv!Upper
      <4> HIDE DEF w
      <4>2. QED
        BY <1>0, <1>1, <1>4, <3>1, <4>1
    <3>2. CASE bit = 1
      <4>1. r10' = (r10 + rA) \div 2
        BY <1>5, <2>1, <3>2 DEF MulDiv!Upper
      <4>2. rA < w
        BY <1>0
      <4> HIDE DEF w
      <4>3. QED
        BY <1>0, <1>1, <1>4, <3>2, <4>1, <4>2
    <3>3. QED
      BY <3>1, <3>2
  <2>3. PICK odd \in 0..1 : s = 2 * r10' + odd /\ r10' \in Nat
    <3>1. s = (s \div 2) * 2 + (s % 2) /\ (s % 2) \in 0..1 /\ s \div 2 \in Nat
      OBVIOUS
    <3>2. QED
      BY <2>2, <3>1
  <2>4. r10' \in 0..(w - 1)
    <3> HIDE DEF w
    <3>1. QED
      BY <1>0, <2>2, <2>3
  <2> DEFINE e2 == end + bit * q
             c2 == cut + odd * q
  <2>5. e2 \in 0..(2 * q - 1) /\ c2 \in 0..(2 * q - 1)
    <3>1. bit = 0 \/ bit = 1
      OBVIOUS
    <3>2. odd = 0 \/ odd = 1
      OBVIOUS
    <3>3. QED
      BY <3>1, <3>2
  <2>6. rB' = r12' * (2 * q) + e2
    <3>1. (half * 2 + bit) * q + end = half * (2 * q) + (end + bit * q)
      OBVIOUS
    <3>2. QED
      BY <1>1, <1>3, <2>1, <3>1
  <2>7. rA' * e2 = r10' * (2 * q) + c2
    <3>1. rA * (end + bit * q) = rA * end + (bit * rA) * q
      BY <1>1
    <3>2. PICK ba \in Nat : ba = bit * rA
      BY <1>1
    <3>3. r10 + ba = 2 * r10' + odd
      BY <2>2, <2>3, <3>2
    <3>4. r10 * q + ba * q = (r10 + ba) * q
      BY <1>4
    <3>5. (2 * r10' + odd) * q = r10' * (2 * q) + odd * q
      BY <2>3
    <3>6. /\ r10 * q \in Int /\ ba * q \in Int /\ odd * q \in Int
          /\ r10' * (2 * q) \in Int /\ rA * end \in Int
      BY <1>1, <1>4, <2>3
    <3>7. (r10 + ba) * q = (2 * r10' + odd) * q
      BY <3>3
    <3>8. rA * (end + bit * q) = r10' * (2 * q) + (cut + odd * q)
      BY <1>3, <3>1, <3>2, <3>4, <3>5, <3>6, <3>7
    <3>9. QED
      BY <1>1, <3>8
  <2>8. r12' \in Nat
    BY <2>1
  <2> HIDE DEF e2, c2
  <2>9. QED
    BY <2>4, <2>5, <2>6, <2>7, <2>8
<1>8. MulDiv!Word' = 0..(w - 1)
  BY <1>0 DEF MulDiv!Word
<1> HIDE DEF w
<1>9. QED
  BY <1>0, <1>6, <1>7, <1>8 DEF Multiplied

(* A word's powers of two around a turn.                                   *)
LEMMA WordSplit ==
    ASSUME WordNumbers, NEW k \in 0..BITS
    PROVE  /\ MulDiv!W \in Nat \ {0} /\ 2^k \in Nat \ {0} /\ 2^(BITS - k) \in Nat \ {0}
           /\ 2^k * 2^(BITS - k) = MulDiv!W
           /\ k > 0 => LET p == 2^(k - 1)
                           q == 2^(BITS - k)
                       IN  /\ p \in Nat \ {0}
                           /\ 2^k = 2 * p /\ 2^(BITS - (k - 1)) = 2 * q
                           /\ MulDiv!W = 2 * (p * q) /\ MulDiv!W \div 2 = p * q
<1> USE DEF WordNumbers
<1>1. BITS \in Nat /\ k \in Nat /\ BITS - k \in Nat
  OBVIOUS
<1>2. 2^BITS \in Nat \ {0} /\ 2^k \in Nat \ {0} /\ 2^(BITS - k) \in Nat \ {0}
  BY <1>1, PowPositive
<1>3. 2^k * 2^(BITS - k) = 2^BITS
  <2>1. k + (BITS - k) = BITS
    BY <1>1
  <2>2. 2^(k + (BITS - k)) = 2^k * 2^(BITS - k)
    BY <1>1, PowAdds
  <2>3. QED
    BY <2>1, <2>2
<1>4. ASSUME k > 0
      PROVE  LET p == 2^(k - 1)
                 q == 2^(BITS - k)
             IN  /\ p \in Nat \ {0}
                 /\ 2^k = 2 * p /\ 2^(BITS - (k - 1)) = 2 * q
                 /\ 2^BITS = 2 * (p * q) /\ 2^BITS \div 2 = p * q
  <2>1. k - 1 \in Nat /\ (k - 1) + 1 = k /\ BITS - (k - 1) = (BITS - k) + 1
    BY <1>1, <1>4
  <2>2. 2^((k - 1) + 1) = 2 * 2^(k - 1) /\ 2^((BITS - k) + 1) = 2 * 2^(BITS - k)
    BY <1>1, <2>1, Doubles
  <2>3. 2^k = 2 * 2^(k - 1) /\ 2^(BITS - (k - 1)) = 2 * 2^(BITS - k)
    BY <2>1, <2>2
  <2>4. 2^(k - 1) \in Nat \ {0}
    BY <2>1, PowPositive
  <2>5. PICK p, q \in Nat \ {0} : p = 2^(k - 1) /\ q = 2^(BITS - k)
    BY <1>2, <2>4
  <2>6. 2^BITS = (2 * p) * q
    BY <1>3, <2>3, <2>5
  <2>7. (2 * p) * q = 2 * (p * q) /\ p * q \in Nat
    OBVIOUS
  <2>8. \A n \in Nat : (2 * n) \div 2 = n
    OBVIOUS
  <2>9. 2^BITS = 2 * (p * q) /\ 2^BITS \div 2 = p * q
    BY <2>6, <2>7, <2>8
  <2>10. QED
    BY <2>3, <2>4, <2>5, <2>9
<1>5. QED
  BY <1>2, <1>3, <1>4 DEF MulDiv!W

(* The magnitude of a word is a word, and zero for zero only.              *)
LEMMA MagnitudeWord ==
    ASSUME WordNumbers, NEW n \in MulDiv!Word
    PROVE  MulDiv!Magnitude(n) \in MulDiv!Word /\ (n # 0 => MulDiv!Magnitude(n) # 0)
<1>1. MulDiv!W \in Nat \ {0}
  <2>1. 0 \in 0..BITS
    BY DEF WordNumbers
  <2>2. QED
    BY <2>1, WordSplit
<1>2. PICK w \in Nat \ {0} : w = MulDiv!W
  BY <1>1
<1>3. n \in 0..(w - 1)
  BY <1>2 DEF MulDiv!Word
<1>4. CASE n = 0
  <2>1. (0 - n) % w = 0
    BY <1>4
  <2>2. QED
    BY <1>2, <1>4, <2>1 DEF MulDiv!Magnitude, MulDiv!Minus, MulDiv!Word
<1>5. CASE n # 0
  <2>1. 0 - n = (-1) * w + (w - n) /\ w - n \in 0..(w - 1) /\ -1 \in Int
    BY <1>3, <1>5
  <2>2. (0 - n) % w = w - n
    BY <2>1, DivUnique
  <2>3. MulDiv!Magnitude(n) \in {n, w - n}
    BY <1>2, <2>2 DEF MulDiv!Magnitude, MulDiv!Minus
  <2>4. QED
    BY <1>2, <1>3, <1>5, <2>1, <2>3 DEF MulDiv!Word
<1>6. QED
  BY <1>4, <1>5

(* Between the turns both loops hold what they promise.                    *)
LEMMA TurnsHold ==
    ASSUME WordNumbers, MulDivInv
    PROVE  MulDiv!PartialQuotient /\ MulDiv!PartialProduct
<1>1. ASSUME mulDivPc = "divide", r6 # 0
      PROVE  MulDiv!PartialQuotient
  <2> DEFINE p == 2^r14
             q == 2^(BITS - r14)
  <2>1. r14 \in 0..BITS /\ Divided(p, q)
    BY <1>1 DEF MulDivInv
  <2>2. p \in Nat \ {0} /\ q \in Nat \ {0} /\ p * q = MulDiv!W
    BY <2>1, WordSplit
  <2>3. Dividend \in MulDiv!Word /\ r6 \in MulDiv!Word
    BY <1>1, MagnitudeWord DEF MulDivInv, Dividend, Divisor
  <2>4. r14 > 0 => ~MulDiv!Negative(r13)
    <3>1. SUFFICES ASSUME r14 > 0 PROVE ~MulDiv!Negative(r13)
      OBVIOUS
    <3> DEFINE h == 2^(r14 - 1)
    <3>2. h \in Nat \ {0} /\ p = 2 * h /\ MulDiv!W \div 2 = h * q /\ MulDiv!W = 2 * (h * q)
      BY <2>1, <3>1, WordSplit
    <3> HIDE DEF h, p, q
    <3>3. PICK quot \in 0..(q - 1), rest \in 0..(p - 1) :
             Dividend = (quot * r6 + r13) * p + rest
      BY <2>1 DEF Divided
    <3>4. PICK t \in Nat : t = quot * r6 + r13 /\ t >= r13
      <4>1. quot * r6 \in Nat
        BY <2>2, <2>3 DEF MulDiv!Word
      <4>2. r13 \in Nat
        BY <2>1 DEF Divided
      <4>3. QED
        BY <4>1, <4>2
    <3>5. t * p \in Nat /\ t * p >= 2 * t
      <4>1. h - 1 \in Nat
        BY <3>2
      <4>2. t * (h - 1) \in Nat
        BY <4>1
      <4>3. t * p = 2 * t + 2 * (t * (h - 1))
        BY <3>2
      <4>4. QED
        BY <4>2, <4>3
    <3>6. Dividend < 2 * (h * q) /\ h * q \in Nat /\ Dividend = t * p + rest
      BY <2>2, <2>3, <3>2, <3>3, <3>4 DEF MulDiv!Word
    <3>7. r13 < h * q
      <4>1. r13 \in Nat
        BY <2>1 DEF Divided
      <4>2. rest \in Nat
        BY <2>2
      <4>3. QED
        BY ONLY <3>4, <3>5, <3>6, <4>1, <4>2
    <3>8. r13 \in Nat
      BY <2>1 DEF Divided
    <3>9. QED
      BY <3>2, <3>6, <3>7, <3>8 DEF MulDiv!Negative
  <2> HIDE DEF p, q
  <2>5. PICK quot \in 0..(q - 1), rest \in 0..(p - 1) :
           r3 = rest * q + quot /\ Dividend = (quot * r6 + r13) * p + rest
    BY <2>1 DEF Divided
  <2>6. (r3 % q) = quot /\ r3 \div q = rest
    <3>1. r3 = rest * q + quot /\ rest \in Int
      BY <2>2, <2>5
    <3>2. QED
      BY ONLY <2>2, <3>1, quot \in 0..(q - 1), DivUnique
  <2>7. Dividend \div p = quot * r6 + r13 /\ (Dividend % p) = rest
    <3>1. quot * r6 + r13 \in Int
      <4>1. r13 \in Int /\ r6 \in Int /\ quot \in Int
        BY <2>1, <2>2, <2>3 DEF MulDiv!Word, Divided
      <4>2. QED
        BY <4>1
    <3>2. QED
      BY <2>2, <2>5, <3>1, DivUnique
  <2>8. r13 < r6
    BY <2>1 DEF Divided
  <2>9. QED
    BY <2>4, <2>6, <2>7, <2>8 DEF MulDiv!PartialQuotient, Dividend, p, q
<1>2. ASSUME mulDivPc = "multiply"
      PROVE  MulDiv!PartialProduct
  <2> DEFINE p == 2^r14
             q == 2^(BITS - r14)
  <2>1. r14 \in 0..BITS /\ Multiplied(p, q)
    BY <1>2 DEF MulDivInv
  <2>2. p \in Nat \ {0} /\ q \in Nat \ {0} /\ MulDiv!W \in Nat \ {0}
    BY <2>1, WordSplit
  <2> HIDE DEF p, q
  <2>3. PICK top, over \in Nat, rest \in 0..(p - 1) :
           rB = top * p + rest /\ rA * top = over * MulDiv!W + r9
    BY <2>1 DEF Multiplied
  <2>4. PICK end \in 0..(q - 1), cut \in 0..(q - 1) :
           r12 \in Nat /\ rB = r12 * q + end /\ rA * end = r10 * q + cut
    BY <2>1 DEF Multiplied
  <2>5. r9 \in 0..(MulDiv!W - 1) /\ r10 \in Int
    BY <2>1, <2>2 DEF Multiplied, MulDiv!Word
  <2>6. rB \div p = top
    BY <2>2, <2>3, DivUnique
  <2>7. (rA * top) % MulDiv!W = r9
    <3>1. rA * top = over * MulDiv!W + r9 /\ over \in Int
      BY <2>3
    <3>2. QED
      BY ONLY <2>2, <2>5, <3>1, DivUnique
  <2>8. (rB % q) = end
    BY <2>2, <2>4, DivUnique
  <2>9. (rA * end) \div q = r10
    BY <2>2, <2>4, <2>5, DivUnique
  <2>10. QED
    BY <2>6, <2>7, <2>8, <2>9 DEF MulDiv!PartialProduct, p, q
<1>3. QED
  BY <1>1, <1>2 DEF MulDiv!PartialQuotient, MulDiv!PartialProduct

(* A multiple of a word changes nothing of the word.                       *)
LEMMA ModShift ==
    ASSUME NEW w \in Nat \ {0}, NEW u \in Int, NEW k \in Int
    PROVE  ((u + k * w) % w) = (u % w) /\ (((u % w) - k) % w) = ((u - k) % w)
<1>1. PICK h \in Int, l \in 0..(w - 1) : u = h * w + l /\ (u % w) = l
  BY DivMod
<1>2. ((u + k * w) % w) = l
  <2>1. u + k * w = (h + k) * w + l /\ h + k \in Int
    BY <1>1
  <2>2. QED
    BY ONLY <2>1, l \in 0..(w - 1), w \in Nat \ {0}, DivUnique
<1>3. ((l - k) % w) = ((u - k) % w)
  <2>1. PICK h2 \in Int, l2 \in 0..(w - 1) : l - k = h2 * w + l2 /\ ((l - k) % w) = l2
    <3>1. l - k \in Int
      OBVIOUS
    <3>2. QED
      BY <3>1, DivMod
  <2>2. u - k = (h + h2) * w + l2
    <3>1. (h + h2) * w = h * w + h2 * w
      OBVIOUS
    <3>2. h * w \in Int /\ h2 * w \in Int
      OBVIOUS
    <3>3. QED
      BY <1>1, <2>1, <3>1, <3>2
  <2>3. ((u - k) % w) = l2
    BY <2>2, DivUnique
  <2>4. QED
    BY <2>1, <2>3
<1>4. QED
  BY <1>1, <1>2, <1>3

(* What a division returns, the divisor not being zero.                    *)
LEMMA DivisionDefined ==
    ASSUME WordNumbers, MulDivInv, MulDiv!Quotient
    PROVE  MulDiv!EmulationMatches'
<1> USE DEF WordNumbers
<1>1. /\ mulDivPc = "divide" /\ r14 = 0 /\ op \in MulDiv!Divisions /\ r6 = Divisor
      /\ r17 = (op = "div" /\ MulDiv!Negative(rA) # MulDiv!Negative(rB))
      /\ op' = op /\ rA' = rA /\ rB' = rB
      /\ r9' = IF r17 THEN MulDiv!Minus(0, r3) ELSE r3
  BY DEF MulDiv!Quotient, MulDiv!operands, MulDivInv
<1>2. SUFFICES ASSUME rB # 0 PROVE r9' = MulDiv!Defined(op, rA, rB)
  BY <1>1 DEF MulDiv!EmulationMatches, MulDiv!Defined, MulDiv!Truncated,
              MulDiv!Magnitude, MulDiv!Negative, MulDiv!Minus, MulDiv!W
<1>3. rA \in MulDiv!Word /\ rB \in MulDiv!Word
  BY DEF MulDivInv
<1>4. Divisor \in MulDiv!Word /\ Divisor # 0 /\ Dividend \in MulDiv!Word
  BY <1>1, <1>2, <1>3, MagnitudeWord DEF Divisor, Dividend
<1>5. MulDiv!W \in Nat \ {0} /\ 2^0 = 1 /\ 2^(BITS - 0) = MulDiv!W
  <2>1. 0 \in 0..BITS /\ BITS - 0 = BITS /\ 2^0 = 1
    OBVIOUS
  <2>2. QED
    BY <2>1, WordSplit DEF MulDiv!W
<1>6. Divided(1, MulDiv!W)
  BY <1>1, <1>4, <1>5 DEF MulDivInv
<1>7. r3 \in 0..(MulDiv!W - 1) /\ Dividend = r3 * r6 + r13 /\ r13 \in 0..(r6 - 1)
  <2>1. r13 \in Nat /\ r13 < r6
    BY <1>6 DEF Divided
  <2>2. PICK quot \in 0..(MulDiv!W - 1), rest \in 0..0 :
           r3 = rest * MulDiv!W + quot /\ Dividend = (quot * r6 + r13) * 1 + rest
    BY <1>6 DEF Divided
  <2>3. quot * r6 \in Int
    BY <1>1, <1>4, <1>5 DEF MulDiv!Word
  <2>4. rest = 0 /\ 0 * MulDiv!W = 0
    BY <1>5
  <2>5. r3 = quot
    BY <1>5, <2>2, <2>4
  <2>6. Dividend = quot * r6 + r13
    BY <2>1, <2>2, <2>3, <2>4
  <2>7. r6 \in Nat
    BY <1>1, <1>4, <1>5 DEF MulDiv!Word
  <2>8. QED
    BY <2>1, <2>5, <2>6, <2>7
<1>8. Dividend \div Divisor = r3
  <2>1. r6 \in Nat \ {0} /\ r3 \in Int
    BY <1>1, <1>4, <1>5, <1>7 DEF MulDiv!Word
  <2>2. QED
    BY <1>1, <1>7, <2>1, DivUnique
<1>9. (r3 % MulDiv!W) = r3
  <2>1. r3 = 0 * MulDiv!W + r3 /\ 0 \in Int
    BY <1>5, <1>7
  <2>2. QED
    BY ONLY <1>5, <1>7, <2>1, DivUnique
<1>10. CASE op = "divu"
  BY <1>1, <1>8, <1>10 DEF MulDiv!Defined, Dividend, Divisor
<1>11. CASE op = "div"
  <2>1. MulDiv!Defined(op, rA, rB)
          = (IF MulDiv!Negative(rA) # MulDiv!Negative(rB) THEN -r3 ELSE r3) % MulDiv!W
    BY <1>8, <1>11 DEF MulDiv!Defined, MulDiv!Truncated, Dividend, Divisor
  <2>2. MulDiv!Minus(0, r3) = (-r3) % MulDiv!W
    <3>1. 0 - r3 = -r3
      BY <1>5, <1>7
    <3>2. QED
      BY <3>1 DEF MulDiv!Minus
  <2>3. QED
    BY <1>1, <1>9, <1>11, <2>1, <2>2
<1>12. QED
  BY <1>1, <1>10, <1>11 DEF MulDiv!Divisions

(* What a multiplication returns.                                          *)
LEMMA MultiplicationDefined ==
    ASSUME WordNumbers, MulDivInv, MulDiv!Product
    PROVE  MulDiv!EmulationMatches'
<1> USE DEF WordNumbers
<1>1. /\ mulDivPc = "multiply" /\ r14 = 0 /\ op \in MulDiv!Multiplications /\ r3 = rA
      /\ op' = op /\ rA' = rA /\ rB' = rB
      /\ r9' = CASE op = "mul"    -> r9
                 [] op = "mulxuu" -> r10
                 [] op = "mulxsu" -> MulDiv!SignOfA(r10)
                 [] op = "mulxss" -> MulDiv!SignOfB(MulDiv!SignOfA(r10))
  BY DEF MulDiv!Product, MulDiv!operands, MulDivInv
<1>2. SUFFICES r9' = MulDiv!Defined(op, rA, rB)
  BY <1>1 DEF MulDiv!EmulationMatches, MulDiv!Defined, MulDiv!Truncated,
              MulDiv!Magnitude, MulDiv!Negative, MulDiv!Minus, MulDiv!W,
              MulDiv!SignedValue
<1>3. MulDiv!W \in Nat \ {0} /\ 2^0 = 1 /\ 2^(BITS - 0) = MulDiv!W
  <2>1. 0 \in 0..BITS /\ BITS - 0 = BITS /\ 2^0 = 1
    OBVIOUS
  <2>2. QED
    BY <2>1, WordSplit DEF MulDiv!W
<1>4. Multiplied(1, MulDiv!W)
  BY <1>1, <1>3 DEF MulDivInv
<1>5. PICK w \in Nat \ {0} : w = MulDiv!W
  BY <1>3
<1>6. rA \in 0..(w - 1) /\ rB \in 0..(w - 1) /\ r9 \in 0..(w - 1) /\ r10 \in 0..(w - 1)
  BY <1>4, <1>5 DEF MulDivInv, Multiplied, MulDiv!Word
<1>7. PICK over \in Nat : rA * rB = over * w + r9
  <2>1. PICK top, over \in Nat, rest \in 0..(1 - 1) :
           rB = top * 1 + rest /\ rA * top = over * w + r9
    BY <1>4, <1>5 DEF Multiplied
  <2>2. rB = top
    BY <2>1
  <2>3. QED
    BY <2>1, <2>2
<1>8. PICK cut \in 0..(w - 1) : rA * rB = r10 * w + cut
  <2>1. PICK end \in 0..(w - 1), cut \in 0..(w - 1) :
           r12 \in Nat /\ rB = r12 * w + end /\ rA * end = r10 * w + cut
    BY <1>4, <1>5 DEF Multiplied
  <2>2. rB = 0 * w + rB /\ 0 \in Int
    BY <1>6
  <2>3. (rB % w) = rB
    BY ONLY <1>6, <2>2, w \in Nat \ {0}, DivUnique
  <2>4. (rB % w) = end
    <3>1. r12 \in Int /\ rB = r12 * w + end
      BY <2>1
    <3>2. QED
      BY ONLY <3>1, end \in 0..(w - 1), w \in Nat \ {0}, DivUnique
  <2>5. QED
    BY <2>1, <2>3, <2>4
<1>9. CASE op = "mul"
  <2>1. ((rA * rB) % w) = r9
    BY <1>6, <1>7, DivUnique
  <2>2. QED
    BY <1>1, <1>5, <1>9, <2>1 DEF MulDiv!Defined
<1>10. CASE op = "mulxuu"
  <2>1. (rA * rB) \div w = r10
    BY <1>6, <1>8, DivUnique
  <2>2. QED
    BY <1>1, <1>5, <1>10, <2>1 DEF MulDiv!Defined
<1> DEFINE sa == IF MulDiv!Negative(rA) THEN 1 ELSE 0
           sb == IF MulDiv!Negative(rB) THEN 1 ELSE 0
<1>11. sa \in 0..1 /\ sb \in 0..1
  OBVIOUS
<1>12. MulDiv!SignedValue(rA) = rA - sa * w /\ MulDiv!SignedValue(rB) = rB - sb * w
  BY <1>5, <1>6 DEF MulDiv!SignedValue
<1>13. (r10 % w) = r10
  <2>1. r10 = 0 * w + r10 /\ 0 \in Int
    BY <1>6
  <2>2. QED
    BY ONLY <1>6, <2>1, w \in Nat \ {0}, DivUnique
<1>14. PICK pa \in Int : pa = MulDiv!SignOfA(r10) /\ pa = ((r10 - sa * rB) % w)
  <2>1. MulDiv!SignOfA(r10) = ((r10 - sa * rB) % w)
    <3>1. CASE MulDiv!Negative(rA)
      <4>1. sa * rB = rB
        BY <1>6, <3>1
      <4>2. MulDiv!SignOfA(r10) = ((r10 - rB) % w)
        BY <1>1, <1>5, <3>1 DEF MulDiv!SignOfA, MulDiv!Minus
      <4>3. QED
        BY <4>1, <4>2
    <3>2. CASE ~MulDiv!Negative(rA)
      <4>1. r10 - sa * rB = r10
        BY <1>6, <3>2
      <4>2. MulDiv!SignOfA(r10) = r10
        BY <1>1, <3>2 DEF MulDiv!SignOfA
      <4>3. QED
        BY <1>13, <4>1, <4>2
    <3>3. QED
      BY <3>1, <3>2
  <2>2. r10 - sa * rB \in Int
    BY <1>6, <1>11
  <2>3. ((r10 - sa * rB) % w) \in 0..(w - 1)
    BY <2>2, DivMod
  <2>4. QED
    BY <2>1, <2>3
<1>15. MulDiv!SignOfB(pa) = ((pa - sb * rA) % w)
  <2>1. CASE MulDiv!Negative(rB)
    <3>1. sb * rA = rA
      BY <1>6, <2>1
    <3>2. MulDiv!SignOfB(pa) = ((pa - rA) % w)
      BY <1>1, <1>5, <2>1 DEF MulDiv!SignOfB, MulDiv!Minus
    <3>3. QED
      BY <3>1, <3>2
  <2>2. CASE ~MulDiv!Negative(rB)
    <3>1. pa - sb * rA = pa
      BY <1>6, <2>2
    <3>2. MulDiv!SignOfB(pa) = pa
      BY <2>2 DEF MulDiv!SignOfB
    <3>3. (pa % w) = pa
      <4>1. r10 - sa * rB \in Int
        BY <1>6, <1>11
      <4>2. pa \in 0..(w - 1)
        BY <1>14, <4>1, DivMod
      <4>3. pa = 0 * w + pa /\ 0 \in Int
        BY <4>2
      <4>4. QED
        BY ONLY <4>2, <4>3, w \in Nat \ {0}, DivUnique
    <3>4. QED
      BY <3>1, <3>2, <3>3
  <2>3. QED
    BY <2>1, <2>2
<1> HIDE DEF sa, sb
<1>16. CASE op = "mulxsu"
  <2>1. (rA - sa * w) * rB = (r10 - sa * rB) * w + cut
    <3>1. (rA - sa * w) * rB = rA * rB - (sa * rB) * w
      BY <1>6, <1>11
    <3>2. (r10 - sa * rB) * w = r10 * w - (sa * rB) * w
      BY <1>6, <1>11
    <3>3. rA * rB \in Int /\ (sa * rB) * w \in Int /\ r10 * w \in Int
      BY <1>6, <1>11
    <3>4. QED
      BY <1>8, <3>1, <3>2, <3>3
  <2>2. r10 - sa * rB \in Int
    BY <1>6, <1>11
  <2>3. ((rA - sa * w) * rB) \div w = r10 - sa * rB
    BY <2>1, <2>2, DivUnique
  <2>4. QED
    BY <1>1, <1>5, <1>12, <1>14, <1>16, <2>3 DEF MulDiv!Defined
<1>17. CASE op = "mulxss"
  <2> DEFINE u == r10 - sa * rB - sb * rA
  <2>1. u \in Int /\ sa * sb \in Int /\ r10 - sa * rB \in Int /\ sb * rA \in Int
    BY <1>6, <1>11
  <2>2. (rA - sa * w) * (rB - sb * w) = (u + (sa * sb) * w) * w + cut
    <3>1. (rA - sa * w) * (rB - sb * w)
            = rA * rB - (sa * rB) * w - (sb * rA) * w + (sa * sb) * (w * w)
      BY <1>6, <1>11
    <3>2. (u + (sa * sb) * w) * w
            = r10 * w - (sa * rB) * w - (sb * rA) * w + (sa * sb) * (w * w)
      BY <1>6, <1>11
    <3>3. /\ rA * rB \in Int /\ (sa * rB) * w \in Int /\ (sb * rA) * w \in Int
          /\ r10 * w \in Int /\ (sa * sb) * (w * w) \in Int
      BY <1>6, <1>11
    <3> HIDE DEF u
    <3>4. QED
      BY <1>8, <3>1, <3>2, <3>3
  <2>3. u + (sa * sb) * w \in Int
    BY <2>1
  <2>4. ((rA - sa * w) * (rB - sb * w)) \div w = u + (sa * sb) * w
    <3> HIDE DEF u
    <3>1. QED
      BY ONLY <2>2, <2>3, cut \in 0..(w - 1), w \in Nat \ {0}, DivUnique
  <2>5. ((u + (sa * sb) * w) % w) = (u % w)
    <3> HIDE DEF u
    <3>1. QED
      BY <2>1, ModShift
  <2>6. ((pa - sb * rA) % w) = (u % w)
    BY <1>14, <2>1, ModShift
  <2>7. MulDiv!Defined(op, rA, rB) = (u % w)
    <3> HIDE DEF u
    <3>1. QED
      BY <1>5, <1>12, <1>17, <2>4, <2>5 DEF MulDiv!Defined
  <2>8. QED
    BY <1>1, <1>14, <1>15, <1>17, <2>6, <2>7
<1>18. QED
  BY <1>1, <1>9, <1>10, <1>16, <1>17 DEF MulDiv!Multiplications

(* The emulation returns what each instruction is defined to return, and   *)
(* no turn of its loops loses a bit, for words of every size.              *)
THEOREM EmulationExact == WordNumbers => (MulDiv!Spec => []EmulationMatches)
<1> SUFFICES ASSUME WordNumbers PROVE MulDiv!Spec => []EmulationMatches
  OBVIOUS
<1>0. /\ MulDiv!W \in Nat \ {0} /\ BITS \in 0..BITS /\ BITS \in Nat \ {0}
      /\ 2^BITS = MulDiv!W /\ 2^(BITS - BITS) = 1
  <2>1. 0 \in 0..BITS /\ BITS - BITS = 0 /\ 2^0 = 1 /\ BITS \in 0..BITS
    BY DEF WordNumbers
  <2>2. QED
    BY <2>1, WordSplit DEF MulDiv!W, WordNumbers
<1>1. MulDiv!Init => MulDivInv
  BY <1>0 DEF MulDiv!Init, MulDivInv, MulDiv!EmulationMatches, MulDiv!Word
<1>2. MulDivInv /\ [MulDiv!Next]_MulDiv!vars => MulDivInv'
  <2> SUFFICES ASSUME MulDivInv, [MulDiv!Next]_MulDiv!vars PROVE MulDivInv'
    OBVIOUS
  <2>0. rA \in MulDiv!Word /\ rB \in MulDiv!Word /\ MulDiv!Word' = MulDiv!Word
    BY DEF MulDivInv, MulDiv!Word, MulDiv!W
  <2>1. ASSUME NEW a \in MulDiv!Word, NEW b \in MulDiv!Word,
               NEW o \in MulDiv!Divisions, MulDiv!Divide(o, a, b)
        PROVE  MulDivInv'
    <3>1. /\ mulDivPc' = "divide" /\ op' = o /\ rA' = a /\ rB' = b /\ r14' = BITS
          /\ r13' = 0 /\ r3' = Dividend' /\ r6' = Divisor'
          /\ r17' = (op' = "div" /\ MulDiv!Negative(rA') # MulDiv!Negative(rB'))
      BY <2>1 DEF MulDiv!Divide, Dividend, Divisor, MulDiv!Magnitude, MulDiv!Negative,
                  MulDiv!Minus, MulDiv!W
    <3>2. Dividend' \in MulDiv!Word /\ Divisor' \in MulDiv!Word
      <4>1. /\ Dividend' = IF o = "div" THEN MulDiv!Magnitude(a) ELSE a
            /\ Divisor' = IF o = "div" THEN MulDiv!Magnitude(b) ELSE b
        BY <3>1 DEF Dividend, Divisor, MulDiv!Magnitude, MulDiv!Negative, MulDiv!Minus,
                    MulDiv!W
      <4>2. QED
        BY <4>1, MagnitudeWord
    <3>3. ASSUME r6' # 0 PROVE Divided(MulDiv!W, 1)'
      <4>1. r13' \in Nat /\ r13' < r6'
        BY <1>0, <3>1, <3>2, <3>3 DEF MulDiv!Word
      <4>2. r3' = Dividend' * 1 + 0 /\ Dividend' = (0 * r6' + r13') * MulDiv!W + Dividend'
        <5>1. Dividend' \in Int /\ r6' \in Int /\ MulDiv!W \in Int
          BY <1>0, <3>1, <3>2 DEF MulDiv!Word
        <5>2. \A m, n, w \in Int : (0 * m + 0) * w + n = n /\ n = n * 1 + 0
          OBVIOUS
        <5>3. QED
          BY <3>1, <5>1, <5>2
      <4>3. 0 \in 0..(1 - 1) /\ Dividend' \in 0..(MulDiv!W - 1)
        BY <3>2 DEF MulDiv!Word
      <4>4. MulDiv!W' = MulDiv!W
        BY DEF MulDiv!W
      <4>5. \E quot \in 0..(1 - 1), rest \in 0..(MulDiv!W - 1) :
               /\ r3' = rest * 1 + quot
               /\ Dividend' = (quot * r6' + r13') * MulDiv!W + rest
        BY <4>2, <4>3
      <4>6. QED
        BY <4>1, <4>4, <4>5 DEF Divided
    <3>4. MulDiv!W' = MulDiv!W
      BY DEF MulDiv!W
    <3>5. r6' # 0 => Divided(2^r14, 2^(BITS - r14))'
      BY <1>0, <3>1, <3>3, <3>4 DEF Divided
    <3>6. MulDiv!EmulationMatches'
      BY <3>1 DEF MulDiv!EmulationMatches
    <3>7. QED
      BY <1>0, <2>0, <2>1, <3>1, <3>5, <3>6 DEF MulDivInv
  <2>2. ASSUME NEW a \in MulDiv!Word, NEW b \in MulDiv!Word,
               NEW o \in MulDiv!Multiplications, MulDiv!Multiply(o, a, b)
        PROVE  MulDivInv'
    <3>1. /\ mulDivPc' = "multiply" /\ op' = o /\ rA' = a /\ rB' = b /\ r14' = BITS
          /\ r3' = a /\ r6' = b /\ r12' = b /\ r9' = 0 /\ r10' = 0
      BY <2>2 DEF MulDiv!Multiply
    <3>2. a \in 0..(MulDiv!W - 1) /\ b \in 0..(MulDiv!W - 1)
      BY DEF MulDiv!Word
    <3>3. MulDiv!W' = MulDiv!W
      BY DEF MulDiv!W
    <3>4. Multiplied(MulDiv!W, 1)'
      <4>1. 0 \in MulDiv!Word
        BY <1>0 DEF MulDiv!Word
      <4>2. /\ 0 \in Nat /\ b \in 0..(MulDiv!W - 1)
            /\ b = 0 * MulDiv!W + b /\ b = b * 1 /\ a * 0 = 0 * MulDiv!W + 0
        BY <1>0, <3>2
      <4>3. \E top, over \in Nat, rest \in 0..(MulDiv!W - 1) :
               b = top * MulDiv!W + rest /\ b = rest * 1 /\ a * top = over * MulDiv!W + 0
        BY <4>2
      <4>4. 0 \in 0..(1 - 1) /\ b \in Nat /\ b = b * 1 + 0 /\ a * 0 = 0 * 1 + 0
        BY <1>0, <3>2
      <4>5. \E end, cut \in 0..(1 - 1) :
               b \in Nat /\ b = b * 1 + end /\ a * end = 0 * 1 + cut
        BY <4>4
      <4>6. QED
        BY <2>0, <3>1, <3>3, <4>1, <4>3, <4>5 DEF Multiplied
    <3>5. Multiplied(2^r14, 2^(BITS - r14))'
      BY <1>0, <3>1, <3>3, <3>4 DEF Multiplied
    <3>6. MulDiv!EmulationMatches'
      BY <3>1 DEF MulDiv!EmulationMatches
    <3>7. QED
      BY <1>0, <2>0, <2>2, <3>1, <3>5, <3>6 DEF MulDivInv
  <2>3. CASE MulDiv!DivideLoop
    <3>1. /\ mulDivPc = "divide" /\ mulDivPc' = "divide" /\ r14 > 0 /\ r14' = r14 - 1
          /\ op' = op /\ rA' = rA /\ rB' = rB /\ r6' = r6 /\ r17' = r17
          /\ r14 \in 0..BITS /\ r14' \in 0..BITS
      BY <1>0, <2>3 DEF MulDiv!DivideLoop, MulDiv!operands, MulDivInv
    <3>2. Dividend' = Dividend /\ Divisor' = Divisor
      BY <3>1 DEF Dividend, Divisor, MulDiv!Magnitude, MulDiv!Negative, MulDiv!Minus,
                  MulDiv!W
    <3>3. /\ op' \in MulDiv!Divisions /\ r6' = Divisor'
          /\ r17' = (op' = "div" /\ MulDiv!Negative(rA') # MulDiv!Negative(rB'))
      BY <3>1, <3>2 DEF MulDivInv, MulDiv!Negative, MulDiv!W, MulDiv!Divisions
    <3>4. ASSUME r6' # 0 PROVE Divided(2^r14, 2^(BITS - r14))'
      <4> DEFINE p == 2^(r14 - 1)
                 q == 2^(BITS - r14)
      <4>1. /\ p \in Nat \ {0} /\ q \in Nat \ {0}
            /\ 2^r14 = 2 * p /\ 2^(BITS - (r14 - 1)) = 2 * q
            /\ MulDiv!W = 2 * (p * q) /\ MulDiv!W \div 2 = p * q
        BY <3>1, WordSplit
      <4>2. Divided(2 * p, q)
        BY <3>1, <3>4, <4>1 DEF MulDivInv
      <4>3. Dividend \in 0..(MulDiv!W - 1) /\ r6 \in Nat
        <5>1. Dividend \in MulDiv!Word /\ r6 \in MulDiv!Word
          BY <3>1, MagnitudeWord DEF MulDivInv, Dividend, Divisor
        <5>2. QED
          BY <1>0, <5>1 DEF MulDiv!Word
      <4>4. PICK pp, qq \in Nat \ {0} : pp = p /\ qq = q
        BY <4>1
      <4> HIDE DEF p, q
      <4>5. Divided(pp, 2 * qq)'
        BY <2>3, <3>2, <4>1, <4>2, <4>3, <4>4, DivideTurn
      <4>6. (2^r14)' = pp /\ (2^(BITS - r14))' = 2 * qq
        BY <3>1, <4>1, <4>4 DEF p
      <4>7. QED
        BY <4>5, <4>6 DEF Divided
    <3>5. MulDiv!EmulationMatches'
      BY <3>1 DEF MulDiv!EmulationMatches
    <3>6. QED
      BY <2>0, <3>1, <3>3, <3>4, <3>5 DEF MulDivInv
  <2>4. CASE MulDiv!Quotient
    <3>1. mulDivPc' = "store" /\ rA' = rA /\ rB' = rB
      BY <2>4 DEF MulDiv!Quotient, MulDiv!operands
    <3>2. MulDiv!EmulationMatches'
      BY <2>4, DivisionDefined
    <3>3. QED
      BY <2>0, <3>1, <3>2 DEF MulDivInv
  <2>5. CASE MulDiv!MultiplyLoop
    <3>1. /\ mulDivPc = "multiply" /\ mulDivPc' = "multiply" /\ r14 > 0 /\ r14' = r14 - 1
          /\ op' = op /\ rA' = rA /\ rB' = rB /\ r3' = r3 /\ r14 \in 0..BITS
          /\ r3 = rA /\ op \in MulDiv!Multiplications /\ r14' \in 0..BITS
      BY <1>0, <2>5 DEF MulDiv!MultiplyLoop, MulDiv!operands, MulDivInv
    <3>2. Multiplied(2^r14, 2^(BITS - r14))'
      <4> DEFINE p == 2^(r14 - 1)
                 q == 2^(BITS - r14)
      <4>1. /\ p \in Nat \ {0} /\ q \in Nat \ {0}
            /\ 2^r14 = 2 * p /\ 2^(BITS - (r14 - 1)) = 2 * q
            /\ MulDiv!W = 2 * (p * q) /\ MulDiv!W \div 2 = p * q
        BY <3>1, WordSplit
      <4>2. Multiplied(2 * p, q)
        BY <3>1, <4>1 DEF MulDivInv
      <4>3. rA \in 0..(MulDiv!W - 1)
        BY <2>0 DEF MulDiv!Word
      <4>4. PICK pp, qq \in Nat \ {0} : pp = p /\ qq = q
        BY <4>1
      <4> HIDE DEF p, q
      <4>5. Multiplied(pp, 2 * qq)'
        BY <2>5, <3>1, <4>1, <4>2, <4>3, <4>4, MultiplyTurn
      <4>6. (2^r14)' = pp /\ (2^(BITS - r14))' = 2 * qq
        BY <3>1, <4>1, <4>4 DEF p
      <4>7. QED
        BY <4>5, <4>6 DEF Multiplied
    <3>3. MulDiv!EmulationMatches'
      BY <3>1 DEF MulDiv!EmulationMatches
    <3>4. QED
      BY <2>0, <3>1, <3>2, <3>3 DEF MulDivInv
  <2>6. CASE MulDiv!Product
    <3>1. mulDivPc' = "store" /\ rA' = rA /\ rB' = rB
      BY <2>6 DEF MulDiv!Product, MulDiv!operands
    <3>2. MulDiv!EmulationMatches'
      BY <2>6, MultiplicationDefined
    <3>3. QED
      BY <2>0, <3>1, <3>2 DEF MulDivInv
  <2>7. CASE MulDiv!StoreResult
    <3>1. mulDivPc' = "main" /\ rA' = 0 /\ rB' = 0 /\ 0 \in MulDiv!Word
      BY <1>0, <2>7 DEF MulDiv!StoreResult, MulDiv!Word
    <3>2. MulDiv!EmulationMatches'
      BY <3>1 DEF MulDiv!EmulationMatches
    <3>3. QED
      BY <2>0, <3>1, <3>2 DEF MulDivInv
  <2>8. CASE UNCHANGED MulDiv!vars
    BY <2>8 DEF MulDiv!vars, MulDiv!operands, MulDivInv, MulDiv!EmulationMatches, Divided,
                Multiplied, Dividend, Divisor, MulDiv!Word, MulDiv!W, MulDiv!Magnitude,
                MulDiv!Negative, MulDiv!Minus, MulDiv!Defined, MulDiv!Truncated,
                MulDiv!SignedValue
  <2>9. QED
    BY <2>1, <2>2, <2>3, <2>4, <2>5, <2>6, <2>7, <2>8 DEF MulDiv!Next
<1>3. MulDivInv => EmulationMatches
  BY TurnsHold DEF MulDivInv, EmulationMatches
<1>4. QED
  BY <1>1, <1>2, <1>3, PTL DEF MulDiv!Spec

-----------------------------------------------------------------------------
(* The cache routines.                                                     *)

\* A line has bytes and a cache has lines; no memory line is None.
CacheNumbers ==
    /\ LINE_SIZE \in Nat \ {0} /\ SETS \in Nat \ {0} /\ LINES \in Nat
    /\ None \notin Nat

First == from \div LINE_SIZE

Length == IF routine = "icache_flush" THEN Cache!Capped(len) ELSE len

\* After k lines: none of the region's lines before the next is in the cache,
\* and a routine that takes what is in the set has left nothing of the region
\* in theirs.
Flushed(k) ==
    /\ line = from + k * LINE_SIZE
    /\ \A l \in Cache!Region(from, len) :
          cache[Cache!Set(l)] = l => l >= First + k
    /\ Cache!WholeSet => \A m \in 0..(k - 1) :
          cache[Cache!Set(First + m)] \notin Cache!Region(from, len)

CacheInv ==
    /\ flushPc \in {"main", "loop"}
    /\ from \in Nat /\ len \in Nat /\ dirty \subseteq 0..(LINES - 1)
    /\ DOMAIN cache = Cache!Sets
    /\ \A s \in Cache!Sets : cache[s] \in 0..(LINES - 1) => Cache!Set(cache[s]) = s
    /\ flushPc = "loop" => /\ stop = from + Length
                           /\ \E k \in Nat : Flushed(k)

LEMMA LineOrder ==
    ASSUME NEW k \in Int, NEW n \in Int, NEW w \in Nat \ {0}, k * w < n * w
    PROVE  k < n
<1> SUFFICES ASSUME k >= n PROVE FALSE
  OBVIOUS
<1>1. (k - n) * w >= 0
  <2>1. k - n \in Nat
    OBVIOUS
  <2>2. QED
    BY <2>1
<1>2. (k - n) * w = k * w - n * w /\ k * w \in Int /\ n * w \in Int
  OBVIOUS
<1>3. QED
  BY <1>1, <1>2

\* The address of the k-th line, and its set.
LEMMA LineAt ==
    ASSUME CacheNumbers, from \in Nat, NEW k \in Nat
    PROVE  /\ First \in Nat /\ (from + k * LINE_SIZE) \div LINE_SIZE = First + k
           /\ from = First * LINE_SIZE + (from % LINE_SIZE)
           /\ (from % LINE_SIZE) \in 0..(LINE_SIZE - 1)
           /\ Cache!Set(First + k) \in Cache!Sets
<1>1. PICK w \in Nat \ {0} : w = LINE_SIZE
  BY DEF CacheNumbers
<1>2. PICK f \in Nat, o \in 0..(w - 1) :
         f = First /\ o = (from % w) /\ from = f * w + o
  <2>1. /\ from \div w \in Int /\ (from % w) \in 0..(w - 1)
        /\ from = (from \div w) * w + (from % w) /\ from \div w >= 0
    <3>1. from \in Int /\ from >= 0
      OBVIOUS
    <3>2. QED
      BY ONLY <3>1, w \in Nat \ {0}, DivMod
  <2>2. First = from \div w /\ First \in Nat
    BY <1>1, <2>1 DEF First
  <2>3. QED
    BY <2>1, <2>2
<1>3. (from + k * w) \div w = f + k
  <2>1. from + k * w = (f + k) * w + o
    BY <1>2
  <2>2. f + k \in Int
    OBVIOUS
  <2>3. QED
    BY ONLY <2>1, <2>2, w \in Nat \ {0}, o \in 0..(w - 1), DivUnique
<1>4. ((f + k) % SETS) \in 0..(SETS - 1)
  BY DivMod DEF CacheNumbers
<1>5. QED
  BY <1>1, <1>2, <1>3, <1>4 DEF Cache!Set, Cache!Sets

(* Lines of the region lie before the last that the loop counts, the one   *)
(* more of an unaligned region included.                                   *)
LEMMA RegionEnds ==
    ASSUME CacheNumbers, from \in Nat, len \in Nat, NEW k \in Nat,
           k * LINE_SIZE >= len, NEW l \in Cache!Region(from, len)
    PROVE  l < First + k + IF Cache!OneMore THEN 1 ELSE 0
<1>1. PICK w \in Nat \ {0} : w = LINE_SIZE
  BY DEF CacheNumbers
<1>2. l \in Nat /\ l * w < from + len
  <2>1. l \in 0..(LINES - 1) /\ l * w < from + len
    BY <1>1 DEF Cache!Region
  <2>2. QED
    BY <2>1 DEF CacheNumbers
<1>3. PICK f \in Nat, o \in 0..(w - 1) :
         f = First /\ o = (from % w) /\ from = f * w + o
  BY <1>1, LineAt
<1>4. l * w < (f + k) * w + o
  <2>1. (f + k) * w = f * w + k * w /\ f * w \in Int /\ k * w \in Int /\ l * w \in Int
    BY <1>2
  <2>2. k * w >= len
    BY <1>1
  <2>3. QED
    BY <1>2, <1>3, <2>1, <2>2
<1>5. CASE o = 0
  <2>1. l * w < (f + k) * w
    <3>1. (f + k) * w \in Int
      OBVIOUS
    <3>2. QED
      BY <1>4, <1>5, <3>1
  <2>2. l < f + k
    BY <1>2, <2>1, LineOrder
  <2>3. ~Cache!OneMore
    BY <1>1, <1>3, <1>5 DEF Cache!OneMore
  <2>4. QED
    BY <1>2, <1>3, <2>2, <2>3
<1>6. CASE o # 0
  <2>1. l * w < (f + k + 1) * w
    <3>1. (f + k + 1) * w = (f + k) * w + w /\ (f + k) * w \in Int /\ l * w \in Int
      BY <1>2
    <3>2. QED
      BY <1>4, <3>1
  <2>2. l < f + k + 1
    <3>1. f + k + 1 \in Int
      OBVIOUS
    <3>2. QED
      BY <1>2, <2>1, <3>1, LineOrder
  <2>3. Cache!OneMore
    BY <1>1, <1>3, <1>6 DEF Cache!OneMore
  <2>4. QED
    BY <1>2, <1>3, <2>2, <2>3
<1>7. QED
  BY <1>5, <1>6

(* One line more.                                                          *)
LEMMA FlushKeeps ==
    ASSUME CacheNumbers, CacheInv, flushPc = "loop", NEW k \in Nat, Flushed(k),
           Cache!FlushLine(First + k)
    PROVE  /\ DOMAIN cache' = Cache!Sets
           /\ \A s \in Cache!Sets :
                 cache'[s] \in 0..(LINES - 1) => cache[s] = cache'[s]
           /\ \A l \in Cache!Region(from, len) :
                 cache'[Cache!Set(l)] = l => l >= First + k + 1
           /\ Cache!WholeSet => \A m \in 0..k :
                 cache'[Cache!Set(First + m)] \notin Cache!Region(from, len)
<1> DEFINE R == Cache!Region(from, len)
           n == First + k
<1>1. from \in Nat /\ DOMAIN cache = Cache!Sets
  BY DEF CacheInv
<1>2. First \in Nat /\ Cache!Set(n) \in Cache!Sets /\ n \in Nat
  BY <1>1, LineAt
<1>3. R \subseteq 0..(LINES - 1) /\ None \notin R
  BY DEF Cache!Region, CacheNumbers
<1>4. \A l \in R : l \in Nat /\ Cache!Set(l) \in Cache!Sets
  <2> TAKE l \in R
  <2>1. l \in Nat
    BY <1>3 DEF CacheNumbers
  <2>2. (l % SETS) \in 0..(SETS - 1)
    BY <2>1, DivMod DEF CacheNumbers
  <2>3. QED
    BY <2>1, <2>2 DEF Cache!Set, Cache!Sets
<1>5. /\ \A l \in R : cache[Cache!Set(l)] = l => l >= n
      /\ Cache!WholeSet => \A m \in 0..(k - 1) : cache[Cache!Set(First + m)] \notin R
  BY DEF Flushed
<1> HIDE DEF R
<1>6. CASE Cache!WholeSet \/ cache[Cache!Set(n)] = n
  <2>1. cache' = [cache EXCEPT ![Cache!Set(n)] = None]
    BY <1>6 DEF Cache!FlushLine
  <2>2. /\ DOMAIN cache' = Cache!Sets /\ cache'[Cache!Set(n)] = None
        /\ \A s \in Cache!Sets : s # Cache!Set(n) => cache'[s] = cache[s]
    <3> HIDE DEF n
    <3>1. QED
      BY <1>1, <1>2, <2>1
  <2>3. \A s \in Cache!Sets : cache'[s] \in 0..(LINES - 1) => cache[s] = cache'[s]
    BY <2>2 DEF CacheNumbers
  <2>4. ASSUME NEW l \in R, cache'[Cache!Set(l)] = l PROVE l >= n + 1
    <3>1. Cache!Set(l) # Cache!Set(n)
      BY <1>3, <2>2, <2>4
    <3>2. cache[Cache!Set(l)] = l
      BY <1>4, <2>2, <2>4, <3>1
    <3>3. l >= n /\ l # n /\ l \in Nat
      BY <1>4, <1>5, <3>1, <3>2
    <3>4. QED
      BY <1>2, <3>3
  <2>5. ASSUME Cache!WholeSet, NEW m \in 0..k
        PROVE  cache'[Cache!Set(First + m)] \notin R
    <3>1. CASE Cache!Set(First + m) = Cache!Set(n)
      BY <1>3, <2>2, <3>1
    <3>2. CASE Cache!Set(First + m) # Cache!Set(n)
      <4>1. m # k
        BY <3>2
      <4>2. m \in 0..(k - 1) /\ m \in Nat
        BY <4>1
      <4>3. Cache!Set(First + m) \in Cache!Sets
        BY <1>1, <4>2, LineAt
      <4>4. QED
        BY <1>5, <2>2, <2>5, <3>2, <4>2, <4>3
    <3>3. QED
      BY <3>1, <3>2
  <2>6. QED
    BY <2>2, <2>3, <2>4, <2>5 DEF R
<1>7. CASE ~(Cache!WholeSet \/ cache[Cache!Set(n)] = n)
  <2>1. cache' = cache
    BY <1>7 DEF Cache!FlushLine
  <2>2. ASSUME NEW l \in R, cache'[Cache!Set(l)] = l PROVE l >= n + 1
    <3>1. l >= n /\ l \in Nat /\ l # n
      BY <1>4, <1>5, <1>7, <2>1, <2>2
    <3>2. QED
      BY <1>2, <3>1
  <2>3. QED
    BY <1>1, <1>7, <2>1, <2>2 DEF R
<1>8. QED
  BY <1>6, <1>7

(* What the last line leaves.                                              *)
LEMMA RegionLeft ==
    ASSUME CacheNumbers, CacheInv, Cache!LastLine
    PROVE  \A s \in Cache!Sets : cache'[s] \notin Cache!Region(from, len)
<1>1. /\ flushPc = "loop" /\ ~(line < stop) /\ from \in Nat /\ len \in Nat
      /\ DOMAIN cache = Cache!Sets /\ stop = from + Length
      /\ \A s \in Cache!Sets : cache[s] \in 0..(LINES - 1) => Cache!Set(cache[s]) = s
  <2>1. flushPc = "loop" /\ line >= stop /\ from \in Nat /\ len \in Nat
    BY DEF Cache!LastLine, CacheInv
  <2>2. stop \in Nat /\ \E k \in Nat : Flushed(k)
    BY <2>1 DEF CacheInv, Length, Cache!Capped, Cache!SIZE, CacheNumbers
  <2>3. line \in Nat
    <3>1. PICK k \in Nat : line = from + k * LINE_SIZE
      BY <2>2 DEF Flushed
    <3>2. k * LINE_SIZE \in Nat
      BY DEF CacheNumbers
    <3>3. QED
      BY <2>1, <3>1, <3>2
  <2>4. QED
    BY <2>1, <2>2, <2>3 DEF CacheInv
<1>2. PICK k \in Nat : Flushed(k)
  BY <1>1 DEF CacheInv
<1>3. line = from + k * LINE_SIZE
  BY <1>2 DEF Flushed
<1>4. First \in Nat /\ line \div LINE_SIZE = First + k
  BY <1>1, <1>3, LineAt
<1> DEFINE last == k + IF Cache!OneMore THEN 1 ELSE 0
           R == Cache!Region(from, len)
<1>5. /\ \A s \in Cache!Sets : cache'[s] \in 0..(LINES - 1) => cache[s] = cache'[s]
      /\ \A l \in R : cache'[Cache!Set(l)] = l => l >= First + last
      /\ Cache!WholeSet => \A m \in 0..(k - 1) : cache'[Cache!Set(First + m)] \notin R
  <2>1. CASE Cache!OneMore
    <3>1. Cache!FlushLine(First + k)
      BY <1>4, <2>1 DEF Cache!LastLine
    <3>2. last = k + 1 /\ First + last = First + k + 1 /\ \A m \in 0..(k - 1) : m \in 0..k
      BY <1>4, <2>1
    <3> HIDE DEF last
    <3>3. QED
      BY <1>1, <1>2, <3>1, <3>2, FlushKeeps
  <2>2. CASE ~Cache!OneMore
    <3>1. cache' = cache /\ last = k
      BY <2>2 DEF Cache!LastLine
    <3>2. QED
      BY <1>2, <3>1 DEF Flushed
  <2>3. QED
    BY <2>1, <2>2
<1>6. SUFFICES ASSUME NEW s \in Cache!Sets, cache'[s] \in R PROVE FALSE
  OBVIOUS
<1>7. cache'[s] \in 0..(LINES - 1) /\ cache'[s] \in Nat
  BY <1>6 DEF Cache!Region, CacheNumbers
<1>8. Cache!Set(cache'[s]) = s
  BY <1>1, <1>5, <1>7
<1>9. cache'[s] >= First + last
  <2> HIDE DEF last, R
  <2>1. QED
    BY <1>5, <1>6, <1>8
<1>10. k * LINE_SIZE >= Length
  <2>1. Length \in Nat /\ k * LINE_SIZE \in Nat
    BY <1>1 DEF Length, Cache!Capped, Cache!SIZE, CacheNumbers
  <2>2. QED
    BY <1>1, <1>3, <2>1
<1>11. CASE Length = len
  <2>1. cache'[s] < First + last
    <3>1. PICK l \in R : l = cache'[s]
      BY <1>6
    <3>2. l < First + k + IF Cache!OneMore THEN 1 ELSE 0
      BY <1>1, <1>10, <1>11, RegionEnds
    <3>3. QED
      BY <1>4, <3>1, <3>2
  <2>2. last \in Nat
    OBVIOUS
  <2> HIDE DEF last
  <2>3. QED
    BY <1>4, <1>7, <1>9, <2>1, <2>2
<1>12. CASE Length # len
  <2>1. routine = "icache_flush" /\ Length = SETS * LINE_SIZE
    BY <1>12 DEF Length, Cache!Capped, Cache!SIZE
  <2>2. k >= SETS
    <3>1. SUFFICES ASSUME k < SETS PROVE FALSE
      BY DEF CacheNumbers
    <3>2. (SETS - k) * LINE_SIZE >= 1
      <4>1. SETS - k \in Nat \ {0} /\ LINE_SIZE \in Nat \ {0}
        BY <3>1 DEF CacheNumbers
      <4>2. PICK a \in Nat \ {0}, b \in Nat \ {0} : a = SETS - k /\ b = LINE_SIZE
        BY <4>1
      <4>3. a * b >= 1
        OBVIOUS
      <4>4. QED
        BY <4>2, <4>3
    <3>3. /\ (SETS - k) * LINE_SIZE = SETS * LINE_SIZE - k * LINE_SIZE
          /\ SETS * LINE_SIZE \in Int /\ k * LINE_SIZE \in Int
      BY DEF CacheNumbers
    <3>4. QED
      BY <1>10, <2>1, <3>2, <3>3
  <2>3. PICK m \in 0..(SETS - 1) : Cache!Set(First + m) = s
    <3>1. s \in 0..(SETS - 1) /\ SETS \in Nat \ {0}
      BY DEF Cache!Sets, CacheNumbers
    <3>2. PICK q \in Int, r \in 0..(SETS - 1) : First = q * SETS + r
      <4>1. First \in Int
        BY <1>4
      <4>2. QED
        BY ONLY <3>1, <4>1, DivMod
    <3>3. CASE s >= r
      <4>1. First + (s - r) = q * SETS + s /\ s - r \in 0..(SETS - 1)
        <5>1. q * SETS \in Int
          BY <3>1
        <5>2. QED
          BY <3>1, <3>2, <3>3, <5>1
      <4>2. ((First + (s - r)) % SETS) = s
        BY ONLY <3>1, <4>1, q \in Int, DivUnique
      <4>3. QED
        BY <4>1, <4>2 DEF Cache!Set
    <3>4. CASE s < r
      <4>1. First + (s - r + SETS) = (q + 1) * SETS + s /\ s - r + SETS \in 0..(SETS - 1)
            /\ q + 1 \in Int
        <5>1. (q + 1) * SETS = q * SETS + SETS /\ q * SETS \in Int
          BY <3>1
        <5>2. QED
          BY <3>1, <3>2, <3>4, <5>1
      <4>2. ((First + (s - r + SETS)) % SETS) = s
        BY ONLY <3>1, <4>1, DivUnique
      <4>3. QED
        BY <4>1, <4>2 DEF Cache!Set
    <3>5. QED
      BY <3>1, <3>3, <3>4
  <2>4. m \in 0..(k - 1)
    BY <2>2 DEF CacheNumbers
  <2>5. Cache!WholeSet
    BY <2>1 DEF Cache!WholeSet
  <2> HIDE DEF R
  <2>6. QED
    BY <1>5, <1>6, <2>3, <2>4, <2>5
<1>13. QED
  BY <1>11, <1>12

\* A routine that keeps to its region throws away writes to it only.
LEMMA LinesDiscarded ==
    ASSUME CacheNumbers, CacheInv, Cache!Next, from % LINE_SIZE = 0
    PROVE  lost' \ lost \subseteq Cache!Region(from, len)
<1>1. CASE Cache!Loop
  <2>1. flushPc = "loop" /\ line < stop /\ Cache!FlushLine(line \div LINE_SIZE)
        /\ from \in Nat /\ len \in Nat /\ stop = from + Length
    BY <1>1 DEF Cache!Loop, CacheInv
  <2>2. PICK k \in Nat : line = from + k * LINE_SIZE
    BY <2>1 DEF CacheInv, Flushed
  <2>3. line \div LINE_SIZE = First + k /\ First \in Nat /\ from = First * LINE_SIZE + 0
    BY <2>1, <2>2, LineAt
  <2>4. lost' = lost \/ (routine = "dcache_flush_no_writeback"
                          /\ lost' = lost \cup (dirty \cap {First + k}))
    BY <2>1, <2>3 DEF Cache!FlushLine
  <2>5. ASSUME routine = "dcache_flush_no_writeback", First + k \in 0..(LINES - 1)
        PROVE  First + k \in Cache!Region(from, len)
    <3>1. stop = from + len
      BY <2>1, <2>5 DEF Length
    <3>2. PICK w \in Nat \ {0} : w = LINE_SIZE
      BY DEF CacheNumbers
    <3>3. (First + k) * w = line
      BY <2>2, <2>3, <3>2
    <3>4. (First + k + 1) * w = (First + k) * w + w
      BY <2>3
    <3>5. from <= line
      <4>1. k * w \in Nat
        OBVIOUS
      <4>2. QED
        BY <2>1, <2>2, <3>2, <4>1
    <3>6. line \in Int
      BY <2>1, <2>2, <3>2
    <3>7. (First + k) * w < from + len /\ from < (First + k + 1) * w
      BY <2>1, <3>1, <3>3, <3>4, <3>5, <3>6
    <3>8. QED
      BY <2>5, <3>2, <3>7 DEF Cache!Region
  <2>6. dirty \subseteq 0..(LINES - 1)
    BY DEF CacheInv
  <2>7. QED
    BY <2>4, <2>5, <2>6
<1>2. CASE Cache!LastLine
  <2>1. ~Cache!OneMore
    BY DEF Cache!OneMore
  <2>2. QED
    BY <1>2, <2>1 DEF Cache!LastLine
<1>3. ASSUME NEW l \in 0..(LINES - 1), NEW stores \in BOOLEAN, Cache!Access(l, stores)
      PROVE  lost' = lost
  BY <1>3 DEF Cache!Access
<1>4. ASSUME NEW o, NEW a, NEW n, Cache!Call(o, a, n)
      PROVE  lost' = {}
  BY <1>4 DEF Cache!Call
<1>5. QED
  BY <1>1, <1>2, <1>3, <1>4 DEF Cache!Next

(* When a routine returns, no line of its region is in the cache, and none *)
(* of another region lost its writes, for caches and regions of any size.  *)
THEOREM RegionsAreFlushed == CacheNumbers => (Cache!Spec => RegionFlushed)
<1> SUFFICES ASSUME CacheNumbers PROVE Cache!Spec => RegionFlushed
  OBVIOUS
<1>1. Cache!Init => CacheInv
  <2>1. SETS - 1 \in Int /\ ~(None \in 0..(LINES - 1))
    BY DEF CacheNumbers
  <2>2. QED
    BY <2>1 DEF Cache!Init, CacheInv
<1>2. CacheInv /\ [Cache!Next]_Cache!vars => CacheInv'
  <2> SUFFICES ASSUME CacheInv, [Cache!Next]_Cache!vars PROVE CacheInv'
    OBVIOUS
  <2>0. /\ flushPc \in {"main", "loop"} /\ from \in Nat /\ len \in Nat
        /\ dirty \subseteq 0..(LINES - 1) /\ DOMAIN cache = Cache!Sets
        /\ \A s \in Cache!Sets : cache[s] \in 0..(LINES - 1) => Cache!Set(cache[s]) = s
        /\ Cache!Sets' = Cache!Sets
    BY DEF CacheInv, Cache!Sets
  <2>1. ASSUME NEW l \in 0..(LINES - 1), NEW stores \in BOOLEAN, Cache!Access(l, stores)
        PROVE  CacheInv'
    <3>1. /\ flushPc = "main" \/ l \notin Cache!Region(from, len)
          /\ cache' = [cache EXCEPT ![Cache!Set(l)] = l]
          /\ dirty' \subseteq dirty \cup {l}
          /\ flushPc' = flushPc /\ routine' = routine /\ from' = from /\ len' = len
          /\ stop' = stop /\ line' = line
      BY <2>1 DEF Cache!Access, Cache!args
    <3>2. Cache!Set(l) \in Cache!Sets
      <4>1. l \in Int /\ (l % SETS) \in 0..(SETS - 1)
        BY DivMod DEF CacheNumbers
      <4>2. QED
        BY <4>1 DEF Cache!Set, Cache!Sets
    <3>3. /\ DOMAIN cache' = Cache!Sets /\ cache'[Cache!Set(l)] = l
          /\ \A s \in Cache!Sets : s # Cache!Set(l) => cache'[s] = cache[s]
      BY <2>0, <3>1, <3>2
    <3>4. \A s \in Cache!Sets : cache'[s] \in 0..(LINES - 1) => Cache!Set(cache'[s]) = s
      BY <2>0, <3>3
    <3>5. ASSUME flushPc = "loop"
          PROVE  stop' = from' + Length' /\ \E k \in Nat : Flushed(k)'
      <4>1. stop = from + Length /\ \E k \in Nat : Flushed(k)
        BY <3>5 DEF CacheInv
      <4>2. PICK k \in Nat : Flushed(k)
        BY <4>1
      <4>3. /\ Cache!Region(from', len') = Cache!Region(from, len)
            /\ Cache!Region(from, len)' = Cache!Region(from, len)
            /\ First' = First /\ Length' = Length /\ (Cache!WholeSet' <=> Cache!WholeSet)
        BY <3>1 DEF Cache!Region, First, Length, Cache!Capped, Cache!WholeSet
      <4>4. \A n \in Cache!Region(from, len) : Cache!Set(n) \in Cache!Sets
        <5> TAKE n \in Cache!Region(from, len)
        <5>1. n \in Int
          BY DEF Cache!Region
        <5>2. (n % SETS) \in 0..(SETS - 1)
          BY <5>1, DivMod DEF CacheNumbers
        <5>3. QED
          BY <5>2 DEF Cache!Set, Cache!Sets
      <4>5. \A n \in Cache!Region(from, len) :
               cache'[Cache!Set(n)] = n => n >= First + k
        BY <3>1, <3>3, <3>5, <4>2, <4>4 DEF Flushed
      <4>6. ASSUME Cache!WholeSet, NEW m \in 0..(k - 1)
            PROVE  cache'[Cache!Set(First + m)] \notin Cache!Region(from, len)
        <5>1. m \in Nat
          OBVIOUS
        <5>2. Cache!Set(First + m) \in Cache!Sets
          BY <2>0, <5>1, LineAt
        <5>3. QED
          BY <3>1, <3>3, <3>5, <4>2, <4>6, <5>2 DEF Flushed
      <4>7. Flushed(k)'
        <5>1. line' = from' + k * LINE_SIZE
          BY <3>1, <4>2 DEF Flushed
        <5>2. \A n : Cache!Set(n)' = Cache!Set(n)
          BY DEF Cache!Set
        <5>3. QED
          BY <4>3, <4>5, <4>6, <5>1, <5>2 DEF Flushed, Cache!Set
      <4>8. QED
        BY <3>1, <4>1, <4>3, <4>7
    <3>6. QED
      BY <2>0, <3>1, <3>3, <3>4, <3>5 DEF CacheInv, Cache!Set
  <2>2. ASSUME NEW o \in Cache!Routines, NEW a \in 0..(LINES * LINE_SIZE),
               NEW n \in 0..(LINES * LINE_SIZE), Cache!Call(o, a, n)
        PROVE  CacheInv'
    <3>1. /\ flushPc' = "loop" /\ routine' = o /\ from' = a /\ len' = n /\ line' = a
          /\ stop' = a + (IF o = "icache_flush" THEN Cache!Capped(n) ELSE n)
          /\ cache' = cache /\ dirty' = dirty
      BY <2>2 DEF Cache!Call
    <3>2. a \in Nat /\ n \in Nat
      BY DEF CacheNumbers
    <3>3. stop' = from' + Length'
      BY <3>1 DEF Length, Cache!Capped, Cache!SIZE
    <3>4. PICK w \in Nat \ {0} : w = LINE_SIZE
      BY DEF CacheNumbers
    <3>5. PICK f \in Int, r \in 0..(w - 1) : f = First' /\ a = f * w + r
      <4>1. First' = a \div w
        BY <3>1, <3>4 DEF First
      <4>2. a \in Int
        BY <3>2
      <4>3. QED
        BY <4>1, <4>2, DivMod
    <3>6. ASSUME NEW l \in Cache!Region(a, n) PROVE l >= f + 0
      <4>1. l \in Int /\ a < (l + 1) * w
        BY <3>4 DEF Cache!Region
      <4>2. f * w < (l + 1) * w
        <5>1. f * w \in Int /\ (l + 1) * w \in Int /\ r >= 0 /\ r \in Int
          BY <4>1
        <5>2. a = f * w + r /\ a < (l + 1) * w
          BY <3>5, <4>1
        <5>3. QED
          BY ONLY <5>1, <5>2
      <4>3. f < l + 1
        BY <4>1, <4>2, LineOrder
      <4>4. QED
        BY <4>1, <4>3
    <3>7. Flushed(0)'
      <4>1. a = a + 0 * LINE_SIZE
        BY <3>2 DEF CacheNumbers
      <4>2. Cache!Region(from, len)' = Cache!Region(a, n)
        BY <3>1 DEF Cache!Region
      <4>3. 0..(0 - 1) = {}
        OBVIOUS
      <4>4. QED
        BY <3>1, <3>5, <3>6, <4>1, <4>2, <4>3 DEF Flushed
    <3>8. QED
      BY <2>0, <3>1, <3>2, <3>3, <3>7 DEF CacheInv, Cache!Set
  <2>3. CASE Cache!Loop
    <3>1. /\ flushPc = "loop" /\ line < stop /\ Cache!FlushLine(line \div LINE_SIZE)
          /\ line' = line + LINE_SIZE
          /\ flushPc' = flushPc /\ routine' = routine /\ from' = from /\ len' = len
          /\ stop' = stop
      BY <2>3 DEF Cache!Loop, Cache!args
    <3>2. stop = from + Length /\ \E k \in Nat : Flushed(k)
      BY <3>1 DEF CacheInv
    <3>3. PICK k \in Nat : Flushed(k)
      BY <3>2
    <3>4. line = from + k * LINE_SIZE
      BY <3>3 DEF Flushed
    <3>5. Cache!FlushLine(First + k) /\ First \in Nat
      BY <2>0, <3>1, <3>4, LineAt
    <3>6. /\ DOMAIN cache' = Cache!Sets
          /\ \A s \in Cache!Sets :
                cache'[s] \in 0..(LINES - 1) => cache[s] = cache'[s]
          /\ \A l \in Cache!Region(from, len) :
                cache'[Cache!Set(l)] = l => l >= First + k + 1
          /\ Cache!WholeSet => \A m \in 0..k :
                cache'[Cache!Set(First + m)] \notin Cache!Region(from, len)
      BY <3>1, <3>3, <3>5, FlushKeeps
    <3>7. /\ Cache!Region(from, len)' = Cache!Region(from, len)
          /\ First' = First /\ Length' = Length /\ (Cache!WholeSet' <=> Cache!WholeSet)
      BY <3>1 DEF Cache!Region, First, Length, Cache!Capped, Cache!WholeSet
    <3>8. Flushed(k + 1)'
      <4>1. line' = from' + (k + 1) * LINE_SIZE
        <5>1. (k + 1) * LINE_SIZE = k * LINE_SIZE + LINE_SIZE /\ k * LINE_SIZE \in Int
          BY DEF CacheNumbers
        <5>2. QED
          BY <2>0, <3>1, <3>4, <5>1 DEF CacheNumbers
      <4>2. First + (k + 1) = First + k + 1 /\ 0..(k + 1 - 1) = 0..k
        BY <3>5
      <4>3. QED
        BY <3>6, <3>7, <4>1, <4>2 DEF Flushed, Cache!Set
    <3>9. k + 1 \in Nat
      OBVIOUS
    <3>10. dirty' \subseteq dirty
      BY <3>1 DEF Cache!FlushLine
    <3>11. \A s \in Cache!Sets : cache'[s] \in 0..(LINES - 1) => Cache!Set(cache'[s]) = s
      BY <2>0, <3>6
    <3>12. \E m \in Nat : Flushed(m)'
      BY <3>8, <3>9
    <3>13. QED
      BY <2>0, <3>1, <3>2, <3>6, <3>7, <3>10, <3>11, <3>12 DEF CacheInv, Cache!Set
  <2>4. CASE Cache!LastLine
    <3>1. /\ flushPc' = "main" /\ from' = 0 /\ len' = 0
          /\ \/ UNCHANGED <<cache, dirty>>
             \/ flushPc = "loop" /\ Cache!FlushLine(line \div LINE_SIZE)
      BY <2>4 DEF Cache!LastLine
    <3>2. /\ dirty' \subseteq dirty /\ DOMAIN cache' = Cache!Sets
          /\ \A s \in Cache!Sets : cache'[s] \in 0..(LINES - 1) => cache[s] = cache'[s]
      <4>1. CASE UNCHANGED <<cache, dirty>>
        BY <2>0, <4>1
      <4>2. CASE flushPc = "loop" /\ Cache!FlushLine(line \div LINE_SIZE)
        <5>1. PICK k \in Nat : Flushed(k)
          BY <4>2 DEF CacheInv
        <5>2. line = from + k * LINE_SIZE
          BY <5>1 DEF Flushed
        <5>3. Cache!FlushLine(First + k)
          BY <2>0, <4>2, <5>2, LineAt
        <5>4. dirty' \subseteq dirty
          BY <4>2 DEF Cache!FlushLine
        <5>5. QED
          BY <4>2, <5>1, <5>3, <5>4, FlushKeeps
      <4>3. QED
        BY <3>1, <4>1, <4>2
    <3>3. \A s \in Cache!Sets : cache'[s] \in 0..(LINES - 1) => Cache!Set(cache'[s]) = s
      BY <2>0, <3>2
    <3>4. QED
      BY <2>0, <3>1, <3>2, <3>3 DEF CacheInv, Cache!Set
  <2>5. CASE UNCHANGED Cache!vars
    <3>1. /\ flushPc' = flushPc /\ routine' = routine /\ from' = from /\ len' = len
          /\ stop' = stop /\ line' = line /\ cache' = cache /\ dirty' = dirty
      BY <2>5 DEF Cache!vars, Cache!args
    <3>2. QED
      BY <3>1 DEF CacheInv, Flushed, First, Length, Cache!Capped, Cache!SIZE,
                  Cache!WholeSet, Cache!Region, Cache!Set, Cache!Sets
  <2>6. QED
    BY <2>1, <2>2, <2>3, <2>4, <2>5 DEF Cache!Next
<1>3. CacheInv /\ [Cache!Next]_Cache!vars =>
         [Cache!LastLine => \A s \in Cache!Sets :
                              cache'[s] \notin Cache!Region(from, len)]_Cache!vars
  BY RegionLeft
<1>4. CacheInv /\ [Cache!Next]_Cache!vars =>
         [from % LINE_SIZE = 0 =>
             lost' \ lost \subseteq Cache!Region(from, len)]_Cache!vars
  BY LinesDiscarded
<1>5. QED
  BY <1>1, <1>2, <1>3, <1>4, PTL
     DEF Cache!Spec, RegionFlushed, Cache!RegionFlushed, Cache!DiscardsItsRegion

-----------------------------------------------------------------------------
(* The cosine path, up to the words its stages hold.                       *)

\* Elements num / 2^frac of 24 bits below 512, as far as the conversion counts.
Convertible == \A p \in Elements : \E num \in Nat, frac \in 0..14 :
                  p = <<num, frac>> /\ num < 2^24 /\ num < 512 * 2^frac

\* Elements up to 256, whose cosine is that of an angle up to 1.
InRange == Convertible /\ \A p \in Elements : p[1] <= 256 * 2^p[2]

\* A power of two, opaque in the arithmetic that follows.
Pow(n) == 2^n

\* The powers that occur.
LEMMA PowValues ==
    /\ Pow(0) = 1 /\ Pow(7) = 128 /\ Pow(8) = 256 /\ Pow(9) = 512 /\ Pow(14) = 16384
    /\ Pow(21) = 2097152 /\ Pow(22) = 4194304 /\ Pow(23) = 8388608
    /\ Pow(24) = 16777216
BY DEF Pow

LEMMA PowType == \A n \in Nat : Pow(n) \in Nat \ {0} /\ Pow(n + 1) = 2 * Pow(n)
BY Doubles, PowPositive DEF Pow

LEMMA PowSum == \A a, b \in Nat : Pow(a + b) = Pow(a) * Pow(b)
BY PowAdds DEF Pow

\* A larger exponent makes a larger power.
LEMMA PowGrows ==
    ASSUME NEW a \in Nat, NEW b \in Nat, a <= b
    PROVE  Pow(a) <= Pow(b)
<1>1. b - a \in Nat /\ a + (b - a) = b
  OBVIOUS
<1>2. Pow(b) = Pow(a) * Pow(b - a)
  <2>1. Pow(a + (b - a)) = Pow(a) * Pow(b - a)
    BY <1>1, PowSum
  <2>2. QED
    BY <1>1, <2>1
<1>3. PICK s, t \in Nat \ {0} : s = Pow(a) /\ t = Pow(b - a)
  <2>1. Pow(a) \in Nat \ {0} /\ Pow(b - a) \in Nat \ {0}
    BY <1>1, PowType
  <2>2. QED
    BY <2>1
<1>4. s <= s * t
  <2>1. s * (t - 1) >= 0
    <3>1. t - 1 \in Nat
      OBVIOUS
    <3>2. QED
      BY <3>1
  <2>2. s * t = s + s * (t - 1) /\ s * (t - 1) \in Int
    OBVIOUS
  <2>3. QED
    BY <2>1, <2>2
<1>5. QED
  BY <1>2, <1>3, <1>4

\* Every number lies between two powers of two.
LEMMA BetweenPowers ==
    ASSUME NEW w \in Nat, NEW num \in Nat \ {0}, num < Pow(w)
    PROVE  \E k \in 0..(w - 1) : Pow(k) <= num /\ num < Pow(k + 1)
<1> DEFINE Q(i) == \A n \in Nat \ {0} :
                      n < Pow(i) => \E k \in 0..(i - 1) : Pow(k) <= n /\ n < Pow(k + 1)
           S == {i \in Nat : Q(i)}
<1>1. 0 \in S
  BY PowValues
<1>2. ASSUME NEW i \in Nat, i \in S PROVE i + 1 \in S
  <2>1. SUFFICES ASSUME NEW n \in Nat \ {0}, n < Pow(i + 1)
                 PROVE  \E k \in 0..(i + 1 - 1) : Pow(k) <= n /\ n < Pow(k + 1)
    OBVIOUS
  <2>2. CASE n < Pow(i)
    <3>1. PICK k \in 0..(i - 1) : Pow(k) <= n /\ n < Pow(k + 1)
      BY <1>2, <2>2
    <3>2. k \in 0..(i + 1 - 1)
      OBVIOUS
    <3>3. QED
      BY <3>1, <3>2
  <2>3. CASE ~(n < Pow(i))
    <3>1. i \in 0..(i + 1 - 1) /\ Pow(i) \in Nat
      BY PowType
    <3>2. QED
      BY <2>1, <2>3, <3>1
  <2>4. QED
    BY <2>2, <2>3
<1>3. Nat \subseteq S
  <2> HIDE DEF S
  <2>1. QED
    BY <1>1, <1>2, Induction
<1>4. w \in S
  BY <1>3
<1>5. Q(w)
  BY <1>4
<1>6. QED
  BY <1>5

LEMMA Log2Chosen ==
    ASSUME NEW n, \E k \in 0..23 : Pow(k) <= n /\ n < Pow(k + 1)
    PROVE  /\ Log2(n) \in 0..23
           /\ Pow(Log2(n)) <= n /\ n < Pow(Log2(n) + 1)
BY Zenon DEF Log2, Pow

LEMMA Log2Is ==
    ASSUME NEW n \in Nat \ {0}, n < Pow(24)
    PROVE  /\ Log2(n) \in 0..23
           /\ Pow(Log2(n)) <= n /\ n < Pow(Log2(n) + 1)
<1>1. n \in Nat \ {0} /\ n < Pow(24)
  BY PowValues
<1>2. \E k \in 0..23 : Pow(k) <= n /\ n < Pow(k + 1)
  <2>1. PICK w \in Nat : w = 24
    OBVIOUS
  <2>2. n < Pow(w)
    BY <1>1, <2>1
  <2>3. \E k \in 0..(w - 1) : Pow(k) <= n /\ n < Pow(k + 1)
    BY ONLY <1>1, <2>2, w \in Nat, BetweenPowers
  <2>4. QED
    BY <2>1, <2>3
<1>3. QED
  BY <1>2, Log2Chosen

(* The word of an element that is not zero: its 24 bits from the leading   *)
(* one on.                                                                 *)
LEMMA FloatFields ==
    ASSUME NEW num \in Nat \ {0}, num < Pow(24), NEW frac \in 0..15
    PROVE  \E k \in 0..23, m \in Nat :
              /\ Pow(k) <= num
              /\ FloatOf(num, frac) = [s |-> 0, e |-> 127 + k - frac, m |-> m]
              /\ Pow(23) + m = num * Pow(23 - k)
              /\ k = Log2(num) /\ m = (num - Pow(k)) * Pow(23 - k)
<1>1. PICK k \in 0..23 : k = Log2(num) /\ Pow(k) <= num
  <2>1. Log2(num) \in 0..23 /\ Pow(Log2(num)) <= num
    BY Log2Is
  <2>2. QED
    BY <2>1
<1>2. num # 0 /\ num \in Nat /\ 23 - k \in Nat /\ k + (23 - k) = 23
  OBVIOUS
<1>3. Pow(k) * Pow(23 - k) = Pow(23)
  <2>1. Pow(k + (23 - k)) = Pow(k) * Pow(23 - k)
    <3>1. k \in Nat /\ 23 - k \in Nat
      OBVIOUS
    <3>2. QED
      BY ONLY <3>1, PowSum
  <2>2. QED
    BY <1>2, <2>1
<1>4. PICK a, b \in Nat : a = Pow(k) /\ b = Pow(23 - k)
  <2>1. k \in Nat
    OBVIOUS
  <2>2. Pow(k) \in Nat /\ Pow(23 - k) \in Nat
    BY <1>2, <2>1, PowType
  <2>3. QED
    BY <2>2
<1>5. num - a \in Nat
  BY <1>1, <1>2, <1>4
<1>6. PICK m \in Nat : m = (num - a) * b
  BY <1>5
<1>7. a * b + (num - a) * b = num * b
  BY <1>2
<1>8. FloatOf(num, frac) = [s |-> 0, e |-> 127 + k - frac, m |-> m]
  BY <1>1, <1>2, <1>4, <1>6 DEF FloatOf, Pow
<1>9. Pow(23) + m = num * Pow(23 - k)
  BY <1>3, <1>4, <1>6, <1>7
<1>10. m = (num - Pow(k)) * Pow(23 - k)
  BY <1>4, <1>6
<1>11. QED
  BY <1>1, <1>8, <1>9, <1>10, Zenon

\* 7 off the exponent.
LEMMA ScaledFields ==
    ASSUME NEW e, NEW m
    PROVE  ScaledDown([s |-> 0, e |-> e, m |-> m])
             = [s |-> 0, e |-> (e - 7) % 256, m |-> m]
<1>1. SUFFICES ASSUME NEW f \in [s : {0}, e : {e}, m : {m}]
               PROVE  ScaledDown(f) = [s |-> 0, e |-> (e - 7) % 256, m |-> m]
  OBVIOUS
<1>2. f.e = e
  OBVIOUS
<1>3. ScaledDown(f) \in [s : {0}, e : {(e - 7) % 256}, m : {m}]
  BY <1>2 DEF ScaledDown
<1>4. QED
  BY <1>3

(* What the conversion makes of an element: 21 bits of a 128th of it.      *)
LEMMA FixExact ==
    ASSUME NEW num \in Nat, num < Pow(24), NEW frac \in 0..14, num < 512 * Pow(frac)
    PROVE  /\ num * Pow(14 - frac) \in Nat /\ num * Pow(14 - frac) < Pow(23)
           /\ Floating2Fix(ScaledDown(FloatOf(num, frac)))
                = num * Pow(14 - frac)
<1>1. 14 - frac \in Nat /\ frac \in Nat /\ num \in Nat /\ frac + (14 - frac) = 14
  BY PowValues
<1>2. PICK b, c \in Nat \ {0} : b = Pow(frac) /\ c = Pow(14 - frac)
  <2>1. Pow(frac) \in Nat \ {0} /\ Pow(14 - frac) \in Nat \ {0}
    BY <1>1, PowType
  <2>2. QED
    BY <2>1
<1>3. b * c = 16384
  <2>1. Pow(frac + (14 - frac)) = Pow(frac) * Pow(14 - frac)
    BY <1>1, PowSum
  <2>2. QED
    BY <1>1, <1>2, <2>1, PowValues
<1>4. num * c \in Nat /\ num * c < Pow(23)
  <2>1. (512 * b - 1 - num) * c >= 0
    <3>1. 512 * b - 1 - num \in Nat
      BY <1>1, <1>2
    <3>2. QED
      BY <3>1
  <2>2. (512 * b - 1 - num) * c = 512 * (b * c) - c - num * c
    BY <1>1
  <2>3. num * c \in Nat /\ b * c \in Nat
    BY <1>1
  <2>4. QED
    BY <1>3, <2>1, <2>2, <2>3, PowValues
<1>5. CASE num = 0
  <2>1. FloatOf(num, frac) = [s |-> 0, e |-> 0, m |-> 0]
    BY <1>5 DEF FloatOf, FloatZero
  <2>2. ((0 - 7) % 256) = 249
    <3>1. PICK d \in Nat \ {0}, n \in Int : d = 256 /\ n = 0 - 7
      OBVIOUS
    <3>2. n = (-1) * d + 249 /\ -1 \in Int /\ 249 \in 0..(d - 1)
      BY ONLY <3>1, d \in Nat \ {0}, n \in Int
    <3>3. (n % d) = 249
      BY ONLY <3>2, d \in Nat \ {0}, n \in Int, DivUnique
    <3>4. QED
      BY ONLY <3>1, <3>3
  <2>3. Floating2Fix(ScaledDown(FloatOf(num, frac))) = 0
    <3>1. ScaledDown([s |-> 0, e |-> 0, m |-> 0]) = [s |-> 0, e |-> 249, m |-> 0]
      BY <2>2, ScaledFields
    <3>2. QED
      BY <2>1, <3>1 DEF Floating2Fix
  <2>4. num * c = 0
    BY <1>5
  <2>5. QED
    BY <1>2, <1>4, <2>3, <2>4
<1>6. CASE num # 0
  <2>1. num \in Nat \ {0} /\ num < Pow(24) /\ frac \in 0..15
    BY <1>1, <1>6
  <2>2. PICK k \in 0..23, m \in Nat :
           /\ Pow(k) <= num
           /\ FloatOf(num, frac) = [s |-> 0, e |-> 127 + k - frac, m |-> m]
           /\ Pow(23) + m = num * Pow(23 - k)
           /\ k = Log2(num) /\ m = (num - Pow(k)) * Pow(23 - k)
    BY <2>1, FloatFields, Zenon
  <2>3. k <= 8 + frac
    <3>1. SUFFICES ASSUME k >= 9 + frac PROVE FALSE
      OBVIOUS
    <3>2. Pow(9 + frac) <= Pow(k) /\ Pow(k) \in Nat
      <4>1. 9 + frac \in Nat /\ k \in Nat
        BY <1>1
      <4>2. Pow(9 + frac) <= Pow(k)
        BY <3>1, <4>1, PowGrows
      <4>3. QED
        BY <4>1, <4>2, PowType
    <3>3. Pow(9 + frac) = 512 * b
      <4>1. Pow(9 + frac) = Pow(9) * Pow(frac)
        BY <1>1, PowSum
      <4>2. QED
        BY <1>2, <4>1, PowValues
    <3>4. QED
      BY <1>1, <1>2, <2>2, <3>2, <3>3
  <2>4. PICK h \in Nat : h = 9 + frac - k /\ h + (14 - frac) = 23 - k
                         /\ 129 - (120 + k - frac) = h
    BY <2>3
  <2>5. 120 + k - frac \in 106..128
    BY <2>3
  <2>6. ScaledDown([s |-> 0, e |-> 127 + k - frac, m |-> m])
          = [s |-> 0, e |-> 120 + k - frac, m |-> m]
    <3>1. PICK v \in 106..128 : v = 120 + k - frac
      BY <2>5
    <3>2. (127 + k - frac - 7) = v /\ (v % 256) = v
      BY <3>1
    <3>3. QED
      BY <3>1, <3>2, ScaledFields
  <2>7. Floating2Fix(ScaledDown(FloatOf(num, frac)))
          = (num * Pow(23 - k)) \div Pow(h)
    BY <2>2, <2>4, <2>5, <2>6 DEF Floating2Fix, Pow
  <2>8. PICK d \in Nat \ {0} : d = Pow(h)
    BY PowType
  <2>9. Pow(23 - k) = d * c
    <3>1. Pow(h + (14 - frac)) = Pow(h) * Pow(14 - frac)
      BY <1>1, PowSum
    <3>2. QED
      BY <1>2, <2>4, <2>8, <3>1
  <2>10. (num * (d * c)) \div d = num * c
    <3>1. num * (d * c) = (num * c) * d + 0 /\ num * c \in Int /\ 0 \in 0..(d - 1)
      BY <1>1
    <3>2. QED
      BY ONLY <3>1, d \in Nat \ {0}, DivUnique
  <2>11. QED
    BY <1>2, <1>4, <2>7, <2>8, <2>9, <2>10
<1>7. QED
  BY <1>5, <1>6

\* The distance from 1, in fixed point, over all branches.
LEMMA DistanceFromOne ==
    ASSUME NEW v \in Nat, v < Pow(23), NEW f, Floating2Fix(ScaledDown(f)) = v
    PROVE  InsideCos(f) = Abs(v - 2097152)
<1>1. v \in Nat /\ v < 8388608
  BY PowValues
<1>2. InsideCos(f) = IF (v \div 2097152) % 2 = 1 THEN v - 2097152
                         ELSE IF (v \div 4194304) % 2 = 1 THEN v - 4194304 + 2097152
                         ELSE (2097152 - v) % 4194304
  BY DEF InsideCos, Bit, FromOne, One, POINT
<1>3. CASE v < 2097152
  <2>1. v \div 2097152 = 0 /\ v \div 4194304 = 0
    BY <1>1, <1>3
  <2>2. (0 % 2) = 0
    OBVIOUS
  <2>3. ((2097152 - v) % 4194304) = 2097152 - v
    BY <1>1, <1>3
  <2>4. QED
    BY <1>1, <1>2, <1>3, <2>1, <2>2, <2>3 DEF Abs
<1>4. CASE v >= 2097152 /\ v < 4194304
  <2>1. v \div 2097152 = 1 /\ (1 % 2) = 1
    BY <1>1, <1>4
  <2>2. QED
    BY <1>1, <1>2, <1>4, <2>1 DEF Abs
<1>5. CASE v >= 4194304 /\ v < 6291456
  <2>1. v \div 2097152 = 2 /\ (2 % 2) = 0 /\ v \div 4194304 = 1 /\ (1 % 2) = 1
    BY <1>1, <1>5
  <2>2. QED
    BY <1>1, <1>2, <1>5, <2>1 DEF Abs
<1>6. CASE v >= 6291456
  <2>1. v \div 2097152 = 3 /\ (3 % 2) = 1
    BY <1>1, <1>6
  <2>2. QED
    BY <1>1, <1>2, <1>6, <2>1 DEF Abs
<1>7. QED
  BY <1>1, <1>3, <1>4, <1>5, <1>6

(* The angle of an element that the conversion counts is exact.            *)
LEMMA AngleOf ==
    ASSUME NEW num \in Nat, num < Pow(24), NEW frac \in 0..14, num < 512 * Pow(frac),
           element = <<num, frac>>
    PROVE  /\ AngleExact
           /\ z_in = Abs(num * Pow(14 - frac) - 2097152)
           /\ num * Pow(14 - frac) \in Nat /\ num * Pow(14 - frac) < Pow(23)
<1>1. PICK b, c \in Nat : b = Pow(frac) /\ c = Pow(14 - frac) /\ b * c = 16384
  <2>1. 14 - frac \in Nat /\ frac \in Nat /\ frac + (14 - frac) = 14
    OBVIOUS
  <2>2. Pow(frac + (14 - frac)) = Pow(frac) * Pow(14 - frac)
    BY <2>1, PowSum
  <2>3. Pow(frac) \in Nat /\ Pow(14 - frac) \in Nat
    BY <2>1, PowType
  <2>4. QED
    BY <2>1, <2>2, <2>3, PowValues
<1>2. num * c \in Nat /\ num * c < Pow(23)
      /\ Floating2Fix(ScaledDown(FloatOf(num, frac))) = num * c
  BY <1>1, FixExact
<1>3. element[1] = num /\ element[2] = frac
  OBVIOUS
<1>4. z_in = Abs(num * c - 2097152)
  <2>1. PICK v \in Nat : v = num * c /\ v < Pow(23)
    BY <1>2
  <2>2. InsideCos(FloatOf(num, frac)) = Abs(v - 2097152)
    BY <1>2, <2>1, DistanceFromOne
  <2>3. QED
    BY <1>3, <2>1, <2>2 DEF z_in
<1>5. Angle = Abs(num - 128 * b) * c
  BY <1>1, <1>3 DEF Angle, Pow
<1>6. Abs(num - 128 * b) * c = Abs(num * c - 2097152)
  <2>1. num \in Int /\ num * c \in Int
    BY PowValues
  <2>2. (num - 128 * b) * c = num * c - 2097152
        /\ (-(num - 128 * b)) * c = -(num * c - 2097152)
    BY <1>1, <2>1
  <2>3. CASE num - 128 * b < 0
    <3>1. num * c - 2097152 <= 0
      <4>1. (-(num - 128 * b)) * c >= 0
        <5>1. -(num - 128 * b) \in Nat
          BY <2>1, <2>3
        <5>2. QED
          BY <5>1
      <4>2. QED
        BY <2>1, <2>2, <4>1
    <3>2. Abs(num - 128 * b) = -(num - 128 * b)
      BY <2>3 DEF Abs
    <3>3. Abs(num * c - 2097152) = -(num * c - 2097152)
      BY <2>1, <3>1 DEF Abs
    <3>4. QED
      BY <2>2, <3>2, <3>3
  <2>4. CASE ~(num - 128 * b < 0)
    <3>1. ~(num * c - 2097152 < 0)
      <4>1. (num - 128 * b) * c >= 0
        <5>1. num - 128 * b \in Nat
          BY <2>1, <2>4
        <5>2. QED
          BY <5>1
      <4>2. QED
        BY <2>1, <2>2, <4>1
    <3>2. QED
      BY <2>2, <2>4, <3>1 DEF Abs
  <2>5. QED
    BY <2>3, <2>4
<1>7. QED
  BY <1>1, <1>2, <1>4, <1>5, <1>6 DEF AngleExact

(* One off the exponent halves every element.                              *)
LEMMA HalfOfElement ==
    ASSUME NEW num \in Nat, num < Pow(24), NEW frac \in 0..14, element = <<num, frac>>
    PROVE  HalfExact
<1>1. element[1] = num /\ element[2] = frac
  OBVIOUS
<1>2. CASE num = 0
  BY <1>1, <1>2 DEF HalfExact, HalfOf, FloatOf, FloatZero
<1>3. CASE num # 0
  <2>1. num \in Nat \ {0} /\ num < Pow(24) /\ frac \in 0..15 /\ frac + 1 \in 0..15
    BY <1>3, PowValues
  <2>2. PICK k \in 0..23, m \in Nat :
           /\ Pow(k) <= num
           /\ FloatOf(num, frac) = [s |-> 0, e |-> 127 + k - frac, m |-> m]
           /\ Pow(23) + m = num * Pow(23 - k)
           /\ k = Log2(num) /\ m = (num - Pow(k)) * Pow(23 - k)
    BY <2>1, FloatFields, Zenon
  <2>3. PICK k2 \in 0..23, m2 \in Nat :
           /\ Pow(k2) <= num
           /\ FloatOf(num, frac + 1) = [s |-> 0, e |-> 127 + k2 - (frac + 1), m |-> m2]
           /\ Pow(23) + m2 = num * Pow(23 - k2)
           /\ k2 = Log2(num) /\ m2 = (num - Pow(k2)) * Pow(23 - k2)
    BY <2>1, FloatFields, Zenon
  <2>4. k2 = k /\ m2 = m
    BY <2>2, <2>3
  <2>5. PICK v \in 112..149 : v = 127 + k - (frac + 1) /\ (v % 256) = v
                              /\ 127 + k - frac - 1 = v /\ 127 + k - frac # 0
    OBVIOUS
  <2>6. FloatOf(num, frac) # FloatZero
    BY <2>2, <2>5 DEF FloatZero
  <2>7. HalfOf(FloatOf(num, frac)) = [s |-> 0, e |-> v, m |-> m]
    BY <2>2, <2>5, <2>6 DEF HalfOf
  <2>8. FloatOf(num, frac + 1) = [s |-> 0, e |-> v, m |-> m]
    BY <2>3, <2>4, <2>5
  <2>9. QED
    BY <1>1, <1>3, <2>7, <2>8 DEF HalfExact
<1>4. QED
  BY <1>2, <1>3

(* The conversions are exact for every element of 24 bits below 512 with   *)
(* 14 fractional bits or less.                                             *)
THEOREM ElementsConverted == Convertible => (CordicSpec => []ConversionsExact)
<1> SUFFICES ASSUME Convertible PROVE CordicSpec => []ConversionsExact
  OBVIOUS
<1>1. CordicInit => element \in Elements
  BY DEF CordicInit
<1>2. element \in Elements /\ [CordicNext]_cordicVars => (element \in Elements)'
  BY DEF CordicNext, Rotate, Leave, cordicVars
<1>3. element \in Elements => ConversionsExact
  <2> SUFFICES ASSUME element \in Elements PROVE ConversionsExact
    OBVIOUS
  <2>1. PICK num \in Nat, frac \in 0..14 :
           element = <<num, frac>> /\ num < Pow(24) /\ num < 512 * Pow(frac)
    BY DEF Convertible, Pow
  <2>2. QED
    BY <2>1, AngleOf, HalfOfElement DEF ConversionsExact
<1>4. QED
  BY <1>1, <1>2, <1>3, PTL DEF CordicSpec

\* The powers the stages shift by.
Powers ==
    <<1, 2, 4, 8, 16, 32, 64, 128, 256, 512, 1024, 2048, 4096, 8192, 16384, 32768,
      65536, 131072, 262144, 524288, 1048576>>

\* What the stages from k on can still turn.
Left ==
    <<3655918, 2008819, 1036480, 522723, 261932, 131031, 65517, 32752, 16369,
      8178, 4083, 2036, 1013, 502, 247, 120, 57, 26, 11, 4, 1, 0>>

(* The most that either coordinate can have grown to before stage k: each  *)
(* stage adds the other's bound, shifted and rounded away from 0.          *)
Most ==
    <<1273501, 2547003, 3820505, 4775632, 5372587, 5708374, 5886761, 5978742,
      6025451, 6048988, 6060803, 6066722, 6069685, 6071167, 6071909, 6072280,
      6072466, 6072559, 6072606, 6072630, 6072642, 6072648>>

LEMMA PowersListed == \A i \in 0..20 : Pow(i) = Powers[i + 1]
<1> DEFINE S == {i \in Nat : i <= 20 => Pow(i) = Powers[i + 1]}
<1>1. 0 \in S
  BY PowValues DEF Powers
<1>2. ASSUME NEW i \in Nat, i \in S PROVE i + 1 \in S
  <2>1. i + 1 <= 20 => Powers[i + 1 + 1] = 2 * Powers[i + 1]
    BY DEF Powers
  <2>2. Pow(i + 1) = 2 * Pow(i)
    BY PowType
  <2>3. QED
    BY <1>2, <2>1, <2>2
<1>3. Nat \subseteq S
  <2> HIDE DEF S
  <2>1. QED
    BY <1>1, <1>2, Induction
<1>4. QED
  BY <1>3

LEMMA StageTurns ==
    ASSUME NEW i \in 0..20
    PROVE  /\ LUT[i + 1] \in Nat /\ Left[i + 1] \in Nat /\ Left[i + 2] \in Nat
           /\ Left[i + 1] = LUT[i + 1] + Left[i + 2]
           /\ LUT[i + 1] <= Left[i + 2] + 21
           /\ Left[i + 1] <= 3655918
BY DEF Left, LUT

LEMMA StageGrows ==
    ASSUME NEW i \in 0..20
    PROVE  /\ Powers[i + 1] \in Nat \ {0} /\ Most[i + 1] \in Nat /\ Most[i + 2] \in Nat
           /\ Most[i + 2] = Most[i + 1] + Most[i + 1] \div Powers[i + 1] + 1
BY SMTT(30) DEF Most, Powers

LEMMA LastRow ==
    ASSUME NEW i \in 0..21
    PROVE  Left[i + 1] \in Nat /\ Left[i + 1] <= 3655918 /\ Left[22] = 0
           /\ Most[i + 1] \in Nat /\ Most[i + 1] <= 6072648
BY DEF Left, Most

\* Shifting a coordinate shifts its bound, and may round it down by one more.
LEMMA ShiftBounded ==
    ASSUME NEW d \in Nat \ {0}, NEW b \in Nat, NEW v \in Int, -b <= v, v <= b
    PROVE  v \div d \in Int /\ b \div d \in Nat
           /\ -(b \div d + 1) <= v \div d /\ v \div d <= b \div d + 1
<1>1. PICK q \in Nat, r \in 0..(d - 1) : b = q * d + r /\ q = b \div d
  <2>1. b = (b \div d) * d + (b % d) /\ b \div d \in Nat /\ (b % d) \in 0..(d - 1)
    OBVIOUS
  <2>2. QED
    BY <2>1
<1>2. PICK p \in Int, s \in 0..(d - 1) : v = p * d + s /\ p = v \div d
  <2>1. v = (v \div d) * d + (v % d) /\ v \div d \in Int /\ (v % d) \in 0..(d - 1)
    OBVIOUS
  <2>2. QED
    BY <2>1
<1>3. p <= q
  <2>1. SUFFICES ASSUME p - q - 1 >= 0 PROVE FALSE
    OBVIOUS
  <2>2. (p - q - 1) * d >= 0
    <3>1. p - q - 1 \in Nat
      BY <2>1
    <3>2. QED
      BY <3>1
  <2>3. (p - q - 1) * d = p * d - q * d - d /\ p * d \in Int /\ q * d \in Int
    OBVIOUS
  <2>4. QED
    BY <1>1, <1>2, <2>2, <2>3
<1>4. -(q + 1) <= p
  <2>1. SUFFICES ASSUME -(q + 1) - p - 1 >= 0 PROVE FALSE
    OBVIOUS
  <2>2. (-(q + 1) - p - 1) * d >= 0
    <3>1. -(q + 1) - p - 1 \in Nat
      BY <2>1
    <3>2. QED
      BY <3>1
  <2>3. (-(q + 1) - p - 1) * d = -(q * d) - d - p * d - d /\ p * d \in Int /\ q * d \in Int
    OBVIOUS
  <2>4. QED
    BY <1>1, <1>2, <2>2, <2>3
<1>5. QED
  BY <1>1, <1>2, <1>3, <1>4

\* The recursion of Sum, on its domain.
RestOf(f) == f = [k \in 1..(STAGES + 1) |->
                    IF k > STAGES THEN 0 ELSE LUT[k] + f[k + 1]]

LEMMA SumsRest == \E f : RestOf(f)
<1> DEFINE f == [k \in 1..22 |-> Left[k]]
<1>1. ASSUME NEW k \in 1..22
      PROVE  f[k] = IF k > 21 THEN 0 ELSE LUT[k] + f[k + 1]
  <2>1. CASE k > 21
    BY <2>1, LastRow
  <2>2. CASE ~(k > 21)
    <3>1. PICK i \in 0..20 : k = i + 1
      BY <2>2
    <3>2. Left[i + 1] = LUT[i + 1] + Left[i + 2]
      BY StageTurns
    <3>3. i + 1 + 1 = i + 2 /\ k + 1 \in 1..22
      BY <2>2
    <3>4. QED
      BY <2>2, <3>1, <3>2, <3>3
  <2>3. QED
    BY <2>1, <2>2
<1>2. f = [k \in 1..22 |-> f[k]]
  OBVIOUS
<1> HIDE DEF f
<1>3. f = [k \in 1..22 |-> IF k > 21 THEN 0 ELSE LUT[k] + f[k + 1]]
  BY <1>1, <1>2
<1>4. RestOf(f)
  BY <1>3 DEF RestOf, STAGES
<1>5. QED
  BY <1>4

LEMMA SumIsLeft == \A i \in 0..21 : Sum(i + 1) = Left[i + 1]
<1> DEFINE s == CHOOSE f : RestOf(f)
<1>1. RestOf(s)
  BY SumsRest, Zenon
<1>2. \A i : Sum(i) = s[i]
  BY Zenon DEF Sum, RestOf
<1> HIDE DEF s
<1>3. \A k \in 1..22 : s[k] = IF k > 21 THEN 0 ELSE LUT[k] + s[k + 1]
  <2>1. s = [k \in 1..22 |-> IF k > 21 THEN 0 ELSE LUT[k] + s[k + 1]]
    BY <1>1 DEF RestOf, STAGES
  <2>2. QED
    BY <2>1
<1> DEFINE S == {h \in Nat : h <= 21 => s[22 - h] = Left[22 - h]}
<1>4. 0 \in S
  BY <1>3, LastRow
<1>5. ASSUME NEW h \in Nat, h \in S PROVE h + 1 \in S
  <2>1. SUFFICES ASSUME h <= 20 PROVE s[21 - h] = Left[21 - h]
    OBVIOUS
  <2>2. PICK i \in 0..20 : i = 20 - h
    BY <2>1
  <2>3. s[i + 1] = LUT[i + 1] + s[i + 2]
    <3>1. i + 1 \in 1..22 /\ ~(i + 1 > 21) /\ i + 1 + 1 = i + 2
      OBVIOUS
    <3>2. QED
      BY <1>3, <3>1
  <2>4. s[i + 2] = Left[i + 2]
    <3>1. 22 - h = i + 2
      BY <2>2
    <3>2. QED
      BY <1>5, <2>1, <3>1
  <2>5. Left[i + 1] = LUT[i + 1] + Left[i + 2]
    BY StageTurns
  <2>6. 21 - h = i + 1
    BY <2>2
  <2>7. QED
    BY <2>3, <2>4, <2>5, <2>6
<1>6. Nat \subseteq S
  <2> HIDE DEF S
  <2>1. QED
    BY <1>4, <1>5, Induction
<1>7. QED
  <2>1. SUFFICES ASSUME NEW i \in 0..21 PROVE s[i + 1] = Left[i + 1]
    BY <1>2
  <2>2. PICK h \in Nat : h = 21 - i
    OBVIOUS
  <2>3. s[22 - h] = Left[22 - h]
    <3>1. h \in S /\ h <= 21
      BY <1>6, <2>2
    <3>2. QED
      BY <3>1
  <2>4. 22 - h = i + 1
    BY <2>2
  <2>5. QED
    BY <2>3, <2>4

\* v is not further from 0 than b.
Within(v, b) == v \in Int /\ -b <= v /\ v <= b

(* Why the stages are sound: before each one, what is left of the angle is  *)
(* within what it and those behind it turn, and the two coordinates are     *)
(* within what the ones in front can have grown them to.                    *)
StagesInv == /\ element \in Elements
             /\ stage \in 0..21
             /\ Within(x_out, Most[stage + 1])
             /\ Within(y_out, Most[stage + 1])
             /\ Within(z_out, Left[stage + 1] + 21)

LEMMA StagesInvImplies == StagesInv => StagesSound
<1> SUFFICES ASSUME StagesInv PROVE StagesSound
  OBVIOUS
<1>1. PICK i \in 0..21, m \in Nat, l \in Nat :
         i = stage /\ m = Most[i + 1] /\ l = Left[i + 1] /\ m <= 6072648 /\ l <= 3655918
  <2>1. PICK i \in 0..21 : i = stage
    BY DEF StagesInv
  <2>2. Most[i + 1] \in Nat /\ Left[i + 1] \in Nat
        /\ Most[i + 1] <= 6072648 /\ Left[i + 1] <= 3655918
    BY LastRow
  <2>3. QED
    BY <2>1, <2>2
<1>2. Within(x_out, m) /\ Within(y_out, m) /\ Within(z_out, l + 21)
  BY <1>1 DEF StagesInv
<1>3. Sum(stage + 1) = l
  BY <1>1, SumIsLeft
<1>4. FitsWord
  <2>1. -(2^23) = -8388608 /\ 2^23 - 1 = 8388607
    OBVIOUS
  <2>2. ASSUME NEW v \in {x_out, y_out, z_out} PROVE v \in Int /\ -8388608 <= v /\ v <= 8388607
    BY <1>1, <1>2 DEF Within
  <2>3. QED
    BY <2>1, <2>2 DEF FitsWord
<1>5. Converges
  BY <1>2, <1>3 DEF Within, Converges, Abs, STAGES
<1>6. QED
  BY <1>4, <1>5 DEF StagesSound

LEMMA StagesInvInit == InRange /\ CordicInit => StagesInv
<1> SUFFICES ASSUME InRange, CordicInit PROVE StagesInv
  OBVIOUS
<1>1. element \in Elements /\ stage = 0 /\ x_out = 1273501 /\ y_out = 0 /\ z_out = z_in
  BY DEF CordicInit, X_INITIAL
<1>2. Most[1] = 1273501 /\ Left[1] = 3655918
  BY DEF Most, Left
<1>3. PICK num \in Nat, frac \in 0..14 :
         element = <<num, frac>> /\ num < Pow(24) /\ num < 512 * Pow(frac)
         /\ num <= 256 * Pow(frac)
  <2>1. PICK num \in Nat, frac \in 0..14 :
           element = <<num, frac>> /\ num < Pow(24) /\ num < 512 * Pow(frac)
    BY <1>1 DEF InRange, Convertible, Pow
  <2>2. element[1] = num /\ element[2] = frac
    BY <2>1
  <2>3. element[1] <= 256 * Pow(element[2])
    BY <1>1 DEF InRange, Pow
  <2>4. QED
    BY <2>1, <2>2, <2>3
<1>4. z_out = Abs(num * Pow(14 - frac) - 2097152)
  BY <1>1, <1>3, AngleOf
<1>5. PICK b, c \in Nat : b = Pow(frac) /\ c = Pow(14 - frac) /\ b * c = 16384
  <2>1. 14 - frac \in Nat /\ frac \in Nat /\ frac + (14 - frac) = 14
    OBVIOUS
  <2>2. Pow(frac + (14 - frac)) = Pow(frac) * Pow(14 - frac)
    BY <2>1, PowSum
  <2>3. Pow(frac) \in Nat /\ Pow(14 - frac) \in Nat
    BY <2>1, PowType
  <2>4. QED
    BY <2>1, <2>2, <2>3, PowValues
<1>6. PICK v \in Nat : v = num * c /\ v <= 4194304
  <2>1. (256 * b - num) * c >= 0
    <3>1. 256 * b - num \in Nat
      BY <1>3, <1>5
    <3>2. QED
      BY <3>1
  <2>2. (256 * b - num) * c = 256 * (b * c) - num * c /\ num * c \in Nat
    OBVIOUS
  <2>3. QED
    BY <1>5, <2>1, <2>2
<1>7. Within(z_out, 3655939)
  BY <1>4, <1>5, <1>6 DEF Within, Abs
<1>8. QED
  BY <1>1, <1>2, <1>7 DEF StagesInv, Within

LEMMA StagesInvNext == StagesInv /\ [CordicNext]_cordicVars => StagesInv'
<1> SUFFICES ASSUME StagesInv, [CordicNext]_cordicVars PROVE StagesInv'
  OBVIOUS
<1>1. CASE Rotate
  <2>1. PICK i \in 0..20 : i = stage
    BY <1>1 DEF StagesInv, Rotate, STAGES
  <2>2. /\ Most[i + 1] \in Nat /\ Most[i + 2] \in Nat /\ Pow(i) \in Nat \ {0}
        /\ Most[i + 2] = Most[i + 1] + Most[i + 1] \div Pow(i) + 1
    <3>1. Pow(i) = Powers[i + 1]
      BY PowersListed
    <3>2. QED
      BY <3>1, StageGrows
  <2>3. /\ LUT[i + 1] \in Nat /\ Left[i + 1] \in Nat /\ Left[i + 2] \in Nat
        /\ Left[i + 1] = LUT[i + 1] + Left[i + 2]
        /\ LUT[i + 1] <= Left[i + 2] + 21
    BY StageTurns
  <2>4. PICK b \in Nat : b = Most[i + 1]
    BY ONLY <2>2
  <2>5. PICK b2 \in Nat : b2 = Most[i + 2]
    BY ONLY <2>2
  <2>6. PICK d \in Nat \ {0} : d = Pow(i)
    BY ONLY <2>2
  <2>7. PICK l \in Nat : l = Left[i + 1]
    BY ONLY <2>3
  <2>8. PICK l2 \in Nat : l2 = Left[i + 2]
    BY ONLY <2>3
  <2>9. PICK t \in Nat : t = LUT[i + 1]
    BY ONLY <2>3
  <2>10. /\ d \in Nat \ {0} /\ b2 = b + b \div d + 1
         /\ l = t + l2 /\ t <= l2 + 21
    BY ONLY <2>2, <2>3, <2>4, <2>5, <2>6, <2>7, <2>8, <2>9
  <2>11. stage' = i + 1 /\ i + 1 \in 0..21 /\ i + 1 + 1 = i + 2
    BY <1>1, <2>1 DEF Rotate
  <2>12. Within(x_out, b) /\ Within(y_out, b) /\ Within(z_out, l + 21)
    BY <2>1, <2>4, <2>7 DEF StagesInv
  <2>13. /\ x_out' = IF z_out < 0 THEN x_out + y_out \div d ELSE x_out - y_out \div d
         /\ y_out' = IF z_out < 0 THEN y_out - x_out \div d ELSE y_out + x_out \div d
         /\ z_out' = IF z_out < 0 THEN z_out + t ELSE z_out - t
    BY <1>1, <2>1, <2>6, <2>9 DEF Rotate, Negative, ShiftRight, Pow
  <2>14. Within(x_out', b2)
    <3>1. PICK w, c \in Int : /\ w = y_out \div d /\ c = b \div d
                              /\ -(c + 1) <= w /\ w <= c + 1
      <4>1. y_out \in Int /\ -b <= y_out /\ y_out <= b /\ d \in Nat \ {0}
        BY <2>10, <2>12 DEF Within
      <4>2. y_out \div d \in Int /\ b \div d \in Nat
            /\ -(b \div d + 1) <= y_out \div d /\ y_out \div d <= b \div d + 1
        BY ONLY <4>1, b \in Nat, ShiftBounded
      <4>3. QED
        BY <4>2
    <3>2. x_out' = x_out + w \/ x_out' = x_out - w
      BY ONLY <2>13, <3>1
    <3>3. QED
      BY <2>10, <2>12, <3>1, <3>2 DEF Within
  <2>15. Within(y_out', b2)
    <3>1. PICK w, c \in Int : /\ w = x_out \div d /\ c = b \div d
                              /\ -(c + 1) <= w /\ w <= c + 1
      <4>1. x_out \in Int /\ -b <= x_out /\ x_out <= b /\ d \in Nat \ {0}
        BY <2>10, <2>12 DEF Within
      <4>2. x_out \div d \in Int /\ b \div d \in Nat
            /\ -(b \div d + 1) <= x_out \div d /\ x_out \div d <= b \div d + 1
        BY ONLY <4>1, b \in Nat, ShiftBounded
      <4>3. QED
        BY <4>2
    <3>2. y_out' = y_out + w \/ y_out' = y_out - w
      BY ONLY <2>13, <3>1
    <3>3. QED
      BY <2>10, <2>12, <3>1, <3>2 DEF Within
  <2>16. Within(z_out', l2 + 21)
    BY ONLY <2>10, <2>12, <2>13, l2 \in Nat, t \in Nat, l \in Nat DEF Within
  <2>17. element' \in Elements
    BY <1>1 DEF StagesInv, Rotate
  <2>18. Most[stage' + 1] = b2 /\ Left[stage' + 1] = l2
    <3>1. stage' + 1 = i + 2
      BY <2>11
    <3>2. QED
      BY ONLY <2>5, <2>8, <3>1
  <2>19. QED
    BY <2>11, <2>14, <2>15, <2>16, <2>17, <2>18 DEF StagesInv
<1>2. CASE UNCHANGED cordicVars
  BY <1>2 DEF StagesInv, cordicVars
<1>3. QED
  BY <1>1, <1>2 DEF CordicNext, Leave

(* The stages of the cosine pipeline converge and stay within their words,  *)
(* for every element up to 256 of 14 fractional bits or less.               *)
THEOREM StagesTurnTheAngle == InRange => (CordicSpec => []StagesSound)
<1> SUFFICES ASSUME InRange PROVE CordicSpec => []StagesSound
  OBVIOUS
<1>1. CordicInit => StagesInv
  BY StagesInvInit
<1>2. QED
  BY <1>1, StagesInvNext, StagesInvImplies, PTL DEF CordicSpec
-----------------------------------------------------------------------------
(* The units side by side.                                                 *)

\* A step of one unit leaves the variables of the others alone, so a behaviour
\* of all of them is one of each.
LEMMA UnitsKeepApart ==
    UnitsSpec => /\ HeapSpec /\ MulDiv!Spec /\ Sleep!Spec
                 /\ Cache!Spec /\ Clock!Spec /\ Fixed!Spec
                 /\ Init /\ [][Next]_driverVars
<1>1. UnitsInit => /\ HeapInit /\ MulDiv!Init /\ Sleep!Init
                   /\ Cache!Init /\ Clock!Init /\ Fixed!Init /\ Init
  BY DEF UnitsInit
<1>2. [UnitsNext]_unitsVars => [HeapNext]_heapVars
  BY DEF UnitsNext, Only, unitsVars, heapVars
<1>3. [UnitsNext]_unitsVars => [MulDiv!Next]_MulDiv!vars
  BY DEF UnitsNext, Only, unitsVars, mulDivVars, MulDiv!vars, MulDiv!operands
<1>4. [UnitsNext]_unitsVars => [Sleep!Next]_Sleep!vars
  BY DEF UnitsNext, Only, unitsVars, sleepVars, Sleep!vars
<1>5. [UnitsNext]_unitsVars => [Cache!Next]_Cache!vars
  BY DEF UnitsNext, Only, unitsVars, cacheVars, Cache!vars
<1>6. [UnitsNext]_unitsVars => [Clock!Next]_Clock!vars
  BY DEF UnitsNext, Only, unitsVars, clockVars, Clock!vars
<1>7. [UnitsNext]_unitsVars => [Fixed!Next]_Fixed!fixedVars
  BY DEF UnitsNext, Only, unitsVars, fixedVars, Fixed!fixedVars
<1>8. [UnitsNext]_unitsVars => [Next]_driverVars
  BY DEF UnitsNext, Only, unitsVars, driverVars
<1>9. QED
  BY <1>1, <1>2, <1>3, <1>4, <1>5, <1>6, <1>7, <1>8, PTL
     DEF UnitsSpec, HeapSpec, MulDiv!Spec, Sleep!Spec, Cache!Spec, Clock!Spec, Fixed!Spec

(* What the run checks of the heap, the driver, the emulated instructions, *)
(* the delay, the cache routines, the clock and the fixed-length           *)
(* instructions on its instance holds of its specification for all the     *)
(* constants; the polled driver's delivery is left to TLC.                 *)
THEOREM UnitsDeliver ==
    WordNumbers /\ SleepNumbers /\ CacheNumbers /\ ClockNumbers /\ FixedNumbers
      => (UnitsSpec => /\ []BlocksApart /\ []SumsTheVector /\ []EmulationMatches
                       /\ []SleepsAsAsked /\ []GetIsWall /\ []TakesDueResult
                       /\ RegionFlushed)
<1>1. Init /\ [][Next]_driverVars => []SumsTheVector
  BY SumInvSummed, SumInvHolds, PTL
<1>2. QED
  BY <1>1, UnitsKeepApart, HeapBlocksApart, EmulationExact, DelaySleepsAsAsked,
     RegionsAreFlushed, ClockReadsWall, FixedTakesDue, PTL
=============================================================================
