------------------------------ MODULE Sums_proofs ------------------------------
(***************************************************************************)
(* Induction over the naturals, and what it gives of the sums of Sums, of  *)
(* register chains that shift and of the bags they hold.  The induction    *)
(* rule is stated for a set and proved from the well-foundedness of <: a   *)
(* rule over a predicate would need an operator as a parameter.            *)
(***************************************************************************)
EXTENDS Sums, SequencesExt, FiniteSetTheorems, WellFoundedInduction, TLAPS

(* A set of numbers with 0 and every successor holds all numbers.          *)
LEMMA Induction ==
    ASSUME NEW S, 0 \in S, \A n \in Nat : n \in S => n + 1 \in S
    PROVE  Nat \subseteq S
<1> DEFINE R == {ss \in Nat \X Nat : ss[1] < ss[2]}
           T == Nat \ S
<1>1. IsWellFoundedOn(R, Nat)
  BY NatLessThanWellFounded DEF OpToRel
<1> HIDE DEF R
<1>2. SUFFICES ASSUME T # {} PROVE FALSE
  OBVIOUS
<1>3. \E x \in T : \A y \in T : ~(<<y, x>> \in R)
  BY <1>1, <1>2, WFMin
<1>4. PICK x \in T : \A y \in T : ~(y < x)
  BY <1>3 DEF R
<1>5. x # 0 /\ x - 1 \in Nat /\ x - 1 < x
  BY <1>4
<1>6. QED
  BY <1>4, <1>5

\* A table of the first n sums.
Table(g, n, f) == f = [i \in 0..n |-> IF i = 0 THEN 0 ELSE f[i - 1] + g[i]]

(* There is a table of any length.                                         *)
LEMMA TableExists == ASSUME NEW g, NEW n \in Nat PROVE \E f : Table(g, n, f)
<1> DEFINE S == {k \in Nat : \E f : Table(g, k, f)}
<1>1. 0 \in S
  <2>1. Table(g, 0, [i \in 0..0 |-> 0])
    BY DEF Table
  <2>2. QED
    BY <2>1
<1>2. ASSUME NEW k \in Nat, k \in S PROVE k + 1 \in S
  <2>1. PICK f : Table(g, k, f)
    BY <1>2
  <2> DEFINE h == [i \in 0 .. k + 1 |-> IF i <= k THEN f[i] ELSE f[k] + g[k + 1]]
  <2>2. \A i \in 0..k : f[i] = IF i = 0 THEN 0 ELSE f[i - 1] + g[i]
    BY <2>1 DEF Table
  <2>3. \A i \in 0 .. k + 1 : h[i] = IF i = 0 THEN 0 ELSE h[i - 1] + g[i]
    BY <2>2
  <2>4. Table(g, k + 1, h)
    BY <2>3 DEF Table
  <2>5. QED
    BY <2>4
<1>3. Nat \subseteq S
  <2> HIDE DEF S
  <2>1. QED
    BY <1>1, <1>2, Induction
<1>4. QED
  BY <1>3

(* Two tables agree as far as both go.                                     *)
LEMMA TablesAgree ==
    ASSUME NEW g, NEW n \in Nat, NEW m \in Nat, NEW f, NEW h,
           Table(g, n, f), Table(g, m, h), NEW i \in Nat, i <= n, i <= m
    PROVE  f[i] = h[i]
<1> DEFINE S == {k \in Nat : k <= n /\ k <= m => f[k] = h[k]}
<1>1. 0 \in S
  BY DEF Table
<1>2. ASSUME NEW k \in Nat, k \in S PROVE k + 1 \in S
  BY <1>2 DEF Table
<1>3. Nat \subseteq S
  <2> HIDE DEF S
  <2>1. QED
    BY <1>1, <1>2, Induction
<1>4. QED
  BY <1>3

\* The recursion of SumTo().
Recurrence(g, s) == s = [i \in Nat |-> IF i = 0 THEN 0 ELSE s[i - 1] + g[i]]

(* The recursion of SumTo() has a solution.                                *)
LEMMA RecurrenceHolds == ASSUME NEW g PROVE \E s : Recurrence(g, s)
<1> DEFINE T(n) == CHOOSE f : Table(g, n, f)
           s == [n \in Nat |-> T(n)[n]]
<1>1. \A n \in Nat : Table(g, n, T(n))
  BY TableExists, Zenon
<1>2. ASSUME NEW n \in Nat PROVE s[n] = IF n = 0 THEN 0 ELSE s[n - 1] + g[n]
  <2>1. T(n)[n] = IF n = 0 THEN 0 ELSE T(n)[n - 1] + g[n]
    <3>1. Table(g, n, T(n))
      BY <1>1
    <3> HIDE DEF T
    <3>2. QED
      BY <3>1 DEF Table
  <2>2. CASE n = 0
    BY <2>1, <2>2
  <2>3. CASE n # 0
    <3>1. n - 1 \in Nat /\ n - 1 <= n
      BY <2>3
    <3>2. Table(g, n - 1, T(n - 1)) /\ Table(g, n, T(n))
      BY <1>1, <3>1
    <3>3. T(n)[n - 1] = T(n - 1)[n - 1]
      <4> HIDE DEF T
      <4>1. QED
        BY <3>1, <3>2, TablesAgree
    <3>4. s[n] = T(n)[n] /\ s[n - 1] = T(n - 1)[n - 1]
      BY <3>1
    <3>5. QED
      BY <2>1, <2>3, <3>3, <3>4
  <2>4. QED
    BY <2>2, <2>3
<1> HIDE DEF T
<1>3. s = [n \in Nat |-> s[n]]
  OBVIOUS
<1> HIDE DEF s
<1>4. QED
  BY <1>2, <1>3 DEF Recurrence

(* SumTo() is what its recursion says.                                     *)
LEMMA SumToDef ==
    ASSUME NEW g
    PROVE  /\ SumTo(g, 0) = 0
           /\ \A n \in Nat : SumTo(g, n + 1) = SumTo(g, n) + g[n + 1]
<1> DEFINE s == CHOOSE f : Recurrence(g, f)
<1>1. Recurrence(g, s)
  BY RecurrenceHolds, Zenon
<1>2. \A n : SumTo(g, n) = s[n]
  BY Zenon DEF SumTo, Recurrence
<1> HIDE DEF s
<1>3. /\ s[0] = 0
      /\ \A n \in Nat : s[n + 1] = s[n] + g[n + 1]
  BY <1>1 DEF Recurrence
<1>4. QED
  BY <1>2, <1>3

-----------------------------------------------------------------------------

(* A sum of naturals is a natural.                                         *)
LEMMA SumType ==
    ASSUME NEW g, NEW n \in Nat, \A i \in 1..n : g[i] \in Nat
    PROVE  SumTo(g, n) \in Nat
<1> DEFINE S == {k \in Nat : k <= n => SumTo(g, k) \in Nat}
<1>1. 0 \in S
  BY SumToDef
<1>2. ASSUME NEW k \in Nat, k \in S PROVE k + 1 \in S
  <2>1. SumTo(g, k + 1) = SumTo(g, k) + g[k + 1]
    BY SumToDef
  <2>2. QED
    BY <1>2, <2>1
<1>3. Nat \subseteq S
  <2> HIDE DEF S
  <2>1. QED
    BY <1>1, <1>2, Induction
<1>4. QED
  BY <1>3

(* A sum depends only on the values it adds.                               *)
LEMMA SumEqual ==
    ASSUME NEW g, NEW h, NEW n \in Nat, \A i \in 1..n : g[i] = h[i]
    PROVE  SumTo(g, n) = SumTo(h, n)
<1> DEFINE S == {k \in Nat : k <= n => SumTo(g, k) = SumTo(h, k)}
<1>1. 0 \in S
  BY SumToDef
<1>2. ASSUME NEW k \in Nat, k \in S PROVE k + 1 \in S
  <2>1. /\ SumTo(g, k + 1) = SumTo(g, k) + g[k + 1]
        /\ SumTo(h, k + 1) = SumTo(h, k) + h[k + 1]
    BY SumToDef
  <2>2. QED
    BY <1>2, <2>1
<1>3. Nat \subseteq S
  <2> HIDE DEF S
  <2>1. QED
    BY <1>1, <1>2, Induction
<1>4. QED
  BY <1>3

(* A sum of zeros is zero.                                                 *)
LEMMA SumZero ==
    ASSUME NEW g, NEW n \in Nat, \A i \in 1..n : g[i] = 0
    PROVE  SumTo(g, n) = 0
<1> DEFINE S == {k \in Nat : k <= n => SumTo(g, k) = 0}
<1>1. 0 \in S
  BY SumToDef
<1>2. ASSUME NEW k \in Nat, k \in S PROVE k + 1 \in S
  <2>1. SumTo(g, k + 1) = SumTo(g, k) + g[k + 1]
    BY SumToDef
  <2>2. QED
    BY <1>2, <2>1
<1>3. Nat \subseteq S
  <2> HIDE DEF S
  <2>1. QED
    BY <1>1, <1>2, Induction
<1>4. QED
  BY <1>3

(* A sum of naturals is at least each of them.                             *)
LEMMA SumAtLeast ==
    ASSUME NEW g, NEW n \in Nat, \A i \in 1..n : g[i] \in Nat,
           NEW j \in 1..n
    PROVE  g[j] <= SumTo(g, n)
<1> DEFINE S == {k \in Nat : k <= n =>
                   SumTo(g, k) \in Nat /\ (j <= k => g[j] <= SumTo(g, k))}
<1>1. 0 \in S
  BY SumToDef
<1>2. ASSUME NEW k \in Nat, k \in S PROVE k + 1 \in S
  <2>1. SumTo(g, k + 1) = SumTo(g, k) + g[k + 1]
    BY SumToDef
  <2>2. QED
    BY <1>2, <2>1
<1>3. Nat \subseteq S
  <2> HIDE DEF S
  <2>1. QED
    BY <1>1, <1>2, Induction
<1>4. QED
  BY <1>3

(* A sum that is not zero has a value that is not zero.                    *)
LEMMA SumPositive ==
    ASSUME NEW g, NEW n \in Nat, SumTo(g, n) # 0
    PROVE  \E i \in 1..n : g[i] # 0
BY SumZero

(* Moving every value one place on and the last one out changes the sum by *)
(* what enters less what leaves.                                           *)
LEMMA SumShift ==
    ASSUME NEW g, NEW h, NEW n \in Nat \ {0}, NEW v \in Nat,
           \A i \in 1..n : g[i] \in Nat,
           \A i \in 1..n : h[i] = IF i = 1 THEN v ELSE g[i - 1]
    PROVE  SumTo(h, n) + g[n] = v + SumTo(g, n)
<1> DEFINE S == {k \in Nat : k + 1 <= n =>
                   SumTo(h, k + 1) + g[k + 1] = v + SumTo(g, k + 1)}
<1>0. \A k \in Nat : /\ k + 1 <= n => SumTo(g, k) \in Nat
                     /\ SumTo(g, k + 1) = SumTo(g, k) + g[k + 1]
                     /\ SumTo(h, k + 1) = SumTo(h, k) + h[k + 1]
  <2>1. ASSUME NEW k \in Nat, k + 1 <= n PROVE SumTo(g, k) \in Nat
    BY <2>1, SumType
  <2>2. QED
    BY <2>1, SumToDef
<1>1. 0 \in S
  <2>1. SumTo(h, 0) = 0 /\ SumTo(g, 0) = 0 /\ h[1] = v
    BY SumToDef
  <2>2. SumTo(g, 0 + 1) = 0 + g[0 + 1] /\ SumTo(h, 0 + 1) = 0 + h[0 + 1]
    BY <1>0, <2>1
  <2>3. QED
    BY <2>1, <2>2
<1>2. ASSUME NEW k \in Nat, k \in S PROVE k + 1 \in S
  <2> SUFFICES ASSUME k + 1 + 1 <= n
               PROVE  SumTo(h, k + 1 + 1) + g[k + 1 + 1]
                        = v + SumTo(g, k + 1 + 1)
    OBVIOUS
  <2>1. /\ SumTo(h, k + 1 + 1) = SumTo(h, k + 1) + h[k + 1 + 1]
        /\ SumTo(g, k + 1 + 1) = SumTo(g, k + 1) + g[k + 1 + 1]
        /\ SumTo(g, k + 1) \in Nat
    BY <1>0
  <2>2. SumTo(h, k + 1) + g[k + 1] = v + SumTo(g, k + 1)
    BY <1>2
  <2>3. h[k + 1 + 1] = g[k + 1] /\ g[k + 1] \in Nat /\ g[k + 1 + 1] \in Nat
    OBVIOUS
  <2>4. SumTo(h, k + 1) \in Nat
    <3>1. \A i \in 1 .. k + 1 : h[i] \in Nat
      OBVIOUS
    <3>2. QED
      BY <3>1, SumType
  <2>5. QED
    BY <2>1, <2>2, <2>3, <2>4
<1>3. Nat \subseteq S
  <2> HIDE DEF S
  <2>1. QED
    BY <1>1, <1>2, Induction
<1>4. n - 1 \in Nat
  OBVIOUS
<1>5. QED
  BY <1>3, <1>4

-----------------------------------------------------------------------------

\* A chain of n registers.
IsChain(c, n) == c = [i \in 1..n |-> c[i]]

(* The length and the last register of a chain.                            *)
LEMMA ChainEnd ==
    ASSUME NEW n \in Nat \ {0}, NEW c, IsChain(c, n)
    PROVE  DOMAIN c = 1..n /\ Len(c) = n /\ Last(c) = c[n]
<1>1. DOMAIN c = 1..n
  BY DEF IsChain
<1>2. Len(c) = n
  BY <1>1
<1>3. QED
  BY <1>1, <1>2 DEF Last

\* The places of a value among the first n of a chain, one for each of them.
Places(c, a, n) == {i \in 1..n : c[i] = a}
Marks(c, a, n)  == [i \in 1..n |-> IF c[i] = a THEN 1 ELSE 0]

(* How often a value occurs in a chain is the sum of ones and zeros.       *)
LEMMA OccurrencesSum ==
    ASSUME NEW c, NEW a, NEW n \in Nat
    PROVE  Cardinality(Places(c, a, n)) = SumTo(Marks(c, a, n), n)
<1> DEFINE g == Marks(c, a, n)
           At(k) == {i \in 1..k : c[i] = a}
           S == {k \in Nat : k <= n =>
                   IsFiniteSet(At(k)) /\ Cardinality(At(k)) = SumTo(g, k)}
<1>0. \A i \in 1..n : g[i] = IF c[i] = a THEN 1 ELSE 0
  BY DEF Marks
<1> HIDE DEF g
<1>1. 0 \in S
  <2>1. At(0) = {}
    OBVIOUS
  <2>2. QED
    BY <2>1, SumToDef, FS_EmptySet
<1>2. ASSUME NEW k \in Nat, k \in S PROVE k + 1 \in S
  <2> SUFFICES ASSUME k + 1 <= n
               PROVE  /\ IsFiniteSet(At(k + 1))
                      /\ Cardinality(At(k + 1)) = SumTo(g, k + 1)
    OBVIOUS
  <2>1. IsFiniteSet(At(k)) /\ Cardinality(At(k)) = SumTo(g, k)
    BY <1>2
  <2>2. SumTo(g, k + 1) = SumTo(g, k) + g[k + 1]
    BY SumToDef
  <2>3. Cardinality(At(k)) \in Nat
    BY <2>1, FS_CardinalityType
  <2>4. CASE c[k + 1] = a
    <3>1. At(k + 1) = At(k) \cup {k + 1} /\ k + 1 \notin At(k)
      BY <2>4
    <3>2. /\ IsFiniteSet(At(k) \cup {k + 1})
          /\ Cardinality(At(k) \cup {k + 1}) = Cardinality(At(k)) + 1
      <4> HIDE DEF At
      <4>1. QED
        BY <2>1, <3>1, FS_AddElement
    <3>3. g[k + 1] = 1
      BY <1>0, <2>4
    <3>4. SumTo(g, k + 1) = Cardinality(At(k + 1))
      BY <2>1, <2>2, <3>1, <3>2, <3>3
    <3>5. QED
      BY <3>1, <3>2, <3>4
  <2>5. CASE c[k + 1] # a
    <3>1. At(k + 1) = At(k)
      BY <2>5
    <3>2. g[k + 1] = 0
      BY <1>0, <2>5
    <3>3. SumTo(g, k + 1) = SumTo(g, k)
      BY <2>1, <2>2, <2>3, <3>2
    <3>4. QED
      BY <2>1, <3>1, <3>3
  <2>6. QED
    BY <2>4, <2>5
<1>3. Nat \subseteq S
  <2> HIDE DEF S
  <2>1. QED
    BY <1>1, <1>2, Induction
<1>4. Places(c, a, n) = At(n)
  BY DEF Places
<1>5. QED
  BY <1>3, <1>4 DEF g

-----------------------------------------------------------------------------

(* Counting in bags: naturals, none in the empty bag, one in the bag of an *)
(* element, and the count of a sum is the sum of the counts.               *)
LEMMA CountType ==
    ASSUME NEW b, IsABag(b), NEW t
    PROVE  CopiesOf(t, b) \in Nat /\ (t \in DOMAIN b <=> CopiesOf(t, b) # 0)
BY DEF IsABag, CopiesOf

LEMMA CountEmpty == IsABag(EmptyBag) /\ \A t : CopiesOf(t, EmptyBag) = 0
BY DEF IsABag, EmptyBag, SetToBag, CopiesOf

LEMMA CountSingle ==
    ASSUME NEW e
    PROVE  /\ IsABag(SetToBag({e}))
           /\ \A t : CopiesOf(t, SetToBag({e})) = IF t = e THEN 1 ELSE 0
BY DEF IsABag, SetToBag, CopiesOf

LEMMA CountSum ==
    ASSUME NEW a, NEW b, IsABag(a), IsABag(b)
    PROVE  /\ IsABag(a (+) b)
           /\ \A t : CopiesOf(t, a (+) b) = CopiesOf(t, a) + CopiesOf(t, b)
BY DEF IsABag, CopiesOf, (+)

LEMMA EmptyAdds ==
    ASSUME NEW a, IsABag(a)
    PROVE  a (+) EmptyBag = a
BY DEF IsABag, EmptyBag, SetToBag, (+)

(* Bags with the same counts are equal.                                    *)
LEMMA SameCounts ==
    ASSUME NEW a, NEW b, IsABag(a), IsABag(b),
           \A t : CopiesOf(t, a) = CopiesOf(t, b)
    PROVE  a = b
<1>1. DOMAIN a = DOMAIN b
  BY CountType
<1>2. \A t \in DOMAIN a : a[t] = b[t]
  BY <1>1 DEF CopiesOf
<1>3. QED
  BY <1>1, <1>2 DEF IsABag

=============================================================================
