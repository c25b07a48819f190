--------------------------------- MODULE MulDiv ---------------------------------
(***************************************************************************)
(* The multiplications and divisions the processors of these systems lack  *)
(* and the exception handler does in their place (alt_exception_muldiv.S): *)
(* shift-and-subtract and shift-and-add loops on words of BITS bits.  The  *)
(* registers keep the numbers they have in the source.  The decoding of    *)
(* the instruction is left out, and muli, which becomes mul there.         *)
(***************************************************************************)
EXTENDS Integers

CONSTANT BITS          \* bits of a word (32)

VARIABLES
    pc,
    op, rA, rB,        \* the instruction and its operands
    r3, r6,            \* dividend and divisor, multiplicand and multiplier
    r9, r10,           \* result or mul_product; mulxuu_product
    r12, r13, r14,     \* mulxuu_multiplier; remainder; loop counter
    r17                \* whether the quotient is negative

operands == <<op, rA, rB>>
vars     == <<pc, operands, r3, r6, r9, r10, r12, r13, r14, r17>>

W            == 2 ^ BITS
Word         == 0..(W - 1)
Negative(x)  == x >= W \div 2
Minus(x, y)  == (x - y) % W
Double(x)    == (2 * x) % W
Magnitude(x) == IF Negative(x) THEN Minus(0, x) ELSE x
Divisions       == {"div", "divu"}
Multiplications == {"mul", "mulxuu", "mulxsu", "mulxss"}

Init == /\ pc = "main" /\ op = "none" /\ rA = 0 /\ rB = 0
        /\ r3 = 0 /\ r6 = 0 /\ r9 = 0 /\ r10 = 0 /\ r12 = 0 /\ r13 = 0
        /\ r14 = 0 /\ r17 = FALSE

\* An unimplemented instruction.
Divide(o, a, b) ==
    LET signed == o = "div" IN
    /\ pc = "main" /\ pc' = "divide"
    /\ op' = o /\ rA' = a /\ rB' = b
    /\ r3' = IF signed THEN Magnitude(a) ELSE a
    /\ r6' = IF signed THEN Magnitude(b) ELSE b
    /\ r17' = (signed /\ Negative(a) # Negative(b))
    /\ r13' = 0 /\ r14' = BITS /\ r9' = 0 /\ r10' = 0 /\ r12' = 0

Multiply(o, a, b) ==
    /\ pc = "main" /\ pc' = "multiply"
    /\ op' = o /\ rA' = a /\ rB' = b
    /\ r3' = a /\ r6' = b /\ r12' = b
    /\ r9' = 0 /\ r10' = 0 /\ r14' = BITS /\ r13' = 0 /\ r17' = FALSE

\* The remainder takes the bit that leaves the dividend.
Shifted(r, d) == Double(r) + IF Negative(d) THEN 1 ELSE 0
Subtracts(r)  == r >= r6

DivideLoop ==
    LET r == Shifted(r13, r3) IN
    /\ pc = "divide" /\ r14 > 0
    /\ r3' = Double(r3) + IF Subtracts(r) THEN 1 ELSE 0
    /\ r13' = IF Subtracts(r) THEN r - r6 ELSE r
    /\ r14' = r14 - 1
    /\ UNCHANGED <<pc, operands, r6, r9, r10, r12, r17>>

Quotient == /\ pc = "divide" /\ r14 = 0
            /\ r9' = IF r17 THEN Minus(0, r3) ELSE r3
            /\ pc' = "store"
            /\ UNCHANGED <<operands, r3, r6, r10, r12, r13, r14, r17>>

\* mulxuu_product and the carry of the addition, shifted right together.
CarryLost(p) == IF r12 % 2 = 1 THEN ((p + r3) % W) \div 2 ELSE p \div 2 \* mutant
Upper(p)     == IF r12 % 2 = 1 THEN (p + r3) \div 2 ELSE p \div 2

MultiplyLoop ==
    /\ pc = "multiply" /\ r14 > 0
    /\ r9' = (Double(r9) + IF Negative(r6) THEN r3 ELSE 0) % W
    /\ r10' = Upper(r10)
    /\ r6' = Double(r6)
    /\ r12' = r12 \div 2
    /\ r14' = r14 - 1
    /\ UNCHANGED <<pc, operands, r3, r13, r17>>

\* The signed products are the unsigned one less a partial product for each
\* sign bit.
SignOfA(p)   == IF Negative(r3) THEN Minus(p, rB) ELSE p
SignOfB(p)   == IF Negative(rB) THEN Minus(p, r3) ELSE p

Product == /\ pc = "multiply" /\ r14 = 0
           /\ r9' = CASE op = "mul"    -> r9
                      [] op = "mulxuu" -> r10
                      [] op = "mulxsu" -> SignOfA(r10)
                      [] op = "mulxss" -> SignOfB(SignOfA(r10))
           /\ pc' = "store"
           /\ UNCHANGED <<operands, r3, r6, r10, r12, r13, r14, r17>>

\* The result goes to the destination register, and the registers of the
\* program are restored.
StoreResult ==
    /\ pc = "store" /\ pc' = "main" /\ op' = "none"
    /\ rA' = 0 /\ rB' = 0 /\ r3' = 0 /\ r6' = 0 /\ r9' = 0 /\ r10' = 0
    /\ r12' = 0 /\ r13' = 0 /\ r14' = 0 /\ r17' = FALSE

Next == \/ \E a, b \in Word : \/ \E o \in Divisions : Divide(o, a, b)
                              \/ \E o \in Multiplications : Multiply(o, a, b)
        \/ DivideLoop \/ Quotient \/ MultiplyLoop \/ Product \/ StoreResult

Spec == Init /\ [][Next]_vars

-----------------------------------------------------------------------------

\* The loop that divides has one register for dividend and quotient and a
\* remainder of BITS bits: at every turn the bits above the counter are divided
\* exactly, and the remainder's top bit is free for the next shift, for every
\* divisor but zero.
PartialQuotient ==
    LET done == BITS - r14
        dividend == IF op = "div" THEN Magnitude(rA) ELSE rA
        quotient == r3 % 2 ^ done IN
    pc = "divide" /\ r6 # 0 =>
        /\ r13 < r6 /\ (r14 > 0 => ~Negative(r13))
        /\ dividend \div 2 ^ r14 = quotient * r6 + r13
        /\ r3 \div 2 ^ done = dividend % 2 ^ r14

\* After each turn the lower product is that of the bits taken from the top of
\* the multiplier, and the upper one that of the bits taken from its end.
PartialProduct ==
    LET done == BITS - r14 IN
    pc = "multiply" =>
        /\ r9 = (rA * (rB \div 2 ^ r14)) % W
        /\ r10 = (rA * (rB % 2 ^ done)) \div 2 ^ done

SignedValue(x) == IF Negative(x) THEN x - W ELSE x

\* Division rounds towards zero.
Truncated(a, b) ==
    LET q == Magnitude(a) \div Magnitude(b) IN
    (IF Negative(a) # Negative(b) THEN -q ELSE q) % W

\* What the instruction is defined to return.
Defined(o, a, b) ==
    CASE o = "divu"   -> a \div b
      [] o = "div"    -> Truncated(a, b)
      [] o = "mul"    -> (a * b) % W
      [] o = "mulxuu" -> (a * b) \div W
      [] o = "mulxsu" -> ((SignedValue(a) * b) \div W) % W
      [] o = "mulxss" -> ((SignedValue(a) * SignedValue(b)) \div W) % W

\* "The emulations match the instructions", for all operands; what a division
\* by zero returns is undefined.
EmulationMatches ==
    pc = "store" /\ ~(op \in Divisions /\ rB = 0) => r9 = Defined(op, rA, rB)
=============================================================================
