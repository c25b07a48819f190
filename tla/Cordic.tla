--------------------------------- MODULE Cordic ---------------------------------
(***************************************************************************)
(* The cosine of one vector element on its way through ip/CORDIC_Top.v:    *)
(* the conversion in front, the 21 CORDIC_BASIC stages, one per clock      *)
(* edge, and the conversion behind.  Elements do not touch each other in   *)
(* the pipeline, so a behaviour follows one.  The element is num / 2^frac. *)
(***************************************************************************)
EXTENDS FloatFix, Sequences

CONSTANTS
    Elements,      \* pairs <<num, frac>>: the elements of the vector
    Tolerance      \* allowed error of the cosine, in units of 2^-21

ASSUME ElementsAssumption ==
    /\ Tolerance \in Nat
    /\ \A p \in Elements : p[1] \in 0..(2^24 - 1) /\ p[2] \in 0..14

STAGES == 21

LUT == <<1647099, 972339, 513757, 260791, 130901, 65514, 32765, 16383, 8191,
         4095, 2047, 1023, 511, 255, 127, 63, 31, 15, 7, 3, 1>>

X_INITIAL == 1273501

\* The single-precision word of num / 2^frac, for num below 2^24.
Log2(n) == CHOOSE k \in 0..23 : 2^k <= n /\ n < 2^(k + 1)

FloatOf(num, frac) ==
    IF num = 0 THEN FloatZero
    ELSE [s |-> 0, e |-> 127 + Log2(num) - frac,
          m |-> (num - 2^Log2(num)) * 2^(23 - Log2(num))]

VARIABLES element, stage, x_out, y_out, z_out

cordicVars == <<element, stage, x_out, y_out, z_out>>

z_in == InsideCos(FloatOf(element[1], element[2]))

CordicInit == /\ element \in Elements
              /\ stage = 0
              /\ x_out = X_INITIAL
              /\ y_out = 0
              /\ z_out = z_in

\* >>> is an arithmetic shift: it rounds down, as \div does.
ShiftRightLogical(v, k) == (v % 2^24) \div 2^k                      \* mutant
ShiftRight(v, k) == v \div 2^k

NegativeSwapped(v) == v >= 0                                        \* mutant
Negative(v) == v < 0

Rotate == /\ stage < STAGES
          /\ stage' = stage + 1
          /\ x_out' = IF Negative(z_out) THEN x_out + ShiftRight(y_out, stage)
                                     ELSE x_out - ShiftRight(y_out, stage)
          /\ y_out' = IF Negative(z_out) THEN y_out - ShiftRight(x_out, stage)
                                     ELSE y_out + ShiftRight(x_out, stage)
          /\ z_out' = IF Negative(z_out) THEN z_out + LUT[stage + 1]
                                     ELSE z_out - LUT[stage + 1]
          /\ UNCHANGED element

\* The cosine leaves the last stage.
Leave == stage = STAGES /\ UNCHANGED cordicVars

CordicNext == Rotate \/ Leave

CordicSpec == CordicInit /\ [][CordicNext]_cordicVars

cos_out_float == Fix2Floating(x_out)

-----------------------------------------------------------------------------
(* The reference: the cosine of (element - 128) / 128 by its series.        *)

\* The product of two fixed point numbers in halves of 11 bits, for products
\* below 2^10.
Times(a, b) ==
    LET a1 == a \div 2^11
        a0 == a % 2^11
        b1 == b \div 2^11
        b0 == b % 2^11
    IN  2 * a1 * b1 + (a1 * b0 + a0 * b1 + (a0 * b0) \div 2^11) \div 2^10

Cosine(t) ==
    LET t2 == Times(t, t)
        t4 == Times(t2, t2)
    IN  One - t2 \div 2 + t4 \div 24 - Times(t4, t2) \div 720
            + Times(t4, t4) \div 40320 - Times(Times(t4, t4), t2) \div 3628800

Abs(v) == IF v < 0 THEN -v ELSE v

\* |element - 128| / 128 in fixed point; exact for 14 fractional bits or less.
Angle == Abs(element[1] - 128 * 2^element[2]) * 2^(14 - element[2])

\* The value of a word between 2^-21 and 2, in fixed point.
FixOf(f) == (2^23 + f.m) \div 2^(129 - f.e)

Sum(i) == LET rest[k \in 1..(STAGES + 1)] ==
                  IF k > STAGES THEN 0 ELSE LUT[k] + rest[k + 1]
          IN  rest[i]

-----------------------------------------------------------------------------
(* Properties.                                                             *)

\* No sum of a CORDIC_BASIC stage needs more than the 24 bits of its register
\* (ip/CORDIC_BASIC.v:45-47): the modelled sums, which do not wrap, are those of
\* the hardware.
FitsWord == \A v \in {x_out, y_out, z_out} : v \in -(2^23)..(2^23 - 1)

\* The conversion in front of the pipeline (ip/Inside_COS.v with
\* ip/Floating2Fix.v) hands it |element - 128| / 128 to the last bit, over the
\* branches that subtract 1 and the one that subtracts from 1.
AngleExact == z_in = Angle

\* At every stage (ip/CORDIC_Top.v:149-462) what is left of the angle is within
\* what the stages behind it can still turn; each table entry is cut off by less
\* than a unit, which leaves STAGES units at the end.  A stage that turns the
\* wrong way is never made up for.
Converges == Abs(z_out) <= Sum(stage + 1) + STAGES

\* The word that leaves the cosine path (ip/CORDIC_Top.v:464-468) is the cosine
\* of (element - 128) / 128 up to Tolerance units of 2^-21: the gain folded into
\* X_INITIAL, the rounding of 21 shifts and the cut-off of both conversions
\* together.
CosineAccurate ==
    stage = STAGES => Abs(FixOf(cos_out_float) - Cosine(Angle)) <= Tolerance

\* The 0.5 x that the dot product adds (ip/DOT_PRODUCT.v:80), one off the
\* exponent in 8 bits, is exactly half the element; 0, whose exponent would
\* wrap to infinity's, included.
HalfExact == LET f == FloatOf(element[1], element[2])
             IN  HalfOf(f) = IF element[1] = 0 THEN FloatZero
                             ELSE FloatOf(element[1], element[2] + 1)

\* Every stage of the pipeline fits its registers and leaves what the rest of
\* the stages can turn.
StagesSound == FitsWord /\ Converges

\* Both conversions that count in the 8 bits of an exponent are exact, at the
\* elements where that wraps or changes its branch too.
ConversionsExact == AngleExact /\ HalfExact
=============================================================================
