-------------------------------- MODULE FloatFix --------------------------------
(***************************************************************************)
(* The number conversions of the cosine path (ip/Floating2Fix.v,           *)
(* ip/Inside_COS.v, ip/Fix2Floating.v) and the halving of                  *)
(* ip/DOT_PRODUCT.v, on the bit fields the Verilog works on: a single-     *)
(* precision word is its sign, 8-bit exponent and 23-bit mantissa, a fixed *)
(* point word is an integer with 21 fractional bits.                       *)
(***************************************************************************)
EXTENDS Integers

POINT == 21
One   == 2^POINT            \* 1.0 in fixed point

Word == [s : 0..1, e : 0..255, m : 0..(2^23 - 1)]
FloatZero == [s |-> 0, e |-> 0, m |-> 0]
FloatOne  == [s |-> 0, e |-> 127, m |-> 0]

Bit(v, k) == (v \div 2^k) % 2

-----------------------------------------------------------------------------

\* Values from 2^-21 up to 4 are cut off after 21 fractional bits.  Every
\* other value becomes 0, the ones that do not fit included; so does the sign.
Floating2Fix(f) == IF f.e \in 106..128
                   THEN (2^23 + f.m) \div 2^(129 - f.e)
                   ELSE 0

\* (x - 128) / 128 without its sign: 7 off the exponent divides by 128, in 8
\* bits; then 1 is subtracted from the fixed point value, or it from 1.
ScaledDown(f) == [f EXCEPT !.e = (f.e - 7) % 256]

FromOneSwapped(v) == (v - One) % 2^22                               \* mutant
FromOne(v) == (One - v) % 2^22

InsideCos(f) ==
    LET v == Floating2Fix(ScaledDown(f))
    IN  IF Bit(v, 21) = 1 THEN v - 2^21
        ELSE IF Bit(v, 22) = 1 THEN v - 2^22 + 2^21
        ELSE FromOne(v)

\* The leading one among bits 20 to 1 sets the exponent; 1 and more become
\* 1.0; what has none of these bits becomes 2^-21, zero included.
LeadingOne(v) == CHOOSE k \in 1..20 : /\ Bit(v, k) = 1
                                      /\ \A i \in (k + 1)..20 : Bit(v, i) = 0

Fix2Floating(v) ==
    IF Bit(v, 22) = 0 /\ Bit(v, 21) = 1 THEN FloatOne
    ELSE IF \E k \in 1..20 : Bit(v, k) = 1
         THEN LET k == LeadingOne(v)
              IN  [s |-> 0, e |-> 106 + k, m |-> (v % 2^k) * 2^(23 - k)]
         ELSE [s |-> 0, e |-> 106, m |-> 0]

\* 0.5 x: one off the exponent, in 8 bits, unless the word is zero.
HalfOf(f) == IF f = FloatZero THEN f ELSE [f EXCEPT !.e = (f.e - 1) % 256]
=============================================================================
