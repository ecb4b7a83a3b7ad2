---------------------------- MODULE MC_FixedPoint ----------------------------
(***************************************************************************)
(* Inputs for FixedPoint at the width the configuration gives: the edges  *)
(* of the int range, the edges of what converts to fixed point (an int n  *)
(* converts exactly while |n| < 2^p), values just around the halves that  *)
(* decide rounding, and a few ordinary values.                            *)
(***************************************************************************)
EXTENDS FixedPoint

Half == F \div 2

\* A magnitude whose product with 1.5 wraps a narrow multiply although
\* the exact x * 1.5 fits.
Big == 2^(IntBits - 8)

\* fixed_point_t arguments: INT_MIN and INT_MAX, +-Big, -1.5, -1, the
\* halves around zero, the smallest units, 1, 2.75 and 100.25.
EdgeFPs == {IntMin, IntMin + 1, -Big, -(3 * Half), -F, -Half - 1, -Half,
            -1, 0, 1, Half, Half + 1, F, 2 * F + 3 * (F \div 4), 100 * F + F \div 4,
            Big, IntMax}

\* int arguments: zero, +-1, the signs, 3, and the edges of what converts
\* to fixed point, 2^p - 1 and -2^p.
EdgeInts == {-(2^(IntBits - 1 - Q)), -3, -1, 0, 1, 3, 2^(IntBits - 1 - Q) - 1}

=============================================================================
