----------------------------- MODULE FixedPoint -----------------------------
(***************************************************************************)
(* The 17.14 fixed-point macros of src/p2/threads/fixed-point.h, as        *)
(* operators over the integers the i386 build computes with: int is       *)
(* IntBits bits (32) and wraps (gcc emits plain add, sub and imul);       *)
(* FP_MULT and FP_DIV compute and yield an int64_t, which no product of   *)
(* an int by an int or by f overflows, so their value is exact (what a    *)
(* caller stores it into is the caller's conversion, and no file of the   *)
(* tree calls them); C division truncates toward zero; an idiv by zero,   *)
(* or of INT_MIN by -1, raises a divide error.  TLC's own integers are 32 bits, so the   *)
(* configurations scale the word down (IntBits and Q are constants); the   *)
(* operators are the same for every width.                                 *)
(*                                                                         *)
(* Each action evaluates one macro on inputs drawn from small sets that    *)
(* include the edges of the range, and the invariants compare the result  *)
(* with the exact rational value the macro's comment promises.            *)
(***************************************************************************)
EXTENDS Integers

CONSTANTS
    IntBits,      \* bits of an int (32 in the build)
    Q,            \* "q": bits after the point (14 in the build)
    FPVals,       \* fixed_point_t arguments
    IntVals,      \* int arguments
    NearestVals   \* arguments of FP_CONVERT_TO_INT_NEAREST

IntMin == -(2^(IntBits - 1))
IntMax == 2^(IntBits - 1) - 1
IntRange == IntMin..IntMax

ASSUME /\ IntBits \in Nat /\ Q \in 1..(IntBits - 2)
       /\ FPVals \cup IntVals \cup NearestVals \subseteq IntRange

\* "f" = 1 << q; "p" = IntBits - 1 - q bits before the point.
F == 2^Q

\* What is left of an integer in an int register.
WrapInt(v) == ((v - IntMin) % 2^IntBits) + IntMin

Abs(v) == IF v < 0 THEN -v ELSE v

\* C's / on integers: the quotient truncated toward zero.
CDiv(a, b) == IF (a < 0) = (b < 0) THEN Abs(a) \div Abs(b) ELSE -(Abs(a) \div Abs(b))


-----------------------------------------------------------------------------
(* The macros.                                                              *)

FP_CONVERT_TO_FP(N) == WrapInt(N * F)

FP_CONVERT_TO_INT_ZERO(X) == CDiv(X, F)

FP_CONVERT_TO_INT_NEAREST(X) ==
    IF X >= 0 THEN CDiv(WrapInt(X + F \div 2), F) ELSE CDiv(WrapInt(X - F \div 2), F)

FP_ADD(X, Y) == WrapInt(X + Y)
FP_SUB(X, Y) == WrapInt(X - Y)

FP_FP_ADD_INT(X, N) == WrapInt(X + WrapInt(N * F))
FP_FP_SUB_INT(X, N) == WrapInt(X - WrapInt(N * F))

FP_MULT(X, Y) == CDiv(X * Y, F)

FP_FP_MULT_INT(X, N) == WrapInt(X * N)

\* ((int64_t) X) * f / Y, an int64_t; the 64-bit division (__divdi3)
\* divides by zero when Y is 0.
FP_DIV(X, Y) == CDiv(X * F, Y)
DivTraps(X, Y) == Y = 0

\* An int idiv, with a divide error for 0 and for INT_MIN / -1.
FP_FP_DIV_INT(X, N) == CDiv(X, N)
DivIntTraps(X, N) == N = 0 \/ (X = IntMin /\ N = -1)

-----------------------------------------------------------------------------
(* One macro evaluated per step; out records the macro, its arguments and *)
(* its result, or that it raised a divide error.                           *)

VARIABLE out

Eval(op, args, val) == out' = [op |-> op, args |-> args, trap |-> FALSE, val |-> val]
Raise(op, args) == out' = [op |-> op, args |-> args, trap |-> TRUE, val |-> 0]

ConvertToFp == \E n \in IntVals : Eval("to_fp", <<n>>, FP_CONVERT_TO_FP(n))
ConvertToIntZero == \E x \in FPVals : Eval("to_int_zero", <<x>>, FP_CONVERT_TO_INT_ZERO(x))
ConvertToIntNearest ==
    \E x \in NearestVals : Eval("to_int_nearest", <<x>>, FP_CONVERT_TO_INT_NEAREST(x))
Add == \E x, y \in FPVals : Eval("add", <<x, y>>, FP_ADD(x, y))
Sub == \E x, y \in FPVals : Eval("sub", <<x, y>>, FP_SUB(x, y))
AddInt == \E x \in FPVals, n \in IntVals : Eval("add_int", <<x, n>>, FP_FP_ADD_INT(x, n))
SubInt == \E x \in FPVals, n \in IntVals : Eval("sub_int", <<x, n>>, FP_FP_SUB_INT(x, n))
Mult == \E x, y \in FPVals : Eval("mult", <<x, y>>, FP_MULT(x, y))
MultInt == \E x \in FPVals, n \in IntVals : Eval("mult_int", <<x, n>>, FP_FP_MULT_INT(x, n))
Div == \E x, y \in FPVals :
    IF DivTraps(x, y) THEN Raise("div", <<x, y>>) ELSE Eval("div", <<x, y>>, FP_DIV(x, y))
DivInt == \E x \in FPVals, n \in IntVals :
    IF DivIntTraps(x, n) THEN Raise("div_int", <<x, n>>)
    ELSE Eval("div_int", <<x, n>>, FP_FP_DIV_INT(x, n))

Init == out = [op |-> "none", args |-> <<>>, trap |-> FALSE, val |-> 0]

Next == \/ ConvertToFp \/ ConvertToIntZero \/ ConvertToIntNearest
        \/ Add \/ Sub \/ AddInt \/ SubInt
        \/ Mult \/ MultInt \/ Div \/ DivInt

Spec == Init /\ [][Next]_out

-----------------------------------------------------------------------------
(* The exact values the comments promise.                                  *)

\* q is a / b truncated toward zero: |q b| <= |a| < (|q| + 1) |b|, and q
\* has the sign of a / b.
IsTruncQuotient(a, b, q) ==
    /\ Abs(q) * Abs(b) <= Abs(a) /\ Abs(a) < (Abs(q) + 1) * Abs(b)
    /\ q = 0 \/ (q < 0) = ((a < 0) # (b < 0))

\* r is x / f rounded to the nearest integer, halves away from zero.
IsNearest(x, r) ==
    LET d == Abs(x - r * F)
    IN 2 * d <= F /\ (2 * d = F => Abs(r * F) > Abs(x))

\* FP_CONVERT_TO_INT_ZERO rounds toward zero and FP_CONVERT_TO_INT_NEAREST
\* to the nearest integer, as their comments in fixed-point.h say.
RoundingAsDocumented ==
    /\ out.op = "to_int_zero" => IsTruncQuotient(out.args[1], F, out.val)
    /\ out.op = "to_int_nearest" => IsNearest(out.args[1], out.val)

=============================================================================
