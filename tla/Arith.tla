--------------------------------- MODULE Arith ---------------------------------
(* Integer arithmetic shared by the models: fabsf, limits, and C's casts. *)
EXTENDS Integers

Abs(x) == IF x < 0 THEN -x ELSE x
Sgn(x) == IF x > 0 THEN 1 ELSE IF x < 0 THEN -1 ELSE 0
Smaller(x, y) == IF x < y THEN x ELSE y
Larger(x, y) == IF x < y THEN y ELSE x

\* x limited to [-b, b]; and x / y rounded towards 0, as a cast does.
Bound(x, b) == IF x > b THEN b ELSE IF x < -b THEN -b ELSE x
Quotient(x, y) == IF x < 0 THEN -((-x) \div y) ELSE x \div y
================================================================================
