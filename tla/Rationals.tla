------------------------------ MODULE Rationals ------------------------------
(***************************************************************************)
(* Exact fractions for share counts and money.  The code computes in       *)
(* float64; the models use the exact value instead, so that equality of    *)
(* two positions means equality of what the formulas denote (rounding of   *)
(* the last bit is not modelled).  A fraction is kept in lowest terms with *)
(* a positive denominator, so equal values are equal tuples.               *)
(***************************************************************************)
EXTENDS Integers

Rational == Int \X (Nat \ {0})

\* The denominator of n / d in lowest terms: the least that leaves it whole.
Denominator(n, d) ==
    CHOOSE q \in 1..d : (n * q) % d = 0 /\ \A k \in 1..(q - 1) : (n * k) % d # 0

Fraction(n, d) == <<(n * Denominator(n, d)) \div d, Denominator(n, d)>>

Whole(n) == <<n, 1>>
Zero == Whole(0)

Plus(x, y)  == Fraction(x[1] * y[2] + y[1] * x[2], x[2] * y[2])
Minus(x, y) == Fraction(x[1] * y[2] - y[1] * x[2], x[2] * y[2])
Times(x, y) == Fraction(x[1] * y[1], x[2] * y[2])

\* Division by a positive fraction, the only one the ledger performs.
Over(x, y)  == Fraction(x[1] * y[2], x[2] * y[1])

Below(x, y) == x[1] * y[2] < y[1] * x[2]
Positive(x) == x[1] > 0
Smaller(x, y) == IF Below(y, x) THEN y ELSE x
==============================================================================
