----------------------------- MODULE Rationals ------------------------------
(***************************************************************************)
(* Exact fractions << numerator, denominator >> in lowest terms, for the   *)
(* amounts, prices and rates the warehouse keeps as DOUBLE columns.  The   *)
(* order of a sum is immaterial here, where a float's is not.              *)
(***************************************************************************)
EXTENDS Integers, Functions

\* Euclid's algorithm, as a recursive function.
Gcd[n \in Nat] == [m \in Nat |-> IF n = 0 THEN m ELSE Gcd[m % n][n]]

Abs(n) == IF n < 0 THEN -n ELSE n

Frac(n, d) ==
  LET g == Gcd[Abs(d)][Abs(n)]
      s == IF d < 0 THEN -1 ELSE 1
  IN  << s * (n \div g), s * (d \div g) >>

IsRat(x) == x \in Int \X (Nat \ {0}) /\ Gcd[x[2]][Abs(x[1])] = 1
Rat(n)   == << n, 1 >>
Zero     == Rat(0)
One      == Rat(1)

\* Common factors are taken out first, so that the products stay small.
a \oplus b ==
  LET g == Gcd[b[2]][a[2]]
  IN  Frac(a[1] * (b[2] \div g) + b[1] * (a[2] \div g), (a[2] \div g) * b[2])
a \ominus b == a \oplus << -b[1], b[2] >>
a \otimes b ==
  LET x == Frac(a[1], b[2])
      y == Frac(b[1], a[2])
  IN  << x[1] * y[1], x[2] * y[2] >>
a \oslash b == a \otimes (IF b[1] < 0 THEN << -b[2], -b[1] >> ELSE << b[2], b[1] >>)

a \prec b == (a \ominus b)[1] < 0
Positive(a)    == IsRat(a) /\ Zero \prec a
Magnitude(a)   == << Abs(a[1]), a[2] >>
NoLess(a, b)   == IF a \prec b THEN b ELSE a

\* The sum of the values of a function.
Total(f) == FoldFunction(\oplus, Zero, f)
=============================================================================
