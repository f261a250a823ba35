---- MODULE Fractions ----
(***************************************************************************)
(* Exact fractions <<numerator, denominator>> in lowest terms, with a      *)
(* positive denominator, for the doubles of the code.                      *)
(***************************************************************************)
EXTENDS Integers, Functions

Gcd[p \in Nat \X Nat] == IF p[2] = 0 THEN p[1] ELSE Gcd[<<p[2], p[1] % p[2]>>]
Size(n) == IF n < 0 THEN -n ELSE n
Frac(n, d) == LET g == Gcd[<<Size(n), d>>] IN <<n \div g, d \div g>>
Whole(n) == <<n, 1>>
Plus(a, b) == Frac(a[1] * b[2] + b[1] * a[2], a[2] * b[2])
Minus(a, b) == Frac(a[1] * b[2] - b[1] * a[2], a[2] * b[2])
Times(a, b) == Frac(a[1] * b[1], a[2] * b[2])
Per(a, n) == Frac(a[1], a[2] * n)
Quotient(a, b) == Frac(a[1] * b[2], a[2] * b[1])
Exceeds(a, b) == a[1] * b[2] > b[1] * a[2]
Square(a) == Times(a, a)
Total(f) == FoldFunction(Plus, Whole(0), f)
====
