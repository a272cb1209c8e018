----------------------------- MODULE Fractions ------------------------------
(***************************************************************************)
(* Exact fractions <<numerator, denominator>>, the denominator positive.   *)
(* They stand for the floating-point amounts of the program where what is  *)
(* checked of them does not depend on rounding.                            *)
(***************************************************************************)
EXTENDS Integers

Frac == Int \X (Nat \ {0})

Of(n) == <<n, 1>>

Plus(a, b)  == <<a[1] * b[2] + b[1] * a[2], a[2] * b[2]>>
Minus(a, b) == <<a[1] * b[2] - b[1] * a[2], a[2] * b[2]>>
Times(a, b) == <<a[1] * b[1], a[2] * b[2]>>
Over(a, b)  == <<a[1] * b[2], a[2] * b[1]>>     \* for a positive b

Less(a, b) == a[1] * b[2] < b[1] * a[2]
Same(a, b) == a[1] * b[2] = b[1] * a[2]

Abs(n) == IF n < 0 THEN -n ELSE n

\* Euclid's algorithm.
gcd[p \in Nat \X Nat] ==
    IF p[2] = 0 THEN p[1] ELSE gcd[<<p[2], p[1] % p[2]>>]

\* In lowest terms.
Reduced(a) ==
    LET g == gcd[<<Abs(a[1]), a[2]>>] IN <<a[1] \div g, a[2] \div g>>
=============================================================================
