-------------------------------- MODULE Money --------------------------------
(***************************************************************************)
(* packages/core/src/money/money.ts and the arithmetic its callers do:     *)
(* amounts are integers in minor units, a quotient is a numerator over a   *)
(* positive denominator, and it becomes an amount by Math.round.           *)
(***************************************************************************)
EXTENDS Integers, FiniteSetsExt

\* Math.round of num / den, den positive: half a unit rounds up.
Round(num, den) == (2 * num + den) \div (2 * den)

\* fromMinor, money: a computed quotient kept as an integer amount.
FromMinor(num, den) == Round(num, den)

Larger(a, b)  == IF a < b THEN b ELSE a
Smaller(a, b) == IF a < b THEN a ELSE b
Magnitude(n)  == IF n < 0 THEN -n ELSE n

\* clamp of scores.ts: rounded and cut to 0..100.
Clamp(num, den) == Larger(0, Smaller(100, Round(num, den)))

\* sumMoney, addMoney: the amounts of a set of rows added up.
SumOver(amount, rows) == MapThenSumSet(LAMBDA r : amount[r], rows)

\* The n-th of some numbers, from the smallest.
Nth(ids, n) == CHOOSE i \in ids : Cardinality({j \in ids : j <= i}) = n

\* Math.pow with a whole exponent that is not negative, by squaring.
Power(base, n) ==
    LET p[k \in 0..n] ==
            IF k = 0 THEN 1
            ELSE LET root == p[k \div 2]
                 IN  IF k % 2 = 0 THEN root * root ELSE base * (root * root)
    IN  p[n]

\* A percentage of a whole in lowest terms, as [n, d].
Fraction(percent, whole) ==
    LET d == CHOOSE k \in 1..whole :
                 /\ (k * percent) % whole = 0
                 /\ \A j \in 1..(k - 1) : (j * percent) % whole # 0
    IN  [n |-> (d * percent) \div whole, d |-> d]
==============================================================================
