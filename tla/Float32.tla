------------------------------ MODULE Float32 ------------------------------
(***************************************************************************)
(* The part of f32 the timeline computes with: a finite, non-negative      *)
(* number man * 2^exp with a mantissa of 24 bits; what is computed is       *)
(* rounded to the nearest, ties to even.  TLC's integers have 32 bits, so  *)
(* a product of mantissas is kept as two halves of 24.                     *)
(***************************************************************************)
EXTENDS Integers

Half == 2^12
One24 == 2^24
Half24 == 2^23

Float == [man: {0} \cup Half24..(One24 - 1), exp: Int]

Zero == [man |-> 0, exp |-> 0]

\* Rounds up a mantissa whose discarded part is rest / unit.
Round(man, exp, rest, unit) ==
    LET up == 2 * rest > unit \/ (2 * rest = unit /\ man % 2 = 1)
        rounded == IF up THEN man + 1 ELSE man
    IN IF rounded = One24 THEN [man |-> Half24, exp |-> exp + 1]
       ELSE [man |-> rounded, exp |-> exp]

FromInteger(n) ==
    IF n = 0 THEN Zero
    ELSE LET k == CHOOSE k \in 0..23 : 2^k <= n /\ n < 2^(k + 1)
         IN [man |-> n * 2^(23 - k), exp |-> k - 23]

\* The quotient of two integers below 2^12 whose ratio is between 1/4 and 4.
Ratio(a, b) ==
    LET k == CASE a >= 2 * b -> 22
               [] a >= b /\ a < 2 * b -> 23
               [] 2 * a >= b /\ a < b -> 24
               [] OTHER -> 25
        high == a * 2^(k - 12)
        low == (high % b) * Half
    IN Round((high \div b) * Half + low \div b, -k, low % b, b)

Times(x, y) ==
    IF x.man = 0 \/ y.man = 0 THEN Zero
    ELSE LET middle == (x.man \div Half) * (y.man % Half)
                       + (x.man % Half) * (y.man \div Half)
             tail == (x.man % Half) * (y.man % Half) + (middle % Half) * Half
             low == tail % One24
             high == (x.man \div Half) * (y.man \div Half)
                     + middle \div Half + tail \div One24
             exp == x.exp + y.exp
         IN IF high >= Half24 THEN Round(high, exp + 24, low, One24)
            ELSE Round(2 * high + low \div Half24, exp + 23, low % Half24, Half24)

\* The sum of two numbers, the first not below the second.
Plus(x, y) ==
    LET unit == 2^(x.exp - y.exp)
        sum == x.man + y.man \div unit
        rest == y.man % unit
    IN IF y.man = 0 \/ x.exp > y.exp + 26 THEN x
       ELSE IF sum < One24 THEN Round(sum, x.exp, rest, unit)
       ELSE Round(sum \div 2, x.exp + 1, (sum % 2) * unit + rest, 2 * unit)

\* The difference of two numbers, the first at least twice the second.
Minus(x, y) ==
    LET unit == 2^(x.exp - y.exp)
        rest == (-y.man) % unit
        whole == x.man + (-y.man) \div unit
    IN IF y.man = 0 \/ x.exp > y.exp + 26 THEN x
       ELSE IF whole >= Half24 THEN Round(whole, x.exp, rest, unit)
       ELSE Round(2 * whole + (2 * rest) \div unit, x.exp - 1, (2 * rest) % unit, unit)

Leq(x, y) ==
    \/ x.man = 0
    \/ /\ y.man # 0
       /\ \/ x.exp < y.exp
          \/ x.exp = y.exp /\ x.man <= y.man

Less(x, y) == ~Leq(y, x)

Larger(x, y) == IF Leq(x, y) THEN y ELSE x
Smaller(x, y) == IF Leq(x, y) THEN x ELSE y
=============================================================================
