------------------------------ MODULE Rounding ------------------------------
(***************************************************************************)
(* The integer divisions of the money code (src/src/lib/holdings.ts,       *)
(* src/src/lib/fx.ts, src/src/lib/money.ts).  Amounts are bigints: they    *)
(* have no width.                                                          *)
(***************************************************************************)
EXTENDS Integers

Abs(n) == IF n < 0 THEN -n ELSE n

\* Round-half-up of a non-negative dividend.
HalfUp(a, d) == (a + d \div 2) \div d

\* divRoundHalfEven: to the nearest, and to the even one of two that are as near.
HalfEven(a, d) ==
  LET q == Abs(a) \div d
      r == Abs(a) % d
      up == IF 2 * r > d \/ (2 * r = d /\ q % 2 = 1) THEN q + 1 ELSE q
  IN IF a < 0 THEN -up ELSE up

=============================================================================
