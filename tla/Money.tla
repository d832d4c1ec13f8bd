------------------------------- MODULE Money -------------------------------
(***************************************************************************)
(* Amounts of money.  The handlers compute with Python Decimal of any      *)
(* precision; the money columns are NUMERIC(12,2).  An amount is an        *)
(* integer number of mills (tenths of a cent): fine enough to lie below,   *)
(* at or above the half cent where the two roundings of this system are    *)
(* decided, the only thing a finer fraction could tell apart.              *)
(***************************************************************************)
EXTENDS Integers

Cent == 10

\* Amounts a NUMERIC(12,2) column holds exactly.
IsWhole(x) == x % Cent = 0

Half == Cent \div 2

RoundHalfUp(x) == ((x + Half) \div Cent) * Cent

\* Mutant: a column that rounds up.
RoundedUp(x) == ((x + Cent - 1) \div Cent) * Cent

\* Value of a NUMERIC(12,2) column after x is assigned to it: Postgres rounds
\* to two places, halves away from zero.
Stored(x) == IF x >= 0 THEN RoundHalfUp(x) ELSE 0 - RoundHalfUp(0 - x)

\* _fmt_cost: Decimal.quantize(0.01) rounds halves to the even cent.
Quantized(x) ==
    LET cents == x \div Cent
        rest  == x % Cent
    IN  IF rest < Half \/ (rest = Half /\ cents % 2 = 0)
        THEN cents * Cent
        ELSE (cents + 1) * Cent
=============================================================================
