-------------------------------- MODULE Quotes --------------------------------
(***************************************************************************)
(* quoteCalculator of the client (ui/src/utils.ts): prices, amounts, fees, *)
(* minimum and price impact of a trade, worked out from the reserves the   *)
(* page has.  A value is a whole number of units of the last decimal the   *)
(* client keeps; every result is rounded to that decimal, half up, as      *)
(* toBigNumberPrecision does.  A market without reserves has no quote.     *)
(***************************************************************************)
EXTENDS Integers

CONSTANTS One,      \* units of the last decimal in 1 (10^8 in the code)
          FeePct,   \* ammFee, in percent
          Discount  \* percentage of the fee that a full tank leaves to pay

ASSUME QuoteAssumption ==
  /\ One \in Nat /\ One >= 100
  /\ FeePct \in 0 .. 100
  /\ Discount \in 0 .. 100

\* n / d, rounded to the last decimal.
toBigNumberPrecision(n, d) == (2 * n + d) \div (2 * d)

Distance(a, b) == IF a > b THEN a - b ELSE b - a

\* Price of what is paid, in what is received: r.from and r.to are the reserves.
getPrices(r) == toBigNumberPrecision(r.to * One, r.from)

\* What the pool pays for an amount, before the fee: the reserve on the other
\* side less what the constant product leaves there.
Purchased(r, amount) ==
  r.to - toBigNumberPrecision(r.from * r.to, r.from + amount)

\* The fee, with the discount of the fuel tank if there is one.
Fee(purchased, discounted) ==
  toBigNumberPrecision(purchased * FeePct * (IF discounted THEN Discount ELSE 100), 10000)

PurchasedLessFee(r, amount, discounted) ==
  LET p == Purchased(r, amount) IN p - Fee(p, discounted)

\* How far the price moves, in hundredths of a percent; to nothing it moves beyond
\* every tolerance, and from nothing it moves, by NaN, beyond none.
calcSlippage(r, amount) ==
  LET after == [from |-> r.from + amount, to |-> r.to - Purchased(r, amount)] IN
  IF getPrices(after) = 0 THEN IF getPrices(r) = 0 THEN 0 ELSE 100 * One
  ELSE Distance(toBigNumberPrecision(getPrices(r) * 10000, getPrices(after)), 10000)

\* Slip: the minimum less the fee, asked without the tolerance.
MinimumAtPrice(r, amount, tolerance) ==
  toBigNumberPrecision(amount * getPrices(r), One)

\* The least the user accepts at the tolerance set, in percent; a tolerance of
\* nothing asks for nothing.
Minimum(r, amount, tolerance) ==
  IF tolerance <= 0 THEN 0
  ELSE toBigNumberPrecision(
         amount * toBigNumberPrecision(getPrices(r) * (100 - tolerance), 100), One)

\* Less the fee, which is the full one whatever the tank holds.
MinimumLessFee(r, amount, tolerance) ==
  LET m == Minimum(r, amount, tolerance) IN m - Fee(m, FALSE)

\* The amount of the other asset that goes with an amount at the present price.
calcTokenValue(r, amount) == toBigNumberPrecision(getPrices(r) * amount, One)

\* What the market itself pays, to the last digit it keeps (external): the
\* constant product, less the fee.
Pays(r, amount, discounted) ==
  (r.to * amount * (10000 - FeePct * (IF discounted THEN Discount ELSE 100)))
    \div ((r.from + amount) * 10000)
===============================================================================
