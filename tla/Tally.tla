------------------------------- MODULE Tally -------------------------------
(***************************************************************************)
(* Totals of ledgers.  The contracts keep running totals beside the        *)
(* entries they add up (StakedBalance beside the deposits, a token's       *)
(* supply beside its balances).  Total(f) is the sum of a function from a  *)
(* finite set to the naturals, defined as a number of unit coins, so that  *)
(* the library's theorems on cardinalities give the facts about it without *)
(* an induction over the domain.                                           *)
(***************************************************************************)
EXTENDS Integers, FiniteSets

\* The coins that account x holds: f[x] numbered coins, all marked x.
Coins(f, x) == {x} \X (1 .. f[x])

Units(f) == UNION {Coins(f, x) : x \in DOMAIN f}

Total(f) == Cardinality(Units(f))

\* The accumulator of a loop that adds F[a], F[a + 1], ..., F[b] to 0.
SumRange(F, a, b) ==
  LET upto[i \in a - 1 .. b] == IF i < a THEN 0 ELSE upto[i - 1] + F[i]
  IN  upto[b]
=============================================================================
