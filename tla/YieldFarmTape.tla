--------------------------- MODULE YieldFarmTape ---------------------------
(***************************************************************************)
(* "Let's run the tape": overview.md tells what the farm pays hour by      *)
(* hour, the emission of each hour divided in proportion to the stakes     *)
(* farming at that time.  The contract computes the same from its epochs,  *)
(* in one loop per deposit when it is asked; the tape runs beside it.      *)
(***************************************************************************)
EXTENDS YieldFarm

VARIABLE earned    \* user -> credited since its first deposit

TapeInit == earned = [u \in Users |-> 0]

InRange == StartTime <= now /\ now < EndTime

\* What deposit i of user u is credited for the current hour.
HourOf(u, i) ==
  EmissionRatePerHour * ((Deposits[u][i].amount * Precision) \div StakedBalance)

HourOfUser(u) ==
  IF now' # now /\ InRange
    THEN SumRange([i \in DOMAIN Deposits[u] |-> HourOf(u, i)], 1, Len(Deposits[u]))
    ELSE 0

TapeStep ==
  earned' = [u \in Users |-> IF Deposits'[u] = <<>> THEN 0 ELSE earned[u] + HourOfUser(u)]

TapeSpec == Init /\ TapeInit /\ [][Next /\ TapeStep]_<<vars, earned>>

\* calculateYield's loop over the epochs gives what the hours add up to,
\* whatever the interleaving of entries, harvests and exits of all users.
AccruedAsEarned == \A u \in Users : Accrued(u) = earned[u]
=============================================================================
