------------------------- MODULE SimpleStakingTape -------------------------
(***************************************************************************)
(* What con_staking_simple promises, told tick by tick.  The contract      *)
(* computes a deposit's yield in one loop over the epochs when it is asked *)
(* for; the tape runs beside it and credits each user with the rate in     *)
(* force for the stake held during each tick of the range.                 *)
(***************************************************************************)
EXTENDS SimpleStaking, FiniteSetsExt

VARIABLES
  earned,     \* user -> credited since its first deposit
  promised,   \* credited to anybody, ever
  paid,       \* paid out as yield, to users and the dev fund
  rangeKept   \* StartTime and EndTime were never changed

tapeVars == <<earned, promised, paid, rangeKept>>

InRange == settings.StartTime <= now /\ now < settings.EndTime

TickOf(u) ==
  IF now' # now /\ InRange
    THEN EmissionRatePerTauYearly * StakeOf(Deposits[u]) ELSE 0

TapeInit ==
  /\ Init
  /\ earned = [u \in Users |-> 0]
  /\ promised = 0
  /\ paid = 0
  /\ rangeKept = TRUE

TapeStep ==
  /\ earned' = [u \in Users |-> IF Deposits'[u] = <<>> THEN 0 ELSE earned[u] + TickOf(u)]
  /\ promised' = promised + MapThenSumSet(TickOf, Users)
  /\ rangeKept' = (rangeKept /\ settings'.StartTime = settings.StartTime
                             /\ settings'.EndTime = settings.EndTime)

TapeNext ==
  /\ \/ UserStep /\ paid' = paid + yieldBalances[This] - yieldBalances'[This]
     \/ (OwnerStep \/ FundStep \/ NextBlock) /\ UNCHANGED paid
  /\ TapeStep

TapeSpec == TapeInit /\ [][TapeNext]_<<vars, tapeVars>>

\* As long as the range is left alone, calculateYield's sum over epochs is the
\* sum over ticks, whatever the interleaving of deposits, changes of rate,
\* harvests and exits.
AccruedAsEarned == rangeKept => \A u \in Users : Accrued(u) = earned[u]

\* What was paid, to users and dev fund, and what is still owed never exceeds
\* what was earned: re-entries and repeated harvests are not paid twice, and
\* the exit's difference is, as its comment says, never negative.
PaidWithinPromise ==
  rangeKept =>
    /\ \A u \in Users : Withdrawals[u] <= Accrued(u)
    /\ paid + MapThenSumSet(Harvestable, Users) <= promised
=============================================================================
