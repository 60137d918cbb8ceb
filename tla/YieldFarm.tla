----------------------------- MODULE YieldFarm -----------------------------
(***************************************************************************)
(* The yield farming contract con_staking.  Users stake one token and      *)
(* share a fixed hourly emission of another in proportion to their stakes. *)
(* Each entry and each exit opens a new epoch that records the amount      *)
(* staked from then on; a deposit's yield is summed over the epochs since  *)
(* it was made.  A transaction of the chain is one step: a failed assert,  *)
(* in the contract or in a token it calls, reverts all of it.              *)
(*                                                                         *)
(* Amounts are integers in the token's smallest unit.  Time is counted in  *)
(* hours, the granularity of setStartTime and setEndTime, so delta.seconds *)
(* times the rate per second is a number of hours times the hourly rate.   *)
(* The decimals round down: a share of the stake is counted in units of    *)
(* 1/Precision, and so is every amount of the yield token.                 *)
(***************************************************************************)
EXTENDS Ledger, Tally, Sequences, FiniteSetsExt

CONSTANTS
  Users,           \* accounts that stake
  Admins,          \* accounts that may become Owner or DevRewardWallet
  This,            \* the contract's own account (ctx.this)
  Deployer,        \* the account that submitted the contract
  Precision,       \* units of a share, and of a yield token
  PctBase,         \* DevRewardPct is in units of 1/PctBase
  InitialStake,    \* staking tokens of each user at the start
  InitialPool,     \* yield tokens the contract is given at the start
  Rate0, DevPct0, Start0, End0,      \* what seed sets
  StakeAmounts, HarvestAmounts, Rates, Pcts, StartTimes, EndTimes,
  RecoverAmounts, FundAmounts, OpenChoices,   \* the arguments of the calls
  MaxTime, MaxEpoch, MaxApproval     \* bounds of the model

Accounts == Users \cup Admins \cup {This}

ASSUME FarmAssumption ==
  /\ IsFiniteSet(Users) /\ IsFiniteSet(Admins)
  /\ This \notin Users \cup Admins
  /\ Deployer \in Admins
  /\ Precision \in Nat /\ PctBase \in Nat \ {0}
  /\ InitialStake \in Nat /\ InitialPool \in Nat
  /\ Rate0 \in Nat /\ DevPct0 \in 0 .. PctBase - 1 /\ Start0 \in Nat /\ End0 \in Nat
  /\ Start0 <= End0
  /\ StakeAmounts \subseteq Int /\ HarvestAmounts \subseteq Int
  /\ Rates \subseteq Int /\ Pcts \subseteq Int
  /\ StartTimes \subseteq Nat /\ EndTimes \subseteq Nat
  /\ RecoverAmounts \subseteq Int /\ FundAmounts \subseteq Int
  /\ OpenChoices \subseteq BOOLEAN

VARIABLES
  Owner, DevRewardWallet, EmissionRatePerHour, DevRewardPct,
  StartTime, EndTime, OpenForBusiness,
  Deposits,           \* user -> its deposit records, <<>> for False
  Withdrawals,        \* user -> yield already paid for these deposits
  CurrentEpochIndex,
  Epochs,             \* epoch index -> [time, staked]
  StakedBalance,
  stakingBalances,    \* balances of STAKING_TOKEN
  stakingApprovals,   \* user -> balances[user, this] of STAKING_TOKEN
  yieldBalances,      \* balances of YIELD_TOKEN
  now                 \* the block time

settings == <<Owner, DevRewardWallet, EmissionRatePerHour, DevRewardPct,
              StartTime, EndTime, OpenForBusiness>>
positions == <<Deposits, Withdrawals, CurrentEpochIndex, Epochs, StakedBalance>>
tokens == <<stakingBalances, stakingApprovals, yieldBalances>>
vars == <<settings, positions, tokens, now>>

-----------------------------------------------------------------------------
(* Yield *)

fitTimeToRange(t) ==
  IF t < StartTime THEN StartTime ELSE IF t > EndTime THEN EndTime ELSE t

\* Slip: the deposit's first epoch is taken for the current one.
HoursStaked_firstToNow(d, e) ==
  LET from == IF e = d.starting_epoch THEN d.time ELSE Epochs[e].time
      to   == IF e \in {d.starting_epoch, CurrentEpochIndex} THEN now ELSE Epochs[e + 1].time
  IN  fitTimeToRange(to) - fitTimeToRange(from)

\* The part of epoch e during which deposit d was staked.
HoursStaked(d, e) ==
  LET from == IF e = d.starting_epoch THEN d.time ELSE Epochs[e].time
      to   == IF e = CurrentEpochIndex THEN now ELSE Epochs[e + 1].time
  IN  fitTimeToRange(to) - fitTimeToRange(from)

\* Slip: a share that rounds up.
EpochYield_roundsUp(d, e) ==
  LET staked == Epochs[e].staked
      share == (d.amount * Precision + staked - 1) \div staked
  IN  HoursStaked(d, e) * EmissionRatePerHour * share

EpochYield(d, e) ==
  LET share == (d.amount * Precision) \div Epochs[e].staked
  IN  HoursStaked(d, e) * EmissionRatePerHour * share

calculateYield(d) ==
  LET ofEpoch == [e \in d.starting_epoch .. CurrentEpochIndex |-> EpochYield(d, e)]
  IN  SumRange(ofEpoch, d.starting_epoch, CurrentEpochIndex)

\* What all of a user's deposits have earned so far, paid or not.
Accrued(u) ==
  LET ofDeposit == [i \in DOMAIN Deposits[u] |-> calculateYield(Deposits[u][i])]
  IN  SumRange(ofDeposit, 1, Len(Deposits[u]))

\* Slip: earlier harvests are not subtracted.
Harvestable_gross(u) == Accrued(u)

Harvestable(u) == Accrued(u) - Withdrawals[u]

\* stake_to_return: the sum of the amounts of a list of deposits.
StakeOf(deposits) ==
  SumRange([i \in DOMAIN deposits |-> deposits[i].amount], 1, Len(deposits))

DevShare(y) == (y * DevRewardPct) \div PctBase

\* The balances once the dev fund got its share of the yield y.
DevPaid(y) ==
  IF DevShare(y) > 0
    THEN Move(yieldBalances, This, DevRewardWallet, DevShare(y))
    ELSE yieldBalances

CanPayYield(y) ==
  /\ DevShare(y) > 0 => CanTransfer(yieldBalances, This, DevShare(y))
  /\ CanTransfer(DevPaid(y), This, y - DevShare(y))

PayYield(u, y) ==
  /\ CanPayYield(y)
  /\ yieldBalances' = Move(DevPaid(y), This, u, y - DevShare(y))

-----------------------------------------------------------------------------
(* The contract's calls *)

Init ==
  /\ Owner = Deployer
  /\ DevRewardWallet = Deployer
  /\ EmissionRatePerHour = Rate0
  /\ DevRewardPct = DevPct0
  /\ StartTime = Start0
  /\ EndTime = End0
  /\ OpenForBusiness = TRUE
  /\ Deposits = [u \in Users |-> <<>>]
  /\ Withdrawals = [u \in Users |-> 0]
  /\ CurrentEpochIndex = 0
  /\ Epochs = [e \in {0} |-> [time |-> 0, staked |-> 0]]
  /\ StakedBalance = 0
  /\ stakingBalances = [a \in Accounts |-> IF a \in Users THEN InitialStake ELSE 0]
  /\ stakingApprovals = [u \in Users |-> 0]
  /\ yieldBalances = [a \in Accounts |-> IF a = This THEN InitialPool ELSE 0]
  /\ now = 0

incrementEpoch(new_staked_amount) ==
  /\ CurrentEpochIndex < MaxEpoch
  /\ CurrentEpochIndex' = CurrentEpochIndex + 1
  /\ Epochs' = [e \in 0 .. CurrentEpochIndex + 1 |->
                  IF e = CurrentEpochIndex + 1
                    THEN [time |-> now, staked |-> new_staked_amount]
                    ELSE Epochs[e]]

\* Slip: the deposit counts from the epoch that its entry closes.
NewDeposit_earlyEpoch(amount) ==
  [starting_epoch |-> CurrentEpochIndex, time |-> now, amount |-> amount]

\* The record a deposit leaves, in the epoch that it opens.
NewDeposit(amount) ==
  [starting_epoch |-> CurrentEpochIndex + 1, time |-> now, amount |-> amount]

addStakingTokens(user, amount) ==
  /\ OpenForBusiness
  /\ amount > 0
  /\ CanTransferFrom(stakingBalances, stakingApprovals, user, amount)
  /\ stakingBalances' = Move(stakingBalances, user, This, amount)
  /\ stakingApprovals' = [stakingApprovals EXCEPT ![user] = @ - amount]
  /\ StakedBalance' = StakedBalance + amount
  /\ incrementEpoch(StakedBalance + amount)
  /\ Deposits' = [Deposits EXCEPT ![user] = Append(@, NewDeposit(amount))]
  /\ UNCHANGED <<settings, Withdrawals, yieldBalances, now>>

withdrawYield(user, amount) ==
  LET y == IF amount < Harvestable(user) THEN amount ELSE Harvestable(user)
  IN  /\ amount > 0
      /\ Deposits[user] # <<>>
      /\ y > 0
      /\ PayYield(user, y)
      /\ Withdrawals' = [Withdrawals EXCEPT ![user] = @ + y]
      /\ UNCHANGED <<settings, Deposits, CurrentEpochIndex, Epochs,
                     StakedBalance, stakingBalances, stakingApprovals, now>>

\* Slip: the records outlive the exit.
closePosition_keepsDeposits(user) ==
  /\ Withdrawals' = [Withdrawals EXCEPT ![user] = 0]
  /\ UNCHANGED Deposits

closePosition(user) ==
  /\ Deposits' = [Deposits EXCEPT ![user] = <<>>]
  /\ Withdrawals' = [Withdrawals EXCEPT ![user] = 0]

withdrawTokensAndYield(user) ==
  LET stake == StakeOf(Deposits[user])
  IN  /\ Deposits[user] # <<>>
      /\ CanTransfer(stakingBalances, This, stake)
      /\ stakingBalances' = Move(stakingBalances, This, user, stake)
      /\ \/ Harvestable(user) > 0 /\ PayYield(user, Harvestable(user))
         \/ Harvestable(user) <= 0 /\ UNCHANGED yieldBalances
      /\ closePosition(user)
      /\ StakedBalance' = StakedBalance - stake
      /\ incrementEpoch(StakedBalance - stake)
      /\ UNCHANGED <<settings, stakingApprovals, now>>

-----------------------------------------------------------------------------
(* The owner's calls: caller is ctx.caller, assertOwner the first conjunct *)

assertOwner(caller) == Owner = caller

setOwner(caller, vk) ==
  /\ assertOwner(caller)
  /\ Owner' = vk
  /\ UNCHANGED <<DevRewardWallet, EmissionRatePerHour, DevRewardPct, StartTime,
                 EndTime, OpenForBusiness, positions, tokens, now>>

setDevWallet(caller, vk) ==
  /\ assertOwner(caller)
  /\ DevRewardWallet' = vk
  /\ UNCHANGED <<Owner, EmissionRatePerHour, DevRewardPct, StartTime,
                 EndTime, OpenForBusiness, positions, tokens, now>>

setDevRewardPct(caller, pct) ==
  /\ assertOwner(caller)
  /\ pct < PctBase /\ pct >= 0
  /\ DevRewardPct' = pct
  /\ UNCHANGED <<Owner, DevRewardWallet, EmissionRatePerHour, StartTime,
                 EndTime, OpenForBusiness, positions, tokens, now>>

setEmissionRatePerHour(caller, rate) ==
  /\ assertOwner(caller)
  /\ EmissionRatePerHour' = rate
  /\ UNCHANGED <<Owner, DevRewardWallet, DevRewardPct, StartTime,
                 EndTime, OpenForBusiness, positions, tokens, now>>

recoverYieldToken(caller, amount) ==
  /\ assertOwner(caller)
  /\ CanTransfer(yieldBalances, This, amount)
  /\ yieldBalances' = Move(yieldBalances, This, Owner, amount)
  /\ UNCHANGED <<settings, positions, stakingBalances, stakingApprovals, now>>

allowStaking(caller, is_open) ==
  /\ assertOwner(caller)
  /\ OpenForBusiness' = is_open
  /\ UNCHANGED <<Owner, DevRewardWallet, EmissionRatePerHour, DevRewardPct,
                 StartTime, EndTime, positions, tokens, now>>

setStartTime(caller, t) ==
  /\ assertOwner(caller)
  /\ StartTime' = t
  /\ UNCHANGED <<Owner, DevRewardWallet, EmissionRatePerHour, DevRewardPct,
                 EndTime, OpenForBusiness, positions, tokens, now>>

setEndTime(caller, t) ==
  /\ assertOwner(caller)
  /\ EndTime' = t
  /\ UNCHANGED <<Owner, DevRewardWallet, EmissionRatePerHour, DevRewardPct,
                 StartTime, OpenForBusiness, positions, tokens, now>>

-----------------------------------------------------------------------------
(* Around the contract: approvals, funding, and the blocks' clock *)

\* currency.approve(amount, this), which the UI sends before a deposit.
approve(user, amount) ==
  /\ amount > 0
  /\ stakingApprovals[user] + amount <= MaxApproval
  /\ stakingApprovals' = [stakingApprovals EXCEPT ![user] = @ + amount]
  /\ UNCHANGED <<settings, positions, stakingBalances, yieldBalances, now>>

\* Anybody may send yield tokens to the contract.
fundPool(from, amount) ==
  /\ CanTransfer(yieldBalances, from, amount)
  /\ yieldBalances' = Move(yieldBalances, from, This, amount)
  /\ UNCHANGED <<settings, positions, stakingBalances, stakingApprovals, now>>

NextBlock ==
  /\ now < MaxTime
  /\ now' = now + 1
  /\ UNCHANGED <<settings, positions, tokens>>

UserStep ==
  \E user \in Users :
    \/ \E amount \in StakeAmounts : approve(user, amount)
    \/ \E amount \in StakeAmounts : addStakingTokens(user, amount)
    \/ \E amount \in HarvestAmounts : withdrawYield(user, amount)
    \/ withdrawTokensAndYield(user)

OwnerStep ==
  \E caller \in Admins :
    \/ \E vk \in Admins : setOwner(caller, vk)
    \/ \E vk \in Admins : setDevWallet(caller, vk)
    \/ \E pct \in Pcts : setDevRewardPct(caller, pct)
    \/ \E rate \in Rates : setEmissionRatePerHour(caller, rate)
    \/ \E amount \in RecoverAmounts : recoverYieldToken(caller, amount)
    \/ \E is_open \in OpenChoices : allowStaking(caller, is_open)
    \/ \E t \in StartTimes : setStartTime(caller, t)
    \/ \E t \in EndTimes : setEndTime(caller, t)

FundStep ==
  \E from \in Admins, amount \in FundAmounts : fundPool(from, amount)

Next == UserStep \/ OwnerStep \/ FundStep \/ NextBlock

Spec == Init /\ [][Next]_vars

-----------------------------------------------------------------------------
(* Properties *)

DepositRecords ==
  [starting_epoch : 0 .. CurrentEpochIndex, time : 0 .. now, amount : Nat \ {0}]

\* The type of every variable; the records of a deposit or an epoch never
\* name an epoch or a time still to come.
TypeOK ==
  /\ Owner \in Admins /\ DevRewardWallet \in Admins
  /\ EmissionRatePerHour \in Int /\ DevRewardPct \in 0 .. PctBase - 1
  /\ StartTime \in Nat /\ EndTime \in Nat /\ OpenForBusiness \in BOOLEAN
  /\ Deposits \in [Users -> Seq(DepositRecords)]
  /\ Withdrawals \in [Users -> Nat]
  /\ CurrentEpochIndex \in Nat
  /\ Epochs \in [0 .. CurrentEpochIndex -> [time : 0 .. now, staked : Nat]]
  /\ StakedBalance \in Nat
  /\ stakingBalances \in [Accounts -> Nat]
  /\ stakingApprovals \in [Users -> Nat]
  /\ yieldBalances \in [Accounts -> Nat]
  /\ now \in Nat

StakeOfUser == [u \in Users |-> StakeOf(Deposits[u])]

\* The running total, the current epoch's total and the deposit records of
\* all users agree, whatever the order of entries and exits.
StakeAccounted ==
  /\ StakedBalance = Total(StakeOfUser)
  /\ Epochs[CurrentEpochIndex].staked = StakedBalance

\* "The total amount of farming token in the vault": the contract's account
\* at the staking token holds what it owes its users, so a deposit can
\* always be returned, and staking neither makes nor burns tokens.
VaultCoversStake ==
  /\ stakingBalances[This] >= StakedBalance
  /\ Total(stakingBalances) = InitialStake * Cardinality(Users)

\* What a list of deposits had in the vault during epoch e.
StakeDuring(deposits, e) ==
  SumRange([i \in DOMAIN deposits |->
              IF deposits[i].starting_epoch <= e THEN deposits[i].amount ELSE 0],
           1, Len(deposits))

\* calculateYield divides by the staked amount of every epoch since a
\* deposit: the deposits still there never exceed it together, so their
\* shares add up to at most 1 and no divisor is 0.  A deposit's clock starts
\* with its epoch.
SharesWithinEpoch ==
  /\ \A e \in 1 .. CurrentEpochIndex :
       Total([u \in Users |-> StakeDuring(Deposits[u], e)]) <= Epochs[e].staked
  /\ \A u \in Users : \A i \in DOMAIN Deposits[u] :
       LET d == Deposits[u][i]
       IN  /\ d.starting_epoch \in 1 .. CurrentEpochIndex
           /\ d.time = Epochs[d.starting_epoch].time

\* What the pool has paid, with the pool neither refilled nor recovered.
PaidOut == InitialPool - yieldBalances[This]

\* "Yield will be distributed at a fixed rate per vault over time": with the
\* settings of seed left alone, what was paid and what is still owed to the
\* users never exceeds the emission of the hours since the start.
WithinEmission ==
  PaidOut + MapThenSumSet(Harvestable, Users)
    <= Rate0 * Precision * (fitTimeToRange(now) - fitTimeToRange(0))

\* A user never took out more than the deposits earned: "this should never be
\* negative", says the exit before it subtracts one from the other.
WithdrawnWithinAccrued == \A u \in Users : Withdrawals[u] <= Accrued(u)

CanExit(u) ==
  /\ CanTransfer(stakingBalances, This, StakeOf(Deposits[u]))
  /\ Harvestable(u) > 0 => CanPayYield(Harvestable(u))

\* A contract that was given the whole emission never has to refuse an exit,
\* which would lock the stake in together with the yield.
ExitFunded == \A u \in Users : Deposits[u] # <<>> => CanExit(u)

Vault == INSTANCE StakeVault WITH stake <- StakeOfUser, vault <- StakedBalance

\* The contract keeps the abstract vault's promise about principal.
KeepsStakes == Vault!VaultSpec
=============================================================================
