--------------------------- MODULE SimpleStaking ---------------------------
(***************************************************************************)
(* The staking contract con_staking_simple.  Every unit staked earns a     *)
(* rate that the owner sets for the future only: a change of rate opens an *)
(* epoch, entries and exits do not.  Besides the exit with yield there is  *)
(* an emergency exit that pays none.                                       *)
(*                                                                         *)
(* Time is counted in ticks and yield in the part of a yield token that a  *)
(* rate of 1 gives per tick: getEmissionRatePerSecond's division by the    *)
(* seconds of a year is this choice of unit, and the sums are exact.  A    *)
(* transaction is one step and a failed assert reverts all of it.          *)
(***************************************************************************)
EXTENDS Ledger, Tally, Sequences

CONSTANTS
  Users, Admins,   \* accounts that stake; accounts that may own the contract
  This, Deployer,  \* ctx.this; the account that submitted the contract
  PctBase,         \* DevRewardPct is in units of 1/PctBase
  InitialStake, InitialPool,
  Rate0, DevPct0, Start0, End0,      \* what seed sets
  StakeAmounts, HarvestAmounts, Rates, Pcts, StartTimes, EndTimes,
  RecoverAmounts, FundAmounts, OpenChoices, MetaValues,   \* arguments of the calls
  MaxTime, MaxEpoch, MaxApproval     \* bounds of the model

Accounts == Users \cup Admins \cup {This}

ASSUME SimpleAssumption ==
  /\ IsFiniteSet(Users) /\ IsFiniteSet(Admins)
  /\ This \notin Users \cup Admins
  /\ Deployer \in Admins
  /\ PctBase \in Nat \ {0}
  /\ InitialStake \in Nat /\ InitialPool \in Nat
  /\ Rate0 \in Nat \ {0} /\ DevPct0 \in 0 .. PctBase - 1 /\ Start0 \in Nat /\ End0 \in Nat
  /\ Start0 <= End0
  /\ StakeAmounts \subseteq Int /\ HarvestAmounts \subseteq Int
  /\ Rates \subseteq Int /\ Pcts \subseteq Int
  /\ StartTimes \subseteq Nat /\ EndTimes \subseteq Nat
  /\ RecoverAmounts \subseteq Int /\ FundAmounts \subseteq Int
  /\ OpenChoices \subseteq BOOLEAN

VARIABLES
  settings,           \* Owner, DevRewardWallet, DevRewardPct, StartTime, EndTime, OpenForBusiness
  meta,               \* the value of a meta field
  EmissionRatePerTauYearly,
  Deposits,           \* user -> its deposit records, <<>> for False
  Withdrawals,        \* user -> yield already paid for these deposits
  CurrentEpochIndex,
  Epochs,             \* epoch index -> [time, emission_rate_per_tau]
  StakedBalance,
  stakingBalances,    \* balances of STAKING_TOKEN
  stakingApprovals,   \* user -> balances[user, this] of STAKING_TOKEN
  yieldBalances,      \* balances of YIELD_TOKEN
  now                 \* the block time

epochs == <<CurrentEpochIndex, Epochs, EmissionRatePerTauYearly>>
stakes == <<Deposits, Withdrawals, StakedBalance>>
tokens == <<stakingBalances, stakingApprovals, yieldBalances>>
vars == <<settings, meta, epochs, stakes, tokens, now>>

-----------------------------------------------------------------------------
(* Yield *)

fitTimeToRange(t) ==
  CASE t < settings.StartTime -> settings.StartTime
    [] t >= settings.StartTime /\ t > settings.EndTime -> settings.EndTime
    [] OTHER -> t

\* Slip: the first epoch is counted from its start, not from the deposit.
TicksStaked_wholeEpoch(d, e) ==
  LET to == IF e = CurrentEpochIndex THEN now ELSE Epochs[e + 1].time
  IN  fitTimeToRange(to) - fitTimeToRange(Epochs[e].time)

\* The part of epoch e during which deposit d was staked.
TicksStaked(d, e) ==
  LET from == IF e = d.starting_epoch THEN d.time ELSE Epochs[e].time
      to   == IF e = CurrentEpochIndex THEN now ELSE Epochs[e + 1].time
  IN  fitTimeToRange(to) - fitTimeToRange(from)

EpochYield(d, e) == Epochs[e].emission_rate_per_tau * d.amount * TicksStaked(d, e)

calculateYield(d) ==
  LET ofEpoch == [e \in d.starting_epoch .. CurrentEpochIndex |-> EpochYield(d, e)]
  IN  SumRange(ofEpoch, d.starting_epoch, CurrentEpochIndex)

\* What all of a user's deposits have earned so far, paid or not.
Accrued(u) ==
  LET ofDeposit == [i \in DOMAIN Deposits[u] |-> calculateYield(Deposits[u][i])]
  IN  SumRange(ofDeposit, 1, Len(Deposits[u]))

Harvestable(u) == Accrued(u) - Withdrawals[u]

\* stake_to_return: the sum of the amounts of a list of deposits.
StakeOf(deposits) ==
  SumRange([i \in DOMAIN deposits |-> deposits[i].amount], 1, Len(deposits))

DevShare(y) == (y * settings.DevRewardPct) \div PctBase

\* The balances once the dev fund got its share of the yield y.
DevPaid(y) ==
  IF DevShare(y) > 0
    THEN Move(yieldBalances, This, settings.DevRewardWallet, DevShare(y))
    ELSE yieldBalances

CanPayYield(y) ==
  /\ DevShare(y) > 0 => CanTransfer(yieldBalances, This, DevShare(y))
  /\ CanTransfer(DevPaid(y), This, y - DevShare(y))

PayYield(u, y) ==
  /\ CanPayYield(y)
  /\ yieldBalances' = Move(DevPaid(y), This, u, y - DevShare(y))

-----------------------------------------------------------------------------
(* The users' calls *)

Init ==
  /\ settings = [Owner |-> Deployer, DevRewardWallet |-> Deployer, DevRewardPct |-> DevPct0,
                 StartTime |-> Start0, EndTime |-> End0, OpenForBusiness |-> TRUE]
  /\ meta = "0.0.1"
  /\ EmissionRatePerTauYearly = Rate0
  /\ Deposits = [u \in Users |-> <<>>]
  /\ Withdrawals = [u \in Users |-> 0]
  /\ CurrentEpochIndex = 0
  /\ Epochs = [e \in {0} |-> [time |-> 0, emission_rate_per_tau |-> Rate0]]
  /\ StakedBalance = 0
  /\ stakingBalances = [a \in Accounts |-> IF a \in Users THEN InitialStake ELSE 0]
  /\ stakingApprovals = [u \in Users |-> 0]
  /\ yieldBalances = [a \in Accounts |-> IF a = This THEN InitialPool ELSE 0]
  /\ now = 0

addStakingTokens(user, amount) ==
  /\ settings.OpenForBusiness
  /\ CanTransferFrom(stakingBalances, stakingApprovals, user, amount)
  /\ stakingBalances' = Move(stakingBalances, user, This, amount)
  /\ stakingApprovals' = [stakingApprovals EXCEPT ![user] = @ - amount]
  /\ StakedBalance' = StakedBalance + amount
  /\ Deposits' = [Deposits EXCEPT ![user] =
       Append(@, [starting_epoch |-> CurrentEpochIndex, time |-> now, amount |-> amount])]
  /\ UNCHANGED <<settings, meta, epochs, Withdrawals, yieldBalances, now>>

\* Slip: Withdrawals is overwritten by this harvest.
countHarvest_last(user, y) == Withdrawals' = [Withdrawals EXCEPT ![user] = y]

countHarvest(user, y) == Withdrawals' = [Withdrawals EXCEPT ![user] = @ + y]

withdrawYield(user, amount) ==
  LET y == IF amount < Harvestable(user) THEN amount ELSE Harvestable(user)
  IN  /\ amount > 0
      /\ Deposits[user] # <<>>
      /\ y > 0
      /\ PayYield(user, y)
      /\ countHarvest(user, y)
      /\ UNCHANGED <<settings, meta, epochs, Deposits, StakedBalance,
                     stakingBalances, stakingApprovals, now>>

\* Slip: StakedBalance is left as it was.
returnStake_keepsTotal(user, stake) ==
  /\ CanTransfer(stakingBalances, This, stake)
  /\ stakingBalances' = Move(stakingBalances, This, user, stake)
  /\ Deposits' = [Deposits EXCEPT ![user] = <<>>]
  /\ Withdrawals' = [Withdrawals EXCEPT ![user] = 0]
  /\ UNCHANGED StakedBalance

\* What both exits do about principal.
returnStake(user, stake) ==
  /\ CanTransfer(stakingBalances, This, stake)
  /\ stakingBalances' = Move(stakingBalances, This, user, stake)
  /\ Deposits' = [Deposits EXCEPT ![user] = <<>>]
  /\ Withdrawals' = [Withdrawals EXCEPT ![user] = 0]
  /\ StakedBalance' = StakedBalance - stake

withdrawTokensAndYield(user) ==
  /\ Deposits[user] # <<>>
  /\ returnStake(user, StakeOf(Deposits[user]))
  /\ \/ Harvestable(user) > 0 /\ PayYield(user, Harvestable(user))
     \/ Harvestable(user) <= 0 /\ UNCHANGED yieldBalances
  /\ UNCHANGED <<settings, meta, epochs, stakingApprovals, now>>

emergencyReturnStake(user) ==
  /\ Deposits[user] # <<>>
  /\ returnStake(user, StakeOf(Deposits[user]))
  /\ UNCHANGED <<settings, meta, epochs, stakingApprovals, yieldBalances, now>>

-----------------------------------------------------------------------------
(* The owner's calls: caller is ctx.caller *)

assertOwner(caller) == settings.Owner = caller

incrementEpoch(caller, rate) ==
  /\ assertOwner(caller)
  /\ rate > 0
  /\ CurrentEpochIndex < MaxEpoch
  /\ CurrentEpochIndex' = CurrentEpochIndex + 1
  /\ EmissionRatePerTauYearly' = rate
  /\ Epochs' = [e \in 0 .. CurrentEpochIndex + 1 |->
                  IF e = CurrentEpochIndex + 1
                    THEN [time |-> now, emission_rate_per_tau |-> rate]
                    ELSE Epochs[e]]
  /\ UNCHANGED <<settings, meta, stakes, tokens, now>>

\* What a setter does: check the caller, store the value.
Store(caller, new) ==
  /\ assertOwner(caller)
  /\ settings' = new
  /\ UNCHANGED <<meta, epochs, stakes, tokens, now>>

setOwner(caller, vk) == Store(caller, [settings EXCEPT !.Owner = vk])
setDevWallet(caller, vk) == Store(caller, [settings EXCEPT !.DevRewardWallet = vk])
allowStaking(caller, is_open) == Store(caller, [settings EXCEPT !.OpenForBusiness = is_open])
setStartTime(caller, t) == Store(caller, [settings EXCEPT !.StartTime = t])
setEndTime(caller, t) == Store(caller, [settings EXCEPT !.EndTime = t])

setDevRewardPct(caller, pct) ==
  /\ pct < PctBase /\ pct >= 0
  /\ Store(caller, [settings EXCEPT !.DevRewardPct = pct])

updateMeta(caller, value) ==
  /\ assertOwner(caller)
  /\ meta' = value
  /\ UNCHANGED <<settings, epochs, stakes, tokens, now>>

recoverYieldToken(caller, amount) ==
  /\ assertOwner(caller)
  /\ CanTransfer(yieldBalances, This, amount)
  /\ yieldBalances' = Move(yieldBalances, This, settings.Owner, amount)
  /\ UNCHANGED <<settings, meta, epochs, stakes, stakingBalances, stakingApprovals, now>>

-----------------------------------------------------------------------------
(* Around the contract: approvals, funding, and the blocks' clock *)

\* currency.approve(amount, this), which the UI sends before a deposit.
approve(user, amount) ==
  /\ amount > 0
  /\ stakingApprovals[user] + amount <= MaxApproval
  /\ stakingApprovals' = [stakingApprovals EXCEPT ![user] = @ + amount]
  /\ UNCHANGED <<settings, meta, epochs, stakes, stakingBalances, yieldBalances, now>>

\* Anybody may send yield tokens to the contract.
fundPool(from, amount) ==
  /\ CanTransfer(yieldBalances, from, amount)
  /\ yieldBalances' = Move(yieldBalances, from, This, amount)
  /\ UNCHANGED <<settings, meta, epochs, stakes, stakingBalances, stakingApprovals, now>>

NextBlock ==
  /\ now < MaxTime
  /\ now' = now + 1
  /\ UNCHANGED <<settings, meta, epochs, stakes, tokens>>

UserStep ==
  \E user \in Users :
    \/ \E amount \in StakeAmounts : approve(user, amount)
    \/ \E amount \in StakeAmounts : addStakingTokens(user, amount)
    \/ \E amount \in HarvestAmounts : withdrawYield(user, amount)
    \/ withdrawTokensAndYield(user)
    \/ emergencyReturnStake(user)

OwnerStep ==
  \E caller \in Admins :
    \/ \E rate \in Rates : incrementEpoch(caller, rate)
    \/ \E vk \in Admins : setOwner(caller, vk)
    \/ \E vk \in Admins : setDevWallet(caller, vk)
    \/ \E pct \in Pcts : setDevRewardPct(caller, pct)
    \/ \E amount \in RecoverAmounts : recoverYieldToken(caller, amount)
    \/ \E is_open \in OpenChoices : allowStaking(caller, is_open)
    \/ \E t \in StartTimes : setStartTime(caller, t)
    \/ \E t \in EndTimes : setEndTime(caller, t)
    \/ \E value \in MetaValues : updateMeta(caller, value)

FundStep ==
  \E from \in Admins, amount \in FundAmounts : fundPool(from, amount)

Next == UserStep \/ OwnerStep \/ FundStep \/ NextBlock

Spec == Init /\ [][Next]_vars

-----------------------------------------------------------------------------
(* Properties *)

DepositRecords ==
  [starting_epoch : 0 .. CurrentEpochIndex, time : 0 .. now, amount : Nat \ {0}]

\* The type of every variable; the DevRewardPct leaves a part of each yield
\* to the user, whatever the owner set.
TypeOK ==
  /\ settings \in [Owner : Admins, DevRewardWallet : Admins, DevRewardPct : 0 .. PctBase - 1,
                   StartTime : Nat, EndTime : Nat, OpenForBusiness : BOOLEAN]
  /\ EmissionRatePerTauYearly \in Nat \ {0}
  /\ Deposits \in [Users -> Seq(DepositRecords)]
  /\ Withdrawals \in [Users -> Nat]
  /\ CurrentEpochIndex \in Nat
  /\ Epochs \in [0 .. CurrentEpochIndex -> [time : 0 .. now, emission_rate_per_tau : Nat \ {0}]]
  /\ StakedBalance \in Nat
  /\ stakingBalances \in [Accounts -> Nat]
  /\ stakingApprovals \in [Users -> Nat]
  /\ yieldBalances \in [Accounts -> Nat]
  /\ now \in Nat

StakeOfUser == [u \in Users |-> StakeOf(Deposits[u])]

\* The running total agrees with the deposit records, after either exit.
StakeAccounted == StakedBalance = Total(StakeOfUser)

\* "The total amount of farming token in the vault": the contract's account
\* at the staking token holds what it owes, so the emergency exit never has
\* to refuse, whatever became of the yield pool.
StakeReturnable ==
  /\ stakingBalances[This] >= StakedBalance
  /\ \A u \in Users :
       Deposits[u] # <<>> => CanTransfer(stakingBalances, This, StakeOf(Deposits[u]))

Vault == INSTANCE StakeVault WITH stake <- StakeOfUser, vault <- StakedBalance

\* The contract keeps the abstract vault's promise about principal.
KeepsStakes == Vault!VaultSpec
=============================================================================
