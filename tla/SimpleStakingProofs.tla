------------------------ MODULE SimpleStakingProofs ------------------------
(***************************************************************************)
(* Proofs about SimpleStaking, for every set of users, every amount, any   *)
(* rate and any length of the run: the type invariant, the accounting of   *)
(* the stakes, that no exit ever has to refuse a stake, and that the       *)
(* contract implements StakeVault.                                         *)
(***************************************************************************)
EXTENDS SimpleStakingTape, TallyTheorems

-----------------------------------------------------------------------------
(* Lists of deposits *)

IsDepositList(s) ==
  \E n \in Nat : /\ DOMAIN s = 1 .. n /\ Len(s) = n
                 /\ \A i \in 1 .. n : s[i].amount \in Nat

\* What the loop of an exit returns for a list of deposits: it is 0 only for
\* a list that holds nothing.
LEMMA StakeOfFacts ==
  /\ StakeOf(<<>>) = 0
  /\ \A s : IsDepositList(s) => /\ StakeOf(s) \in Nat
                                /\ \A i \in DOMAIN s : s[i].amount <= StakeOf(s)
  <1>1. StakeOf(<<>>) = 0
    BY SumRangeEmpty, 1 - 1 = 0 DEF StakeOf
  <1>2. ASSUME NEW s, IsDepositList(s)
        PROVE  /\ StakeOf(s) \in Nat
               /\ \A i \in DOMAIN s : s[i].amount <= StakeOf(s)
    <2>1. PICK n \in Nat : /\ DOMAIN s = 1 .. n /\ Len(s) = n
                           /\ \A i \in 1 .. n : s[i].amount \in Nat
      BY <1>2 DEF IsDepositList
    <2> DEFINE F == [i \in DOMAIN s |-> s[i].amount]
    <2>2. \A i \in 1 .. n : F[i] \in Nat /\ F[i] = s[i].amount
      BY <2>1
    <2>3. StakeOf(s) = SumRange(F, 1, n)
      BY <2>1 DEF StakeOf
    <2> HIDE DEF F
    <2>4. SumRange(F, 1, n) \in Nat
      BY <2>2, SumRangeNat, 1 - 1 <= n
    <2>5. \A i \in 1 .. n : F[i] <= SumRange(F, 1, n)
      BY <2>2, SumRangeEntry, 1 - 1 <= n, 1 \in Int, n \in Int
    <2> QED  BY <2>1, <2>2, <2>3, <2>4, <2>5
  <1> QED  BY <1>1, <1>2

\* One more deposit adds its amount.
LEMMA StakeOfAppend ==
  ASSUME NEW s, IsDepositList(s), NEW d, NEW t,
         DOMAIN t = 1 .. Len(s) + 1, Len(t) = Len(s) + 1,
         \A i \in 1 .. Len(s) : t[i] = s[i], t[Len(s) + 1] = d
  PROVE  StakeOf(t) = StakeOf(s) + d.amount
  <1>1. PICK n \in Nat : DOMAIN s = 1 .. n /\ Len(s) = n
    BY DEF IsDepositList
  <1> DEFINE F == [i \in DOMAIN s |-> s[i].amount]
             G == [i \in DOMAIN t |-> t[i].amount]
  <1>2. \A i \in 1 .. n : F[i] = G[i]
    BY <1>1
  <1>3. G[n + 1] = d.amount
    BY <1>1
  <1> HIDE DEF F, G
  <1>4. SumRange(G, 1, n + 1) = SumRange(F, 1, n) + G[n + 1]
    BY <1>2, SumRangeAppend
  <1> QED  BY <1>1, <1>3, <1>4 DEF F, G, StakeOf

-----------------------------------------------------------------------------
(* The inductive invariant *)

VaultHolds == stakingBalances[This] >= StakedBalance

IInv == TypeOK /\ StakeAccounted /\ VaultHolds

\* There are finitely many accounts.
LEMMA AccountsFinite == IsFiniteSet(Accounts)
  BY SimpleAssumption, FS_Union, FS_Singleton DEF Accounts

\* TypeOK gives every user a list of deposits in the sense above.
LEMMA DepositsAreLists ==
  ASSUME TypeOK, NEW u \in Users
  PROVE  /\ IsDepositList(Deposits[u])
         /\ DOMAIN Deposits[u] = 1 .. Len(Deposits[u])
         /\ Len(Deposits[u]) \in Nat
         /\ \A i \in 1 .. Len(Deposits[u]) :
              /\ Deposits[u][i].amount \in Nat \ {0}
              /\ Deposits[u][i].starting_epoch \in 0 .. CurrentEpochIndex
              /\ Deposits[u][i].time \in 0 .. now
  <1>1. Deposits[u] \in Seq(DepositRecords)
    BY DEF TypeOK
  <1>2. \A i \in 1 .. Len(Deposits[u]) : Deposits[u][i] \in DepositRecords
    BY <1>1
  <1>3. /\ Len(Deposits[u]) \in Nat
        /\ DOMAIN Deposits[u] = 1 .. Len(Deposits[u])
    BY <1>1
  <1>4. \A i \in 1 .. Len(Deposits[u]) :
              /\ Deposits[u][i].amount \in Nat \ {0}
              /\ Deposits[u][i].starting_epoch \in 0 .. CurrentEpochIndex
              /\ Deposits[u][i].time \in 0 .. now
    BY <1>2 DEF DepositRecords
  <1> QED  BY <1>3, <1>4 DEF IsDepositList

\* The stakes that the abstract vault sees are naturals, within the recorded
\* total, and positive for a user with deposits.
LEMMA StakesInTotal ==
  ASSUME TypeOK, StakeAccounted
  PROVE  /\ StakeOfUser \in [Users -> Nat]
         /\ \A u \in Users : /\ StakeOfUser[u] = StakeOf(Deposits[u])
                             /\ StakeOfUser[u] <= StakedBalance
                             /\ Deposits[u] # <<>> => StakeOfUser[u] > 0
  <1>1. \A u \in Users : IsDepositList(Deposits[u])
    BY DepositsAreLists
  <1>2. StakeOfUser \in [Users -> Nat]
    BY <1>1, StakeOfFacts DEF StakeOfUser
  <1>3. \A u \in Users : StakeOfUser[u] <= StakedBalance
    BY <1>2, SimpleAssumption, TotalBounds DEF StakeAccounted
  <1>4. ASSUME NEW u \in Users, Deposits[u] # <<>> PROVE StakeOfUser[u] > 0
    <2>1. Deposits[u] \in Seq(DepositRecords)
      BY DEF TypeOK
    <2>2. 1 \in DOMAIN Deposits[u] /\ Deposits[u][1].amount \in Nat \ {0}
      BY <1>4, <2>1, DepositsAreLists
    <2>3. Deposits[u][1].amount <= StakeOf(Deposits[u]) /\ StakeOf(Deposits[u]) \in Nat
      BY <1>1, <2>2, StakeOfFacts
    <2> QED  BY <2>2, <2>3 DEF StakeOfUser
  <1> QED  BY <1>2, <1>3, <1>4 DEF StakeOfUser

\* The yield of an epoch and of a deposit is an integer, whatever the owner set.
LEMMA YieldInt ==
  ASSUME TypeOK, NEW u \in Users, NEW i \in 1 .. Len(Deposits[u])
  PROVE  /\ \A e \in Deposits[u][i].starting_epoch .. CurrentEpochIndex :
              EpochYield(Deposits[u][i], e) \in Int
         /\ calculateYield(Deposits[u][i]) \in Int
  <1>1. /\ CurrentEpochIndex \in Nat /\ now \in Nat
        /\ \A k \in 0 .. CurrentEpochIndex :
             Epochs[k].time \in Int /\ Epochs[k].emission_rate_per_tau \in Int
    BY DEF TypeOK
  <1>2. /\ Deposits[u][i].amount \in Int
        /\ Deposits[u][i].starting_epoch \in 0 .. CurrentEpochIndex
        /\ Deposits[u][i].time \in Int
    BY <1>1, DepositsAreLists
  <1>3. \A t \in Int : fitTimeToRange(t) \in Int
    BY DEF fitTimeToRange, TypeOK
  <1>4. ASSUME NEW e \in Deposits[u][i].starting_epoch .. CurrentEpochIndex
        PROVE  EpochYield(Deposits[u][i], e) \in Int
    <2> DEFINE d == Deposits[u][i]
               from == IF e = d.starting_epoch THEN d.time ELSE Epochs[e].time
               to   == IF e = CurrentEpochIndex THEN now ELSE Epochs[e + 1].time
    <2>1. /\ e \in 0 .. CurrentEpochIndex
          /\ e # CurrentEpochIndex => e + 1 \in 0 .. CurrentEpochIndex
      BY <1>1, <1>2
    <2>2. from \in Int /\ to \in Int
      BY <1>1, <1>2, <2>1
    <2>3. TicksStaked(d, e) = fitTimeToRange(to) - fitTimeToRange(from)
      BY DEF TicksStaked
    <2>4. d.amount \in Int /\ Epochs[e].emission_rate_per_tau \in Int
      BY <1>1, <1>2, <2>1
    <2> HIDE DEF d, from, to
    <2>5. TicksStaked(d, e) \in Int
      BY <1>3, <2>2, <2>3
    <2>6. EpochYield(d, e) \in Int
      BY <2>4, <2>5 DEF EpochYield
    <2> QED  BY <2>6 DEF d
  <1>5. calculateYield(Deposits[u][i]) \in Int
    <2> DEFINE a == Deposits[u][i].starting_epoch
               F == [e \in a .. CurrentEpochIndex |-> EpochYield(Deposits[u][i], e)]
    <2>1. a \in Int /\ CurrentEpochIndex \in Int /\ a - 1 <= CurrentEpochIndex
      BY <1>1, <1>2
    <2>2. \A e \in a .. CurrentEpochIndex : F[e] \in Int
      BY <1>4
    <2> HIDE DEF a, F
    <2>3. SumRange(F, a, CurrentEpochIndex) \in Int
      BY <2>1, <2>2, SumRangeInt
    <2> QED  BY <2>3 DEF calculateYield, a, F
  <1> QED  BY <1>4, <1>5

\* So is what a user has earned, less what was paid.
LEMMA HarvestableInt ==
  ASSUME TypeOK, NEW u \in Users
  PROVE  Accrued(u) \in Int /\ Harvestable(u) \in Int
  <1>1. DOMAIN Deposits[u] = 1 .. Len(Deposits[u]) /\ Len(Deposits[u]) \in Nat
    BY DepositsAreLists
  <1> DEFINE F == [i \in DOMAIN Deposits[u] |-> calculateYield(Deposits[u][i])]
  <1>2. \A i \in 1 .. Len(Deposits[u]) : F[i] \in Int
    BY <1>1, YieldInt
  <1> HIDE DEF F
  <1>3. SumRange(F, 1, Len(Deposits[u])) \in Int
    BY <1>1, <1>2, SumRangeInt, 1 \in Int, Len(Deposits[u]) \in Int, 1 - 1 <= Len(Deposits[u])
  <1>4. Withdrawals[u] \in Int
    BY DEF TypeOK
  <1> QED  BY <1>3, <1>4 DEF Accrued, Harvestable, F

\* Paying a yield never overdraws the contract at the yield token.
LEMMA PayYieldType ==
  ASSUME TypeOK, NEW u \in Users, NEW y \in Int, PayYield(u, y)
  PROVE  yieldBalances' \in [Accounts -> Nat]
  <1> DEFINE dev == DevShare(y)
             wallet == settings.DevRewardWallet
  <1>1. /\ yieldBalances \in [Accounts -> Nat]
        /\ wallet \in Accounts /\ u \in Accounts /\ This \in Accounts
    BY DEF TypeOK, Accounts
  <1>2. dev \in Int
    <2>1. settings.DevRewardPct \in Int
      BY SimpleAssumption DEF TypeOK
    <2> QED  BY <2>1, SimpleAssumption DEF DevShare
  <1>3. DevPaid(y) \in [Accounts -> Nat]
    BY <1>1, <1>2, AccountsFinite, MoveKeepsSupply DEF PayYield, CanPayYield, DevPaid
  <1>4. CanTransfer(DevPaid(y), This, y - dev)
    BY DEF PayYield, CanPayYield
  <1>5. Move(DevPaid(y), This, u, y - dev) \in [Accounts -> Nat]
    BY <1>1, <1>2, <1>3, <1>4, AccountsFinite, MoveKeepsSupply
  <1> QED  BY <1>5 DEF PayYield

-----------------------------------------------------------------------------
(* Steps that leave principal alone *)

\* A call that leaves deposits and staking token alone leaves the accounting.
LEMMA PrincipalUntouched ==
  ASSUME StakeAccounted, VaultHolds, UNCHANGED <<Deposits, StakedBalance, stakingBalances>>
  PROVE  StakeAccounted' /\ VaultHolds'
  <1>1. StakeOfUser' = StakeOfUser
    BY DEF StakeOfUser, StakeOf
  <1> QED  BY <1>1 DEF StakeAccounted, VaultHolds

\* The owner's setters and meta fields.
LEMMA SettersPreserve ==
  ASSUME IInv, NEW caller \in Admins,
         \/ \E vk \in Admins : setOwner(caller, vk) \/ setDevWallet(caller, vk)
         \/ \E pct \in Pcts : setDevRewardPct(caller, pct)
         \/ \E is_open \in OpenChoices : allowStaking(caller, is_open)
         \/ \E t \in StartTimes : setStartTime(caller, t)
         \/ \E t \in EndTimes : setEndTime(caller, t)
         \/ \E value \in MetaValues : updateMeta(caller, value)
  PROVE  IInv'
  <1>1. UNCHANGED <<epochs, stakes, tokens, now>>
    BY DEF setOwner, setDevWallet, setDevRewardPct, allowStaking, setStartTime,
           setEndTime, updateMeta, Store
  <1>2. settings' \in [Owner : Admins, DevRewardWallet : Admins, DevRewardPct : 0 .. PctBase - 1,
                       StartTime : Nat, EndTime : Nat, OpenForBusiness : BOOLEAN]
    <2>1. \A pct \in Pcts : pct < PctBase /\ pct >= 0 => pct \in 0 .. PctBase - 1
      BY SimpleAssumption
    <2> QED  BY ZenonT(60), <2>1, SimpleAssumption
                DEF IInv, TypeOK, setOwner, setDevWallet, setDevRewardPct, allowStaking,
                    setStartTime, setEndTime, updateMeta, Store
  <1>3. TypeOK'
    BY <1>1, <1>2 DEF IInv, TypeOK, DepositRecords, epochs, stakes, tokens
  <1> QED  BY <1>1, <1>3, PrincipalUntouched DEF IInv, stakes, tokens

\* A new epoch: its rate holds from now on, and no deposit is touched.
LEMMA IncrementEpochPreserves ==
  ASSUME IInv, NEW caller \in Admins, NEW rate \in Rates, incrementEpoch(caller, rate)
  PROVE  IInv'
  <1>1. /\ CurrentEpochIndex \in Nat /\ now \in Nat
        /\ Deposits \in [Users -> Seq(DepositRecords)]
        /\ Epochs \in [0 .. CurrentEpochIndex ->
                         [time : 0 .. now, emission_rate_per_tau : Nat \ {0}]]
    BY DEF IInv, TypeOK
  <1>2. /\ rate \in Nat \ {0} /\ EmissionRatePerTauYearly' = rate
        /\ CurrentEpochIndex' = CurrentEpochIndex + 1
        /\ Epochs' = [e \in 0 .. CurrentEpochIndex + 1 |->
                        IF e = CurrentEpochIndex + 1
                          THEN [time |-> now, emission_rate_per_tau |-> rate]
                          ELSE Epochs[e]]
        /\ UNCHANGED <<settings, stakes, tokens, now>>
    BY SimpleAssumption DEF incrementEpoch
  <1>3. Deposits' \in [Users -> Seq(DepositRecords')]
    <2>1. DepositRecords \subseteq DepositRecords'
      BY <1>1, <1>2 DEF DepositRecords
    <2>2. Seq(DepositRecords) \subseteq Seq(DepositRecords')
      BY <2>1
    <2> QED  BY <1>1, <1>2, <2>2 DEF stakes
  <1>4. Epochs' \in [0 .. CurrentEpochIndex' ->
                       [time : 0 .. now', emission_rate_per_tau : Nat \ {0}]]
    <2>1. now' = now /\ now \in 0 .. now
      BY <1>1, <1>2
    <2> QED  BY <1>1, <1>2, <2>1
  <1>5. TypeOK'
    BY SMTT(30), <1>1, <1>2, <1>3, <1>4 DEF IInv, TypeOK, stakes, tokens
  <1> QED  BY <1>2, <1>5, PrincipalUntouched DEF IInv, stakes, tokens

\* Transfers of the yield token: recoveries, refills and harvests.
LEMMA YieldMovesPreserve ==
  ASSUME IInv,
         \/ \E caller \in Admins, amount \in RecoverAmounts :
              recoverYieldToken(caller, amount)
         \/ \E from \in Admins, amount \in FundAmounts : fundPool(from, amount)
         \/ \E user \in Users, amount \in HarvestAmounts : withdrawYield(user, amount)
  PROVE  IInv'
  <1>1. /\ TypeOK /\ StakeAccounted /\ VaultHolds
        /\ yieldBalances \in [Accounts -> Nat] /\ settings.Owner \in Accounts
        /\ This \in Accounts /\ Admins \subseteq Accounts
        /\ Withdrawals \in [Users -> Nat]
    BY DEF IInv, TypeOK, Accounts
  <1>2. UNCHANGED <<settings, epochs, Deposits, StakedBalance,
                    stakingBalances, stakingApprovals, now>>
    BY DEF recoverYieldToken, fundPool, withdrawYield, stakes
  <1>3. yieldBalances' \in [Accounts -> Nat] /\ Withdrawals' \in [Users -> Nat]
    <2>1. CASE \E caller \in Admins, amount \in RecoverAmounts :
                 recoverYieldToken(caller, amount)
      <3>1. PICK amount \in RecoverAmounts :
              /\ CanTransfer(yieldBalances, This, amount)
              /\ yieldBalances' = Move(yieldBalances, This, settings.Owner, amount)
              /\ Withdrawals' = Withdrawals
        BY <2>1 DEF recoverYieldToken, stakes
      <3> QED  BY <1>1, <3>1, SimpleAssumption, AccountsFinite, MoveKeepsSupply
    <2>2. CASE \E from \in Admins, amount \in FundAmounts : fundPool(from, amount)
      <3>1. PICK from \in Admins, amount \in FundAmounts :
              /\ CanTransfer(yieldBalances, from, amount)
              /\ yieldBalances' = Move(yieldBalances, from, This, amount)
              /\ Withdrawals' = Withdrawals
        BY <2>2 DEF fundPool, stakes
      <3> QED  BY <1>1, <3>1, SimpleAssumption, AccountsFinite, MoveKeepsSupply
    <2>3. CASE \E user \in Users, amount \in HarvestAmounts : withdrawYield(user, amount)
      <3>1. PICK user \in Users, amount \in HarvestAmounts : withdrawYield(user, amount)
        BY <2>3
      <3> DEFINE y == IF amount < Harvestable(user) THEN amount ELSE Harvestable(user)
      <3>2. y \in Int
        BY <1>1, HarvestableInt, SimpleAssumption
      <3>3. /\ y > 0 /\ PayYield(user, y)
            /\ Withdrawals' = [Withdrawals EXCEPT ![user] = @ + y]
        BY <3>1 DEF withdrawYield, countHarvest
      <3> HIDE DEF y
      <3>4. yieldBalances' \in [Accounts -> Nat]
        BY <1>1, <3>2, <3>3, PayYieldType
      <3> QED  BY <1>1, <3>2, <3>3, <3>4
    <2> QED  BY <2>1, <2>2, <2>3
  <1>4. TypeOK'
    BY <1>1, <1>2, <1>3 DEF TypeOK, DepositRecords, epochs
  <1> QED  BY <1>1, <1>2, <1>4, PrincipalUntouched DEF IInv

\* Approvals and the clock.
LEMMA ApproveAndClockPreserve ==
  ASSUME IInv, NextBlock \/ \E user \in Users, amount \in StakeAmounts : approve(user, amount)
  PROVE  IInv'
  <1>1. CASE NextBlock
    <2>1. /\ UNCHANGED <<settings, epochs, stakes, tokens>>
          /\ now \in Nat /\ now' = now + 1
      BY <1>1 DEF NextBlock, IInv, TypeOK
    <2>2. Deposits' \in [Users -> Seq(DepositRecords')]
      <3>1. DepositRecords \subseteq DepositRecords'
        BY <2>1 DEF DepositRecords, epochs
      <3>2. Seq(DepositRecords) \subseteq Seq(DepositRecords')
        BY <3>1
      <3> QED  BY <2>1, <3>2 DEF IInv, TypeOK, stakes
    <2>3. Epochs' \in [0 .. CurrentEpochIndex' ->
                         [time : 0 .. now', emission_rate_per_tau : Nat \ {0}]]
      BY <2>1 DEF IInv, TypeOK, epochs
    <2>4. TypeOK'
      BY SMTT(30), <2>1, <2>2, <2>3 DEF IInv, TypeOK, epochs, stakes, tokens
    <2> QED  BY <2>1, <2>4, PrincipalUntouched DEF IInv, stakes, tokens
  <1>2. CASE \E user \in Users, amount \in StakeAmounts : approve(user, amount)
    <2>1. UNCHANGED <<settings, epochs, stakes, stakingBalances, yieldBalances, now>>
      BY <1>2 DEF approve
    <2>2. stakingApprovals' \in [Users -> Nat]
      BY SMTT(30), <1>2, SimpleAssumption DEF approve, IInv, TypeOK
    <2>3. TypeOK'
      BY <2>1, <2>2 DEF IInv, TypeOK, DepositRecords, epochs, stakes
    <2> QED  BY <2>1, <2>3, PrincipalUntouched DEF IInv, stakes
  <1> QED  BY <1>1, <1>2

-----------------------------------------------------------------------------
(* Entries and exits *)

\* What an entry does to the lists and to the stakes they hold.
LEMMA EntryStakes ==
  ASSUME IInv, NEW user \in Users, NEW amount \in StakeAmounts,
         addStakingTokens(user, amount)
  PROVE  /\ amount \in Nat \ {0}
         /\ StakeOfUser' = [StakeOfUser EXCEPT ![user] = @ + amount]
         /\ Deposits' \in [Users -> Seq(DepositRecords)]
  <1> DEFINE s == Deposits[user]
             d == [starting_epoch |-> CurrentEpochIndex, time |-> now, amount |-> amount]
  <1>1. /\ TypeOK /\ CurrentEpochIndex \in Nat /\ now \in Nat
        /\ Deposits \in [Users -> Seq(DepositRecords)]
    BY DEF IInv, TypeOK
  <1>2. amount \in Nat \ {0} /\ Deposits' = [Deposits EXCEPT ![user] = Append(s, d)]
    BY SimpleAssumption DEF addStakingTokens, CanTransferFrom
  <1>3. s \in Seq(DepositRecords) /\ d \in DepositRecords /\ d.amount = amount
    <2>1. s \in Seq(DepositRecords)
      BY <1>1
    <2>2. d \in DepositRecords /\ d.amount = amount
      BY <1>1, <1>2 DEF DepositRecords
    <2> QED  BY <2>1, <2>2
  <1>4. Deposits'[user] = Append(s, d) /\ \A u \in Users \ {user} : Deposits'[u] = Deposits[u]
    BY <1>1, <1>2
  <1>5. IsDepositList(s)
    BY <1>1, DepositsAreLists
  <1> HIDE DEF s, d
  <1>6. /\ Append(s, d) \in Seq(DepositRecords)
        /\ DOMAIN Append(s, d) = 1 .. Len(s) + 1
        /\ Len(Append(s, d)) = Len(s) + 1
        /\ \A i \in 1 .. Len(s) : Append(s, d)[i] = s[i]
        /\ Append(s, d)[Len(s) + 1] = d
    BY <1>3
  <1>7. StakeOf(Append(s, d)) = StakeOf(s) + amount
    BY <1>3, <1>5, <1>6, StakeOfAppend
  <1>8. StakeOfUser' = [u \in Users |-> StakeOf(Deposits'[u])]
    BY DEF StakeOfUser, StakeOf
  <1>9. Deposits' \in [Users -> Seq(DepositRecords)]
    BY <1>1, <1>2, <1>6
  <1> QED  BY <1>2, <1>4, <1>7, <1>8, <1>9 DEF StakeOfUser, s

\* What either exit does to the lists and to the stakes they hold.
LEMMA ExitStakes ==
  ASSUME IInv, NEW user \in Users, returnStake(user, StakeOf(Deposits[user]))
  PROVE  /\ StakeOfUser' = [StakeOfUser EXCEPT ![user] = 0]
         /\ Deposits' \in [Users -> Seq(DepositRecords)]
  <1>1. Deposits \in [Users -> Seq(DepositRecords)]
    BY DEF IInv, TypeOK
  <1>2. Deposits' = [Deposits EXCEPT ![user] = <<>>] /\ <<>> \in Seq(DepositRecords)
    BY DEF returnStake
  <1>3. StakeOfUser' = [u \in Users |-> StakeOf(Deposits'[u])]
    BY DEF StakeOfUser, StakeOf
  <1>4. StakeOfUser' = [StakeOfUser EXCEPT ![user] = 0]
    BY <1>1, <1>2, <1>3, StakeOfFacts DEF StakeOfUser
  <1> QED  BY <1>1, <1>2, <1>4

\* The total of the stakes follows the entry that a step changes.
LEMMA StakesFollow ==
  ASSUME TypeOK, StakeAccounted, NEW user \in Users, NEW new \in Nat,
         StakeOfUser' = [StakeOfUser EXCEPT ![user] = new],
         StakedBalance' = StakedBalance - StakeOfUser[user] + new
  PROVE  StakeAccounted' /\ StakedBalance' \in Nat
  <1> DEFINE f == StakeOfUser
             g == [StakeOfUser EXCEPT ![user] = new]
  <1>1. /\ f \in [Users -> Nat] /\ g \in [Users -> Nat] /\ g[user] = new
        /\ \A u \in Users \ {user} : g[u] = f[u]
    BY StakesInTotal
  <1>2. Total(StakeOfUser) = StakedBalance /\ Total(StakeOfUser') = Total(g)
    BY DEF StakeAccounted
  <1> HIDE DEF g
  <1>3. Total(g) = Total(f) - f[user] + g[user] /\ Total(g) \in Nat
    BY <1>1, SimpleAssumption, TotalUpdate, TotalBounds
  <1>4. StakedBalance' = Total(StakeOfUser')
    BY <1>1, <1>2, <1>3
  <1> QED  BY <1>2, <1>3, <1>4 DEF StakeAccounted

\* A deposit keeps the invariant.
LEMMA EntryPreserves ==
  ASSUME IInv, NEW user \in Users, NEW amount \in StakeAmounts,
         addStakingTokens(user, amount)
  PROVE  IInv'
  <1>1. /\ TypeOK /\ StakeAccounted /\ VaultHolds /\ amount \in Nat \ {0}
        /\ StakeOfUser' = [StakeOfUser EXCEPT ![user] = @ + amount]
    BY EntryStakes DEF IInv
  <1>2. /\ CanTransfer(stakingBalances, user, amount)
        /\ stakingBalances' = Move(stakingBalances, user, This, amount)
        /\ stakingApprovals' = [stakingApprovals EXCEPT ![user] = @ - amount]
        /\ stakingApprovals[user] >= amount
        /\ StakedBalance' = StakedBalance + amount
        /\ UNCHANGED <<settings, epochs, Withdrawals, yieldBalances, now>>
    BY DEF addStakingTokens, CanTransferFrom, CanTransfer
  <1>3. /\ stakingBalances \in [Accounts -> Nat] /\ user \in Accounts /\ This \in Accounts
        /\ user # This /\ StakedBalance \in Nat
        /\ StakeOfUser[user] \in Nat
    BY <1>1, SimpleAssumption, StakesInTotal DEF TypeOK, Accounts
  <1>4. stakingBalances' \in [Accounts -> Nat]
    BY <1>1, <1>2, <1>3, AccountsFinite, MoveKeepsSupply
  <1>5. VaultHolds'
    <2>1. stakingBalances'[This] = stakingBalances[This] + amount
      BY <1>2, <1>3 DEF Move
    <2> QED  BY <1>1, <1>2, <1>3, <2>1 DEF VaultHolds
  <1>6. StakeAccounted' /\ StakedBalance' \in Nat
    <2> DEFINE new == StakeOfUser[user] + amount
    <2>1. new \in Nat /\ StakeOfUser' = [StakeOfUser EXCEPT ![user] = new]
      BY <1>1, <1>3
    <2>2. StakedBalance' = StakedBalance - StakeOfUser[user] + new
      BY <1>1, <1>2, <1>3
    <2> HIDE DEF new
    <2> QED  BY <1>1, <2>1, <2>2, StakesFollow
  <1>7. stakingApprovals' \in [Users -> Nat]
    BY <1>1, <1>2 DEF TypeOK
  <1>8. Deposits' \in [Users -> Seq(DepositRecords')]
    BY <1>2, EntryStakes DEF DepositRecords, epochs
  <1>9. TypeOK'
    BY <1>1, <1>2, <1>4, <1>6, <1>7, <1>8 DEF TypeOK, epochs
  <1> QED  BY <1>5, <1>6, <1>9 DEF IInv

\* Either exit keeps the invariant.
LEMMA ExitsPreserve ==
  ASSUME IInv, NEW user \in Users, withdrawTokensAndYield(user) \/ emergencyReturnStake(user)
  PROVE  IInv'
  <1> DEFINE stake == StakeOf(Deposits[user])
  <1>1. TypeOK /\ StakeAccounted /\ VaultHolds
    BY DEF IInv
  <1>2. returnStake(user, stake) /\ UNCHANGED <<settings, epochs, stakingApprovals, now>>
    BY DEF withdrawTokensAndYield, emergencyReturnStake
  <1>3. /\ StakeOfUser' = [StakeOfUser EXCEPT ![user] = 0]
        /\ StakeOfUser[user] = stake /\ stake \in Nat
        /\ Deposits' \in [Users -> Seq(DepositRecords)]
    BY <1>1, <1>2, ExitStakes, StakesInTotal
  <1>4. yieldBalances' \in [Accounts -> Nat]
    <2>1. CASE emergencyReturnStake(user)
      BY <1>1, <2>1 DEF emergencyReturnStake, TypeOK
    <2>2. CASE withdrawTokensAndYield(user)
      <3>1. \/ Harvestable(user) > 0 /\ PayYield(user, Harvestable(user))
            \/ UNCHANGED yieldBalances
        BY <2>2 DEF withdrawTokensAndYield
      <3>2. Harvestable(user) \in Int
        BY <1>1, HarvestableInt
      <3>3. yieldBalances \in [Accounts -> Nat]
        BY <1>1 DEF TypeOK
      <3> QED  BY <1>1, <3>1, <3>2, <3>3, PayYieldType
    <2> QED  BY <2>1, <2>2
  <1> HIDE DEF stake
  <1>5. /\ CanTransfer(stakingBalances, This, stake)
        /\ stakingBalances' = Move(stakingBalances, This, user, stake)
        /\ Withdrawals' = [Withdrawals EXCEPT ![user] = 0]
        /\ StakedBalance' = StakedBalance - stake
    BY <1>2 DEF returnStake
  <1>6. /\ stakingBalances \in [Accounts -> Nat] /\ user \in Accounts /\ This \in Accounts
        /\ user # This /\ StakedBalance \in Nat
    BY <1>1, SimpleAssumption DEF TypeOK, Accounts
  <1>7. stakingBalances' \in [Accounts -> Nat]
    BY <1>3, <1>5, <1>6, AccountsFinite, MoveKeepsSupply
  <1>8. VaultHolds'
    <2>1. stakingBalances'[This] = stakingBalances[This] - stake
      BY <1>3, <1>5, <1>6 DEF Move
    <2> QED  BY <1>1, <1>3, <1>5, <1>6, <2>1 DEF VaultHolds
  <1>9. StakeAccounted' /\ StakedBalance' \in Nat
    <2>1. StakedBalance' = StakedBalance - StakeOfUser[user] + 0 /\ 0 \in Nat
      BY <1>3, <1>5, <1>6
    <2> QED  BY <1>1, <1>3, <2>1, StakesFollow
  <1>10. Withdrawals' \in [Users -> Nat]
    BY <1>1, <1>5 DEF TypeOK
  <1>11. Deposits' \in [Users -> Seq(DepositRecords')]
    BY <1>2, <1>3 DEF DepositRecords, epochs
  <1>12. TypeOK'
    BY <1>1, <1>2, <1>4, <1>7, <1>9, <1>10, <1>11 DEF TypeOK, epochs
  <1> QED  BY <1>8, <1>9, <1>12 DEF IInv

-----------------------------------------------------------------------------
(* The theorems *)

\* The invariant holds at the start.
LEMMA InitIInv == Init => IInv
  <1> SUFFICES ASSUME Init PROVE IInv
    OBVIOUS
  <1>1. TypeOK
    <2>1. Deposits \in [Users -> Seq(DepositRecords)]
      BY DEF Init
    <2>2. Epochs \in [0 .. CurrentEpochIndex -> [time : 0 .. now, emission_rate_per_tau : Nat \ {0}]]
      BY SimpleAssumption DEF Init
    <2> QED  BY <2>1, <2>2, SimpleAssumption DEF Init, TypeOK, Accounts
  <1>2. \A u \in Users : StakeOfUser[u] = 0
    BY StakeOfFacts DEF Init, StakeOfUser
  <1>3. StakeAccounted
    BY <1>2, TotalZero DEF Init, StakeAccounted, StakeOfUser
  <1>4. VaultHolds
    BY SimpleAssumption DEF Init, VaultHolds, Accounts
  <1> QED  BY <1>1, <1>3, <1>4 DEF IInv

\* Every call keeps the invariant.
LEMMA NextIInv == IInv /\ [Next]_vars => IInv'
  <1> SUFFICES ASSUME IInv, [Next]_vars PROVE IInv'
    OBVIOUS
  <1>1. CASE UserStep
    <2>1. PICK user \in Users :
            \/ \E amount \in StakeAmounts : approve(user, amount)
            \/ \E amount \in StakeAmounts : addStakingTokens(user, amount)
            \/ \E amount \in HarvestAmounts : withdrawYield(user, amount)
            \/ withdrawTokensAndYield(user)
            \/ emergencyReturnStake(user)
      BY <1>1 DEF UserStep
    <2>2. CASE \E amount \in StakeAmounts : approve(user, amount)
      BY <2>2, ApproveAndClockPreserve
    <2>3. CASE \E amount \in StakeAmounts : addStakingTokens(user, amount)
      BY <2>3, EntryPreserves
    <2>4. CASE \E amount \in HarvestAmounts : withdrawYield(user, amount)
      BY <2>4, YieldMovesPreserve
    <2>5. CASE withdrawTokensAndYield(user) \/ emergencyReturnStake(user)
      BY <2>5, ExitsPreserve
    <2> QED  BY <2>1, <2>2, <2>3, <2>4, <2>5
  <1>2. CASE OwnerStep
    <2>1. PICK caller \in Admins :
            \/ \E rate \in Rates : incrementEpoch(caller, rate)
            \/ \E amount \in RecoverAmounts : recoverYieldToken(caller, amount)
            \/ \/ \E vk \in Admins : setOwner(caller, vk) \/ setDevWallet(caller, vk)
               \/ \E pct \in Pcts : setDevRewardPct(caller, pct)
               \/ \E is_open \in OpenChoices : allowStaking(caller, is_open)
               \/ \E t \in StartTimes : setStartTime(caller, t)
               \/ \E t \in EndTimes : setEndTime(caller, t)
               \/ \E value \in MetaValues : updateMeta(caller, value)
      BY <1>2 DEF OwnerStep
    <2>2. CASE \E rate \in Rates : incrementEpoch(caller, rate)
      BY <2>2, IncrementEpochPreserves
    <2>3. CASE \E amount \in RecoverAmounts : recoverYieldToken(caller, amount)
      BY <2>3, YieldMovesPreserve
    <2> QED  BY <2>1, <2>2, <2>3, SettersPreserve
  <1>3. CASE FundStep
    BY <1>3, YieldMovesPreserve DEF FundStep
  <1>4. CASE NextBlock
    BY <1>4, ApproveAndClockPreserve
  <1>5. CASE UNCHANGED vars
    BY <1>5, PrincipalUntouched DEF vars, epochs, stakes, tokens, IInv, TypeOK, DepositRecords
  <1> QED  BY <1>1, <1>2, <1>3, <1>4, <1>5 DEF Next

\* The inductive invariant holds in every reachable state of the contract.
THEOREM Inductive == Spec => []IInv
  BY InitIInv, NextIInv, PTL DEF Spec

\* Type correctness, for every number of users, amount and rate: no balance,
\* approval, recorded total or count of paid yield ever goes below 0, and no
\* deposit names an epoch or a time to come.
THEOREM TypeCorrect == Spec => []TypeOK
  <1>1. IInv => TypeOK
    BY DEF IInv
  <1> QED  BY <1>1, Inductive, PTL

\* The running total and the deposit records agree, whichever exit was taken.
THEOREM StakeIsAccounted == Spec => []StakeAccounted
  <1>1. IInv => StakeAccounted
    BY DEF IInv
  <1> QED  BY <1>1, Inductive, PTL

\* Neither exit ever has to refuse a user's stake: the contract's account at
\* the staking token holds all that it owes, and what it owes a user with
\* deposits is a positive amount, as the transfer asserts.
THEOREM StakeIsReturnable == Spec => []StakeReturnable
  <1>1. ASSUME IInv PROVE StakeReturnable
    <2>1. /\ TypeOK /\ StakeAccounted /\ stakingBalances[This] >= StakedBalance
          /\ stakingBalances[This] \in Nat /\ StakedBalance \in Nat
      BY <1>1 DEF IInv, VaultHolds, TypeOK, Accounts
    <2>2. ASSUME NEW u \in Users, Deposits[u] # <<>>
          PROVE  CanTransfer(stakingBalances, This, StakeOf(Deposits[u]))
      <3>1. /\ StakeOf(Deposits[u]) \in Nat /\ StakeOf(Deposits[u]) > 0
            /\ StakeOf(Deposits[u]) <= StakedBalance
        BY <2>1, <2>2, StakesInTotal
      <3> QED  BY <2>1, <3>1 DEF CanTransfer
    <2> QED  BY <2>1, <2>2 DEF StakeReturnable
  <1> QED  BY <1>1, Inductive, PTL

-----------------------------------------------------------------------------
(* The refinement *)

\* A step that leaves the deposit records and the recorded total alone is a
\* stuttering step of the abstract vault.
LEMMA VaultStutters ==
  ASSUME UNCHANGED <<Deposits, StakedBalance>>
  PROVE  UNCHANGED Vault!vaultVars
  BY DEF Vault!vaultVars, StakeOfUser, StakeOf

\* An entry is PutIn of the abstract vault.
LEMMA EntryIsPutIn ==
  ASSUME IInv, NEW user \in Users, NEW amount \in StakeAmounts,
         addStakingTokens(user, amount)
  PROVE  Vault!PutIn(user, amount)
  <1>1. amount > 0 /\ StakedBalance' = StakedBalance + amount
    BY DEF addStakingTokens, CanTransferFrom
  <1> QED  BY <1>1, EntryStakes DEF Vault!PutIn

\* Both exits are TakeAll of the abstract vault.
LEMMA ExitIsTakeAll ==
  ASSUME IInv, NEW user \in Users, withdrawTokensAndYield(user) \/ emergencyReturnStake(user)
  PROVE  Vault!TakeAll(user)
  <1>1. returnStake(user, StakeOf(Deposits[user]))
    BY DEF withdrawTokensAndYield, emergencyReturnStake
  <1>2. /\ StakeOf(Deposits[user]) > 0
        /\ StakedBalance' = StakedBalance - StakeOf(Deposits[user])
        /\ StakeOfUser[user] = StakeOf(Deposits[user])
    BY <1>1, StakesInTotal DEF returnStake, CanTransfer, IInv
  <1> QED  BY <1>1, <1>2, ExitStakes DEF Vault!TakeAll

\* Every step of the contract is a step of the abstract vault or a stutter.
LEMMA NextIsVaultNext ==
  ASSUME IInv, [Next]_vars
  PROVE  [Vault!VaultNext]_Vault!vaultVars
  <1>1. CASE \E user \in Users, amount \in StakeAmounts : addStakingTokens(user, amount)
    BY <1>1, EntryIsPutIn DEF Vault!VaultNext
  <1>2. CASE \E user \in Users : withdrawTokensAndYield(user) \/ emergencyReturnStake(user)
    BY <1>2, ExitIsTakeAll DEF Vault!VaultNext
  <1>3. CASE \/ \E user \in Users, amount \in StakeAmounts : approve(user, amount)
             \/ \E user \in Users, amount \in HarvestAmounts : withdrawYield(user, amount)
    BY <1>3, VaultStutters DEF approve, withdrawYield, stakes
  <1>4. CASE OwnerStep
    <2>1. UNCHANGED <<Deposits, StakedBalance>>
      BY <1>4 DEF OwnerStep, incrementEpoch, setOwner, setDevWallet, setDevRewardPct,
                  allowStaking, setStartTime, setEndTime, updateMeta, Store,
                  recoverYieldToken, stakes
    <2> QED  BY <2>1, VaultStutters
  <1>5. CASE FundStep \/ NextBlock \/ UNCHANGED vars
    <2>1. UNCHANGED <<Deposits, StakedBalance>>
      BY <1>5 DEF FundStep, fundPool, NextBlock, vars, stakes
    <2> QED  BY <2>1, VaultStutters
  <1> QED  BY <1>1, <1>2, <1>3, <1>4, <1>5 DEF Next, UserStep

\* The contract implements the abstract vault by either exit: users get into
\* the recorded total exactly what they put in, and get all of it back at once.
THEOREM KeepsTheStakes == Spec => KeepsStakes
  <1>1. Init => Vault!VaultInit
    BY StakeOfFacts DEF Init, Vault!VaultInit, StakeOfUser
  <1>2. IInv /\ [Next]_vars => [Vault!VaultNext]_Vault!vaultVars
    BY NextIsVaultNext
  <1> QED  BY <1>1, <1>2, Inductive, PTL DEF Spec, KeepsStakes, Vault!VaultSpec

-----------------------------------------------------------------------------
(* Yield *)

\* A sum of the two kinds of the tape is the sum of its entries.
LEMMA HarvestableSum ==
  ASSUME \A u \in Users : Harvestable(u) \in Int
  PROVE  MapThenSumSet(Harvestable, Users) = Net([u \in Users |-> Harvestable(u)], Users)
  <1> DEFINE f == [u \in Users |-> Harvestable(u)]
             Adds(iter) == iter = [s \in SUBSET Users |->
                             IF s = {} THEN 0
                             ELSE Harvestable(CHOOSE x \in s : TRUE)
                                    + iter[s \ {CHOOSE x \in s : TRUE}]]
             sum == CHOOSE iter : Adds(iter)
  <1>1. f \in [Users -> Int]
    OBVIOUS
  <1>2. ASSUME NEW iter PROVE Adds(iter) <=> IsSetSum(iter, f, Users)
    <2>1. \A s \in SUBSET Users : s # {} =>
            Harvestable(CHOOSE x \in s : TRUE) = f[CHOOSE x \in s : TRUE]
      OBVIOUS
    <2> HIDE DEF f
    <2> QED  BY <2>1 DEF IsSetSum
  <1> HIDE DEF f
  <1>3. Adds(sum)
    <2>1. \E iter : IsSetSum(iter, f, Users)
      BY <1>1, SimpleAssumption, NetSolves
    <2> HIDE DEF Adds
    <2> QED  BY <1>2, <2>1
  <1>4. sum[Users] = Net(f, Users)
    BY <1>1, <1>2, <1>3, SimpleAssumption, SetSumIsNet
  <1>5. MapThenSumSet(Harvestable, Users) = sum[Users]
    BY DEF MapThenSumSet, MapThenFoldSet
  <1> QED  BY <1>4, <1>5 DEF f

\* What all users earn in a tick is a sum of integers.
LEMMA TickSum ==
  ASSUME \A u \in Users : TickOf(u) \in Int
  PROVE  MapThenSumSet(TickOf, Users) = Net([u \in Users |-> TickOf(u)], Users)
  <1> DEFINE f == [u \in Users |-> TickOf(u)]
             Adds(iter) == iter = [s \in SUBSET Users |->
                             IF s = {} THEN 0
                             ELSE TickOf(CHOOSE x \in s : TRUE)
                                    + iter[s \ {CHOOSE x \in s : TRUE}]]
             sum == CHOOSE iter : Adds(iter)
  <1>1. f \in [Users -> Int]
    OBVIOUS
  <1>2. ASSUME NEW iter PROVE Adds(iter) <=> IsSetSum(iter, f, Users)
    <2>1. \A s \in SUBSET Users : s # {} =>
            TickOf(CHOOSE x \in s : TRUE) = f[CHOOSE x \in s : TRUE]
      OBVIOUS
    <2> HIDE DEF f
    <2> QED  BY <2>1 DEF IsSetSum
  <1> HIDE DEF f
  <1>3. Adds(sum)
    <2>1. \E iter : IsSetSum(iter, f, Users)
      BY <1>1, SimpleAssumption, NetSolves
    <2> HIDE DEF Adds
    <2> QED  BY <1>2, <2>1
  <1>4. sum[Users] = Net(f, Users)
    BY <1>1, <1>2, <1>3, SimpleAssumption, SetSumIsNet
  <1>5. MapThenSumSet(TickOf, Users) = sum[Users]
    BY DEF MapThenSumSet, MapThenFoldSet
  <1> QED  BY <1>4, <1>5 DEF f

\* A step that leaves the epochs, the clock, the range and a user's deposits
\* alone leaves what the user accrued.
LEMMA AccruedUntouched ==
  ASSUME UNCHANGED <<epochs, now>>, settings'.StartTime = settings.StartTime,
         settings'.EndTime = settings.EndTime,
         NEW u, Deposits'[u] = Deposits[u]
  PROVE  Accrued(u)' = Accrued(u)
  <1>1. ASSUME NEW d, NEW e PROVE EpochYield(d, e)' = EpochYield(d, e)
    BY DEF EpochYield, TicksStaked, fitTimeToRange, epochs
  <1>2. ASSUME NEW d PROVE calculateYield(d)' = calculateYield(d)
    BY <1>1 DEF calculateYield, epochs
  <1> QED  BY <1>2 DEF Accrued

\* Nothing was accrued by nobody's deposits.
LEMMA AccruedEmpty ==
  ASSUME NEW u, Deposits[u] = <<>>
  PROVE  Accrued(u) = 0
  BY SumRangeEmpty, 1 - 1 = 0 DEF Accrued

\* The rate in force is the current epoch's.
CurrentRate == Epochs[CurrentEpochIndex].emission_rate_per_tau = EmissionRatePerTauYearly

\* A tick adds the rate in force for the stake held, within the range.
LEMMA AccruedOnClock ==
  ASSUME TypeOK, CurrentRate, settings.StartTime <= settings.EndTime, NextBlock,
         NEW u \in Users
  PROVE  Accrued(u)' = Accrued(u) + TickOf(u)
  <1> DEFINE tick == IF InRange THEN 1 ELSE 0
             rate == EmissionRatePerTauYearly
             c == rate * tick
             C == CurrentEpochIndex
             n == Len(Deposits[u])
  <1>1. /\ C \in Nat /\ now \in Nat /\ now' = now + 1 /\ rate \in Int
        /\ settings.StartTime \in Nat /\ settings.EndTime \in Nat
        /\ Epochs[C].emission_rate_per_tau = rate
        /\ \A k \in 0 .. C : Epochs[k].time \in Int
        /\ UNCHANGED <<settings, epochs, Deposits>>
    BY DEF TypeOK, NextBlock, stakes, CurrentRate
  <1>2. /\ DOMAIN Deposits[u] = 1 .. n /\ n \in Nat
        /\ \A i \in 1 .. n : /\ Deposits[u][i].amount \in Int
                             /\ Deposits[u][i].starting_epoch \in 0 .. C
                             /\ Deposits[u][i].time \in Int
    BY <1>1, DepositsAreLists
  <1>3. /\ \A t \in Int : fitTimeToRange(t) \in Int
        /\ fitTimeToRange(now)' = fitTimeToRange(now) + tick
    <2>1. \A t \in Int : fitTimeToRange(t) \in Int
      BY <1>1 DEF fitTimeToRange
    <2>2. fitTimeToRange(now)' = fitTimeToRange(now) + tick
      BY <1>1 DEF fitTimeToRange, InRange
    <2> QED  BY <2>1, <2>2
  <1>4. ASSUME NEW d, d.amount \in Int, d.time \in Int, d.starting_epoch \in 0 .. C,
               NEW e \in d.starting_epoch .. C
        PROVE  /\ e # C => EpochYield(d, e)' = EpochYield(d, e)
               /\ e = C => EpochYield(d, e)' = EpochYield(d, e) + c * d.amount
    <2>1. ASSUME e # C PROVE EpochYield(d, e)' = EpochYield(d, e)
      <3>1. TicksStaked(d, e)' = TicksStaked(d, e)
        BY <1>1, <2>1 DEF TicksStaked, fitTimeToRange, epochs
      <3> QED  BY <1>1, <3>1 DEF EpochYield, epochs
    <2>2. ASSUME e = C PROVE EpochYield(d, e)' = EpochYield(d, e) + c * d.amount
      <3> DEFINE from == IF e = d.starting_epoch THEN d.time ELSE Epochs[e].time
                 x == fitTimeToRange(now)
                 y == fitTimeToRange(from)
      <3>1. from \in Int /\ e \in 0 .. C
        BY <1>1, <1>4
      <3>2. x \in Int /\ y \in Int
        BY <1>1, <1>3, <3>1
      <3>3. TicksStaked(d, e) = x - y
        BY <2>2 DEF TicksStaked
      <3>4. TicksStaked(d, e)' = fitTimeToRange(now)' - y
        BY <1>1, <2>2 DEF TicksStaked, fitTimeToRange, epochs
      <3>5. /\ EpochYield(d, e) = rate * d.amount * TicksStaked(d, e)
            /\ EpochYield(d, e)' = rate * d.amount * TicksStaked(d, e)'
        BY <1>1, <2>2 DEF EpochYield, epochs
      <3>6. tick \in {0, 1}
        OBVIOUS
      <3> HIDE DEF from, x, y, tick, rate
      <3>7. TicksStaked(d, e)' = TicksStaked(d, e) + tick /\ TicksStaked(d, e) \in Int
        BY <1>3, <3>2, <3>3, <3>4, <3>6 DEF x
      <3>8. \A p, q, r \in Int : \A z \in {0, 1} : p * q * (r + z) = p * q * r + (p * z) * q
        <4>1. \A p, q, r \in Int : p * q * (r + 0) = p * q * r + (p * 0) * q
          OBVIOUS
        <4>2. \A p, q, r \in Int : p * q * (r + 1) = p * q * r + (p * 1) * q
          OBVIOUS
        <4> QED  BY <4>1, <4>2
      <3> QED  BY <1>1, <1>4, <3>5, <3>6, <3>7, <3>8
    <2> QED  BY <2>1, <2>2
  <1>5. ASSUME NEW d, NEW i \in 1 .. n, d = Deposits[u][i]
        PROVE  calculateYield(d)' = calculateYield(d) + c * d.amount
    <2> DEFINE a == d.starting_epoch
               F == [e \in a .. C |-> EpochYield(d, e)]
               G == [e \in a .. C |-> EpochYield(d, e)']
    <2>1. a \in Int /\ C \in Int /\ a <= C /\ c * d.amount \in Int
      BY <1>1, <1>2, <1>5
    <2>2. /\ \A e \in a .. C - 1 : F[e] = G[e]
          /\ G[C] = F[C] + c * d.amount
      <3>1. d.amount \in Int /\ d.time \in Int /\ d.starting_epoch \in 0 .. C
        BY <1>2, <1>5
      <3> HIDE DEF c, C
      <3>2. \A e \in a .. C : /\ e # C => G[e] = F[e]
                              /\ e = C => G[e] = F[e] + c * d.amount
        BY <1>4, <3>1
      <3> HIDE DEF a, F, G
      <3> QED  BY <2>1, <3>2
    <2>3. \A e \in a .. C : F[e] \in Int
      BY <1>2, <1>5, YieldInt
    <2>4. calculateYield(d) = SumRange(F, a, C)
      BY DEF calculateYield
    <2>5. calculateYield(d)' = SumRange(G, a, C)
      BY <1>1 DEF calculateYield, epochs
    <2> HIDE DEF a, F, G, c, C
    <2>6. SumRange(F, a, C) = SumRange(F, a, C - 1) + F[C]
      BY <2>1, SumRangeLast
    <2>7. SumRange(G, a, C) = SumRange(G, a, C - 1) + G[C]
      BY <2>1, SumRangeLast
    <2>8. SumRange(F, a, C - 1) = SumRange(G, a, C - 1)
      BY <2>1, <2>2, SumRangeEqual, C - 1 \in Int, a - 1 <= C - 1
    <2>9. SumRange(F, a, C - 1) \in Int /\ F[C] \in Int
      BY <2>1, <2>3, SumRangeInt, C - 1 \in Int, a - 1 <= C - 1
    <2> QED  BY <2>1, <2>2, <2>4, <2>5, <2>6, <2>7, <2>8, <2>9
  <1> DEFINE F == [i \in 1 .. n |-> calculateYield(Deposits[u][i])]
             G == [i \in 1 .. n |-> calculateYield(Deposits[u][i])']
             A == [i \in 1 .. n |-> Deposits[u][i].amount]
  <1>6. /\ Accrued(u) = SumRange(F, 1, n)
        /\ Accrued(u)' = SumRange(G, 1, n)
        /\ StakeOf(Deposits[u]) = SumRange(A, 1, n)
    BY <1>1, <1>2 DEF Accrued, StakeOf
  <1>7. \A i \in 1 .. n : F[i] \in Int /\ A[i] \in Int /\ G[i] = F[i] + c * A[i]
    <2>1. ASSUME NEW i \in 1 .. n PROVE G[i] = F[i] + c * A[i]
      <3>1. PICK d : d = Deposits[u][i]
        OBVIOUS
      <3>2. calculateYield(d)' = calculateYield(d) + c * d.amount
        BY <1>5, <3>1
      <3>3. calculateYield(Deposits[u][i])' = calculateYield(d)'
        BY <1>1, <3>1
      <3> QED  BY <3>1, <3>2, <3>3
    <2> QED  BY <1>2, <2>1, YieldInt
  <1>8. c \in Int /\ 1 \in Int /\ n \in Int /\ 1 - 1 <= n
    BY <1>1, <1>2
  <1>9. TickOf(u) = c * StakeOf(Deposits[u])
    <2>1. StakeOf(Deposits[u]) \in Nat
      BY DepositsAreLists, StakeOfFacts
    <2>2. TickOf(u) = IF InRange THEN rate * StakeOf(Deposits[u]) ELSE 0
      BY <1>1 DEF TickOf
    <2>3. \A p, q \in Int : (p * 1) * q = p * q /\ (p * 0) * q = 0
      OBVIOUS
    <2> HIDE DEF rate
    <2> QED  BY <1>1, <2>1, <2>2, <2>3
  <1> HIDE DEF F, G, A, c, n
  <1>10. SumRange(G, 1, n) = SumRange(F, 1, n) + c * SumRange(A, 1, n)
    BY <1>7, <1>8, SumRangeScaled
  <1> QED  BY <1>6, <1>9, <1>10

\* Opening an epoch adds nothing: the old epoch ends where the new one starts.
LEMMA AccruedOnEpoch ==
  ASSUME TypeOK, NEW caller \in Admins, NEW rate \in Rates, incrementEpoch(caller, rate),
         NEW u \in Users
  PROVE  Accrued(u)' = Accrued(u)
  <1> DEFINE C == CurrentEpochIndex
             n == Len(Deposits[u])
  <1>1. /\ C \in Nat /\ now \in Nat /\ C' = C + 1 /\ rate \in Int
        /\ \A k \in 0 .. C : Epochs'[k] = Epochs[k]
        /\ Epochs'[C + 1].time = now /\ Epochs'[C + 1].emission_rate_per_tau = rate
        /\ UNCHANGED <<settings, Deposits, now>>
    BY SimpleAssumption DEF TypeOK, incrementEpoch, stakes
  <1>2. /\ DOMAIN Deposits[u] = 1 .. n /\ n \in Nat
        /\ \A i \in 1 .. n : /\ Deposits[u][i].amount \in Int
                             /\ Deposits[u][i].starting_epoch \in 0 .. C
                             /\ Deposits[u][i].time \in Int
    BY <1>1, DepositsAreLists
  <1>3. fitTimeToRange(now) \in Int
    BY <1>1 DEF fitTimeToRange, TypeOK
  <1>4. ASSUME NEW d, d.amount \in Int, d.starting_epoch \in 0 .. C,
               NEW e \in d.starting_epoch .. C + 1
        PROVE  /\ e # C + 1 => EpochYield(d, e)' = EpochYield(d, e)
               /\ e = C + 1 => EpochYield(d, e)' = 0
    <2>1. ASSUME e # C + 1 PROVE EpochYield(d, e)' = EpochYield(d, e)
      <3>1. e \in 0 .. C /\ Epochs'[e] = Epochs[e] /\ e # C'
            /\ Epochs'[e + 1].time = IF e = C THEN now ELSE Epochs[e + 1].time
        BY <1>1, <1>4, <2>1
      <3>2. TicksStaked(d, e)' = TicksStaked(d, e)
        BY <1>1, <3>1 DEF TicksStaked, fitTimeToRange
      <3> QED  BY <3>1, <3>2 DEF EpochYield
    <2>2. ASSUME e = C + 1 PROVE EpochYield(d, e)' = 0
      <3>1. e = C' /\ e # d.starting_epoch
        BY <1>1, <1>4, <2>2
      <3>2. TicksStaked(d, e)' = fitTimeToRange(now) - fitTimeToRange(now)
        BY <1>1, <2>2, <3>1 DEF TicksStaked, fitTimeToRange
      <3>3. TicksStaked(d, e)' = 0
        BY <1>3, <3>2
      <3>4. EpochYield(d, e)' = rate * d.amount * TicksStaked(d, e)'
        BY <1>1, <2>2 DEF EpochYield
      <3> QED  BY <1>1, <1>4, <3>3, <3>4
    <2> QED  BY <2>1, <2>2
  <1>5. ASSUME NEW d, NEW i \in 1 .. n, d = Deposits[u][i]
        PROVE  calculateYield(d)' = calculateYield(d)
    <2> DEFINE a == d.starting_epoch
               F == [e \in a .. C |-> EpochYield(d, e)]
               G == [e \in a .. C + 1 |-> EpochYield(d, e)']
    <2>1. a \in Int /\ C \in Int /\ a <= C
      BY <1>1, <1>2, <1>5
    <2>2. (\A e \in a .. C : F[e] = G[e]) /\ G[C + 1] = 0
      <3>1. d.amount \in Int /\ d.starting_epoch \in 0 .. C
        BY <1>2, <1>5
      <3> HIDE DEF C
      <3>2. \A e \in a .. C + 1 : /\ e # C + 1 => EpochYield(d, e)' = EpochYield(d, e)
                                  /\ e = C + 1 => G[e] = 0
        BY <1>4, <3>1
      <3>3. \A e \in a .. C : e \in a .. C + 1 /\ e # C + 1 /\ C + 1 \in a .. C + 1
        BY <2>1
      <3>4. C + 1 \in a .. C + 1
        BY <2>1
      <3> QED  BY <3>2, <3>3, <3>4
    <2>3. \A e \in a .. C : F[e] \in Int
      BY <1>2, <1>5, YieldInt
    <2>4. calculateYield(d) = SumRange(F, a, C)
      BY DEF calculateYield
    <2>5. calculateYield(d)' = SumRange(G, a, C + 1)
      BY <1>1 DEF calculateYield
    <2> HIDE DEF a, F, G, C
    <2>6. SumRange(G, a, C + 1) = SumRange(G, a, C) + G[C + 1]
      BY <2>1, SumRangeLast, C + 1 \in Int, a <= C + 1, C + 1 - 1 = C
    <2>7. SumRange(F, a, C) = SumRange(G, a, C)
      BY <2>1, <2>2, SumRangeEqual, a - 1 <= C
    <2>8. SumRange(F, a, C) \in Int
      BY <2>1, <2>3, SumRangeInt, a - 1 <= C
    <2> QED  BY <2>2, <2>4, <2>5, <2>6, <2>7, <2>8
  <1>6. ASSUME NEW i \in 1 .. n
        PROVE  calculateYield(Deposits[u][i])' = calculateYield(Deposits[u][i])
    <2>1. PICK d : d = Deposits[u][i]
      OBVIOUS
    <2>2. calculateYield(Deposits[u][i])' = calculateYield(d)'
      BY <1>1, <2>1
    <2> QED  BY <1>5, <2>1, <2>2
  <1> QED  BY <1>1, <1>2, <1>6 DEF Accrued

\* A deposit has earned nothing when it is made.
LEMMA AccruedOnEntry ==
  ASSUME TypeOK, NEW user \in Users, NEW amount \in StakeAmounts,
         addStakingTokens(user, amount)
  PROVE  Accrued(user)' = Accrued(user)
  <1> DEFINE C == CurrentEpochIndex
             s == Deposits[user]
             n == Len(s)
             new == [starting_epoch |-> C, time |-> now, amount |-> amount]
  <1>1. /\ C \in Nat /\ now \in Nat /\ amount \in Int
        /\ Epochs[C].emission_rate_per_tau \in Int
        /\ Deposits' = [Deposits EXCEPT ![user] = Append(s, new)]
        /\ Deposits \in [Users -> Seq(DepositRecords)]
        /\ UNCHANGED <<settings, epochs, now>>
    BY SMTT(30), SimpleAssumption DEF TypeOK, addStakingTokens
  <1>2. /\ DOMAIN s = 1 .. n /\ n \in Nat
        /\ DOMAIN Deposits'[user] = 1 .. n + 1 /\ Len(Deposits'[user]) = n + 1
        /\ \A i \in 1 .. n : Deposits'[user][i] = s[i]
        /\ Deposits'[user][n + 1] = new
    <2>1. s \in Seq(DepositRecords) /\ Deposits'[user] = Append(s, new)
      BY <1>1
    <2> HIDE DEF s, new
    <2> QED  BY <2>1
  <1>3. ASSUME NEW d PROVE calculateYield(d)' = calculateYield(d)
    <2>1. ASSUME NEW e PROVE EpochYield(d, e)' = EpochYield(d, e)
      BY <1>1 DEF EpochYield, TicksStaked, fitTimeToRange, epochs
    <2> QED  BY <1>1, <2>1 DEF calculateYield, epochs
  <1>4. calculateYield(new) = 0
    <2> DEFINE F == [e \in C .. C |-> EpochYield(new, e)]
    <2>1. fitTimeToRange(now) \in Int
      BY <1>1 DEF fitTimeToRange, TypeOK
    <2>2. TicksStaked(new, C) = fitTimeToRange(now) - fitTimeToRange(now)
      BY DEF TicksStaked
    <2>3. TicksStaked(new, C) = 0
      BY <2>1, <2>2
    <2>4. EpochYield(new, C) = Epochs[C].emission_rate_per_tau * amount * TicksStaked(new, C)
      BY DEF EpochYield
    <2>5. EpochYield(new, C) = 0
      BY <1>1, <2>3, <2>4
    <2>6. calculateYield(new) = SumRange(F, C, C)
      BY DEF calculateYield
    <2>7. C \in Int /\ C - 1 <= C /\ \A e \in C .. C : F[e] = 0
      BY <1>1, <2>5
    <2> HIDE DEF F, C
    <2> QED  BY <2>6, <2>7, SumRangeZeros
  <1> DEFINE F == [i \in 1 .. n |-> calculateYield(s[i])]
             G == [i \in 1 .. n + 1 |-> calculateYield(Deposits'[user][i])]
  <1>5. Accrued(user) = SumRange(F, 1, n)
    BY <1>2 DEF Accrued
  <1>6. Accrued(user)' = SumRange(G, 1, n + 1)
    BY <1>2, <1>3 DEF Accrued
  <1>7. (\A i \in 1 .. n : F[i] = G[i]) /\ G[n + 1] = 0
    BY <1>2, <1>4
  <1>8. \A i \in 1 .. n : F[i] \in Int
    BY YieldInt
  <1> HIDE DEF F, G, n
  <1>9. SumRange(G, 1, n + 1) = SumRange(F, 1, n) + G[n + 1]
    BY <1>2, <1>7, SumRangeAppend
  <1>10. SumRange(F, 1, n) \in Int
    BY <1>2, <1>8, SumRangeInt, 1 \in Int, n \in Int, 1 - 1 <= n
  <1> QED  BY <1>5, <1>6, <1>7, <1>9, <1>10

\* Paying a yield takes it from the contract's account, to the last unit: the
\* dev fund's share and the user's.
LEMMA PayYieldTakes ==
  ASSUME TypeOK, NEW u \in Users, NEW y \in Int, y > 0, PayYield(u, y)
  PROVE  yieldBalances'[This] = yieldBalances[This] - y
  <1> DEFINE dev == DevShare(y)
             wallet == settings.DevRewardWallet
             mid == DevPaid(y)
  <1>1. /\ yieldBalances \in [Accounts -> Nat] /\ settings.DevRewardPct \in Nat
        /\ wallet \in Accounts /\ u \in Accounts /\ This \in Accounts
        /\ wallet # This /\ u # This
    <2>1. wallet \in Admins /\ settings.DevRewardPct \in 0 .. PctBase - 1
      BY DEF TypeOK
    <2>2. yieldBalances \in [Accounts -> Nat]
      BY DEF TypeOK
    <2> QED  BY <2>1, <2>2, SimpleAssumption DEF Accounts
  <1>2. dev \in Nat
    <2>1. \A k \in Nat, m \in Nat \ {0} : k \div m \in Nat
      OBVIOUS
    <2>2. \A k, m \in Nat : k * m \in Nat
      OBVIOUS
    <2>3. y * settings.DevRewardPct \in Nat
      BY <1>1, <2>2
    <2> QED  BY <2>1, <2>3, SimpleAssumption DEF DevShare
  <1>3. mid[This] = yieldBalances[This] - dev
    BY <1>1, <1>2 DEF DevPaid, Move
  <1>4. mid \in [Accounts -> Nat]
    BY <1>1, <1>2, AccountsFinite, MoveKeepsSupply DEF PayYield, CanPayYield, DevPaid
  <1>5. yieldBalances' = Move(mid, This, u, y - dev)
    BY DEF PayYield
  <1> HIDE DEF mid, dev
  <1>6. yieldBalances'[This] = mid[This] - (y - dev)
    BY <1>1, <1>4, <1>5 DEF Move
  <1>7. yieldBalances[This] \in Nat
    BY <1>1
  <1> QED  BY <1>2, <1>3, <1>6, <1>7

-----------------------------------------------------------------------------
(* The tape *)

Owed == [u \in Users |-> Harvestable(u)]

\* What the tape's properties rest on.  The range is the one that seed set as
\* long as it is left alone, so it does not end before it starts.
TapeInv ==
  /\ IInv /\ CurrentRate
  /\ rangeKept \in BOOLEAN
  /\ earned \in [Users -> Int] /\ promised \in Int /\ paid \in Int
  /\ rangeKept =>
       /\ settings.StartTime <= settings.EndTime
       /\ \A u \in Users : Accrued(u) = earned[u] /\ Withdrawals[u] <= Accrued(u)
       /\ paid + Net(Owed, Users) <= promised

\* Outside the clock's steps no tick is credited.
LEMMA TickNat ==
  ASSUME TypeOK, NEW u \in Users
  PROVE  TickOf(u) \in Nat /\ (now' = now => TickOf(u) = 0)
  <1>1. EmissionRatePerTauYearly \in Nat /\ StakeOf(Deposits[u]) \in Nat
    BY DepositsAreLists, StakeOfFacts DEF TypeOK
  <1>2. EmissionRatePerTauYearly * StakeOf(Deposits[u]) \in Nat
    BY <1>1
  <1> QED  BY <1>2 DEF TickOf

\* One step of the contract, seen by one user.
LEMMA AccruedStep ==
  ASSUME IInv, CurrentRate, settings.StartTime <= settings.EndTime, Next,
         settings'.StartTime = settings.StartTime, settings'.EndTime = settings.EndTime,
         NEW u \in Users
  PROVE  Accrued(u)' = IF Deposits'[u] = <<>> THEN 0 ELSE Accrued(u) + TickOf(u)
  <1>1. TypeOK /\ Deposits \in [Users -> Seq(DepositRecords)]
    BY DEF IInv, TypeOK
  <1>2. Deposits'[u] = <<>> => Accrued(u)' = 0
    BY SumRangeEmpty, 1 - 1 = 0 DEF Accrued
  <1>3. Accrued(u) \in Int
    BY <1>1, HarvestableInt
  <1>4. ASSUME now' = now, Accrued(u)' = Accrued(u)
        PROVE  Accrued(u)' = Accrued(u) + TickOf(u)
    BY <1>1, <1>3, <1>4, TickNat
  <1>5. ASSUME Deposits'[u] # <<>> PROVE Accrued(u)' = Accrued(u) + TickOf(u)
    <2>1. CASE NextBlock
      BY <1>1, <2>1, AccruedOnClock
    <2>2. CASE \E caller \in Admins, rate \in Rates : incrementEpoch(caller, rate)
      <3>1. now' = now
        BY <2>2 DEF incrementEpoch
      <3> QED  BY <1>1, <1>4, <2>2, <3>1, AccruedOnEpoch
    <2>3. CASE \E user \in Users, amount \in StakeAmounts : addStakingTokens(user, amount)
      <3>1. PICK user \in Users, amount \in StakeAmounts : addStakingTokens(user, amount)
        BY <2>3
      <3>2. UNCHANGED <<epochs, now>> /\ (u # user => Deposits'[u] = Deposits[u])
        BY <1>1, <3>1 DEF addStakingTokens
      <3>3. Accrued(u)' = Accrued(u)
        BY <1>1, <3>1, <3>2, AccruedOnEntry, AccruedUntouched
      <3> QED  BY <1>4, <3>2, <3>3
    <2>4. CASE \E user \in Users : withdrawTokensAndYield(user) \/ emergencyReturnStake(user)
      <3>1. UNCHANGED <<epochs, now>> /\ Deposits'[u] = Deposits[u]
        BY <1>1, <1>5, <2>4 DEF withdrawTokensAndYield, emergencyReturnStake, returnStake
      <3> QED  BY <1>4, <3>1, AccruedUntouched
    <2>5. CASE \/ \E user \in Users :
                    \/ \E amount \in StakeAmounts : approve(user, amount)
                    \/ \E amount \in HarvestAmounts : withdrawYield(user, amount)
               \/ OwnerStep /\ ~ \E caller \in Admins, rate \in Rates : incrementEpoch(caller, rate)
               \/ FundStep
      <3>1. UNCHANGED <<epochs, now>> /\ Deposits'[u] = Deposits[u]
        BY <2>5 DEF approve, withdrawYield, OwnerStep, setOwner, setDevWallet, setDevRewardPct,
                    allowStaking, setStartTime, setEndTime, updateMeta, Store,
                    recoverYieldToken, FundStep, fundPool, stakes
      <3> QED  BY <1>4, <3>1, AccruedUntouched
    <2> QED  BY <2>1, <2>2, <2>3, <2>4, <2>5 DEF Next, UserStep
  <1> QED  BY <1>2, <1>5

\* The bookkeeping of what is promised, paid and owed.
LEMMA PromiseKept ==
  ASSUME TapeInv, TapeNext, rangeKept, rangeKept'
  PROVE  /\ \A u \in Users : Withdrawals'[u] <= Accrued(u)'
         /\ paid' \in Int /\ promised' \in Int
         /\ paid' + Net(Owed', Users) <= promised'
  <1> DEFINE tick == [u \in Users |-> TickOf(u)]
  <1>1. /\ IInv /\ TypeOK /\ CurrentRate /\ settings.StartTime <= settings.EndTime
        /\ settings'.StartTime = settings.StartTime /\ settings'.EndTime = settings.EndTime
        /\ Next /\ promised' = promised + MapThenSumSet(TickOf, Users)
        /\ promised \in Int /\ paid \in Int
        /\ \A u \in Users : Withdrawals[u] <= Accrued(u)
        /\ paid + Net(Owed, Users) <= promised
        /\ Withdrawals \in [Users -> Nat] /\ Deposits \in [Users -> Seq(DepositRecords)]
        /\ yieldBalances \in [Accounts -> Nat] /\ IsFiniteSet(Users)
    BY SimpleAssumption DEF TapeInv, TapeNext, TapeStep, Next, IInv, TypeOK
  <1>2. \A u \in Users : /\ Accrued(u) \in Int
                         /\ Harvestable(u) \in Nat
                         /\ Harvestable(u) = Accrued(u) - Withdrawals[u]
    BY <1>1, HarvestableInt DEF Harvestable
  <1>3. tick \in [Users -> Nat] /\ tick \in [Users -> Int]
    BY <1>1, TickNat
  <1>4. Owed \in [Users -> Nat] /\ Owed \in [Users -> Int]
    BY <1>2 DEF Owed
  <1>5. promised' = promised + Net(tick, Users) /\ Net(tick, Users) \in Nat
    BY <1>1, <1>3, TickSum, NetNat
  <1>6. Net(Owed, Users) \in Int
    BY <1>1, <1>4, NetInt, Users \in SUBSET Users
  <1>7. \A u \in Users :
          Accrued(u)' = IF Deposits'[u] = <<>> THEN 0 ELSE Accrued(u) + tick[u]
    BY <1>1, AccruedStep
  <1>8. Owed' = [u \in Users |-> Accrued(u)' - Withdrawals'[u]]
    BY DEF Owed, Harvestable
  <1>9. now' = now => \A u \in Users : tick[u] = 0
    BY <1>1, TickNat
  <1> HIDE DEF tick
  <1>10. IsFiniteSet(Users)
    BY <1>1
  <1>11. promised \in Int /\ paid \in Int /\ paid + Net(Owed, Users) <= promised
    BY <1>1
  <1>12. ASSUME \A u \in Users : Owed'[u] = Owed[u] + tick[u], Withdrawals' = Withdrawals
         PROVE  /\ \A u \in Users : Withdrawals'[u] <= Accrued(u)'
                /\ paid' = paid => paid' + Net(Owed', Users) <= promised'
    <2>1. \A u \in Users : Owed'[u] \in Nat
      BY <1>3, <1>4, <1>12
    <2>2. \A u \in Users : Accrued(u)' \in Int /\ Withdrawals'[u] \in Int
      BY <1>1, <1>2, <1>3, <1>7, <1>12
    <2>3. \A u \in Users : Withdrawals'[u] <= Accrued(u)'
      BY <1>8, <2>1, <2>2
    <2>4. Owed' \in [Users -> Int]
      BY <1>8, <2>1
    <2>5. Net(Owed', Users) = Net(Owed, Users) + Net(tick, Users)
      BY <1>3, <1>4, <1>10, <1>12, <2>4, NetAdd
    <2> QED  BY <1>5, <1>6, <1>11, <2>3, <2>5
  <1>13. ASSUME NEW user \in Users, NEW y \in Nat, y <= Owed[user],
                Owed' = [Owed EXCEPT ![user] = @ - y], paid' \in Int, paid' <= paid + y
         PROVE  paid' + Net(Owed', Users) <= promised'
    <2>1. Owed' \in [Users -> Int] /\ Owed[user] \in Int
          /\ Owed'[user] = Owed[user] - y
          /\ \A u \in Users \ {user} : Owed'[u] = Owed[u]
      BY <1>4, <1>13
    <2>2. Net(Owed', Users) = Net(Owed, Users) - Owed[user] + Owed'[user]
      BY <1>4, <1>10, <2>1, NetUpdate
    <2> QED  BY <1>5, <1>6, <1>11, <1>13, <2>1, <2>2
  <1>14. \A u \in Users : /\ Deposits[u] = <<>> => Accrued(u) = 0 /\ tick[u] = 0
                          /\ Owed[u] = Accrued(u) - Withdrawals[u]
                          /\ Withdrawals[u] \in Int
    <2>1. ASSUME NEW u \in Users, Deposits[u] = <<>> PROVE TickOf(u) = 0
      <3>1. StakeOf(Deposits[u]) = 0 /\ EmissionRatePerTauYearly \in Int
        BY <1>1, <2>1, StakeOfFacts DEF TypeOK
      <3> QED  BY <3>1 DEF TickOf
    <2> QED  BY <1>1, <1>2, <2>1, AccruedEmpty DEF tick, Owed
  <1>15. ASSUME \A u \in Users : Deposits'[u] = Deposits[u] \/ Deposits'[u] # <<>>,
                Withdrawals' = Withdrawals, paid' = paid
         PROVE  /\ \A u \in Users : Withdrawals'[u] <= Accrued(u)'
                /\ paid' \in Int /\ paid' + Net(Owed', Users) <= promised'
    <2>1. \A u \in Users : Accrued(u)' = Accrued(u) + tick[u] /\ tick[u] \in Int
      BY <1>3, <1>7, <1>14, <1>15
    <2>2. \A u \in Users : Owed'[u] = Owed[u] + tick[u]
      BY <1>2, <1>8, <1>14, <1>15, <2>1
    <2> QED  BY <1>11, <1>12, <1>15, <2>2
  <1>16. CASE (OwnerStep \/ FundStep \/ NextBlock) /\ UNCHANGED paid
    <2>1. UNCHANGED <<Deposits, Withdrawals>>
      BY <1>16 DEF OwnerStep, incrementEpoch, setOwner, setDevWallet, setDevRewardPct,
                   allowStaking, setStartTime, setEndTime, updateMeta, Store,
                   recoverYieldToken, FundStep, fundPool, NextBlock, stakes
    <2> QED  BY <1>5, <1>11, <1>15, <1>16, <2>1
  <1>17. ASSUME UserStep, paid' = paid + yieldBalances[This] - yieldBalances'[This]
         PROVE  /\ \A u \in Users : Withdrawals'[u] <= Accrued(u)'
                /\ paid' \in Int /\ paid' + Net(Owed', Users) <= promised'
    <2>1. yieldBalances[This] \in Int /\ (yieldBalances' = yieldBalances => paid' = paid)
      BY <1>1, <1>11, <1>17 DEF Accounts
    <2>2. CASE \E user \in Users, amount \in StakeAmounts :
                 approve(user, amount) \/ addStakingTokens(user, amount)
      <3>1. /\ UNCHANGED <<Withdrawals, yieldBalances>>
            /\ \A u \in Users : Deposits'[u] = Deposits[u] \/ Deposits'[u] # <<>>
        BY <1>1, <2>2 DEF approve, addStakingTokens, stakes
      <3> QED  BY <1>1, <1>15, <1>17, <2>1, <3>1
    <2>3. CASE \E user \in Users, amount \in HarvestAmounts : withdrawYield(user, amount)
      <3>1. PICK user \in Users, amount \in HarvestAmounts : withdrawYield(user, amount)
        BY <2>3
      <3> DEFINE y == IF amount < Harvestable(user) THEN amount ELSE Harvestable(user)
      <3>2. /\ y \in Int /\ y > 0 /\ y <= Owed[user] /\ PayYield(user, y)
            /\ Withdrawals' = [Withdrawals EXCEPT ![user] = @ + y]
            /\ UNCHANGED <<Deposits, now>>
        <4>1. Harvestable(user) \in Nat /\ amount \in Int /\ Owed[user] = Harvestable(user)
          BY <1>2, SimpleAssumption DEF Owed
        <4> QED  BY <3>1, <4>1 DEF withdrawYield, countHarvest
      <3> HIDE DEF y
      <3>3. paid' = paid + y
        BY <1>1, <1>11, <1>17, <2>1, <3>2, PayYieldTakes
      <3>4. \A u \in Users : Accrued(u)' = Accrued(u)
        BY <1>2, <1>7, <1>9, <1>14, <3>2
      <3>5. Owed' = [Owed EXCEPT ![user] = @ - y]
        <4>1. \A u \in Users : Withdrawals'[u] = IF u = user THEN Withdrawals[u] + y
                                                 ELSE Withdrawals[u]
          BY <1>1, <3>2
        <4>2. \A u \in Users : Owed'[u] = IF u = user THEN Owed[u] - y ELSE Owed[u]
          BY <1>2, <1>8, <1>14, <3>2, <3>4, <4>1
        <4>3. Owed' = [u \in Users |-> Owed'[u]]
          BY <1>8
        <4> QED  BY <1>4, <4>2, <4>3
      <3>6. \A u \in Users : Withdrawals'[u] <= Accrued(u)'
        BY <1>1, <1>2, <1>14, <3>2, <3>4
      <3>7. y \in Nat /\ paid' \in Int /\ paid' <= paid + y
        BY <1>11, <3>2, <3>3
      <3>8. paid' + Net(Owed', Users) <= promised'
        BY <1>13, <3>2, <3>5, <3>7
      <3> QED  BY <3>6, <3>7, <3>8
    <2>4. CASE \E user \in Users : withdrawTokensAndYield(user) \/ emergencyReturnStake(user)
      <3>1. PICK user \in Users : withdrawTokensAndYield(user) \/ emergencyReturnStake(user)
        BY <2>4
      <3>2. /\ Deposits' = [Deposits EXCEPT ![user] = <<>>]
            /\ Withdrawals' = [Withdrawals EXCEPT ![user] = 0]
            /\ now' = now
            /\ \/ Harvestable(user) > 0 /\ PayYield(user, Harvestable(user))
               \/ UNCHANGED yieldBalances
        BY <3>1 DEF withdrawTokensAndYield, emergencyReturnStake, returnStake
      <3>3. Owed[user] = Harvestable(user) /\ Owed[user] \in Nat
        BY <1>2, <1>4 DEF Owed
      <3>4. paid' \in Int /\ paid' <= paid + Owed[user]
        <4>1. CASE UNCHANGED yieldBalances
          BY <1>11, <2>1, <3>3, <4>1
        <4>2. CASE Harvestable(user) > 0 /\ PayYield(user, Harvestable(user))
          BY <1>1, <1>11, <1>17, <2>1, <3>3, <4>2, PayYieldTakes
        <4> QED  BY <3>2, <4>1, <4>2
      <3>5. \A u \in Users : Accrued(u)' = IF u = user THEN 0 ELSE Accrued(u)
        BY SMTT(30), <1>1, <1>2, <1>7, <1>9, <1>14, <3>2
      <3>6. \A u \in Users : Withdrawals'[u] = IF u = user THEN 0 ELSE Withdrawals[u]
        BY <1>1, <3>2
      <3>7. Owed' = [Owed EXCEPT ![user] = @ - Owed[user]]
        <4>1. \A u \in Users : Owed'[u] = IF u = user THEN Owed[u] - Owed[user] ELSE Owed[u]
          BY <1>2, <1>8, <1>14, <3>3, <3>5, <3>6
        <4>2. Owed' = [u \in Users |-> Owed'[u]]
          BY <1>8
        <4> QED  BY <1>4, <4>1, <4>2
      <3>8. ASSUME NEW u \in Users PROVE Withdrawals'[u] <= Accrued(u)'
        <4>1. Withdrawals[u] <= Accrued(u)
          BY <1>1
        <4> QED  BY <3>5, <3>6, <4>1
      <3>9. paid' + Net(Owed', Users) <= promised'
        <4>1. Owed[user] <= Owed[user]
          BY <3>3
        <4> QED  BY <1>13, <3>3, <3>4, <3>7, <4>1
      <3> QED  BY <3>4, <3>8, <3>9
    <2> QED  BY <1>17, <2>2, <2>3, <2>4 DEF UserStep
  <1>18. promised' \in Int
    BY <1>5, <1>11
  <1> QED  BY <1>16, <1>17, <1>18 DEF TapeNext

\* The rate stays the current epoch's: only a new epoch changes either.
LEMMA RateStep ==
  ASSUME TypeOK, CurrentRate, [Next]_vars
  PROVE  CurrentRate'
  <1>1. CASE \E caller \in Admins, rate \in Rates : incrementEpoch(caller, rate)
    BY <1>1 DEF TypeOK, incrementEpoch, CurrentRate
  <1>2. CASE ~ \E caller \in Admins, rate \in Rates : incrementEpoch(caller, rate)
    <2>1. UNCHANGED epochs
      BY <1>2 DEF Next, vars, UserStep, approve, addStakingTokens, withdrawYield,
                  withdrawTokensAndYield, emergencyReturnStake, OwnerStep, setOwner,
                  setDevWallet, setDevRewardPct, allowStaking, setStartTime, setEndTime,
                  updateMeta, Store, recoverYieldToken, FundStep, fundPool, NextBlock
    <2> QED  BY <2>1 DEF CurrentRate, epochs
  <1> QED  BY <1>1, <1>2

\* The tape's invariant holds at the start.
LEMMA InitTapeInv == TapeInit => TapeInv
  <1> SUFFICES ASSUME TapeInit PROVE TapeInv
    OBVIOUS
  <1>1. IInv
    BY InitIInv DEF TapeInit
  <1>2. CurrentRate
    BY DEF TapeInit, Init, CurrentRate
  <1>3. \A u \in Users : Accrued(u) = 0 /\ Withdrawals[u] = 0 /\ earned[u] = 0
    BY AccruedEmpty DEF TapeInit, Init
  <1>4. Net(Owed, Users) = 0
    BY <1>3, NetZero DEF Owed, Harvestable
  <1>5. settings.StartTime <= settings.EndTime
    BY SimpleAssumption DEF TapeInit, Init
  <1> QED  BY <1>1, <1>2, <1>3, <1>4, <1>5 DEF TapeInit, TapeInv

\* Every call and every tick keep the tape's invariant.
LEMMA TapeStepInv == TapeInv /\ [TapeNext]_<<vars, tapeVars>> => TapeInv'
  <1> SUFFICES ASSUME TapeInv, [TapeNext]_<<vars, tapeVars>> PROVE TapeInv'
    OBVIOUS
  <1>1. IInv /\ TypeOK /\ CurrentRate
    BY DEF TapeInv, IInv
  <1>2. [Next]_vars
    BY DEF TapeNext, Next
  <1>3. IInv' /\ CurrentRate'
    BY <1>1, <1>2, NextIInv, RateStep
  <1>4. CASE UNCHANGED <<vars, tapeVars>>
    <2>1. \A u \in Users : Accrued(u)' = Accrued(u)
      <3>1. UNCHANGED <<epochs, now, settings, Deposits>>
        BY <1>4 DEF vars, stakes
      <3> QED  BY <3>1, AccruedUntouched
    <2>2. \A u \in Users : Harvestable(u)' = Harvestable(u)
      BY <1>4, <2>1 DEF Harvestable, vars, stakes
    <2>3. Owed' = Owed
      BY <2>2 DEF Owed
    <2> QED  BY <1>3, <1>4, <2>1, <2>3 DEF TapeInv, vars, stakes, tapeVars
  <1>5. CASE TapeNext
    <2> DEFINE tick == [u \in Users |-> TickOf(u)]
    <2>1. /\ Next
          /\ earned' = [u \in Users |-> IF Deposits'[u] = <<>> THEN 0 ELSE earned[u] + TickOf(u)]
          /\ promised' = promised + MapThenSumSet(TickOf, Users)
          /\ rangeKept' = (rangeKept /\ settings'.StartTime = settings.StartTime
                                     /\ settings'.EndTime = settings.EndTime)
      BY <1>5 DEF TapeNext, TapeStep, Next
    <2>2. tick \in [Users -> Int] /\ IsFiniteSet(Users) /\ \A u \in Users : TickOf(u) \in Int
      BY <1>1, SimpleAssumption, TickNat
    <2>3. promised' \in Int
      <3>1. MapThenSumSet(TickOf, Users) = Net(tick, Users)
        BY <2>2, TickSum
      <3> HIDE DEF tick
      <3>2. Net(tick, Users) \in Int
        BY <2>2, NetInt, Users \in SUBSET Users
      <3> QED  BY <2>1, <3>1, <3>2 DEF TapeInv
    <2>4. earned' \in [Users -> Int] /\ rangeKept' \in BOOLEAN
      BY <2>1, <2>2 DEF TapeInv
    <2>5. paid' \in Int
      <3>1. yieldBalances[This] \in Int /\ yieldBalances'[This] \in Int /\ paid \in Int
        <4>1. /\ yieldBalances \in [Accounts -> Nat] /\ yieldBalances' \in [Accounts -> Nat]
              /\ paid \in Int
          BY <1>1, <1>3 DEF TapeInv, IInv, TypeOK
        <4> QED  BY <4>1 DEF Accounts
      <3> QED  BY <1>5, <3>1 DEF TapeNext
    <2>6. ASSUME rangeKept'
          PROVE  /\ settings'.StartTime <= settings'.EndTime
                 /\ \A u \in Users : Accrued(u)' = earned'[u] /\ Withdrawals'[u] <= Accrued(u)'
                 /\ paid' + Net(Owed', Users) <= promised'
      <3>1. /\ rangeKept /\ settings.StartTime <= settings.EndTime
            /\ settings'.StartTime = settings.StartTime /\ settings'.EndTime = settings.EndTime
            /\ \A u \in Users : Accrued(u) = earned[u]
        BY <2>1, <2>6 DEF TapeInv
      <3>2. \A u \in Users :
              Accrued(u)' = IF Deposits'[u] = <<>> THEN 0 ELSE Accrued(u) + TickOf(u)
        BY <1>1, <2>1, <3>1, AccruedStep
      <3>3. \A u \in Users : Accrued(u)' = earned'[u]
        BY <2>1, <3>1, <3>2
      <3> QED  BY <1>5, <2>6, <3>1, <3>3, PromiseKept
    <2> QED  BY <1>3, <2>3, <2>4, <2>5, <2>6 DEF TapeInv
  <1> QED  BY <1>4, <1>5

\* What the tape's properties rest on holds throughout.
THEOREM TapeInductive == TapeSpec => []TapeInv
  BY InitTapeInv, TapeStepInv, PTL DEF TapeSpec

\* The contract's one loop over the epochs is the sum over the ticks, for any
\* number of users, deposits and changes of rate: no entry, harvest or exit,
\* of anybody and in any order, loses a tick or counts one twice.
THEOREM AccruesAsEarned == TapeSpec => []AccruedAsEarned
  <1>1. TapeInv => AccruedAsEarned
    BY DEF TapeInv, AccruedAsEarned
  <1> QED  BY <1>1, TapeInductive, PTL

\* Nobody is paid more than was earned: no user takes out more than the
\* deposits accrued, and what was paid to users and dev fund and what is still
\* owed stays within the ticks credited, whoever leaves and enters again.
THEOREM PaysWithinPromise == TapeSpec => []PaidWithinPromise
  <1>1. ASSUME TapeInv PROVE PaidWithinPromise
    <2>1. \A u \in Users : Harvestable(u) \in Int
      BY <1>1, HarvestableInt DEF TapeInv, IInv
    <2>2. MapThenSumSet(Harvestable, Users) = Net(Owed, Users)
      BY <2>1, HarvestableSum DEF Owed
    <2> QED  BY <1>1, <2>2 DEF TapeInv, PaidWithinPromise
  <1> QED  BY <1>1, TapeInductive, PTL
=============================================================================
