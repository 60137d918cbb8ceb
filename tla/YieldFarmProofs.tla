-------------------------- MODULE YieldFarmProofs --------------------------
(***************************************************************************)
(* Proofs about YieldFarm, for every set of users, every amount, any rate  *)
(* and any length of the run: the type invariant, the accounting of the    *)
(* stakes, the cover of the vault and the shares of each epoch, and that   *)
(* the contract implements StakeVault.  With the settings of seed left     *)
(* alone: the tape of YieldFarmTape, the emission as a bound of what is    *)
(* paid and owed, and exits that are always funded.                        *)
(***************************************************************************)
EXTENDS YieldFarmTape, TallyTheorems

-----------------------------------------------------------------------------
(* Lists of deposits *)

IsDepositList(s) ==
  \E n \in Nat : /\ DOMAIN s = 1 .. n /\ Len(s) = n
                 /\ \A i \in 1 .. n : s[i].amount \in Nat /\ s[i].starting_epoch \in Int

\* What the loop of an exit returns for a list of deposits.
LEMMA StakeOfFacts ==
  /\ StakeOf(<<>>) = 0
  /\ \A s : IsDepositList(s) => StakeOf(s) \in Nat
  <1>1. StakeOf(<<>>) = 0
    BY SumRangeEmpty, 1 - 1 = 0 DEF StakeOf
  <1>2. ASSUME NEW s, IsDepositList(s) PROVE StakeOf(s) \in Nat
    <2>1. PICK n \in Nat : /\ DOMAIN s = 1 .. n /\ Len(s) = n
                           /\ \A i \in 1 .. n : s[i].amount \in Nat
      BY <1>2 DEF IsDepositList
    <2> DEFINE F == [i \in DOMAIN s |-> s[i].amount]
    <2>2. \A i \in 1 .. n : F[i] \in Nat
      BY <2>1
    <2> HIDE DEF F
    <2>3. SumRange(F, 1, n) \in Nat
      BY <2>2, SumRangeNat, 1 - 1 <= n
    <2> QED  BY <2>1, <2>3 DEF F, StakeOf
  <1> QED  BY <1>1, <1>2

\* One more deposit adds its amount.
LEMMA StakeOfAppend ==
  ASSUME NEW s, IsDepositList(s), NEW d, NEW t,
         DOMAIN t = 1 .. Len(s) + 1, Len(t) = Len(s) + 1,
         \A i \in 1 .. Len(s) : t[i] = s[i], t[Len(s) + 1] = d
  PROVE  StakeOf(t) = StakeOf(s) + d.amount
  <1>1. PICK n \in Nat : DOMAIN s = 1 .. n /\ Len(s) = n
    BY DEF IsDepositList
  <1> DEFINE F == [i \in DOMAIN s |-> s[i].amount]
             G == [i \in DOMAIN t |-> t[i].amount]
  <1>2. \A i \in 1 .. n : F[i] = G[i]
    BY <1>1
  <1>3. G[n + 1] = d.amount
    BY <1>1
  <1> HIDE DEF F, G
  <1>4. SumRange(G, 1, n + 1) = SumRange(F, 1, n) + G[n + 1]
    BY <1>2, SumRangeAppend
  <1> QED  BY <1>1, <1>3, <1>4 DEF F, G, StakeOf

-----------------------------------------------------------------------------
(* The inductive invariant *)

Principal == StakeAccounted /\ SharesWithinEpoch /\ VaultCoversStake

IInv == TypeOK /\ Principal

\* TypeOK gives every user a list of deposits in the sense above.
LEMMA DepositsAreLists ==
  ASSUME TypeOK, NEW u \in Users
  PROVE  /\ IsDepositList(Deposits[u])
         /\ DOMAIN Deposits[u] = 1 .. Len(Deposits[u])
         /\ Len(Deposits[u]) \in Nat
         /\ \A i \in 1 .. Len(Deposits[u]) :
              /\ Deposits[u][i] \in DepositRecords
              /\ Deposits[u][i].amount \in Nat \ {0}
              /\ Deposits[u][i].starting_epoch \in 0 .. CurrentEpochIndex
              /\ Deposits[u][i].time \in 0 .. now
  <1>1. Deposits[u] \in Seq(DepositRecords)
    BY DEF TypeOK
  <1>2. \A i \in 1 .. Len(Deposits[u]) : Deposits[u][i] \in DepositRecords
    BY <1>1
  <1>3. /\ Len(Deposits[u]) \in Nat
        /\ DOMAIN Deposits[u] = 1 .. Len(Deposits[u])
    BY <1>1
  <1>4. \A i \in 1 .. Len(Deposits[u]) :
              /\ Deposits[u][i].amount \in Nat \ {0}
              /\ Deposits[u][i].starting_epoch \in 0 .. CurrentEpochIndex
              /\ Deposits[u][i].time \in 0 .. now
    BY <1>2 DEF DepositRecords
  <1>5. CurrentEpochIndex \in Nat
    BY DEF TypeOK
  <1> QED  BY <1>2, <1>3, <1>4, <1>5 DEF IsDepositList

\* A deposit is part of what was staked in each of its epochs, so the
\* divisor of its share is positive.
LEMMA DivisorPositive ==
  ASSUME IInv, NEW u \in Users, NEW i \in 1 .. Len(Deposits[u]),
         NEW e \in Deposits[u][i].starting_epoch .. CurrentEpochIndex
  PROVE  /\ e \in 1 .. CurrentEpochIndex
         /\ Epochs[e].staked \in Nat \ {0}
  <1> DEFINE n == Len(Deposits[u])
             F == [k \in DOMAIN Deposits[u] |->
                     IF Deposits[u][k].starting_epoch <= e
                       THEN Deposits[u][k].amount ELSE 0]
             D == [v \in Users |-> StakeDuring(Deposits[v], e)]
  <1>1. TypeOK /\ SharesWithinEpoch /\ CurrentEpochIndex \in Nat
    BY DEF IInv, Principal, TypeOK
  <1>2. /\ DOMAIN Deposits[u] = 1 .. n /\ n \in Nat
        /\ \A k \in 1 .. n : /\ Deposits[u][k].amount \in Nat \ {0}
                             /\ Deposits[u][k].starting_epoch \in 0 .. CurrentEpochIndex
    BY <1>1, DepositsAreLists
  <1>3. Deposits[u][i].starting_epoch \in 1 .. CurrentEpochIndex
    BY <1>1, <1>2 DEF SharesWithinEpoch
  <1>4. e \in 1 .. CurrentEpochIndex
    BY <1>1, <1>3
  <1>5. \A k \in 1 .. n : F[k] \in Nat
    BY <1>2
  <1>6. F[i] > 0
    BY <1>2, <1>4
  <1> HIDE DEF F
  <1>7. F[i] <= SumRange(F, 1, n)
    BY <1>2, <1>5, SumRangeEntry, 1 \in Int, n \in Int, 1 - 1 <= n, i \in 1 .. n
  <1>8. D[u] = SumRange(F, 1, n)
    BY DEF StakeDuring, F
  <1>9. ASSUME NEW v \in Users PROVE StakeDuring(Deposits[v], e) \in Nat
    <2> DEFINE G == [k \in DOMAIN Deposits[v] |->
                       IF Deposits[v][k].starting_epoch <= e
                         THEN Deposits[v][k].amount ELSE 0]
    <2>1. /\ DOMAIN Deposits[v] = 1 .. Len(Deposits[v]) /\ Len(Deposits[v]) \in Nat
          /\ \A k \in 1 .. Len(Deposits[v]) : Deposits[v][k].amount \in Nat
      BY <1>1, DepositsAreLists
    <2>2. \A k \in 1 .. Len(Deposits[v]) : G[k] \in Nat
      BY <2>1
    <2> HIDE DEF G
    <2>3. SumRange(G, 1, Len(Deposits[v])) \in Nat
      BY <2>1, <2>2, SumRangeNat, 1 - 1 <= Len(Deposits[v])
    <2> QED  BY <2>3 DEF StakeDuring, G
  <1>10. D \in [Users -> Nat]
    BY <1>9
  <1>11. D[u] <= Total(D) /\ Total(D) \in Nat
    BY <1>10, FarmAssumption, TotalBounds
  <1>12. Total(D) <= Epochs[e].staked
    BY <1>1, <1>4 DEF SharesWithinEpoch
  <1>13. Epochs[e].staked \in Nat
    BY <1>1, <1>4 DEF TypeOK
  <1> HIDE DEF D
  <1>14. SumRange(F, 1, n) > 0
    BY <1>2, <1>5, <1>6, <1>7, <1>8, <1>10
  <1> QED  BY <1>4, <1>8, <1>10, <1>11, <1>12, <1>13, <1>14

\* The part of a deposit in an epoch's stake, in units of 1/Precision.
Share(d, e) == (d.amount * Precision) \div Epochs[e].staked

\* The yield of an epoch and of a deposit is an integer, whatever the owner set.
LEMMA YieldInt ==
  ASSUME IInv, NEW u \in Users, NEW i \in 1 .. Len(Deposits[u])
  PROVE  /\ \A e \in Deposits[u][i].starting_epoch .. CurrentEpochIndex :
              /\ Share(Deposits[u][i], e) \in Int
              /\ EpochYield(Deposits[u][i], e) \in Int
         /\ calculateYield(Deposits[u][i]) \in Int
  <1>1. /\ TypeOK /\ CurrentEpochIndex \in Nat /\ now \in Nat
        /\ EmissionRatePerHour \in Int
        /\ \A k \in 0 .. CurrentEpochIndex : Epochs[k].time \in Int
    BY DEF IInv, TypeOK
  <1>2. /\ Deposits[u][i].amount \in Int
        /\ Deposits[u][i].starting_epoch \in 0 .. CurrentEpochIndex
        /\ Deposits[u][i].time \in Int
    BY <1>1, DepositsAreLists
  <1>3. \A t \in Int : fitTimeToRange(t) \in Int
    BY <1>1 DEF fitTimeToRange, TypeOK
  <1>4. ASSUME NEW e \in Deposits[u][i].starting_epoch .. CurrentEpochIndex
        PROVE  Share(Deposits[u][i], e) \in Int /\ EpochYield(Deposits[u][i], e) \in Int
    <2> DEFINE d == Deposits[u][i]
               from == IF e = d.starting_epoch THEN d.time ELSE Epochs[e].time
               to   == IF e = CurrentEpochIndex THEN now ELSE Epochs[e + 1].time
    <2>1. e \in 1 .. CurrentEpochIndex /\ Epochs[e].staked \in Nat \ {0}
      BY DivisorPositive
    <2>2. e # CurrentEpochIndex => e + 1 \in 0 .. CurrentEpochIndex
      BY <1>1, <2>1
    <2>3. from \in Int /\ to \in Int
      BY <1>1, <1>2, <2>1, <2>2
    <2>4. HoursStaked(d, e) = fitTimeToRange(to) - fitTimeToRange(from)
      BY DEF HoursStaked
    <2>5. d.amount \in Int /\ Precision \in Int
      BY <1>2, FarmAssumption
    <2> HIDE DEF d, from, to
    <2>6. HoursStaked(d, e) \in Int
      BY <1>3, <2>3, <2>4
    <2>7. Share(d, e) \in Int
      <3>1. \A x, y \in Int : x * y \in Int
        OBVIOUS
      <3>2. \A x \in Int, y \in Nat \ {0} : x \div y \in Int
        OBVIOUS
      <3>3. d.amount * Precision \in Int
        BY <2>5, <3>1
      <3> QED  BY <2>1, <3>2, <3>3 DEF Share
    <2>8. EpochYield(d, e) \in Int
      BY <1>1, <2>6, <2>7 DEF EpochYield, Share
    <2> QED  BY <2>7, <2>8 DEF d
  <1>5. calculateYield(Deposits[u][i]) \in Int
    <2> DEFINE a == Deposits[u][i].starting_epoch
               F == [e \in a .. CurrentEpochIndex |-> EpochYield(Deposits[u][i], e)]
    <2>1. a \in Int /\ CurrentEpochIndex \in Int /\ a - 1 <= CurrentEpochIndex
      BY <1>1, <1>2
    <2>2. \A e \in a .. CurrentEpochIndex : F[e] \in Int
      BY <1>4
    <2> HIDE DEF a, F
    <2>3. SumRange(F, a, CurrentEpochIndex) \in Int
      BY <2>1, <2>2, SumRangeInt
    <2> QED  BY <2>3 DEF calculateYield, a, F
  <1> QED  BY <1>4, <1>5

\* So is what a user has earned, less what was paid.
LEMMA HarvestableInt ==
  ASSUME IInv, NEW u \in Users
  PROVE  Accrued(u) \in Int /\ Harvestable(u) \in Int
  <1>1. /\ DOMAIN Deposits[u] = 1 .. Len(Deposits[u]) /\ Len(Deposits[u]) \in Nat
        /\ Withdrawals[u] \in Int
    BY DepositsAreLists DEF IInv, TypeOK
  <1> DEFINE F == [i \in DOMAIN Deposits[u] |-> calculateYield(Deposits[u][i])]
  <1>2. \A i \in 1 .. Len(Deposits[u]) : F[i] \in Int
    BY <1>1, YieldInt
  <1> HIDE DEF F
  <1>3. SumRange(F, 1, Len(Deposits[u])) \in Int
    BY <1>1, <1>2, SumRangeInt, 1 \in Int, Len(Deposits[u]) \in Int, 1 - 1 <= Len(Deposits[u])
  <1> QED  BY <1>1, <1>3 DEF Accrued, Harvestable, F

\* Paying a yield never overdraws the contract at the yield token.
LEMMA PayYieldType ==
  ASSUME IInv, NEW u \in Users, NEW y \in Int, PayYield(u, y)
  PROVE  yieldBalances' \in [Accounts -> Nat]
  <1> DEFINE dev == DevShare(y)
  <1>1. /\ yieldBalances \in [Accounts -> Nat]
        /\ DevRewardWallet \in Accounts /\ u \in Accounts /\ This \in Accounts
        /\ DevRewardPct \in Int
    <2>1. yieldBalances \in [Accounts -> Nat] /\ DevRewardWallet \in Admins
      BY DEF IInv, TypeOK
    <2>2. DevRewardPct \in Int
      BY FarmAssumption DEF IInv, TypeOK
    <2> QED  BY <2>1, <2>2 DEF Accounts
  <1>2. dev \in Int
    BY <1>1, FarmAssumption DEF DevShare
  <1>3. IsFiniteSet(Accounts)
    BY FarmAssumption, FS_Union, FS_Singleton DEF Accounts
  <1>4. DevPaid(y) \in [Accounts -> Nat]
    BY <1>1, <1>2, <1>3, MoveKeepsSupply DEF PayYield, CanPayYield, DevPaid
  <1>5. CanTransfer(DevPaid(y), This, y - dev)
    BY DEF PayYield, CanPayYield
  <1>6. Move(DevPaid(y), This, u, y - dev) \in [Accounts -> Nat]
    BY <1>1, <1>2, <1>3, <1>4, <1>5, MoveKeepsSupply
  <1> QED  BY <1>6 DEF PayYield

-----------------------------------------------------------------------------
(* Steps that leave principal alone *)

\* A call that leaves deposits, epochs and staking token alone leaves the accounting.
LEMMA PrincipalUntouched ==
  ASSUME Principal,
         UNCHANGED <<Deposits, CurrentEpochIndex, Epochs, StakedBalance, stakingBalances>>
  PROVE  Principal'
  <1>1. StakeOfUser' = StakeOfUser
    BY DEF StakeOfUser, StakeOf
  <1>2. \A e \in 1 .. CurrentEpochIndex :
          [u \in Users |-> StakeDuring(Deposits[u], e)]' = [u \in Users |-> StakeDuring(Deposits[u], e)]
    BY DEF StakeDuring
  <1>3. StakeAccounted'
    BY <1>1 DEF Principal, StakeAccounted
  <1>4. VaultCoversStake'
    BY DEF Principal, VaultCoversStake
  <1>5. SharesWithinEpoch'
    BY <1>2 DEF Principal, SharesWithinEpoch
  <1> QED  BY <1>3, <1>4, <1>5 DEF Principal

\* The owner's setters.
LEMMA SettersPreserve ==
  ASSUME IInv, NEW caller \in Admins,
         \/ \E vk \in Admins : setOwner(caller, vk) \/ setDevWallet(caller, vk)
         \/ \E pct \in Pcts : setDevRewardPct(caller, pct)
         \/ \E rate \in Rates : setEmissionRatePerHour(caller, rate)
         \/ \E is_open \in OpenChoices : allowStaking(caller, is_open)
         \/ \E t \in StartTimes : setStartTime(caller, t)
         \/ \E t \in EndTimes : setEndTime(caller, t)
  PROVE  IInv'
  <1>1. UNCHANGED <<positions, tokens, now>>
    BY DEF setOwner, setDevWallet, setDevRewardPct, setEmissionRatePerHour,
           allowStaking, setStartTime, setEndTime
  <1>2. /\ Owner' \in Admins /\ DevRewardWallet' \in Admins
        /\ EmissionRatePerHour' \in Int /\ DevRewardPct' \in 0 .. PctBase - 1
        /\ StartTime' \in Nat /\ EndTime' \in Nat /\ OpenForBusiness' \in BOOLEAN
    <2>1. EmissionRatePerHour' \in Int
      BY FarmAssumption
         DEF IInv, TypeOK, setOwner, setDevWallet, setDevRewardPct,
             setEmissionRatePerHour, allowStaking, setStartTime, setEndTime
    <2>2. /\ Owner' \in Admins /\ DevRewardWallet' \in Admins
          /\ DevRewardPct' \in 0 .. PctBase - 1
          /\ StartTime' \in Nat /\ EndTime' \in Nat /\ OpenForBusiness' \in BOOLEAN
      BY SMTT(30), FarmAssumption
         DEF IInv, TypeOK, setOwner, setDevWallet, setDevRewardPct,
             setEmissionRatePerHour, allowStaking, setStartTime, setEndTime
    <2> QED  BY <2>1, <2>2
  <1>3. TypeOK'
    BY <1>1, <1>2 DEF IInv, TypeOK, DepositRecords, positions, tokens
  <1>4. Principal'
    BY <1>1, PrincipalUntouched DEF IInv, positions, tokens
  <1> QED  BY <1>3, <1>4 DEF IInv

\* Transfers of the yield token: recoveries, refills and harvests.
LEMMA YieldMovesPreserve ==
  ASSUME IInv,
         \/ \E caller \in Admins, amount \in RecoverAmounts :
              recoverYieldToken(caller, amount)
         \/ \E from \in Admins, amount \in FundAmounts : fundPool(from, amount)
         \/ \E user \in Users, amount \in HarvestAmounts : withdrawYield(user, amount)
  PROVE  IInv'
  <1>1. /\ TypeOK /\ Principal
        /\ yieldBalances \in [Accounts -> Nat] /\ Owner \in Accounts
        /\ This \in Accounts /\ Admins \subseteq Accounts
    BY FarmAssumption DEF IInv, TypeOK, Accounts
  <1>2. IsFiniteSet(Accounts)
    BY FarmAssumption, FS_Union, FS_Singleton DEF Accounts
  <1>3. UNCHANGED <<settings, Deposits, CurrentEpochIndex, Epochs, StakedBalance,
                    stakingBalances, stakingApprovals, now>>
    BY DEF recoverYieldToken, fundPool, withdrawYield, positions
  <1>4. yieldBalances' \in [Accounts -> Nat] /\ Withdrawals' \in [Users -> Nat]
    <2>1. CASE \E caller \in Admins, amount \in RecoverAmounts :
                 recoverYieldToken(caller, amount)
      <3>1. Withdrawals' = Withdrawals
        BY <2>1 DEF recoverYieldToken, positions
      <3>2. PICK amount \in RecoverAmounts :
              /\ CanTransfer(yieldBalances, This, amount)
              /\ yieldBalances' = Move(yieldBalances, This, Owner, amount)
        BY <2>1 DEF recoverYieldToken
      <3>3. amount \in Int
        BY FarmAssumption
      <3>4. yieldBalances' \in [Accounts -> Nat]
        BY <1>1, <1>2, <3>2, <3>3, MoveKeepsSupply
      <3> QED  BY <1>1, <3>1, <3>4 DEF TypeOK
    <2>2. CASE \E from \in Admins, amount \in FundAmounts : fundPool(from, amount)
      <3>1. Withdrawals' = Withdrawals
        BY <2>2 DEF fundPool, positions
      <3>2. PICK from \in Admins, amount \in FundAmounts :
              /\ CanTransfer(yieldBalances, from, amount)
              /\ yieldBalances' = Move(yieldBalances, from, This, amount)
        BY <2>2 DEF fundPool
      <3>3. amount \in Int /\ from \in Accounts
        BY <1>1, FarmAssumption
      <3>4. yieldBalances' \in [Accounts -> Nat]
        BY <1>1, <1>2, <3>2, <3>3, MoveKeepsSupply
      <3> QED  BY <1>1, <3>1, <3>4 DEF TypeOK
    <2>3. CASE \E user \in Users, amount \in HarvestAmounts : withdrawYield(user, amount)
      <3>1. PICK user \in Users, amount \in HarvestAmounts : withdrawYield(user, amount)
        BY <2>3
      <3> DEFINE y == IF amount < Harvestable(user) THEN amount ELSE Harvestable(user)
      <3>2. y \in Int
        BY HarvestableInt, FarmAssumption
      <3>3. /\ y > 0 /\ PayYield(user, y)
            /\ Withdrawals' = [Withdrawals EXCEPT ![user] = @ + y]
        BY <3>1 DEF withdrawYield
      <3> HIDE DEF y
      <3>4. yieldBalances' \in [Accounts -> Nat]
        BY <3>2, <3>3, PayYieldType
      <3>5. Withdrawals \in [Users -> Nat]
        BY <1>1 DEF TypeOK
      <3> QED  BY <3>2, <3>3, <3>4, <3>5
    <2> QED  BY <2>1, <2>2, <2>3
  <1>5. TypeOK'
    BY <1>1, <1>3, <1>4 DEF TypeOK, DepositRecords, settings
  <1> QED  BY <1>1, <1>3, <1>5, PrincipalUntouched DEF IInv

\* Approvals and the clock.
LEMMA ApproveAndClockPreserve ==
  ASSUME IInv, NextBlock \/ \E user \in Users, amount \in StakeAmounts : approve(user, amount)
  PROVE  IInv'
  <1>1. CASE NextBlock
    <2>1. /\ UNCHANGED <<settings, positions, tokens>>
          /\ now \in Nat /\ now' = now + 1
      BY <1>1 DEF NextBlock, IInv, TypeOK
    <2>2. Deposits' \in [Users -> Seq(DepositRecords')]
      <3>1. DepositRecords \subseteq DepositRecords'
        BY <2>1 DEF DepositRecords, positions
      <3>2. Seq(DepositRecords) \subseteq Seq(DepositRecords')
        BY <3>1
      <3> QED  BY <2>1, <3>2 DEF IInv, TypeOK, positions
    <2>3. Epochs' \in [0 .. CurrentEpochIndex' -> [time : 0 .. now', staked : Nat]]
      BY <2>1 DEF IInv, TypeOK, positions
    <2>4. TypeOK'
      BY <2>1, <2>2, <2>3 DEF IInv, TypeOK, settings, positions, tokens
    <2> QED  BY <2>1, <2>4, PrincipalUntouched DEF IInv, positions, tokens
  <1>2. CASE \E user \in Users, amount \in StakeAmounts : approve(user, amount)
    <2>1. UNCHANGED <<settings, positions, stakingBalances, yieldBalances, now>>
      BY <1>2 DEF approve
    <2>2. stakingApprovals' \in [Users -> Nat]
      BY <1>2, FarmAssumption DEF approve, IInv, TypeOK
    <2>3. TypeOK'
      BY <2>1, <2>2 DEF IInv, TypeOK, DepositRecords, settings, positions
    <2> QED  BY <2>1, <2>3, PrincipalUntouched DEF IInv, positions
  <1> QED  BY <1>1, <1>2

-----------------------------------------------------------------------------
(* Entries and exits *)

\* An epoch that opened after all of a list's deposits holds all of them; an
\* epoch before a new deposit does not hold it; an empty list is never there.
LEMMA StakeDuringFacts ==
  /\ \A e : StakeDuring(<<>>, e) = 0
  /\ \A s, e : /\ IsDepositList(s) /\ e \in Int
               /\ \A i \in 1 .. Len(s) : s[i].starting_epoch <= e
               => StakeDuring(s, e) = StakeOf(s)
  /\ \A s, t, e : /\ IsDepositList(s) /\ e \in Int
                  /\ DOMAIN t = 1 .. Len(s) + 1 /\ Len(t) = Len(s) + 1
                  /\ \A i \in 1 .. Len(s) : t[i] = s[i]
                  /\ t[Len(s) + 1].starting_epoch \in Int
                  /\ t[Len(s) + 1].starting_epoch > e
                  => StakeDuring(t, e) = StakeDuring(s, e)
  /\ \A s, e : IsDepositList(s) /\ e \in Int => StakeDuring(s, e) \in Nat
  <1> DEFINE F(s, e) == [i \in DOMAIN s |->
                           IF s[i].starting_epoch <= e THEN s[i].amount ELSE 0]
             G(s) == [i \in DOMAIN s |-> s[i].amount]
  <1>1. ASSUME NEW e PROVE StakeDuring(<<>>, e) = 0
    BY SumRangeEmpty, 1 - 1 = 0 DEF StakeDuring
  <1>2. ASSUME NEW s, NEW e \in Int, IsDepositList(s),
               \A i \in 1 .. Len(s) : s[i].starting_epoch <= e
        PROVE  StakeDuring(s, e) = StakeOf(s)
    <2>1. PICK n \in Nat : DOMAIN s = 1 .. n /\ Len(s) = n
      BY <1>2 DEF IsDepositList
    <2>2. \A i \in 1 .. n : F(s, e)[i] = G(s)[i]
      BY <1>2, <2>1
    <2> HIDE DEF F, G
    <2>3. SumRange(F(s, e), 1, n) = SumRange(G(s), 1, n)
      BY <2>2, SumRangeEqual, 1 - 1 <= n, n \in Int, 1 \in Int
    <2> QED  BY <2>1, <2>3 DEF StakeDuring, StakeOf, F, G
  <1>3. ASSUME NEW s, NEW t, NEW e \in Int, IsDepositList(s),
               DOMAIN t = 1 .. Len(s) + 1, Len(t) = Len(s) + 1,
               \A i \in 1 .. Len(s) : t[i] = s[i],
               t[Len(s) + 1].starting_epoch \in Int,
               t[Len(s) + 1].starting_epoch > e
        PROVE  StakeDuring(t, e) = StakeDuring(s, e)
    <2>1. PICK n \in Nat : /\ DOMAIN s = 1 .. n /\ Len(s) = n
                           /\ \A i \in 1 .. n : /\ s[i].amount \in Nat
                                                /\ s[i].starting_epoch \in Int
      BY <1>3 DEF IsDepositList
    <2>2. \A i \in 1 .. n : F(s, e)[i] = F(t, e)[i]
      BY <1>3, <2>1
    <2>3. F(t, e)[n + 1] = 0
      BY <1>3, <2>1
    <2>4. \A i \in 1 .. n : F(s, e)[i] \in Nat
      BY <2>1
    <2> HIDE DEF F
    <2>5. SumRange(F(t, e), 1, n + 1) = SumRange(F(s, e), 1, n) + F(t, e)[n + 1]
      BY <2>2, SumRangeAppend
    <2>6. SumRange(F(s, e), 1, n) \in Nat
      BY <2>4, SumRangeNat, 1 - 1 <= n, n \in Int, 1 \in Int
    <2>7. SumRange(F(t, e), 1, n + 1) = SumRange(F(s, e), 1, n)
      BY <2>3, <2>5, <2>6
    <2> QED  BY <1>3, <2>1, <2>7 DEF StakeDuring, F
  <1>4. ASSUME NEW s, NEW e \in Int, IsDepositList(s)
        PROVE  StakeDuring(s, e) \in Nat
    <2>1. PICK n \in Nat : /\ DOMAIN s = 1 .. n /\ Len(s) = n
                           /\ \A i \in 1 .. n : s[i].amount \in Nat
      BY <1>4 DEF IsDepositList
    <2>2. \A i \in 1 .. n : F(s, e)[i] \in Nat
      BY <2>1
    <2> HIDE DEF F
    <2>3. SumRange(F(s, e), 1, n) \in Nat
      BY <2>2, SumRangeNat, 1 - 1 <= n, n \in Int, 1 \in Int
    <2> QED  BY <2>1, <2>3 DEF StakeDuring, F
  <1> QED  BY <1>1, <1>2, <1>3, <1>4

\* What an entry and an exit do to the lists, in one statement: the steps
\* that open an epoch.
LEMMA EntryLists ==
  ASSUME IInv, NEW user \in Users, NEW amount \in StakeAmounts,
         addStakingTokens(user, amount)
  PROVE  /\ amount \in Nat \ {0}
         /\ DOMAIN Deposits'[user] = 1 .. Len(Deposits[user]) + 1
         /\ Len(Deposits'[user]) = Len(Deposits[user]) + 1
         /\ \A i \in 1 .. Len(Deposits[user]) : Deposits'[user][i] = Deposits[user][i]
         /\ Deposits'[user][Len(Deposits[user]) + 1] = NewDeposit(amount)
         /\ \A u \in Users \ {user} : Deposits'[u] = Deposits[u]
         /\ Deposits' \in [Users -> Seq(DepositRecords')]
  <1>1. /\ Deposits \in [Users -> Seq(DepositRecords)]
        /\ CurrentEpochIndex \in Nat /\ now \in Nat
    BY DEF IInv, TypeOK
  <1>2. /\ amount \in Nat \ {0}
        /\ Deposits' = [Deposits EXCEPT ![user] = Append(@, NewDeposit(amount))]
        /\ CurrentEpochIndex' = CurrentEpochIndex + 1 /\ now' = now
    BY FarmAssumption DEF addStakingTokens, incrementEpoch
  <1>3. NewDeposit(amount) \in DepositRecords'
    BY <1>1, <1>2 DEF NewDeposit, DepositRecords
  <1>4. DepositRecords \subseteq DepositRecords'
    BY <1>1, <1>2 DEF DepositRecords
  <1>5. Deposits \in [Users -> Seq(DepositRecords')]
    <2>1. Seq(DepositRecords) \subseteq Seq(DepositRecords')
      BY <1>4
    <2> QED  BY <1>1, <2>1
  <1> DEFINE R == DepositRecords'
             s == Deposits[user]
             d == NewDeposit(amount)
  <1>6. s \in Seq(R) /\ d \in R
    BY <1>3, <1>5
  <1> HIDE DEF R, s, d
  <1>7. /\ Append(s, d) \in Seq(R)
        /\ DOMAIN Append(s, d) = 1 .. Len(s) + 1
        /\ Len(Append(s, d)) = Len(s) + 1
        /\ \A i \in 1 .. Len(s) : Append(s, d)[i] = s[i]
        /\ Append(s, d)[Len(s) + 1] = d
    BY <1>6
  <1>8. Deposits'[user] = Append(s, d) /\ \A u \in Users \ {user} : Deposits'[u] = Deposits[u]
    BY <1>1, <1>2 DEF s, d
  <1>9. Deposits' \in [Users -> Seq(R)]
    BY <1>2, <1>5, <1>7 DEF R, s, d
  <1> QED  BY <1>2, <1>7, <1>8, <1>9 DEF R, s, d

\* The stakes that the abstract vault sees change by one entry.
LEMMA EntryStakes ==
  ASSUME IInv, NEW user \in Users, NEW amount \in StakeAmounts,
         addStakingTokens(user, amount)
  PROVE  /\ StakeOfUser \in [Users -> Nat]
         /\ StakeOfUser' = [StakeOfUser EXCEPT ![user] = @ + amount]
  <1>1. TypeOK
    BY DEF IInv
  <1>2. \A u \in Users : IsDepositList(Deposits[u])
    BY <1>1, DepositsAreLists
  <1>3. StakeOfUser \in [Users -> Nat]
    BY <1>2, StakeOfFacts DEF StakeOfUser
  <1>4. StakeOf(Deposits'[user]) = StakeOf(Deposits[user]) + NewDeposit(amount).amount
    BY <1>2, EntryLists, StakeOfAppend
  <1>5. NewDeposit(amount).amount = amount
    BY DEF NewDeposit
  <1>6. \A u \in Users \ {user} : StakeOf(Deposits'[u]) = StakeOf(Deposits[u])
    BY EntryLists
  <1>7. StakeOfUser' = [u \in Users |-> StakeOf(Deposits'[u])]
    BY DEF StakeOfUser, StakeOf
  <1> QED  BY <1>3, <1>4, <1>5, <1>6, <1>7 DEF StakeOfUser

\* An exit empties the user's stake and nobody else's.
LEMMA ExitStakes ==
  ASSUME IInv, NEW user \in Users, withdrawTokensAndYield(user)
  PROVE  /\ StakeOfUser \in [Users -> Nat]
         /\ StakeOfUser' = [StakeOfUser EXCEPT ![user] = 0]
         /\ StakeOfUser[user] = StakeOf(Deposits[user])
         /\ Deposits' = [Deposits EXCEPT ![user] = <<>>]
         /\ Deposits' \in [Users -> Seq(DepositRecords')]
  <1>1. TypeOK
    BY DEF IInv
  <1>2. \A u \in Users : IsDepositList(Deposits[u])
    BY <1>1, DepositsAreLists
  <1>3. StakeOfUser \in [Users -> Nat]
    BY <1>2, StakeOfFacts DEF StakeOfUser
  <1>4. /\ Deposits' = [Deposits EXCEPT ![user] = <<>>]
        /\ CurrentEpochIndex' = CurrentEpochIndex + 1 /\ now' = now
    BY DEF withdrawTokensAndYield, closePosition, incrementEpoch
  <1>5. Deposits \in [Users -> Seq(DepositRecords)] /\ CurrentEpochIndex \in Nat
    BY <1>1 DEF TypeOK
  <1>6. DepositRecords \subseteq DepositRecords'
    BY <1>4, <1>5 DEF DepositRecords
  <1>7. Deposits' \in [Users -> Seq(DepositRecords')]
    <2>1. Seq(DepositRecords) \subseteq Seq(DepositRecords')
      BY <1>6
    <2>2. <<>> \in Seq(DepositRecords')
      OBVIOUS
    <2> QED  BY <1>4, <1>5, <2>1, <2>2
  <1>8. StakeOfUser' = [u \in Users |-> StakeOf(Deposits'[u])]
    BY DEF StakeOfUser, StakeOf
  <1>9. StakeOfUser' = [StakeOfUser EXCEPT ![user] = 0]
    BY <1>4, <1>5, <1>8, StakeOfFacts DEF StakeOfUser
  <1> QED  BY <1>3, <1>4, <1>7, <1>9 DEF StakeOfUser

\* A deposit keeps the invariant.
LEMMA EntryPreserves ==
  ASSUME IInv, NEW user \in Users, NEW amount \in StakeAmounts,
         addStakingTokens(user, amount)
  PROVE  IInv'
  <1>1. /\ TypeOK /\ StakeAccounted /\ SharesWithinEpoch /\ VaultCoversStake
        /\ \A u \in Users : IsDepositList(Deposits[u])
    BY DepositsAreLists DEF IInv, Principal
  <1>2. /\ amount \in Nat \ {0}
        /\ CanTransfer(stakingBalances, user, amount)
        /\ stakingBalances' = Move(stakingBalances, user, This, amount)
        /\ stakingApprovals' = [stakingApprovals EXCEPT ![user] = @ - amount]
        /\ stakingApprovals[user] >= amount
        /\ StakedBalance' = StakedBalance + amount
        /\ UNCHANGED <<settings, Withdrawals, yieldBalances, now>>
    BY EntryLists DEF addStakingTokens, CanTransferFrom, CanTransfer
  <1>3. /\ CurrentEpochIndex' = CurrentEpochIndex + 1
        /\ Epochs' = [e \in 0 .. CurrentEpochIndex + 1 |->
                        IF e = CurrentEpochIndex + 1
                          THEN [time |-> now, staked |-> StakedBalance + amount]
                          ELSE Epochs[e]]
    BY DEF addStakingTokens, incrementEpoch
  <1>4. /\ CurrentEpochIndex \in Nat /\ StakedBalance \in Nat /\ now \in Nat
        /\ Epochs \in [0 .. CurrentEpochIndex -> [time : 0 .. now, staked : Nat]]
        /\ stakingBalances \in [Accounts -> Nat] /\ user \in Accounts /\ This \in Accounts
        /\ user # This
    BY <1>1, FarmAssumption DEF TypeOK, Accounts
  <1>5. IsFiniteSet(Accounts)
    BY FarmAssumption, FS_Union, FS_Singleton DEF Accounts
  <1>6. /\ stakingBalances' \in [Accounts -> Nat]
        /\ Total(stakingBalances') = Total(stakingBalances)
        /\ stakingBalances'[This] = stakingBalances[This] + amount
    <2>1. /\ stakingBalances' \in [Accounts -> Nat]
          /\ Total(stakingBalances') = Total(stakingBalances)
      BY SMTT(30), <1>2, <1>4, <1>5, MoveKeepsSupply
    <2>2. stakingBalances'[This] = stakingBalances[This] + amount
      BY <1>2, <1>4 DEF Move
    <2> QED  BY <2>1, <2>2
  <1>7. VaultCoversStake'
    BY <1>1, <1>2, <1>4, <1>6 DEF VaultCoversStake
  <1>8. Epochs' \in [0 .. CurrentEpochIndex' -> [time : 0 .. now', staked : Nat]]
    <2>1. now' = now /\ now \in 0 .. now /\ StakedBalance + amount \in Nat
      BY <1>2, <1>4
    <2> QED  BY <1>3, <1>4, <2>1
  <1>9. TypeOK'
    <2>1. Deposits' \in [Users -> Seq(DepositRecords')]
      BY EntryLists
    <2>2. stakingApprovals' \in [Users -> Nat]
      BY <1>1, <1>2 DEF TypeOK
    <2>3. StakedBalance' \in Nat /\ CurrentEpochIndex' \in Nat
      BY <1>2, <1>3, <1>4
    <2> QED  BY <1>1, <1>2, <1>6, <1>8, <2>1, <2>2, <2>3 DEF TypeOK, settings
  <1>10. StakeAccounted'
    <2>1. Total(StakeOfUser') = Total(StakeOfUser) - StakeOfUser[user] + StakeOfUser'[user]
      <3> DEFINE f == StakeOfUser
                 g == [StakeOfUser EXCEPT ![user] = @ + amount]
      <3>1. /\ f \in [Users -> Nat] /\ g \in [Users -> Nat]
            /\ \A u \in Users \ {user} : g[u] = f[u]
        BY <1>2, EntryStakes
      <3> HIDE DEF f, g
      <3>2. Total(g) = Total(f) - f[user] + g[user]
        BY <3>1, FarmAssumption, TotalUpdate
      <3> QED  BY <3>2, EntryStakes DEF f, g
    <2>2. /\ StakeOfUser'[user] = StakeOfUser[user] + amount
          /\ StakeOfUser[user] \in Nat /\ Total(StakeOfUser) \in Nat
      BY EntryStakes, FarmAssumption, TotalBounds
    <2>3. StakedBalance' = Total(StakeOfUser')
      BY <1>1, <1>2, <2>1, <2>2 DEF StakeAccounted
    <2>4. Epochs'[CurrentEpochIndex'].staked = StakedBalance'
      BY <1>2, <1>3, <1>4
    <2> QED  BY <2>3, <2>4 DEF StakeAccounted
  <1>11. SharesWithinEpoch'
    <2>1. ASSUME NEW e \in 1 .. CurrentEpochIndex + 1
          PROVE  Total([u \in Users |-> StakeDuring(Deposits'[u], e)]) <= Epochs'[e].staked
      <3>1. CASE e = CurrentEpochIndex + 1
        <4>1. ASSUME NEW u \in Users
              PROVE  StakeDuring(Deposits'[u], e) = StakeOf(Deposits'[u])
          <5>1. /\ Deposits'[u] \in Seq(DepositRecords')
                /\ CurrentEpochIndex' \in Nat /\ e = CurrentEpochIndex'
            BY <1>3, <1>4, <3>1, EntryLists
          <5>2. \A i \in 1 .. Len(Deposits'[u]) : Deposits'[u][i] \in DepositRecords'
            BY <5>1
          <5>3. /\ IsDepositList(Deposits'[u])
                /\ \A i \in 1 .. Len(Deposits'[u]) : Deposits'[u][i].starting_epoch <= e
            <6>1. \A i \in 1 .. Len(Deposits'[u]) :
                    /\ Deposits'[u][i].amount \in Nat
                    /\ Deposits'[u][i].starting_epoch \in 0 .. CurrentEpochIndex'
              BY <5>2 DEF DepositRecords
            <6>2. Len(Deposits'[u]) \in Nat /\ DOMAIN Deposits'[u] = 1 .. Len(Deposits'[u])
              BY <5>1
            <6> QED  BY <5>1, <6>1, <6>2 DEF IsDepositList
          <5> QED  BY SMTT(30), <1>4, <5>3, StakeDuringFacts
        <4>2. [u \in Users |-> StakeDuring(Deposits'[u], e)] = StakeOfUser'
          BY <4>1 DEF StakeOfUser, StakeOf
        <4>3. StakedBalance' = Total(StakeOfUser')
          BY <1>10 DEF StakeAccounted
        <4>4. Epochs'[e].staked = StakedBalance' /\ StakedBalance' \in Nat
          BY <1>2, <1>3, <1>4, <3>1
        <4> QED  BY <4>2, <4>3, <4>4
      <3>2. CASE e \in 1 .. CurrentEpochIndex
        <4>1. \A u \in Users : StakeDuring(Deposits'[u], e) = StakeDuring(Deposits[u], e)
          <5>1. /\ NewDeposit(amount).starting_epoch = CurrentEpochIndex + 1
                /\ e \in Int /\ CurrentEpochIndex + 1 \in Int /\ CurrentEpochIndex + 1 > e
            BY <1>4, <3>2 DEF NewDeposit
          <5>2. StakeDuring(Deposits'[user], e) = StakeDuring(Deposits[user], e)
            BY <1>1, <5>1, EntryLists, StakeDuringFacts
          <5> QED  BY <5>2, EntryLists
        <4>2. [u \in Users |-> StakeDuring(Deposits'[u], e)]
                = [u \in Users |-> StakeDuring(Deposits[u], e)]
          BY <4>1
        <4>3. Epochs'[e] = Epochs[e]
          BY <1>3, <1>4, <3>2
        <4> QED  BY <1>1, <3>2, <4>2, <4>3 DEF SharesWithinEpoch
      <3> QED  BY <1>4, <3>1, <3>2
    <2>2. ASSUME NEW u \in Users, NEW i \in DOMAIN Deposits'[u]
          PROVE  /\ Deposits'[u][i].starting_epoch \in 1 .. CurrentEpochIndex + 1
                 /\ Deposits'[u][i].time = Epochs'[Deposits'[u][i].starting_epoch].time
      <3>1. CASE u = user /\ i = Len(Deposits[user]) + 1
        <4>1. /\ Deposits'[u][i].starting_epoch = CurrentEpochIndex + 1
              /\ Deposits'[u][i].time = now
          <5>1. Deposits'[u][i] = NewDeposit(amount)
            BY <3>1, EntryLists
          <5> QED  BY <5>1 DEF NewDeposit
        <4>2. Epochs'[CurrentEpochIndex + 1].time = now
          BY <1>3, <1>4
        <4> QED  BY <1>4, <4>1, <4>2
      <3>2. CASE ~ (u = user /\ i = Len(Deposits[user]) + 1)
        <4>1. i \in DOMAIN Deposits[u] /\ Deposits'[u][i] = Deposits[u][i]
          <5>1. CASE u = user
            <6>1. i \in 1 .. Len(Deposits[user]) + 1 /\ i # Len(Deposits[user]) + 1
              BY <3>2, <5>1, EntryLists
            <6>2. Len(Deposits[user]) \in Nat
                  /\ DOMAIN Deposits[user] = 1 .. Len(Deposits[user])
              BY <1>1, DepositsAreLists
            <6> QED  BY <5>1, <6>1, <6>2, EntryLists
          <5>2. CASE u # user
            BY <5>2, EntryLists
          <5> QED  BY <5>1, <5>2
        <4>2. /\ Deposits[u][i].starting_epoch \in 1 .. CurrentEpochIndex
              /\ Deposits[u][i].time = Epochs[Deposits[u][i].starting_epoch].time
          BY <1>1, <4>1 DEF SharesWithinEpoch
        <4>3. \A k \in 1 .. CurrentEpochIndex : Epochs'[k] = Epochs[k]
          BY <1>3, <1>4
        <4>4. /\ Deposits'[u][i].starting_epoch \in 1 .. CurrentEpochIndex
              /\ Deposits'[u][i].time = Epochs'[Deposits'[u][i].starting_epoch].time
          BY <4>1, <4>2, <4>3
        <4> QED  BY <1>4, <4>4
      <3> QED  BY <3>1, <3>2
    <2> QED  BY <1>3, <2>1, <2>2 DEF SharesWithinEpoch
  <1> QED  BY <1>7, <1>9, <1>10, <1>11 DEF IInv, Principal

\* An exit keeps the invariant.
LEMMA ExitPreserves ==
  ASSUME IInv, NEW user \in Users, withdrawTokensAndYield(user)
  PROVE  IInv'
  <1> DEFINE stake == StakeOf(Deposits[user])
  <1>1. /\ TypeOK /\ StakeAccounted /\ SharesWithinEpoch /\ VaultCoversStake
        /\ \A u \in Users : IsDepositList(Deposits[u])
    BY DepositsAreLists DEF IInv, Principal
  <1>2. /\ CanTransfer(stakingBalances, This, stake)
        /\ stakingBalances' = Move(stakingBalances, This, user, stake)
        /\ \/ Harvestable(user) > 0 /\ PayYield(user, Harvestable(user))
           \/ Harvestable(user) <= 0 /\ UNCHANGED yieldBalances
        /\ Withdrawals' = [Withdrawals EXCEPT ![user] = 0]
        /\ StakedBalance' = StakedBalance - stake
        /\ CurrentEpochIndex' = CurrentEpochIndex + 1
        /\ Epochs' = [e \in 0 .. CurrentEpochIndex + 1 |->
                        IF e = CurrentEpochIndex + 1
                          THEN [time |-> now, staked |-> StakedBalance - stake]
                          ELSE Epochs[e]]
        /\ UNCHANGED <<settings, stakingApprovals, now>>
    BY DEF withdrawTokensAndYield, closePosition, incrementEpoch
  <1>3. /\ StakeOfUser \in [Users -> Nat]
        /\ StakeOfUser' = [StakeOfUser EXCEPT ![user] = 0]
        /\ StakeOfUser[user] = stake
        /\ stake \in Nat
        /\ Deposits' = [Deposits EXCEPT ![user] = <<>>]
    BY ExitStakes
  <1>4. stake <= StakedBalance
    <2>1. StakeOfUser[user] <= Total(StakeOfUser)
      BY <1>3, FarmAssumption, TotalBounds
    <2> QED  BY <1>1, <1>3, <2>1 DEF StakeAccounted
  <1> HIDE DEF stake
  <1>5. /\ CurrentEpochIndex \in Nat /\ StakedBalance \in Nat /\ now \in Nat
        /\ Epochs \in [0 .. CurrentEpochIndex -> [time : 0 .. now, staked : Nat]]
        /\ stakingBalances \in [Accounts -> Nat] /\ user \in Accounts /\ This \in Accounts
        /\ user # This /\ Deposits \in [Users -> Seq(DepositRecords)]
        /\ yieldBalances \in [Accounts -> Nat] /\ Withdrawals \in [Users -> Nat]
    BY <1>1, FarmAssumption DEF TypeOK, Accounts
  <1>6. IsFiniteSet(Accounts)
    BY FarmAssumption, FS_Union, FS_Singleton DEF Accounts
  <1>7. /\ stakingBalances' \in [Accounts -> Nat]
        /\ Total(stakingBalances') = Total(stakingBalances)
        /\ stakingBalances'[This] = stakingBalances[This] - stake
    <2>1. /\ stakingBalances' \in [Accounts -> Nat]
          /\ Total(stakingBalances') = Total(stakingBalances)
      <3>1. stake \in Int /\ CanTransfer(stakingBalances, This, stake)
        BY <1>2, <1>3
      <3>2. /\ stakingBalances \in [Accounts -> Nat]
            /\ user \in Accounts /\ This \in Accounts
        BY <1>5
      <3>3. /\ Move(stakingBalances, This, user, stake) \in [Accounts -> Nat]
            /\ Total(Move(stakingBalances, This, user, stake)) = Total(stakingBalances)
        BY <1>6, <3>1, <3>2, MoveKeepsSupply
      <3> QED  BY <1>2, <3>3
    <2>2. stakingBalances'[This] = stakingBalances[This] - stake
      BY <1>2, <1>3, <1>5 DEF Move
    <2> QED  BY <2>1, <2>2
  <1>8. StakedBalance' \in Nat
    BY <1>2, <1>3, <1>4, <1>5
  <1>9. VaultCoversStake'
    BY SMTT(30), <1>1, <1>2, <1>3, <1>5, <1>7 DEF VaultCoversStake
  <1>10. TypeOK'
    <2>1. yieldBalances' \in [Accounts -> Nat]
      BY <1>2, <1>5, HarvestableInt, PayYieldType
    <2>2. Withdrawals' \in [Users -> Nat]
      BY <1>2, <1>5
    <2>3. Epochs' \in [0 .. CurrentEpochIndex' -> [time : 0 .. now', staked : Nat]]
      <3>1. now' = now /\ now \in 0 .. now /\ StakedBalance - stake \in Nat
        BY <1>2, <1>5, <1>8
      <3> QED  BY SMTT(30), <1>2, <1>5, <3>1
    <2>4. Deposits' \in [Users -> Seq(DepositRecords')]
      BY ExitStakes
    <2>5. CurrentEpochIndex' \in Nat
      BY <1>2, <1>5
    <2> QED  BY <1>1, <1>2, <1>7, <1>8, <2>1, <2>2, <2>3, <2>4, <2>5 DEF TypeOK, settings
  <1>11. StakeAccounted'
    <2> DEFINE f == StakeOfUser
               g == [StakeOfUser EXCEPT ![user] = 0]
    <2>1. /\ f \in [Users -> Nat] /\ g \in [Users -> Nat] /\ g[user] = 0
          /\ f[user] = stake
          /\ \A u \in Users \ {user} : g[u] = f[u]
      BY <1>3
    <2> HIDE DEF f, g
    <2>2. Total(g) = Total(f) - f[user] + g[user]
      BY <2>1, FarmAssumption, TotalUpdate
    <2>3. StakedBalance' = Total(StakeOfUser')
      BY <1>1, <1>2, <1>3, <1>5, <2>1, <2>2 DEF StakeAccounted, f, g
    <2>4. Epochs'[CurrentEpochIndex'].staked = StakedBalance'
      BY <1>2, <1>5
    <2> QED  BY <2>3, <2>4 DEF StakeAccounted
  <1>12. SharesWithinEpoch'
    <2>1. ASSUME NEW e \in 1 .. CurrentEpochIndex + 1
          PROVE  Total([u \in Users |-> StakeDuring(Deposits'[u], e)]) <= Epochs'[e].staked
      <3>1. CASE e = CurrentEpochIndex + 1
        <4>1. ASSUME NEW u \in Users
              PROVE  StakeDuring(Deposits'[u], e) = StakeOf(Deposits'[u])
          <5>1. CASE u = user
            <6>1. Deposits'[u] = <<>>
              BY <1>3, <1>5, <5>1
            <6>2. StakeDuring(<<>>, e) = 0 /\ StakeOf(<<>>) = 0
              BY StakeDuringFacts, StakeOfFacts
            <6> QED  BY <6>1, <6>2
          <5>2. CASE u # user
            <6>1. Deposits'[u] = Deposits[u]
              BY <1>3, <1>5, <5>2
            <6>2. \A i \in 1 .. Len(Deposits[u]) : Deposits[u][i].starting_epoch <= e
              BY SMTT(30), <1>1, <1>5, <3>1, DepositsAreLists
            <6>3. IsDepositList(Deposits[u]) /\ e \in Int
              BY <1>1, <1>5, <3>1
            <6>4. StakeDuring(Deposits[u], e) = StakeOf(Deposits[u])
              BY <6>2, <6>3, StakeDuringFacts
            <6> QED  BY <6>1, <6>4
          <5> QED  BY <5>1, <5>2
        <4>2. [u \in Users |-> StakeDuring(Deposits'[u], e)] = StakeOfUser'
          BY <4>1 DEF StakeOfUser, StakeOf
        <4>3. StakedBalance' = Total(StakeOfUser')
          BY <1>11 DEF StakeAccounted
        <4>4. Epochs'[e].staked = StakedBalance'
          BY <1>2, <1>5, <3>1
        <4> QED  BY <1>8, <4>2, <4>3, <4>4
      <3>2. CASE e \in 1 .. CurrentEpochIndex
        <4> DEFINE f == [u \in Users |-> StakeDuring(Deposits[u], e)]
                   g == [u \in Users |-> StakeDuring(Deposits'[u], e)]
        <4>1. \A u \in Users \ {user} : g[u] = f[u]
          BY <1>3, <1>5
        <4>2. g[user] = 0
          BY <1>3, <1>5, StakeDuringFacts
        <4>3. f \in [Users -> Nat]
          BY <1>1, <3>2, StakeDuringFacts
        <4>4. g \in [Users -> Nat]
          BY <4>1, <4>2, <4>3
        <4> HIDE DEF f, g
        <4>5. Total(g) = Total(f) - f[user] + g[user]
          BY <4>1, <4>3, <4>4, FarmAssumption, TotalUpdate
        <4>6. Total(f) \in Nat /\ f[user] \in Nat
          BY <4>3, FarmAssumption, TotalBounds
        <4>7. Total(f) <= Epochs[e].staked /\ Epochs'[e] = Epochs[e]
          BY SMTT(30), <1>1, <1>2, <1>5, <3>2 DEF SharesWithinEpoch, f
        <4>8. Epochs[e].staked \in Nat
          BY <1>5, <3>2
        <4>9. Total(g) <= Epochs'[e].staked
          BY <4>2, <4>5, <4>6, <4>7, <4>8
        <4> QED  BY <4>9 DEF g
      <3> QED  BY <1>5, <3>1, <3>2
    <2>2. ASSUME NEW u \in Users, NEW i \in DOMAIN Deposits'[u]
          PROVE  /\ Deposits'[u][i].starting_epoch \in 1 .. CurrentEpochIndex + 1
                 /\ Deposits'[u][i].time = Epochs'[Deposits'[u][i].starting_epoch].time
      <3>1. u # user /\ Deposits'[u] = Deposits[u]
        BY <1>3, <1>5
      <3>2. /\ Deposits[u][i].starting_epoch \in 1 .. CurrentEpochIndex
            /\ Deposits[u][i].time = Epochs[Deposits[u][i].starting_epoch].time
        BY <1>1, <3>1 DEF SharesWithinEpoch
      <3>3. \A k \in 1 .. CurrentEpochIndex : Epochs'[k] = Epochs[k]
        BY <1>2, <1>5
      <3>4. /\ Deposits'[u][i].starting_epoch \in 1 .. CurrentEpochIndex
            /\ Deposits'[u][i].time = Epochs'[Deposits'[u][i].starting_epoch].time
        BY <3>1, <3>2, <3>3
      <3> QED  BY SMTT(30), <1>5, <3>4
    <2> QED  BY <1>2, <2>1, <2>2 DEF SharesWithinEpoch
  <1> QED  BY <1>9, <1>10, <1>11, <1>12 DEF IInv, Principal

-----------------------------------------------------------------------------
(* The theorems *)

\* The invariant holds at the start.
LEMMA InitIInv == Init => IInv
  <1> SUFFICES ASSUME Init PROVE IInv
    OBVIOUS
  <1>1. IsFiniteSet(Accounts)
    BY FarmAssumption, FS_Union, FS_Singleton DEF Accounts
  <1>2. TypeOK
    <2>1. Deposits \in [Users -> Seq(DepositRecords)]
      BY DEF Init
    <2>2. Epochs \in [0 .. CurrentEpochIndex -> [time : 0 .. now, staked : Nat]]
      BY DEF Init
    <2> QED  BY <2>1, <2>2, FarmAssumption DEF Init, TypeOK, Accounts
  <1>3. \A u \in Users : StakeOfUser[u] = 0
    BY StakeOfFacts DEF Init, StakeOfUser
  <1>4. Total(StakeOfUser) = 0
    BY <1>3, TotalZero DEF StakeOfUser
  <1>5. StakeAccounted
    BY <1>4 DEF Init, StakeAccounted
  <1>6. SharesWithinEpoch
    BY DEF Init, SharesWithinEpoch
  <1>7. VaultCoversStake
    <2>1. stakingBalances = [a \in Accounts |-> IF a \in Users THEN InitialStake ELSE 0]
      BY DEF Init
    <2>2. Users \in SUBSET Accounts /\ InitialStake \in Nat
      BY FarmAssumption DEF Accounts
    <2>3. /\ DOMAIN stakingBalances = Accounts
          /\ \A a \in Accounts :
               stakingBalances[a] = IF a \in Users THEN InitialStake ELSE 0
      BY <2>1
    <2>4. Total(stakingBalances) = InitialStake * Cardinality(Users)
      BY <1>1, <2>2, <2>3, TotalEven
    <2>5. stakingBalances[This] >= StakedBalance
      BY <2>1, FarmAssumption DEF Init, Accounts
    <2> QED  BY <2>4, <2>5 DEF VaultCoversStake
  <1> QED  BY <1>2, <1>5, <1>6, <1>7 DEF IInv, Principal

\* Every call keeps the invariant.
LEMMA NextIInv == IInv /\ [Next]_vars => IInv'
  <1> SUFFICES ASSUME IInv, [Next]_vars PROVE IInv'
    OBVIOUS
  <1>1. CASE UserStep
    <2>1. PICK user \in Users :
            \/ \E amount \in StakeAmounts : approve(user, amount)
            \/ \E amount \in StakeAmounts : addStakingTokens(user, amount)
            \/ \E amount \in HarvestAmounts : withdrawYield(user, amount)
            \/ withdrawTokensAndYield(user)
      BY <1>1 DEF UserStep
    <2>2. CASE \E amount \in StakeAmounts : approve(user, amount)
      BY <2>2, ApproveAndClockPreserve
    <2>3. CASE \E amount \in StakeAmounts : addStakingTokens(user, amount)
      BY <2>3, EntryPreserves
    <2>4. CASE \E amount \in HarvestAmounts : withdrawYield(user, amount)
      BY <2>4, YieldMovesPreserve
    <2>5. CASE withdrawTokensAndYield(user)
      BY <2>5, ExitPreserves
    <2> QED  BY <2>1, <2>2, <2>3, <2>4, <2>5
  <1>2. CASE OwnerStep
    <2>1. PICK caller \in Admins :
            \/ \E vk \in Admins : setOwner(caller, vk)
            \/ \E vk \in Admins : setDevWallet(caller, vk)
            \/ \E pct \in Pcts : setDevRewardPct(caller, pct)
            \/ \E rate \in Rates : setEmissionRatePerHour(caller, rate)
            \/ \E amount \in RecoverAmounts : recoverYieldToken(caller, amount)
            \/ \E is_open \in OpenChoices : allowStaking(caller, is_open)
            \/ \E t \in StartTimes : setStartTime(caller, t)
            \/ \E t \in EndTimes : setEndTime(caller, t)
      BY <1>2 DEF OwnerStep
    <2>2. CASE \E amount \in RecoverAmounts : recoverYieldToken(caller, amount)
      BY <2>2, YieldMovesPreserve
    <2>3. CASE ~ \E amount \in RecoverAmounts : recoverYieldToken(caller, amount)
      <3>1. \/ \E vk \in Admins : setOwner(caller, vk) \/ setDevWallet(caller, vk)
            \/ \E pct \in Pcts : setDevRewardPct(caller, pct)
            \/ \E rate \in Rates : setEmissionRatePerHour(caller, rate)
            \/ \E is_open \in OpenChoices : allowStaking(caller, is_open)
            \/ \E t \in StartTimes : setStartTime(caller, t)
            \/ \E t \in EndTimes : setEndTime(caller, t)
        BY <2>1, <2>3
      <3> QED  BY <3>1, SettersPreserve
    <2> QED  BY <2>2, <2>3
  <1>3. CASE FundStep
    BY <1>3, YieldMovesPreserve DEF FundStep
  <1>4. CASE NextBlock
    BY <1>4, ApproveAndClockPreserve
  <1>5. CASE UNCHANGED vars
    BY <1>5, PrincipalUntouched
       DEF vars, settings, positions, tokens, IInv, TypeOK, DepositRecords
  <1> QED  BY <1>1, <1>2, <1>3, <1>4, <1>5 DEF Next

\* The inductive invariant holds in every reachable state of the contract.
THEOREM Inductive == Spec => []IInv
  BY InitIInv, NextIInv, PTL DEF Spec

\* Type correctness, for every number of users, amount and rate: no balance,
\* approval or recorded total ever goes below 0, and no deposit names an
\* epoch or a time to come.
THEOREM TypeCorrect == Spec => []TypeOK
  <1>1. IInv => TypeOK
    BY DEF IInv
  <1> QED  BY <1>1, Inductive, PTL

\* The running total, the current epoch and the deposit records agree.
THEOREM StakeIsAccounted == Spec => []StakeAccounted
  <1>1. IInv => StakeAccounted
    BY DEF IInv, Principal
  <1> QED  BY <1>1, Inductive, PTL

\* The contract's account holds what it owes, and the staking token's supply
\* is what it was.
THEOREM VaultIsCovered == Spec => []VaultCoversStake
  <1>1. IInv => VaultCoversStake
    BY DEF IInv, Principal
  <1> QED  BY <1>1, Inductive, PTL

\* In every epoch the shares of the deposits add up to at most 1, and no
\* share is a division by 0.
THEOREM SharesFit == Spec => []SharesWithinEpoch
  <1>1. IInv => SharesWithinEpoch
    BY DEF IInv, Principal
  <1> QED  BY <1>1, Inductive, PTL

-----------------------------------------------------------------------------
(* The refinement *)

\* A step that leaves the deposit records and the recorded total alone is a
\* stuttering step of the abstract vault.
LEMMA VaultStutters ==
  ASSUME UNCHANGED <<Deposits, StakedBalance>>
  PROVE  UNCHANGED Vault!vaultVars
  BY DEF Vault!vaultVars, StakeOfUser, StakeOf

\* An entry is PutIn of the abstract vault.
LEMMA EntryIsPutIn ==
  ASSUME IInv, NEW user \in Users, NEW amount \in StakeAmounts,
         addStakingTokens(user, amount)
  PROVE  Vault!PutIn(user, amount)
  <1>1. amount > 0 /\ StakedBalance' = StakedBalance + amount
    BY DEF addStakingTokens
  <1> QED  BY <1>1, EntryStakes DEF Vault!PutIn

\* An exit is TakeAll of the abstract vault.
LEMMA ExitIsTakeAll ==
  ASSUME IInv, NEW user \in Users, withdrawTokensAndYield(user)
  PROVE  Vault!TakeAll(user)
  <1>1. /\ StakeOf(Deposits[user]) > 0
        /\ StakedBalance' = StakedBalance - StakeOf(Deposits[user])
    BY DEF withdrawTokensAndYield, CanTransfer
  <1> QED  BY <1>1, ExitStakes DEF Vault!TakeAll

\* Every step of the contract is a step of the abstract vault or a stutter.
LEMMA NextIsVaultNext ==
  ASSUME IInv, [Next]_vars
  PROVE  [Vault!VaultNext]_Vault!vaultVars
  <1>1. CASE \E user \in Users, amount \in StakeAmounts : addStakingTokens(user, amount)
    BY <1>1, EntryIsPutIn DEF Vault!VaultNext
  <1>2. CASE \E user \in Users : withdrawTokensAndYield(user)
    BY <1>2, ExitIsTakeAll DEF Vault!VaultNext
  <1>3. CASE \/ \E user \in Users, amount \in StakeAmounts : approve(user, amount)
             \/ \E user \in Users, amount \in HarvestAmounts : withdrawYield(user, amount)
    BY <1>3, VaultStutters DEF approve, withdrawYield, positions
  <1>4. CASE OwnerStep
    <2>1. UNCHANGED <<Deposits, StakedBalance>>
      BY <1>4 DEF OwnerStep, setOwner, setDevWallet, setDevRewardPct,
                  setEmissionRatePerHour, recoverYieldToken, allowStaking,
                  setStartTime, setEndTime, positions
    <2> QED  BY <2>1, VaultStutters
  <1>5. CASE FundStep \/ NextBlock \/ UNCHANGED vars
    <2>1. UNCHANGED <<Deposits, StakedBalance>>
      BY <1>5 DEF FundStep, fundPool, NextBlock, vars, positions
    <2> QED  BY <2>1, VaultStutters
  <1> QED  BY <1>1, <1>2, <1>3, <1>4, <1>5 DEF Next, UserStep

\* The contract implements the abstract vault: users get into the recorded
\* total exactly what they put in, and get out of it all of it at once.
THEOREM KeepsTheStakes == Spec => KeepsStakes
  <1>1. Init => Vault!VaultInit
    BY StakeOfFacts DEF Init, Vault!VaultInit, StakeOfUser
  <1>2. IInv /\ [Next]_vars => [Vault!VaultNext]_Vault!vaultVars
    BY NextIsVaultNext
  <1> QED  BY <1>1, <1>2, Inductive, PTL DEF Spec, KeepsStakes, Vault!VaultSpec

-----------------------------------------------------------------------------
(* What users accrue *)

\* The stakes are within the recorded total, and positive for a user with
\* deposits.
LEMMA StakesInTotal ==
  ASSUME IInv
  PROVE  /\ StakeOfUser \in [Users -> Nat]
         /\ \A u \in Users : /\ StakeOfUser[u] = StakeOf(Deposits[u])
                             /\ StakeOfUser[u] <= StakedBalance
                             /\ Deposits[u] # <<>> => StakeOfUser[u] > 0
  <1>1. TypeOK /\ \A u \in Users : IsDepositList(Deposits[u])
    BY DepositsAreLists DEF IInv
  <1>2. StakeOfUser \in [Users -> Nat]
    BY <1>1, StakeOfFacts DEF StakeOfUser
  <1>3. \A u \in Users : StakeOfUser[u] <= StakedBalance
    BY <1>2, FarmAssumption, TotalBounds DEF IInv, Principal, StakeAccounted
  <1>4. ASSUME NEW u \in Users, Deposits[u] # <<>> PROVE StakeOfUser[u] > 0
    <2> DEFINE s == Deposits[u]
               n == Len(s)
               F == [i \in DOMAIN s |-> s[i].amount]
    <2>1. s \in Seq(DepositRecords) /\ s # <<>>
      BY <1>1, <1>4 DEF TypeOK
    <2>2. DOMAIN s = 1 .. n /\ n \in Nat /\ 1 \in 1 .. n
      BY <2>1
    <2>3. \A i \in 1 .. n : F[i] \in Nat /\ F[i] > 0
      BY <1>1, <2>2, DepositsAreLists
    <2>4. StakeOfUser[u] = SumRange(F, 1, n)
      BY DEF StakeOfUser, StakeOf
    <2> HIDE DEF F, n
    <2>5. F[1] <= SumRange(F, 1, n)
      BY <2>2, <2>3, SumRangeEntry, 1 \in Int, n \in Int, 1 - 1 <= n
    <2>6. SumRange(F, 1, n) \in Int
      BY <2>2, <2>3, SumRangeInt, 1 \in Int, n \in Int, 1 - 1 <= n
    <2> QED  BY <2>2, <2>3, <2>4, <2>5, <2>6
  <1> QED  BY <1>2, <1>3, <1>4 DEF StakeOfUser

\* Nothing was accrued by nobody's deposits.
LEMMA AccruedEmpty ==
  ASSUME NEW u, Deposits[u] = <<>>
  PROVE  Accrued(u) = 0
  BY SumRangeEmpty, 1 - 1 = 0 DEF Accrued

\* A step that leaves the epochs, the clock, the rate, the range and a user's
\* deposits alone leaves what the user accrued.
LEMMA AccruedUntouched ==
  ASSUME UNCHANGED <<CurrentEpochIndex, Epochs, now, EmissionRatePerHour, StartTime, EndTime>>,
         NEW u, Deposits'[u] = Deposits[u]
  PROVE  Accrued(u)' = Accrued(u)
  <1>1. ASSUME NEW d, NEW e PROVE EpochYield(d, e)' = EpochYield(d, e)
    BY DEF EpochYield, HoursStaked, fitTimeToRange
  <1>2. ASSUME NEW d PROVE calculateYield(d)' = calculateYield(d)
    BY <1>1 DEF calculateYield
  <1> QED  BY <1>2 DEF Accrued

\* An hour of the clock adds the share of the hour's emission that the epoch
\* gives each deposit, within the range.
LEMMA AccruedOnClock ==
  ASSUME IInv, StartTime <= EndTime, NextBlock, NEW u \in Users
  PROVE  Accrued(u)' = Accrued(u) + HourOfUser(u)
  <1> DEFINE tick == IF InRange THEN 1 ELSE 0
             C == CurrentEpochIndex
             rate == EmissionRatePerHour
             n == Len(Deposits[u])
  <1>1. /\ TypeOK /\ C \in Nat /\ now \in Nat /\ now' = now + 1 /\ rate \in Int
        /\ StartTime \in Nat /\ EndTime \in Nat
        /\ Epochs[C].staked = StakedBalance
        /\ \A k \in 0 .. C : Epochs[k].time \in Int
        /\ UNCHANGED <<EmissionRatePerHour, StartTime, EndTime, CurrentEpochIndex, Epochs, Deposits>>
    BY DEF IInv, Principal, StakeAccounted, TypeOK, NextBlock, settings, positions
  <1>2. /\ DOMAIN Deposits[u] = 1 .. n /\ n \in Nat
        /\ \A i \in 1 .. n : /\ Deposits[u][i].amount \in Int
                             /\ Deposits[u][i].starting_epoch \in 0 .. C
                             /\ Deposits[u][i].time \in Int
    BY <1>1, DepositsAreLists
  <1>3. /\ \A t \in Int : fitTimeToRange(t) \in Int
        /\ fitTimeToRange(now)' = fitTimeToRange(now) + tick
    <2>1. \A t \in Int : fitTimeToRange(t) \in Int
      BY <1>1 DEF fitTimeToRange
    <2>2. fitTimeToRange(now)' = fitTimeToRange(now) + tick
      BY <1>1 DEF fitTimeToRange, InRange
    <2> QED  BY <2>1, <2>2
  <1>4. ASSUME NEW d, d.time \in Int, d.starting_epoch \in 0 .. C,
               NEW e \in d.starting_epoch .. C, Share(d, e) \in Int
        PROVE  /\ e # C => EpochYield(d, e)' = EpochYield(d, e)
               /\ e = C => EpochYield(d, e)' = EpochYield(d, e) + tick * (rate * Share(d, e))
    <2>1. ASSUME e # C PROVE EpochYield(d, e)' = EpochYield(d, e)
      <3>1. HoursStaked(d, e)' = HoursStaked(d, e)
        BY <1>1, <2>1 DEF HoursStaked, fitTimeToRange
      <3> QED  BY <1>1, <3>1 DEF EpochYield
    <2>2. ASSUME e = C
          PROVE  EpochYield(d, e)' = EpochYield(d, e) + tick * (rate * Share(d, e))
      <3> DEFINE from == IF e = d.starting_epoch THEN d.time ELSE Epochs[e].time
                 x == fitTimeToRange(now)
                 y == fitTimeToRange(from)
                 share == Share(d, e)
      <3>1. from \in Int /\ e \in 0 .. C
        BY <1>1, <1>4
      <3>2. x \in Int /\ y \in Int
        BY <1>1, <1>3, <3>1
      <3>3. HoursStaked(d, e) = x - y
        BY <2>2 DEF HoursStaked
      <3>4. HoursStaked(d, e)' = fitTimeToRange(now)' - y
        BY <1>1, <2>2 DEF HoursStaked, fitTimeToRange
      <3>5. /\ EpochYield(d, e) = HoursStaked(d, e) * rate * share
            /\ EpochYield(d, e)' = HoursStaked(d, e)' * rate * share
        BY <1>1 DEF EpochYield, Share
      <3>6. tick \in {0, 1}
        OBVIOUS
      <3> HIDE DEF from, x, y, tick, rate, share
      <3>7. HoursStaked(d, e)' = HoursStaked(d, e) + tick /\ HoursStaked(d, e) \in Int
        BY <1>3, <3>2, <3>3, <3>4, <3>6 DEF x
      <3>8. \A p, q, r \in Int : \A z \in {0, 1} : (r + z) * p * q = r * p * q + z * (p * q)
        <4>1. \A p, q, r \in Int : (r + 0) * p * q = r * p * q + 0 * (p * q)
          OBVIOUS
        <4>2. \A p, q, r \in Int : (r + 1) * p * q = r * p * q + 1 * (p * q)
          OBVIOUS
        <4> QED  BY <4>1, <4>2
      <3>9. rate \in Int /\ share \in Int
        BY <1>1, <1>4 DEF rate, share
      <3> QED  BY <3>5, <3>6, <3>7, <3>8, <3>9 DEF share
    <2> QED  BY <2>1, <2>2
  <1> DEFINE hour(d) == rate * Share(d, C)
  <1>5. ASSUME NEW d, NEW i \in 1 .. n, d = Deposits[u][i]
        PROVE  /\ hour(d) \in Int
               /\ calculateYield(d)' = calculateYield(d) + tick * hour(d)
    <2> DEFINE a == d.starting_epoch
               F == [e \in a .. C |-> EpochYield(d, e)]
               G == [e \in a .. C |-> EpochYield(d, e)']
               c == tick * hour(d)
    <2>1. a \in Int /\ C \in Int /\ a <= C
      BY <1>1, <1>2, <1>5
    <2>2. /\ \A e \in a .. C : F[e] \in Int /\ Share(d, e) \in Int
          /\ d.time \in Int /\ d.starting_epoch \in 0 .. C
      BY <1>2, <1>5, YieldInt
    <2>3. hour(d) \in Int /\ c \in Int
      <3>1. C \in a .. C
        BY <2>1
      <3>2. \A p, q \in Int : p * q \in Int
        OBVIOUS
      <3>3. Share(d, C) \in Int
        <4> HIDE DEF C
        <4> QED  BY <2>2, <3>1
      <3>4. rate \in Int /\ tick \in Int
        BY <1>1
      <3> HIDE DEF rate, tick, C
      <3> QED  BY <3>2, <3>3, <3>4
    <2>4. calculateYield(d) = SumRange(F, a, C)
      BY DEF calculateYield
    <2>5. calculateYield(d)' = SumRange(G, a, C)
      BY <1>1 DEF calculateYield
    <2>6. /\ \A e \in a .. C - 1 : F[e] = G[e]
          /\ G[C] = F[C] + c
      <3> HIDE DEF tick, rate, C
      <3>1. \A e \in a .. C : /\ e # C => G[e] = F[e]
                              /\ e = C => G[e] = F[e] + c
        BY <1>4, <2>2
      <3> HIDE DEF a, F, G, c
      <3> QED  BY <2>1, <3>1
    <2> HIDE DEF a, F, G, c, C
    <2>7. SumRange(F, a, C) = SumRange(F, a, C - 1) + F[C]
      BY <2>1, SumRangeLast
    <2>8. SumRange(G, a, C) = SumRange(G, a, C - 1) + G[C]
      BY <2>1, SumRangeLast
    <2>9. SumRange(F, a, C - 1) = SumRange(G, a, C - 1)
      BY <2>1, <2>6, SumRangeEqual, C - 1 \in Int, a - 1 <= C - 1
    <2>10. SumRange(F, a, C - 1) \in Int /\ F[C] \in Int
      BY <2>1, <2>2, SumRangeInt, C - 1 \in Int, a - 1 <= C - 1
    <2>11. calculateYield(d)' = calculateYield(d) + c
      BY <2>3, <2>4, <2>5, <2>6, <2>7, <2>8, <2>9, <2>10
    <2> QED  BY <2>3, <2>11 DEF c
  <1> DEFINE F == [i \in 1 .. n |-> calculateYield(Deposits[u][i])]
             G == [i \in 1 .. n |-> calculateYield(Deposits[u][i])']
             A == [i \in 1 .. n |-> HourOf(u, i)]
  <1>6. /\ Accrued(u) = SumRange(F, 1, n)
        /\ Accrued(u)' = SumRange(G, 1, n)
        /\ HourOfUser(u) = IF InRange THEN SumRange(A, 1, n) ELSE 0
    BY <1>1, <1>2 DEF Accrued, HourOfUser
  <1>7. \A i \in 1 .. n : F[i] \in Int /\ A[i] \in Int /\ G[i] = F[i] + tick * A[i]
    <2>1. ASSUME NEW i \in 1 .. n PROVE A[i] \in Int /\ G[i] = F[i] + tick * A[i]
      <3>1. PICK d : d = Deposits[u][i]
        OBVIOUS
      <3>2. calculateYield(d)' = calculateYield(d) + tick * hour(d) /\ hour(d) \in Int
        BY <1>5, <3>1
      <3>3. calculateYield(Deposits[u][i])' = calculateYield(d)'
        BY <1>1, <3>1
      <3>4. HourOf(u, i) = hour(d)
        BY <1>1, <3>1 DEF HourOf, Share
      <3> QED  BY <3>1, <3>2, <3>3, <3>4
    <2> QED  BY <2>1, YieldInt
  <1>8. tick \in Int /\ 1 \in Int /\ n \in Int /\ 1 - 1 <= n
    BY <1>2
  <1> HIDE DEF F, G, A, n
  <1>9. SumRange(G, 1, n) = SumRange(F, 1, n) + tick * SumRange(A, 1, n)
    BY <1>7, <1>8, SumRangeScaled
  <1>10. SumRange(A, 1, n) \in Int /\ SumRange(F, 1, n) \in Int
    BY <1>7, <1>8, SumRangeInt
  <1> QED  BY <1>6, <1>9, <1>10

\* Opening an epoch on a positive stake adds nothing to a deposit: the old
\* epoch ends where the new one starts.
LEMMA YieldOnEpoch ==
  ASSUME IInv, NEW staked \in Nat \ {0}, incrementEpoch(staked),
         UNCHANGED <<EmissionRatePerHour, StartTime, EndTime, now>>,
         NEW u \in Users, NEW i \in 1 .. Len(Deposits[u]), NEW d, d = Deposits[u][i]
  PROVE  calculateYield(d)' = calculateYield(d)
  <1> DEFINE C == CurrentEpochIndex
             a == d.starting_epoch
  <1>1. /\ TypeOK /\ C \in Nat /\ now \in Nat /\ C' = C + 1
        /\ EmissionRatePerHour \in Int /\ EmissionRatePerHour' = EmissionRatePerHour
        /\ StartTime' = StartTime /\ EndTime' = EndTime /\ now' = now
        /\ \A k \in 0 .. C : Epochs'[k] = Epochs[k]
        /\ Epochs'[C + 1].time = now /\ Epochs'[C + 1].staked = staked
    <2>1. /\ TypeOK /\ C \in Nat /\ now \in Nat /\ EmissionRatePerHour \in Int
      BY DEF IInv, TypeOK
    <2> QED  BY <2>1 DEF incrementEpoch
  <1>2. d.amount \in Nat /\ a \in 0 .. C
    BY <1>1, DepositsAreLists
  <1>3. fitTimeToRange(now) \in Int
    BY <1>1 DEF fitTimeToRange, TypeOK
  <1>4. ASSUME NEW e \in a .. C PROVE EpochYield(d, e)' = EpochYield(d, e)
    <2>1. e \in 0 .. C /\ Epochs'[e] = Epochs[e] /\ e # C'
          /\ Epochs'[e + 1].time = IF e = C THEN now ELSE Epochs[e + 1].time
      BY SMTT(30), <1>1, <1>2
    <2>2. HoursStaked(d, e)' = HoursStaked(d, e)
      BY <1>1, <2>1 DEF HoursStaked, fitTimeToRange
    <2> QED  BY <1>1, <2>1, <2>2 DEF EpochYield
  <1>5. ASSUME NEW e, e = C + 1 PROVE EpochYield(d, e)' = 0
    <2> DEFINE share == (d.amount * Precision) \div staked
    <2>1. e # a /\ e = C'
      BY <1>1, <1>2, <1>5
    <2>2. HoursStaked(d, e)' = fitTimeToRange(now) - fitTimeToRange(now)
      BY <1>1, <1>5, <2>1 DEF HoursStaked, fitTimeToRange
    <2>3. HoursStaked(d, e)' = 0
      BY <1>3, <2>2
    <2>4. EpochYield(d, e)' = HoursStaked(d, e)' * EmissionRatePerHour * share
      BY <1>1, <1>5 DEF EpochYield
    <2>5. share \in Int
      <3>1. \A x, y \in Int : x * y \in Int
        OBVIOUS
      <3>2. \A x \in Int, y \in Nat \ {0} : x \div y \in Int
        OBVIOUS
      <3>3. d.amount * Precision \in Int
        BY <1>2, <3>1, FarmAssumption
      <3> QED  BY <3>2, <3>3
    <2> HIDE DEF share
    <2> QED  BY <1>1, <2>3, <2>4, <2>5
  <1> DEFINE F == [e \in a .. C |-> EpochYield(d, e)]
             G == [e \in a .. C + 1 |-> EpochYield(d, e)']
  <1>6. a \in Int /\ C \in Int /\ a <= C
    BY <1>1, <1>2
  <1>7. (\A e \in a .. C : F[e] = G[e]) /\ G[C + 1] = 0
    <2>1. C + 1 \in a .. C + 1 /\ \A e \in a .. C : e \in a .. C + 1
      BY <1>6
    <2> HIDE DEF C, a
    <2> QED  BY <1>4, <1>5, <2>1
  <1>8. \A e \in a .. C : F[e] \in Int
    BY YieldInt
  <1>9. calculateYield(d) = SumRange(F, a, C)
    BY DEF calculateYield
  <1>10. calculateYield(d)' = SumRange(G, a, C + 1)
    BY <1>1 DEF calculateYield
  <1> HIDE DEF a, F, G, C
  <1>11. SumRange(G, a, C + 1) = SumRange(G, a, C) + G[C + 1]
    BY <1>6, SumRangeLast, C + 1 \in Int, a <= C + 1, C + 1 - 1 = C
  <1>12. SumRange(F, a, C) = SumRange(G, a, C)
    BY <1>6, <1>7, SumRangeEqual, a - 1 <= C
  <1>13. SumRange(F, a, C) \in Int
    BY <1>6, <1>8, SumRangeInt, a - 1 <= C
  <1> QED  BY <1>7, <1>9, <1>10, <1>11, <1>12, <1>13

\* The deposit that opened the epoch has earned nothing yet.
LEMMA YieldOfNew ==
  ASSUME IInv, NEW staked \in Nat \ {0}, incrementEpoch(staked),
         UNCHANGED <<EmissionRatePerHour, StartTime, EndTime, now>>,
         NEW amount \in Nat, NEW d, d = NewDeposit(amount)
  PROVE  calculateYield(d)' = 0
  <1> DEFINE C == CurrentEpochIndex
             share == (amount * Precision) \div staked
             F == [e \in C + 1 .. C + 1 |-> EpochYield(d, e)']
  <1>1. /\ TypeOK /\ C \in Nat /\ now \in Nat /\ C' = C + 1
        /\ EmissionRatePerHour \in Int /\ EmissionRatePerHour' = EmissionRatePerHour
        /\ StartTime' = StartTime /\ EndTime' = EndTime /\ now' = now
        /\ Epochs'[C + 1].staked = staked
        /\ d.starting_epoch = C + 1 /\ d.time = now /\ d.amount = amount
    <2>1. TypeOK /\ C \in Nat /\ now \in Nat /\ EmissionRatePerHour \in Int
      BY DEF IInv, TypeOK
    <2> QED  BY <2>1 DEF incrementEpoch, NewDeposit
  <1>2. fitTimeToRange(now) \in Int
    BY <1>1 DEF fitTimeToRange, TypeOK
  <1>3. ASSUME NEW e, e = C + 1 PROVE HoursStaked(d, e)' = 0
    <2>1. HoursStaked(d, e)' = fitTimeToRange(now) - fitTimeToRange(now)
      BY <1>1, <1>3 DEF HoursStaked, fitTimeToRange
    <2> QED  BY <1>2, <2>1
  <1>5. share \in Int
    <2>1. \A x, y \in Int : x * y \in Int
      OBVIOUS
    <2>2. \A x \in Int, y \in Nat \ {0} : x \div y \in Int
      OBVIOUS
    <2>3. amount * Precision \in Int
      BY <2>1, FarmAssumption
    <2> QED  BY <2>2, <2>3
  <1>7. ASSUME NEW e, e = C + 1 PROVE EpochYield(d, e)' = 0
    <2>1. EpochYield(d, e)' = HoursStaked(d, e)' * EmissionRatePerHour * share
      BY <1>1, <1>7 DEF EpochYield
    <2>2. HoursStaked(d, e)' = 0
      BY <1>3, <1>7
    <2> HIDE DEF share
    <2> QED  BY <1>1, <1>5, <2>1, <2>2
  <1>8. calculateYield(d)' = SumRange(F, C + 1, C + 1)
    BY <1>1 DEF calculateYield
  <1>9. C + 1 \in Int /\ (C + 1) - 1 <= C + 1 /\ \A e \in C + 1 .. C + 1 : F[e] = 0
    BY <1>1, <1>7
  <1> HIDE DEF F, C
  <1> QED  BY <1>8, <1>9, SumRangeZeros

\* Whoever else enters or leaves, a user who stays has accrued the same.
LEMMA AccruedOnEpoch ==
  ASSUME IInv, NEW staked \in Nat \ {0}, incrementEpoch(staked),
         UNCHANGED <<EmissionRatePerHour, StartTime, EndTime, now>>,
         NEW u \in Users, Deposits'[u] = Deposits[u]
  PROVE  Accrued(u)' = Accrued(u)
  <1>1. /\ DOMAIN Deposits[u] = 1 .. Len(Deposits[u])
        /\ DOMAIN Deposits'[u] = 1 .. Len(Deposits[u])
    BY DepositsAreLists DEF IInv
  <1>2. ASSUME NEW i \in 1 .. Len(Deposits[u])
        PROVE  calculateYield(Deposits[u][i])' = calculateYield(Deposits[u][i])
    <2>1. PICK d : d = Deposits[u][i]
      OBVIOUS
    <2>2. calculateYield(Deposits[u][i])' = calculateYield(d)'
      BY <2>1
    <2> QED  BY <2>1, <2>2, YieldOnEpoch
  <1> QED  BY <1>1, <1>2 DEF Accrued

\* A user who adds a deposit has accrued the same as before.
LEMMA AccruedOnEntry ==
  ASSUME IInv, NEW user \in Users, NEW amount \in StakeAmounts,
         addStakingTokens(user, amount)
  PROVE  Accrued(user)' = Accrued(user)
  <1> DEFINE s == Deposits[user]
             t == Deposits'[user]
             n == Len(s)
             F == [i \in 1 .. n |-> calculateYield(s[i])]
             G == [i \in 1 .. n + 1 |-> calculateYield(Deposits[user][i])']
  <1>1. /\ DOMAIN s = 1 .. n /\ n \in Nat
        /\ DOMAIN t = 1 .. n + 1 /\ Len(t) = n + 1
        /\ \A i \in 1 .. n : t[i] = s[i]
        /\ t[n + 1] = NewDeposit(amount)
        /\ amount \in Nat \ {0}
    BY EntryLists, DepositsAreLists DEF IInv
  <1>2. /\ StakedBalance + amount \in Nat \ {0}
        /\ incrementEpoch(StakedBalance + amount)
        /\ UNCHANGED <<EmissionRatePerHour, StartTime, EndTime, now>>
    <2>1. StakedBalance \in Nat
      BY DEF IInv, TypeOK
    <2> QED  BY <1>1, <2>1 DEF addStakingTokens, settings
  <1>3. ASSUME NEW i \in 1 .. n PROVE G[i] = F[i]
    <2>1. PICK d : d = s[i]
      OBVIOUS
    <2>2. calculateYield(d)' = calculateYield(d)
      BY <1>2, <2>1, YieldOnEpoch
    <2>3. calculateYield(Deposits[user][i])' = calculateYield(d)'
      BY <1>1, <2>1
    <2>4. i \in 1 .. n + 1
      BY <1>1
    <2> QED  BY <2>1, <2>2, <2>3, <2>4
  <1>4. G[n + 1] = 0
    <2>1. PICK d : d = NewDeposit(amount)
      OBVIOUS
    <2>2. calculateYield(d)' = 0
      BY <1>1, <1>2, <2>1, YieldOfNew
    <2>3. PICK i : i = n + 1
      OBVIOUS
    <2>4. calculateYield(Deposits[user][i])' = calculateYield(d)'
      BY <1>1, <2>1, <2>3
    <2>5. i \in 1 .. n + 1
      BY <1>1, <2>3
    <2> QED  BY <2>2, <2>3, <2>4, <2>5
  <1>5. Accrued(user) = SumRange(F, 1, n)
    BY <1>1 DEF Accrued
  <1>6. Accrued(user)' = SumRange(G, 1, n + 1)
    BY <1>1 DEF Accrued
  <1>7. \A i \in 1 .. n : F[i] \in Int
    BY YieldInt
  <1> HIDE DEF F, G, n
  <1>8. SumRange(G, 1, n + 1) = SumRange(F, 1, n) + G[n + 1]
    BY <1>1, <1>3, SumRangeAppend
  <1>9. SumRange(F, 1, n) \in Int
    BY <1>1, <1>7, SumRangeInt, 1 \in Int, n \in Int, 1 - 1 <= n
  <1> QED  BY <1>4, <1>5, <1>6, <1>8, <1>9

\* A user who leaves does not end an epoch that others stay in on a stake of 0.
LEMMA ExitLeavesStake ==
  ASSUME IInv, NEW user \in Users, withdrawTokensAndYield(user),
         NEW u \in Users, u # user, Deposits[u] # <<>>
  PROVE  /\ StakedBalance - StakeOf(Deposits[user]) \in Nat \ {0}
         /\ Deposits'[u] = Deposits[u]
  <1> DEFINE f == [StakeOfUser EXCEPT ![user] = 0]
             stake == StakeOf(Deposits[user])
  <1>1. /\ StakeOfUser \in [Users -> Nat] /\ StakeOfUser[user] = stake
        /\ Deposits' = [Deposits EXCEPT ![user] = <<>>]
        /\ StakeOfUser[u] > 0
    BY ExitStakes, StakesInTotal
  <1>2. /\ f \in [Users -> Nat] /\ f[user] = 0 /\ f[u] > 0
        /\ \A v \in Users \ {user} : f[v] = StakeOfUser[v]
    BY <1>1
  <1>3. StakedBalance = Total(StakeOfUser)
    BY DEF IInv, Principal, StakeAccounted
  <1> HIDE DEF f
  <1>4. Total(f) = Total(StakeOfUser) - StakeOfUser[user] + f[user]
    BY <1>1, <1>2, FarmAssumption, TotalUpdate
  <1>5. Total(f) \in Nat /\ f[u] <= Total(f) /\ Total(StakeOfUser) \in Nat
    BY <1>1, <1>2, FarmAssumption, TotalBounds
  <1>6. Deposits'[u] = Deposits[u]
    BY <1>1 DEF IInv, TypeOK
  <1>7. f[u] \in Nat /\ stake \in Nat
    BY <1>1, <1>2
  <1> HIDE DEF stake
  <1>8. StakedBalance - stake \in Nat \ {0}
    BY <1>1, <1>2, <1>3, <1>4, <1>5, <1>7
  <1> QED  BY <1>6, <1>8 DEF stake

\* The settings are what seed set.
SettingsOfSeed ==
  EmissionRatePerHour = Rate0 /\ StartTime = Start0 /\ EndTime = End0

\* One step of the contract, seen by one user.
LEMMA AccruedStep ==
  ASSUME IInv, StartTime <= EndTime, Next,
         UNCHANGED <<EmissionRatePerHour, StartTime, EndTime>>, NEW u \in Users
  PROVE  Accrued(u)' = IF Deposits'[u] = <<>> THEN 0 ELSE Accrued(u) + HourOfUser(u)
  <1>1. /\ TypeOK /\ Deposits \in [Users -> Seq(DepositRecords)]
        /\ Accrued(u) \in Int
    BY HarvestableInt DEF IInv, TypeOK
  <1>2. Deposits'[u] = <<>> => Accrued(u)' = 0
    BY SumRangeEmpty, 1 - 1 = 0 DEF Accrued
  <1>3. ASSUME now' = now, Accrued(u)' = Accrued(u)
        PROVE  Accrued(u)' = Accrued(u) + HourOfUser(u)
    BY <1>1, <1>3 DEF HourOfUser
  <1>4. ASSUME Deposits'[u] # <<>> PROVE Accrued(u)' = Accrued(u) + HourOfUser(u)
    <2>1. CASE NextBlock
      BY <2>1, AccruedOnClock
    <2>2. CASE \E user \in Users, amount \in StakeAmounts : addStakingTokens(user, amount)
      <3>1. PICK user \in Users, amount \in StakeAmounts : addStakingTokens(user, amount)
        BY <2>2
      <3>2. /\ StakedBalance + amount \in Nat \ {0} /\ now' = now
            /\ incrementEpoch(StakedBalance + amount)
            /\ u # user => Deposits'[u] = Deposits[u]
        <4>1. StakedBalance \in Nat /\ amount \in Nat \ {0}
          BY <1>1, <3>1, EntryLists DEF TypeOK
        <4> QED  BY <3>1, <4>1, EntryLists DEF addStakingTokens
      <3>3. Accrued(u)' = Accrued(u)
        <4>1. CASE u = user
          BY <3>1, <4>1, AccruedOnEntry
        <4>2. CASE u # user
          BY <3>2, <4>2, AccruedOnEpoch
        <4> QED  BY <4>1, <4>2
      <3> QED  BY <1>3, <3>2, <3>3
    <2>3. CASE \E user \in Users : withdrawTokensAndYield(user)
      <3>1. PICK user \in Users : withdrawTokensAndYield(user)
        BY <2>3
      <3>2. /\ incrementEpoch(StakedBalance - StakeOf(Deposits[user])) /\ now' = now
            /\ Deposits' = [Deposits EXCEPT ![user] = <<>>]
        BY <3>1 DEF withdrawTokensAndYield, closePosition
      <3>3. u # user /\ Deposits[u] # <<>>
        BY <1>1, <1>4, <3>2
      <3>4. Accrued(u)' = Accrued(u)
        BY <3>1, <3>2, <3>3, ExitLeavesStake, AccruedOnEpoch
      <3> QED  BY <1>3, <3>2, <3>4
    <2>4. CASE \/ \E user \in Users :
                    \/ \E amount \in StakeAmounts : approve(user, amount)
                    \/ \E amount \in HarvestAmounts : withdrawYield(user, amount)
               \/ OwnerStep \/ FundStep
      <3>1. UNCHANGED <<CurrentEpochIndex, Epochs, now, Deposits>>
        BY <2>4 DEF approve, withdrawYield, OwnerStep, setOwner, setDevWallet, setDevRewardPct,
                    setEmissionRatePerHour, recoverYieldToken, allowStaking, setStartTime,
                    setEndTime, FundStep, fundPool, positions
      <3>2. Accrued(u)' = Accrued(u)
        BY <3>1, AccruedUntouched
      <3> QED  BY <1>3, <3>1, <3>2
    <2> QED  BY <2>1, <2>2, <2>3, <2>4 DEF Next, UserStep
  <1> QED  BY <1>2, <1>4

-----------------------------------------------------------------------------
(* The hours' emission *)

\* What an hour credits a user is at most the stake's part of the emission:
\* every rounding is downward.
LEMMA HourOfUserBound ==
  ASSUME IInv, EmissionRatePerHour \in Nat, NEW u \in Users
  PROVE  /\ HourOfUser(u) \in Nat
         /\ StakedBalance * HourOfUser(u)
              <= (EmissionRatePerHour * Precision) * StakeOf(Deposits[u])
         /\ now' = now \/ ~InRange \/ Deposits[u] = <<>> => HourOfUser(u) = 0
  <1> DEFINE S == StakedBalance
             s == Deposits[u]
             n == Len(s)
             k == EmissionRatePerHour * Precision
             A == [i \in DOMAIN s |-> HourOf(u, i)]
             M == [i \in DOMAIN s |-> s[i].amount]
  <1>1. /\ DOMAIN s = 1 .. n /\ n \in Nat /\ S \in Nat /\ s \in Seq(DepositRecords)
        /\ \A i \in 1 .. n : s[i].amount \in Nat
    BY DepositsAreLists DEF IInv, TypeOK
  <1>2. StakeOf(s) \in Nat /\ k \in Nat
    <2>1. StakeOf(s) \in Nat
      BY StakesInTotal
    <2>2. \A x, y \in Nat : x * y \in Nat
      OBVIOUS
    <2> QED  BY <2>1, <2>2, FarmAssumption
  <1>3. \A x, y \in Nat : x * y \in Nat
    OBVIOUS
  <1>4. CASE s = <<>>
    <2>1. HourOfUser(u) = 0
      BY <1>4, SumRangeEmpty, 1 - 1 = 0 DEF HourOfUser
    <2> HIDE DEF S, k
    <2>2. S * 0 = 0 /\ k * StakeOf(s) \in Nat
      BY <1>1, <1>2, <1>3
    <2> QED  BY <2>1, <2>2 DEF S, k
  <1>5. CASE s # <<>>
    <2>1. S \in Nat \ {0}
      BY <1>1, <1>5, StakesInTotal
    <2>2. ASSUME NEW i \in 1 .. n PROVE HourOf(u, i) \in Nat /\ S * HourOf(u, i) <= k * s[i].amount
      <3> DEFINE a == s[i].amount
                 r == EmissionRatePerHour
                 share == (a * Precision) \div S
      <3>1. a \in Nat /\ r \in Nat /\ Precision \in Nat
        BY <1>1, FarmAssumption
      <3>2. HourOf(u, i) = r * share
        BY DEF HourOf
      <3> HIDE DEF a, r, S
      <3>3. a * Precision \in Nat
        BY <1>3, <3>1
      <3>4. \A x \in Nat, y \in Nat \ {0} : x \div y \in Nat /\ y * (x \div y) <= x
        OBVIOUS
      <3>5. share \in Nat /\ S * share <= a * Precision
        BY <2>1, <3>3, <3>4
      <3> HIDE DEF share
      <3>6. S * share \in Nat /\ r * share \in Nat /\ r * (S * share) <= r * (a * Precision)
        <4>1. S * share \in Nat /\ r * share \in Nat
          BY <1>3, <2>1, <3>1, <3>5
        <4>2. \A x, y, z \in Nat : x <= y => z * x <= z * y
          OBVIOUS
        <4> QED  BY <3>1, <3>3, <3>5, <4>1, <4>2
      <3>7. S * (r * share) = r * (S * share)
        BY <2>1, <3>1, <3>5
      <3>8. r * (a * Precision) = (r * Precision) * a
        BY <3>1
      <3> QED  BY <3>2, <3>6, <3>7, <3>8 DEF a, r
    <2>3. \A i \in 1 .. n : A[i] \in Nat /\ M[i] \in Int /\ S * A[i] <= k * M[i]
      <3> HIDE DEF S, k
      <3> QED  BY <1>1, <2>2
    <2>4. HourOfUser(u) = IF now' # now /\ InRange THEN SumRange(A, 1, n) ELSE 0
      BY DEF HourOfUser
    <2>5. StakeOf(s) = SumRange(M, 1, n)
      BY DEF StakeOf
    <2>6. 1 \in Int /\ n \in Int /\ 1 - 1 <= n /\ S \in Int /\ k \in Int
      BY <1>1, <1>2
    <2> HIDE DEF A, M, n, S, k
    <2>7. S * SumRange(A, 1, n) <= k * SumRange(M, 1, n)
      <3>1. \A i \in 1 .. n : A[i] \in Int /\ M[i] \in Int /\ S * A[i] <= k * M[i]
        BY <2>3
      <3> QED  BY <2>6, <3>1, SumRangeBound, Zenon
    <2>8. SumRange(A, 1, n) \in Nat
      BY <2>3, <2>6, SumRangeNat
    <2>9. S * 0 = 0 /\ k * StakeOf(s) \in Nat
      BY <1>2, <1>3, <2>1
    <2> QED  BY <1>5, <2>4, <2>5, <2>7, <2>8, <2>9 DEF S, k
  <1> QED  BY <1>4, <1>5

\* The hours of all users together are within the emission of one hour.
LEMMA HoursWithinRate ==
  ASSUME IInv, EmissionRatePerHour \in Nat
  PROVE  /\ [u \in Users |-> HourOfUser(u)] \in [Users -> Nat]
         /\ Net([u \in Users |-> HourOfUser(u)], Users) <= EmissionRatePerHour * Precision
  <1> DEFINE hour == [u \in Users |-> HourOfUser(u)]
             S == StakedBalance
             k == EmissionRatePerHour * Precision
             g == [u \in Users |-> S * hour[u]]
             h == [u \in Users |-> k * StakeOfUser[u]]
  <1>1. S \in Nat /\ k \in Nat /\ IsFiniteSet(Users)
    <2>1. \A x, y \in Nat : x * y \in Nat
      OBVIOUS
    <2> QED  BY <2>1, FarmAssumption DEF IInv, TypeOK
  <1>2. StakeOfUser \in [Users -> Nat] /\ S = Net(StakeOfUser, Users)
    <2>1. StakeOfUser \in [Users -> Nat] /\ S = Total(StakeOfUser)
      BY StakesInTotal DEF IInv, Principal, StakeAccounted
    <2> QED  BY <1>1, <2>1, NetIsTotal
  <1>3. hour \in [Users -> Nat]
    BY HourOfUserBound
  <1>4. CASE S = 0
    <2>1. ASSUME NEW u \in Users PROVE hour[u] = 0
      <3>1. Deposits[u] = <<>>
        BY <1>4, StakesInTotal
      <3> QED  BY <3>1, HourOfUserBound
    <2>2. Net(hour, Users) = 0
      BY <2>1, NetZero
    <2> HIDE DEF k
    <2> QED  BY <1>1, <1>3, <2>2 DEF k
  <1>5. CASE S # 0
    <2>1. ASSUME NEW u \in Users PROVE g[u] <= h[u]
      BY HourOfUserBound, StakesInTotal
    <2>2. g \in [Users -> Int] /\ h \in [Users -> Int]
      <3>1. \A x, y \in Nat : x * y \in Int
        OBVIOUS
      <3> HIDE DEF S, k, hour
      <3> QED  BY <1>1, <1>2, <1>3, <3>1
    <2>3. (\A u \in Users : g[u] = S * hour[u]) /\ (\A u \in Users : h[u] = k * StakeOfUser[u])
      OBVIOUS
    <2> HIDE DEF g, h, S, k, hour
    <2>4. Net(g, Users) <= Net(h, Users)
      BY <1>1, <2>1, <2>2, NetMono
    <2>5. Net(g, Users) = S * Net(hour, Users)
      <3>1. S \in Int /\ hour \in [Users -> Int]
        BY <1>1, <1>3
      <3>2. \A u \in Users : g[u] = S * hour[u]
        BY <2>3
      <3> QED  BY <1>1, <2>2, <3>1, <3>2, NetScaled, Zenon
    <2>6. Net(h, Users) = k * Net(StakeOfUser, Users)
      <3>1. k \in Int /\ StakeOfUser \in [Users -> Int]
        BY <1>1, <1>2
      <3>2. \A u \in Users : h[u] = k * StakeOfUser[u]
        BY <2>3
      <3> QED  BY <1>1, <2>2, <3>1, <3>2, NetScaled, Zenon
    <2>7. Net(hour, Users) \in Int
      <3>1. hour \in [Users -> Int]
        BY <1>3
      <3> QED  BY <1>1, <3>1, NetInt, Users \in SUBSET Users
    <2>8. S * Net(hour, Users) <= S * k
      <3>1. k * S = S * k
        BY <1>1
      <3> QED  BY <1>2, <2>4, <2>5, <2>6, <3>1
    <2>9. \A x \in Int, y \in Nat, s \in Nat \ {0} : s * x <= s * y => x <= y
      OBVIOUS
    <2>10. Net(hour, Users) <= k
      BY <1>1, <1>5, <2>7, <2>8, <2>9
    <2> QED  BY <1>3, <2>10 DEF hour, k
  <1> QED  BY <1>4, <1>5

\* Paying a yield takes it from the contract's account, to the last unit: the
\* dev fund's share and the user's.
LEMMA PayYieldTakes ==
  ASSUME IInv, NEW u \in Users, NEW y \in Int, y > 0, PayYield(u, y)
  PROVE  yieldBalances'[This] = yieldBalances[This] - y
  <1> DEFINE dev == DevShare(y)
             mid == DevPaid(y)
  <1>1. /\ yieldBalances \in [Accounts -> Nat] /\ DevRewardPct \in Nat
        /\ DevRewardWallet \in Accounts /\ u \in Accounts /\ This \in Accounts
        /\ DevRewardWallet # This /\ u # This
    <2>1. /\ DevRewardWallet \in Admins /\ DevRewardPct \in 0 .. PctBase - 1
          /\ yieldBalances \in [Accounts -> Nat]
      BY DEF IInv, TypeOK
    <2> QED  BY <2>1, FarmAssumption DEF Accounts
  <1>2. dev \in Nat
    <2>1. \A k \in Nat, m \in Nat \ {0} : k \div m \in Nat
      OBVIOUS
    <2>2. \A k, m \in Nat : k * m \in Nat
      OBVIOUS
    <2>3. y * DevRewardPct \in Nat
      BY <1>1, <2>2
    <2> QED  BY <2>1, <2>3, FarmAssumption DEF DevShare
  <1>3. mid[This] = yieldBalances[This] - dev
    BY <1>1, <1>2 DEF DevPaid, Move
  <1>4. mid \in [Accounts -> Nat]
    <2>1. IsFiniteSet(Accounts)
      BY FarmAssumption, FS_Union, FS_Singleton DEF Accounts
    <2> QED  BY <1>1, <1>2, <2>1, MoveKeepsSupply DEF PayYield, CanPayYield, DevPaid
  <1>5. yieldBalances' = Move(mid, This, u, y - dev)
    BY DEF PayYield
  <1> HIDE DEF mid, dev
  <1>6. yieldBalances'[This] = mid[This] - (y - dev)
    BY <1>1, <1>4, <1>5 DEF Move
  <1>7. yieldBalances[This] \in Nat
    BY <1>1
  <1> QED  BY <1>2, <1>3, <1>6, <1>7

-----------------------------------------------------------------------------
(* The settings of seed left alone *)

\* The owner may call the setters, but with what seed set; staking may be
\* closed, and the dev fund's part, its wallet and the owner may change.
SettingsLeftAlone ==
  Rates \subseteq {Rate0} /\ StartTimes \subseteq {Start0} /\ EndTimes \subseteq {End0}

\* The owner takes nothing out of the pool; anybody may still refill it.
PoolLeftAlone == RecoverAmounts = {}

\* The contract was given the emission of its whole range.
PoolFunded == InitialPool >= Rate0 * Precision * (End0 - Start0)

\* Without the owner's calls the settings stay those of seed.
LEMMA SettingsKept ==
  ASSUME SettingsLeftAlone, SettingsOfSeed, [Next]_vars
  PROVE  SettingsOfSeed'
  <1>1. CASE \E caller \in Admins :
               \/ \E rate \in Rates : setEmissionRatePerHour(caller, rate)
               \/ \E t \in StartTimes : setStartTime(caller, t)
               \/ \E t \in EndTimes : setEndTime(caller, t)
    BY <1>1 DEF SettingsLeftAlone, SettingsOfSeed, setEmissionRatePerHour, setStartTime, setEndTime
  <1>2. CASE ~ \E caller \in Admins :
                 \/ \E rate \in Rates : setEmissionRatePerHour(caller, rate)
                 \/ \E t \in StartTimes : setStartTime(caller, t)
                 \/ \E t \in EndTimes : setEndTime(caller, t)
    <2>1. UNCHANGED <<EmissionRatePerHour, StartTime, EndTime>>
      BY <1>2 DEF Next, vars, settings, UserStep, approve, addStakingTokens, withdrawYield,
                  withdrawTokensAndYield, OwnerStep, setOwner, setDevWallet, setDevRewardPct,
                  recoverYieldToken, allowStaking, FundStep, fundPool, NextBlock
    <2> QED  BY <2>1 DEF SettingsOfSeed
  <1> QED  BY <1>1, <1>2

Owed == [u \in Users |-> Harvestable(u)]

Emission == Rate0 * Precision * (fitTimeToRange(now) - fitTimeToRange(0))

\* With the settings left alone nobody is paid more than was accrued.
QuietInv == IInv /\ SettingsOfSeed /\ WithdrawnWithinAccrued

\* With the pool left alone, paid and owed are within the emission.
EmissionInv == PaidOut + Net(Owed, Users) <= Emission

\* The emission since the start is an integer, and at most what the range allows.
LEMMA EmissionInt ==
  ASSUME TypeOK, SettingsOfSeed
  PROVE  /\ fitTimeToRange(now) - fitTimeToRange(0) \in 0 .. End0 - Start0
         /\ Emission \in Int
         /\ Emission <= Rate0 * Precision * (End0 - Start0)
  <1> DEFINE hours == fitTimeToRange(now) - fitTimeToRange(0)
             k == Rate0 * Precision
  <1>1. hours \in 0 .. End0 - Start0
    BY FarmAssumption DEF TypeOK, SettingsOfSeed, fitTimeToRange
  <1>2. k \in Nat
    <2>1. \A x, y \in Nat : x * y \in Nat
      OBVIOUS
    <2> QED  BY <2>1, FarmAssumption
  <1>3. hours \in Nat /\ End0 - Start0 \in Nat /\ hours <= End0 - Start0
    BY <1>1, FarmAssumption
  <1>4. Emission = k * hours
    BY DEF Emission
  <1> HIDE DEF hours, k
  <1>5. \A x, y, z \in Nat : x <= y => z * x \in Int /\ z * x <= z * y
    OBVIOUS
  <1>6. k * hours \in Int /\ k * hours <= k * (End0 - Start0)
    BY <1>2, <1>3, <1>5
  <1> QED  BY <1>1, <1>4, <1>6 DEF hours, k

\* An hour's emission covers what the hour credits to all users.
LEMMA EmissionGrows ==
  ASSUME IInv, SettingsOfSeed, SettingsOfSeed', Next
  PROVE  Emission' >= Emission + Net([u \in Users |-> HourOfUser(u)], Users)
  <1> DEFINE hour == [u \in Users |-> HourOfUser(u)]
             k == Rate0 * Precision
             tick == IF now' # now /\ InRange THEN 1 ELSE 0
             hours == fitTimeToRange(now) - fitTimeToRange(0)
  <1>1. /\ TypeOK /\ EmissionRatePerHour = Rate0 /\ Rate0 \in Nat /\ k \in Nat
        /\ hour \in [Users -> Nat] /\ Net(hour, Users) <= k
    <2>1. TypeOK /\ EmissionRatePerHour = Rate0 /\ Rate0 \in Nat
      BY FarmAssumption DEF IInv, SettingsOfSeed
    <2>2. k \in Nat
      <3>1. \A x, y \in Nat : x * y \in Nat
        OBVIOUS
      <3> QED  BY <2>1, <3>1, FarmAssumption
    <2> QED  BY <2>1, <2>2, HoursWithinRate
  <1>2. now' = now \/ now' = now + 1
    BY DEF Next, UserStep, approve, addStakingTokens, withdrawYield, withdrawTokensAndYield,
           OwnerStep, setOwner, setDevWallet, setDevRewardPct, setEmissionRatePerHour,
           recoverYieldToken, allowStaking, setStartTime, setEndTime, FundStep, fundPool, NextBlock
  <1>3. hours' = hours + tick /\ hours \in Int /\ tick \in {0, 1}
    <2>1. now \in Nat /\ StartTime = Start0 /\ EndTime = End0
          /\ StartTime' = Start0 /\ EndTime' = End0
      BY <1>1 DEF TypeOK, SettingsOfSeed
    <2>2. Start0 \in Nat /\ End0 \in Nat /\ Start0 <= End0
      BY FarmAssumption
    <2>3. fitTimeToRange(0)' = fitTimeToRange(0) /\ fitTimeToRange(0) \in Int
      BY <2>1, <2>2 DEF fitTimeToRange
    <2>4. fitTimeToRange(now) \in Int
      BY <2>1, <2>2 DEF fitTimeToRange
    <2>5. fitTimeToRange(now)' = fitTimeToRange(now) + tick
      <3>1. CASE now' = now
        BY <2>1, <2>2, <3>1 DEF fitTimeToRange
      <3>2. CASE now' = now + 1
        BY <2>1, <2>2, <3>2 DEF fitTimeToRange, InRange
      <3> QED  BY <1>2, <3>1, <3>2
    <2>6. tick \in {0, 1}
      OBVIOUS
    <2> HIDE DEF tick
    <2> QED  BY <2>3, <2>4, <2>5, <2>6
  <1>4. Emission = k * hours /\ Emission' = k * hours'
    BY DEF Emission
  <1>5. tick = 0 => Net(hour, Users) = 0
    <2>1. ASSUME tick = 0, NEW u \in Users PROVE hour[u] = 0
      <3>1. now' = now \/ ~InRange
        BY <2>1
      <3> QED  BY <1>1, <3>1, HourOfUserBound
    <2> HIDE DEF hour, tick
    <2> QED  BY <2>1, NetZero
  <1>6. Net(hour, Users) \in Int
    <2>1. hour \in [Users -> Int] /\ IsFiniteSet(Users)
      BY <1>1, FarmAssumption
    <2> HIDE DEF hour
    <2> QED  BY <2>1, NetInt, Users \in SUBSET Users
  <1>7. PICK a, b : a = hours /\ b = hours'
    OBVIOUS
  <1> HIDE DEF hour, tick, hours, k
  <1>8. \A x, y \in Int : x * (y + 1) = x * y + x /\ x * (y + 0) = x * y /\ x * y \in Int
    OBVIOUS
  <1>9. k * b >= k * a + Net(hour, Users)
    <2>1. CASE tick = 0
      BY <1>1, <1>3, <1>5, <1>7, <1>8, <2>1
    <2>2. CASE tick = 1
      BY <1>1, <1>3, <1>6, <1>7, <1>8, <2>2
    <2> QED  BY <1>3, <2>1, <2>2
  <1>10. Emission' >= Emission + Net(hour, Users)
    BY <1>4, <1>7, <1>9
  <1> QED  BY <1>10 DEF hour

\* The bookkeeping of what is accrued, paid and owed.
LEMMA EmissionKept ==
  ASSUME QuietInv, Next, SettingsOfSeed'
  PROVE  /\ WithdrawnWithinAccrued'
         /\ PoolLeftAlone /\ EmissionInv => EmissionInv'
  <1> DEFINE hour == [u \in Users |-> HourOfUser(u)]
  <1>1. /\ IInv /\ TypeOK /\ IInv' /\ SettingsOfSeed
        /\ StartTime <= EndTime /\ EmissionRatePerHour \in Nat
        /\ UNCHANGED <<EmissionRatePerHour, StartTime, EndTime>>
        /\ \A u \in Users : Withdrawals[u] <= Accrued(u)
        /\ Withdrawals \in [Users -> Nat] /\ Deposits \in [Users -> Seq(DepositRecords)]
        /\ yieldBalances \in [Accounts -> Nat]
    <2>1. IInv /\ TypeOK /\ SettingsOfSeed /\ WithdrawnWithinAccrued
      BY DEF QuietInv, IInv
    <2>2. IInv'
      BY <2>1, NextIInv
    <2> QED  BY <2>1, <2>2, FarmAssumption DEF SettingsOfSeed, WithdrawnWithinAccrued, TypeOK
  <1>2. \A u \in Users : /\ Accrued(u) \in Int
                         /\ Harvestable(u) \in Nat
                         /\ Harvestable(u) = Accrued(u) - Withdrawals[u]
    BY <1>1, HarvestableInt DEF Harvestable
  <1>3. hour \in [Users -> Nat] /\ hour \in [Users -> Int]
    BY <1>1, HoursWithinRate
  <1>4. Owed \in [Users -> Nat] /\ Owed \in [Users -> Int]
    BY <1>2 DEF Owed
  <1>5. Emission' >= Emission + Net(hour, Users) /\ Emission \in Int /\ Emission' \in Int
    <2>1. TypeOK'
      BY <1>1 DEF IInv
    <2>2. Emission \in Int
      BY <1>1, EmissionInt
    <2>3. Emission' \in Int
      <3>1. now' \in Nat /\ Rate0 \in Nat /\ Precision \in Nat
        BY <2>1, FarmAssumption DEF TypeOK
      <3>2. fitTimeToRange(now)' \in Int /\ fitTimeToRange(0)' \in Int
        BY <2>1, <3>1 DEF TypeOK, fitTimeToRange
      <3>3. \A x, y \in Int : x * y \in Int /\ x - y \in Int
        OBVIOUS
      <3>4. Emission' = Rate0 * Precision * (fitTimeToRange(now)' - fitTimeToRange(0)')
        BY DEF Emission
      <3>5. Rate0 * Precision \in Int /\ fitTimeToRange(now)' - fitTimeToRange(0)' \in Int
        BY <3>1, <3>2, <3>3
      <3> QED  BY <3>3, <3>4, <3>5
    <2> QED  BY <1>1, <2>2, <2>3, EmissionGrows
  <1>6. IsFiniteSet(Users)
    BY FarmAssumption
  <1>7. \A u \in Users :
          Accrued(u)' = IF Deposits'[u] = <<>> THEN 0 ELSE Accrued(u) + hour[u]
    BY <1>1, AccruedStep
  <1>8. Owed' = [u \in Users |-> Accrued(u)' - Withdrawals'[u]]
    BY DEF Owed, Harvestable
  <1>9. \A u \in Users : (now' = now => hour[u] = 0) /\ (Deposits[u] = <<>> => hour[u] = 0)
    BY <1>1, HourOfUserBound
  <1> HIDE DEF hour
  <1>10. Net(Owed, Users) \in Int /\ Net(hour, Users) \in Nat
    BY <1>3, <1>4, <1>6, NetInt, NetNat, Users \in SUBSET Users
  <1>11. /\ PaidOut \in Int /\ PaidOut' \in Int
         /\ PaidOut = InitialPool - yieldBalances[This]
         /\ PaidOut' = InitialPool - yieldBalances'[This]
         /\ yieldBalances[This] \in Int
    <2>1. yieldBalances' \in [Accounts -> Nat]
      BY <1>1 DEF IInv, TypeOK
    <2> QED  BY <1>1, <2>1, FarmAssumption DEF PaidOut, Accounts
  <1>12. \A u \in Users : /\ Deposits[u] = <<>> => Accrued(u) = 0
                          /\ Owed[u] = Accrued(u) - Withdrawals[u]
                          /\ Withdrawals[u] \in Int
                          /\ Withdrawals[u] <= Accrued(u)
    BY <1>1, <1>2, AccruedEmpty DEF Owed
  <1>13. ASSUME \A u \in Users : Deposits'[u] = Deposits[u] \/ Deposits'[u] # <<>>,
                Withdrawals' = Withdrawals
         PROVE  /\ WithdrawnWithinAccrued'
                /\ PaidOut' <= PaidOut /\ EmissionInv => EmissionInv'
    <2>1. \A u \in Users : Accrued(u)' = Accrued(u) + hour[u] /\ hour[u] \in Nat
      BY <1>3, <1>7, <1>9, <1>12, <1>13
    <2>2. \A u \in Users : Owed'[u] = Owed[u] + hour[u]
      BY <1>2, <1>8, <1>12, <1>13, <2>1
    <2>3. Owed' \in [Users -> Int]
      BY <1>4, <1>8, <2>1, <2>2
    <2>4. Net(Owed', Users) = Net(Owed, Users) + Net(hour, Users)
      BY <1>3, <1>4, <1>6, <2>2, <2>3, NetAdd
    <2>5. PaidOut' <= PaidOut /\ EmissionInv => EmissionInv'
      BY <1>5, <1>10, <1>11, <2>4 DEF EmissionInv
    <2>6. ASSUME NEW u \in Users PROVE Withdrawals'[u] <= Accrued(u)'
      <3>1. Withdrawals'[u] = Withdrawals[u]
        BY <1>13
      <3> QED  BY <1>2, <1>12, <2>1, <3>1
    <2> QED  BY <2>5, <2>6 DEF WithdrawnWithinAccrued
  <1>14. ASSUME NEW user \in Users, NEW y \in Nat, y <= Owed[user],
                Owed' = [Owed EXCEPT ![user] = @ - y], PaidOut' <= PaidOut + y
         PROVE  EmissionInv => EmissionInv'
    <2>1. Owed' \in [Users -> Int] /\ Owed[user] \in Int
          /\ Owed'[user] = Owed[user] - y
          /\ \A u \in Users \ {user} : Owed'[u] = Owed[u]
      BY <1>4, <1>14
    <2>2. Net(Owed', Users) = Net(Owed, Users) - Owed[user] + Owed'[user]
      BY <1>4, <1>6, <2>1, NetUpdate
    <2> QED  BY <1>5, <1>10, <1>11, <1>14, <2>1, <2>2 DEF EmissionInv
  <1>15. CASE OwnerStep \/ FundStep \/ NextBlock
    <2>1. UNCHANGED <<Deposits, Withdrawals>>
      BY <1>15 DEF OwnerStep, setOwner, setDevWallet, setDevRewardPct,
                   setEmissionRatePerHour, recoverYieldToken, allowStaking, setStartTime,
                   setEndTime, FundStep, fundPool, NextBlock, positions
    <2>2. PoolLeftAlone => yieldBalances'[This] >= yieldBalances[This]
      <3>1. CASE FundStep
        <4>1. PICK from \in Admins, amount \in FundAmounts :
                /\ CanTransfer(yieldBalances, from, amount)
                /\ yieldBalances' = Move(yieldBalances, from, This, amount)
          BY <3>1 DEF FundStep, fundPool
        <4>2. from # This /\ from \in Accounts /\ This \in Accounts /\ amount \in Int /\ amount > 0
          BY <4>1, FarmAssumption DEF Accounts, CanTransfer
        <4>3. yieldBalances'[This] = yieldBalances[This] + amount
          BY <1>1, <4>1, <4>2 DEF Move
        <4> QED  BY <1>11, <4>2, <4>3
      <3>2. CASE OwnerStep \/ NextBlock
        <4>1. ASSUME PoolLeftAlone PROVE UNCHANGED yieldBalances
          BY <3>2, <4>1 DEF PoolLeftAlone, OwnerStep, setOwner, setDevWallet, setDevRewardPct,
                   setEmissionRatePerHour, allowStaking, setStartTime, setEndTime, NextBlock, tokens
        <4> QED  BY <1>11, <4>1
      <3> QED  BY <1>15, <3>1, <3>2
    <2>3. yieldBalances'[This] \in Int
      BY <1>1, FarmAssumption DEF IInv, TypeOK, Accounts
    <2>4. PoolLeftAlone => PaidOut' <= PaidOut
      BY <1>11, <2>2, <2>3, FarmAssumption
    <2> QED  BY <1>13, <2>1, <2>4
  <1>16. CASE \E user \in Users, amount \in StakeAmounts :
                approve(user, amount) \/ addStakingTokens(user, amount)
    <2>1. UNCHANGED <<Withdrawals, yieldBalances>>
      BY <1>16 DEF approve, addStakingTokens, positions
    <2>2. \A u \in Users : Deposits'[u] = Deposits[u] \/ Deposits'[u] # <<>>
      <3>1. CASE \E user \in Users, amount \in StakeAmounts : approve(user, amount)
        BY <3>1 DEF approve, positions
      <3>2. CASE \E user \in Users, amount \in StakeAmounts : addStakingTokens(user, amount)
        BY <1>1, <3>2 DEF addStakingTokens
      <3> QED  BY <1>16, <3>1, <3>2
    <2>3. PaidOut' <= PaidOut
      BY <1>11, <2>1
    <2> QED  BY <1>13, <2>1, <2>2, <2>3
  <1>17. CASE \E user \in Users, amount \in HarvestAmounts : withdrawYield(user, amount)
    <2>1. PICK user \in Users, amount \in HarvestAmounts : withdrawYield(user, amount)
      BY <1>17
    <2> DEFINE y == IF amount < Harvestable(user) THEN amount ELSE Harvestable(user)
    <2>2. /\ y \in Int /\ y > 0 /\ y <= Owed[user] /\ PayYield(user, y)
          /\ Withdrawals' = [Withdrawals EXCEPT ![user] = @ + y]
          /\ UNCHANGED <<Deposits, now>>
      <3>1. Harvestable(user) \in Nat /\ amount \in Int /\ Owed[user] = Harvestable(user)
        BY <1>2, FarmAssumption DEF Owed
      <3> QED  BY <2>1, <3>1 DEF withdrawYield
    <2> HIDE DEF y
    <2>3. PaidOut' = PaidOut + y
      <3>1. yieldBalances'[This] = yieldBalances[This] - y
        BY <1>1, <2>2, PayYieldTakes
      <3> QED  BY <1>11, <2>2, <3>1, FarmAssumption
    <2>4. ASSUME NEW u \in Users PROVE Accrued(u)' = Accrued(u)
      <3>1. Deposits'[u] = Deposits[u] /\ hour[u] = 0
        BY <1>9, <2>2
      <3>2. Accrued(u)' = IF Deposits[u] = <<>> THEN 0 ELSE Accrued(u) + 0
        BY <1>7, <3>1
      <3> QED  BY <1>2, <1>12, <3>2
    <2>5. \A u \in Users : Withdrawals'[u] = IF u = user THEN Withdrawals[u] + y
                                             ELSE Withdrawals[u]
      BY <1>1, <2>2
    <2>6. Owed' = [Owed EXCEPT ![user] = @ - y]
      <3>1. \A u \in Users : Owed'[u] = IF u = user THEN Owed[u] - y ELSE Owed[u]
        BY <1>2, <1>8, <1>12, <2>2, <2>4, <2>5
      <3>2. Owed' = [u \in Users |-> Owed'[u]]
        BY <1>8
      <3> QED  BY <1>4, <3>1, <3>2
    <2>7. WithdrawnWithinAccrued'
      <3>1. ASSUME NEW u \in Users PROVE Withdrawals'[u] <= Accrued(u)'
        <4>1. Accrued(u)' = Accrued(u) /\ Owed[u] = Accrued(u) - Withdrawals[u]
          BY <1>12, <2>4
        <4> QED  BY <1>2, <1>12, <2>2, <2>5, <4>1
      <3> QED  BY <3>1 DEF WithdrawnWithinAccrued
    <2>8. y \in Nat /\ PaidOut' <= PaidOut + y
      BY <1>11, <2>2, <2>3
    <2> QED  BY <1>14, <2>2, <2>6, <2>7, <2>8
  <1>18. CASE \E user \in Users : withdrawTokensAndYield(user)
    <2>1. PICK user \in Users : withdrawTokensAndYield(user)
      BY <1>18
    <2>2. /\ Deposits' = [Deposits EXCEPT ![user] = <<>>]
          /\ Withdrawals' = [Withdrawals EXCEPT ![user] = 0]
          /\ now' = now
          /\ \/ Harvestable(user) > 0 /\ PayYield(user, Harvestable(user))
             \/ UNCHANGED yieldBalances
      BY <2>1 DEF withdrawTokensAndYield, closePosition
    <2>3. Owed[user] = Harvestable(user) /\ Owed[user] \in Nat
      BY <1>2, <1>4 DEF Owed
    <2>4. PaidOut' <= PaidOut + Owed[user]
      <3>1. CASE UNCHANGED yieldBalances
        BY <1>11, <2>3, <3>1
      <3>2. CASE Harvestable(user) > 0 /\ PayYield(user, Harvestable(user))
        <4>1. yieldBalances'[This] = yieldBalances[This] - Harvestable(user)
          BY <1>1, <1>2, <3>2, PayYieldTakes
        <4> QED  BY <1>11, <2>3, <4>1, FarmAssumption
      <3> QED  BY <2>2, <3>1, <3>2
    <2>5. ASSUME NEW u \in Users PROVE Accrued(u)' = IF u = user THEN 0 ELSE Accrued(u)
      <3>1. Deposits'[u] = (IF u = user THEN <<>> ELSE Deposits[u]) /\ hour[u] = 0
        BY <1>1, <1>9, <2>2
      <3>2. Accrued(u)' = IF Deposits'[u] = <<>> THEN 0 ELSE Accrued(u) + 0
        BY <1>7, <3>1
      <3> QED  BY <1>2, <1>12, <3>1, <3>2
    <2>6. \A u \in Users : Withdrawals'[u] = IF u = user THEN 0 ELSE Withdrawals[u]
      BY <1>1, <2>2
    <2>7. Owed' = [Owed EXCEPT ![user] = @ - Owed[user]]
      <3>1. \A u \in Users : Owed'[u] = IF u = user THEN Owed[u] - Owed[user] ELSE Owed[u]
        BY <1>2, <1>8, <1>12, <2>3, <2>5, <2>6
      <3>2. Owed' = [u \in Users |-> Owed'[u]]
        BY <1>8
      <3> QED  BY <1>4, <3>1, <3>2
    <2>8. WithdrawnWithinAccrued'
      <3>1. ASSUME NEW u \in Users PROVE Withdrawals'[u] <= Accrued(u)'
        BY <1>2, <1>12, <2>5, <2>6
      <3> QED  BY <3>1 DEF WithdrawnWithinAccrued
    <2>9. Owed[user] <= Owed[user]
      BY <2>3
    <2> QED  BY <1>14, <2>3, <2>4, <2>7, <2>8, <2>9
  <1> QED  BY <1>15, <1>16, <1>17, <1>18 DEF Next, UserStep

\* The yield owed to all users is the sum of its entries.
LEMMA HarvestableSum ==
  ASSUME \A u \in Users : Harvestable(u) \in Int
  PROVE  MapThenSumSet(Harvestable, Users) = Net(Owed, Users)
  <1> DEFINE f == Owed
             Adds(iter) == iter = [s \in SUBSET Users |->
                             IF s = {} THEN 0
                             ELSE Harvestable(CHOOSE x \in s : TRUE)
                                    + iter[s \ {CHOOSE x \in s : TRUE}]]
             sum == CHOOSE iter : Adds(iter)
  <1>1. f \in [Users -> Int]
    BY DEF Owed
  <1>2. ASSUME NEW iter PROVE Adds(iter) <=> IsSetSum(iter, f, Users)
    <2>1. \A s \in SUBSET Users : s # {} =>
            Harvestable(CHOOSE x \in s : TRUE) = f[CHOOSE x \in s : TRUE]
      BY DEF Owed
    <2> HIDE DEF f
    <2> QED  BY <2>1 DEF IsSetSum
  <1> HIDE DEF f
  <1>3. Adds(sum)
    <2>1. \E iter : IsSetSum(iter, f, Users)
      BY <1>1, FarmAssumption, NetSolves
    <2> HIDE DEF Adds
    <2> QED  BY <1>2, <2>1
  <1>4. sum[Users] = Net(f, Users)
    BY <1>1, <1>2, <1>3, FarmAssumption, SetSumIsNet
  <1>5. MapThenSumSet(Harvestable, Users) = sum[Users]
    BY DEF MapThenSumSet, MapThenFoldSet
  <1> QED  BY <1>4, <1>5 DEF f

\* The invariants of the farm left alone hold at the start.
LEMMA QuietStart ==
  ASSUME Init
  PROVE  QuietInv /\ EmissionInv
  <1>1. IInv /\ SettingsOfSeed
    BY InitIInv DEF Init, SettingsOfSeed
  <1>2. \A u \in Users : Accrued(u) = 0 /\ Withdrawals[u] = 0
    BY AccruedEmpty DEF Init
  <1>3. Net(Owed, Users) = 0
    BY <1>2, NetZero DEF Owed, Harvestable
  <1>4. PaidOut = 0
    BY FarmAssumption DEF Init, PaidOut, Accounts
  <1>5. Emission = 0
    <2>1. fitTimeToRange(0) \in Int
      BY <1>1, FarmAssumption DEF SettingsOfSeed, fitTimeToRange
    <2>2. fitTimeToRange(now) - fitTimeToRange(0) = 0
      BY <2>1 DEF Init
    <2>3. \A x, y \in Int : x * y * 0 = 0
      OBVIOUS
    <2> QED  BY <2>2, <2>3, FarmAssumption DEF Emission
  <1> QED  BY <1>1, <1>2, <1>3, <1>4, <1>5 DEF QuietInv, EmissionInv, WithdrawnWithinAccrued

\* Every call keeps them while settings and pool are left alone.
LEMMA QuietStep ==
  ASSUME SettingsLeftAlone, QuietInv, [Next]_vars
  PROVE  QuietInv' /\ (PoolLeftAlone /\ EmissionInv => EmissionInv')
  <1>1. IInv /\ SettingsOfSeed
    BY DEF QuietInv
  <1>2. IInv' /\ SettingsOfSeed'
    BY <1>1, NextIInv, SettingsKept
  <1>3. CASE UNCHANGED vars
    <2>1. ASSUME NEW u \in Users
          PROVE  Accrued(u)' = Accrued(u) /\ Harvestable(u)' = Harvestable(u)
      <3>1. Accrued(u)' = Accrued(u)
        BY <1>3, AccruedUntouched DEF vars, settings, positions
      <3> QED  BY <1>3, <3>1 DEF Harvestable, vars, positions
    <2>2. Owed' = Owed
      BY <2>1 DEF Owed
    <2>3. Emission' = Emission /\ PaidOut' = PaidOut
      BY <1>3 DEF Emission, PaidOut, fitTimeToRange, vars, settings, tokens
    <2>4. WithdrawnWithinAccrued'
      BY <1>3, <2>1 DEF QuietInv, WithdrawnWithinAccrued, vars, positions
    <2> QED  BY <1>2, <2>2, <2>3, <2>4 DEF QuietInv, EmissionInv
  <1>4. CASE Next
    BY <1>2, <1>4, EmissionKept DEF QuietInv
  <1> QED  BY <1>3, <1>4

\* What is paid and owed is within the emission as WithinEmission states it.
LEMMA EmissionIsWithin ==
  ASSUME QuietInv, EmissionInv
  PROVE  WithinEmission
  <1>1. \A u \in Users : Harvestable(u) \in Int
    BY HarvestableInt DEF QuietInv
  <1> QED  BY <1>1, HarvestableSum DEF EmissionInv, Emission, WithinEmission

\* A contract that holds what it owes pays an exit: the dev fund's part of a
\* positive yield leaves a positive part to the user.
LEMMA FundedExit ==
  ASSUME QuietInv, EmissionInv, PoolFunded
  PROVE  ExitFunded
  <1>1. /\ IInv /\ TypeOK /\ SettingsOfSeed /\ stakingBalances[This] >= StakedBalance
        /\ \A u \in Users : Withdrawals[u] <= Accrued(u)
    BY DEF QuietInv, IInv, Principal, VaultCoversStake, WithdrawnWithinAccrued
  <1>2. ASSUME NEW u \in Users PROVE Harvestable(u) \in Nat /\ Owed[u] = Harvestable(u)
    <2>1. Accrued(u) \in Int /\ Withdrawals[u] \in Int
      BY <1>1, HarvestableInt DEF TypeOK
    <2>2. Harvestable(u) = Accrued(u) - Withdrawals[u] /\ Withdrawals[u] <= Accrued(u)
      BY <1>1 DEF Harvestable
    <2> QED  BY <2>1, <2>2 DEF Owed
  <1>3. Owed \in [Users -> Nat]
    BY <1>2 DEF Owed
  <1>4. \A u \in Users : Owed[u] <= Net(Owed, Users) /\ Net(Owed, Users) \in Nat
    <2>1. IsFiniteSet(Users)
      BY FarmAssumption
    <2> QED  BY <1>3, <2>1, NetIsTotal, TotalBounds
  <1>5. yieldBalances \in [Accounts -> Nat] /\ yieldBalances[This] \in Nat
    BY <1>1 DEF TypeOK, Accounts
  <1>6. yieldBalances[This] >= Net(Owed, Users)
    <2>1. /\ Emission \in Int /\ Emission <= Rate0 * Precision * (End0 - Start0)
          /\ InitialPool >= Rate0 * Precision * (End0 - Start0)
          /\ InitialPool - yieldBalances[This] + Net(Owed, Users) <= Emission
      BY <1>1, EmissionInt DEF EmissionInv, PaidOut, PoolFunded
    <2>2. Rate0 * Precision * (End0 - Start0) \in Int
      <3>1. \A x, y \in Int : x * y \in Int
        OBVIOUS
      <3>2. Rate0 \in Int /\ Precision \in Int /\ End0 - Start0 \in Int
        BY FarmAssumption
      <3>3. Rate0 * Precision \in Int
        BY <3>1, <3>2
      <3> QED  BY <3>1, <3>2, <3>3
    <2>3. Users # {} => Net(Owed, Users) \in Int
      BY <1>4
    <2>4. Users = {} => Net(Owed, Users) = 0
      BY NetZero
    <2>5. Net(Owed, Users) \in Int
      BY <2>3, <2>4
    <2>6. PICK m : m = Rate0 * Precision * (End0 - Start0)
      OBVIOUS
    <2>7. /\ m \in Int /\ Emission <= m /\ InitialPool >= m /\ InitialPool \in Int
      BY <2>1, <2>2, <2>6, FarmAssumption
    <2> QED  BY <1>5, <2>1, <2>5, <2>7
  <1>7. ASSUME NEW u \in Users, Deposits[u] # <<>> PROVE CanExit(u)
    <2> DEFINE y == Harvestable(u)
               dev == DevShare(y)
    <2>1. CanTransfer(stakingBalances, This, StakeOf(Deposits[u]))
      <3>1. StakeOf(Deposits[u]) \in Nat /\ StakeOf(Deposits[u]) > 0
            /\ StakeOf(Deposits[u]) <= StakedBalance
        BY <1>1, <1>7, StakesInTotal
      <3>2. stakingBalances[This] \in Nat /\ StakedBalance \in Nat
        BY <1>1 DEF TypeOK, Accounts
      <3> QED  BY <1>1, <3>1, <3>2 DEF CanTransfer
    <2>2. ASSUME y > 0 PROVE CanPayYield(y)
      <3>1. y \in Nat \ {0} /\ y <= yieldBalances[This]
        BY <1>2, <1>4, <1>5, <1>6, <2>2
      <3>2. dev \in Nat /\ dev < y
        <4>1. DevRewardPct \in 0 .. PctBase - 1 /\ PctBase \in Nat \ {0}
          BY <1>1, FarmAssumption DEF TypeOK
        <4>2. \A a \in Nat \ {0}, b \in Nat \ {0} : \A p \in 0 .. b - 1 :
                a * p \in Nat /\ a * p < a * b
          OBVIOUS
        <4>3. \A a \in Nat \ {0}, b \in Nat \ {0}, n \in Nat :
                n < a * b => n \div b \in Nat /\ n \div b < a
          OBVIOUS
        <4> HIDE DEF y
        <4>4. y * DevRewardPct \in Nat /\ y * DevRewardPct < y * PctBase
          BY <3>1, <4>1, <4>2
        <4> QED  BY <3>1, <4>1, <4>3, <4>4 DEF DevShare
      <3>3. DevRewardWallet # This /\ DevRewardWallet \in Accounts /\ This \in Accounts
        <4>1. DevRewardWallet \in Admins
          BY <1>1 DEF TypeOK
        <4> QED  BY <4>1, FarmAssumption DEF Accounts
      <3>4. DevPaid(y)[This] = yieldBalances[This] - dev
        <4> HIDE DEF y
        <4> QED  BY <1>5, <3>2, <3>3 DEF DevPaid, Move
      <3> HIDE DEF y, dev
      <3>5. y - dev > 0 /\ DevPaid(y)[This] >= y - dev /\ (dev > 0 => yieldBalances[This] >= dev)
        BY <1>5, <3>1, <3>2, <3>4
      <3> QED  BY <3>5 DEF CanPayYield, CanTransfer, dev
    <2> QED  BY <2>1, <2>2 DEF CanExit
  <1> QED  BY <1>7 DEF ExitFunded

\* With the settings of seed left alone, nobody ever takes out more than the
\* deposits accrued: "this should never be negative" holds for any interleaving
\* of entries, harvests and exits.  farm_retroactive shows that a new rate,
\* which counts for hours already paid for as well, breaks it.
THEOREM PaysWhatAccrued == ASSUME SettingsLeftAlone
                           PROVE  Spec => []WithdrawnWithinAccrued
  <1>1. Init => QuietInv
    BY QuietStart
  <1>2. QuietInv /\ [Next]_vars => QuietInv'
    BY QuietStep
  <1>3. QuietInv => WithdrawnWithinAccrued
    BY DEF QuietInv
  <1> QED  BY <1>1, <1>2, <1>3, PTL DEF Spec

\* "Yield will be distributed at a fixed rate per vault over time": for any
\* number of users, what was paid to them and to the dev fund and what is still
\* owed stays within the emission of the hours since the start, as long as the
\* owner keeps the settings of seed and recovers nothing.
THEOREM StaysWithinEmission == ASSUME SettingsLeftAlone, PoolLeftAlone
                               PROVE  Spec => []WithinEmission
  <1>1. Init => QuietInv /\ EmissionInv
    BY QuietStart
  <1>2. QuietInv /\ EmissionInv /\ [Next]_vars => QuietInv' /\ EmissionInv'
    BY QuietStep
  <1>3. QuietInv /\ EmissionInv => WithinEmission
    BY EmissionIsWithin
  <1> QED  BY <1>1, <1>2, <1>3, PTL DEF Spec

\* A contract that was given the whole emission never refuses an exit: for any
\* users and any order of their calls it can return the stake and pay what is
\* owed, the dev fund's part first.
THEOREM ExitsAreFunded == ASSUME SettingsLeftAlone, PoolLeftAlone, PoolFunded
                          PROVE  Spec => []ExitFunded
  <1>1. Init => QuietInv /\ EmissionInv
    BY QuietStart
  <1>2. QuietInv /\ EmissionInv /\ [Next]_vars => QuietInv' /\ EmissionInv'
    BY QuietStep
  <1>3. QuietInv /\ EmissionInv => ExitFunded
    BY FundedExit
  <1> QED  BY <1>1, <1>2, <1>3, PTL DEF Spec

-----------------------------------------------------------------------------
(* The tape *)

TapeInv == IInv /\ SettingsOfSeed /\ AccruedAsEarned

\* Every call and every hour keep the tape's invariant.
LEMMA TapeStepInv ==
  ASSUME SettingsLeftAlone, TapeInv, [Next /\ TapeStep]_<<vars, earned>>
  PROVE  TapeInv'
  <1>1. /\ IInv /\ SettingsOfSeed /\ [Next]_vars
        /\ \A u \in Users : Accrued(u) = earned[u]
    BY DEF TapeInv, AccruedAsEarned
  <1>2. IInv' /\ SettingsOfSeed'
    BY <1>1, NextIInv, SettingsKept
  <1>3. CASE UNCHANGED <<vars, earned>>
    <2>1. \A u \in Users : Accrued(u)' = Accrued(u)
      BY <1>3, AccruedUntouched DEF vars, settings, positions
    <2> QED  BY <1>1, <1>2, <1>3, <2>1 DEF TapeInv, AccruedAsEarned
  <1>4. CASE Next /\ TapeStep
    <2>1. StartTime <= EndTime /\ UNCHANGED <<EmissionRatePerHour, StartTime, EndTime>>
      BY <1>1, <1>2, FarmAssumption DEF SettingsOfSeed
    <2>2. ASSUME NEW u \in Users PROVE Accrued(u)' = earned'[u]
      <3>1. Accrued(u)' = IF Deposits'[u] = <<>> THEN 0 ELSE Accrued(u) + HourOfUser(u)
        BY <1>1, <1>4, <2>1, AccruedStep
      <3>2. earned'[u] = IF Deposits'[u] = <<>> THEN 0 ELSE earned[u] + HourOfUser(u)
        BY <1>4 DEF TapeStep
      <3> QED  BY <1>1, <3>1, <3>2
    <2> QED  BY <1>2, <2>2 DEF TapeInv, AccruedAsEarned
  <1> QED  BY <1>3, <1>4

\* The contract's loop over the epochs computes the tape of overview.md: while
\* the settings of seed stand, what a user accrues is what the hours credit to
\* its deposits, for any number of users and deposits and any interleaving of
\* their entries, harvests and exits.
THEOREM AccruesAsEarned == ASSUME SettingsLeftAlone
                           PROVE  TapeSpec => []AccruedAsEarned
  <1>1. Init /\ TapeInit => TapeInv
    <2> SUFFICES ASSUME Init, TapeInit PROVE TapeInv
      OBVIOUS
    <2>1. \A u \in Users : Accrued(u) = 0
      BY AccruedEmpty DEF Init
    <2> QED  BY <2>1, InitIInv DEF TapeInv, Init, TapeInit, SettingsOfSeed, AccruedAsEarned
  <1>2. TapeInv /\ [Next /\ TapeStep]_<<vars, earned>> => TapeInv'
    BY TapeStepInv
  <1>3. TapeInv => AccruedAsEarned
    BY DEF TapeInv
  <1> QED  BY <1>1, <1>2, <1>3, PTL DEF TapeSpec

\* The tape only watches: what holds of the contract holds beside it.
LEMMA TapeWatches == TapeSpec => Spec
  <1>1. [Next /\ TapeStep]_<<vars, earned>> => [Next]_vars
    OBVIOUS
  <1> QED  BY <1>1, PTL DEF TapeSpec, Spec
=============================================================================
