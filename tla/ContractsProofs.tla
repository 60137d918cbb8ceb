--------------------------- MODULE ContractsProofs --------------------------
(***************************************************************************)
(* Proofs about three contracts that keep coins: con_basic_token.py, for   *)
(* any accounts, amounts and metadata values, the wallet of several        *)
(* signers, for any proposals, votes and signers, and the first AMM, for   *)
(* any markets, also ones that share a token.                              *)
(***************************************************************************)
EXTENDS BasicToken, Multisig, DexPairs, TallyTheorems, SequenceTheorems

-----------------------------------------------------------------------------
(* The token *)

\* A transfer, or one branch of transfer_from, leaves integers, touches only
\* the two accounts it names, and lowers no other account than the payer.
LEMMA MoveFacts ==
  ASSUME NEW b \in [Accounts -> Int], NEW from \in Accounts, NEW to \in Accounts,
         NEW amount \in Int, amount > 0
  PROVE  /\ MoveCoins(b, from, to, amount) \in [Accounts -> Int]
         /\ \A a \in Accounts :
              /\ MoveCoins(b, from, to, amount)[a] < b[a] => a = from
              /\ MoveCoins(b, from, to, amount)[a] >= b[a] - amount
  <1>1. CASE from = to
    BY <1>1 DEF MoveCoins
  <1>2. CASE from # to
    BY <1>2 DEF MoveCoins
  <1> QED BY <1>1, <1>2

\* Whoever calls has an account.
LEMMA CallersAreAccounts == Callers \subseteq Accounts
  BY DEF Accounts

\* Every call of the token keeps the types: in particular an allowance never
\* becomes negative, though a balance may.
THEOREM TypeCorrect == Spec => []TypeOK
  <1>1. Init => TypeOK
    BY TokenAssumption, CallersAreAccounts DEF Init, TypeOK, LogoKinds
  <1>2. TypeOK /\ [Next]_vars => TypeOK'
    <2> SUFFICES ASSUME TypeOK, [Next]_vars PROVE TypeOK'
      OBVIOUS
    <2> USE TokenAssumption, CallersAreAccounts
    <2>1. ASSUME NEW c \in Callers, NEW n \in Amounts, NEW to \in Accounts, transfer(c, n, to)
          PROVE  TypeOK'
      <3>1. balances' \in [Accounts -> Int]
        BY <2>1, MoveFacts DEF transfer, TypeOK
      <3> QED BY <2>1, <3>1 DEF transfer, TypeOK, meta
    <2>2. ASSUME NEW c \in Callers, NEW n \in Amounts, NEW to \in Accounts,
                 NEW main \in Callers, transfer_from(c, n, to, main)
          PROVE  TypeOK'
      <3>1. ByCustody(c, n, to, main) \in [Accounts -> Int]
        BY <2>2, MoveFacts DEF transfer_from, ByCustody, TypeOK
      <3>2. balances' \in [Accounts -> Int]
        <4>1. PICK moved \in [Accounts -> Int] : moved = ByCustody(c, n, to, main)
          BY <3>1
        <4>2. n \in Int /\ n > 0 /\ main \in Accounts
          BY <2>2 DEF transfer_from
        <4>3. balances' = MoveCoins(moved, main, to, n) \/ balances' = moved
          BY <2>2, <4>1 DEF transfer_from
        <4> QED  BY <4>1, <4>2, <4>3, MoveFacts
      <3>3. allowances' \in [Accounts \X Accounts -> Nat]
        <4>1. CASE CanSpend(c, n, main)
          BY <2>2, <4>1 DEF transfer_from, TypeOK, CanSpend
        <4>2. CASE ~CanSpend(c, n, main)
          BY <2>2, <4>2 DEF transfer_from, TypeOK
        <4> QED BY <4>1, <4>2
      <3> QED BY <2>2, <3>2, <3>3 DEF transfer_from, TypeOK, meta
    <2>3. ASSUME NEW c \in Callers, NEW n \in Allowances, NEW to \in Callers, approve(c, n, to)
          PROVE  TypeOK'
      BY <2>3 DEF approve, TypeOK, meta
    <2>4. ASSUME NEW c \in Callers, NEW to \in Callers,
                 always_approve(c, to) \/ revoke_always_approve(c, to)
          PROVE  TypeOK'
      BY <2>4 DEF always_approve, revoke_always_approve, TypeOK, meta
    <2>5. ASSUME NEW c \in Callers, NEW v \in MetaValues, NEW k \in LogoKinds,
                 set_logo(c, k, v)
          PROVE  TypeOK'
      BY <2>5 DEF set_logo, TypeOK
    <2>6. ASSUME NEW c \in Callers, NEW v \in MetaValues, NEW w \in {"name", "symbol"},
                 set_name(c, w, v)
          PROVE  TypeOK'
      BY <2>6 DEF set_name, TypeOK
    <2>7. CASE UNCHANGED vars
      BY <2>7 DEF vars, meta, TypeOK
    <2> QED BY <2>1, <2>2, <2>3, <2>4, <2>5, <2>6, <2>7 DEF Next
  <1> QED BY <1>1, <1>2, PTL DEF Spec

\* After any calls of set_logo a wallet finds at most one kind of logo.
THEOREM LogoIsUnique == Spec => []OneLogo
  <1>1. Init => OneLogo
    BY DEF Init, OneLogo
  <1>2. OneLogo /\ [Next]_vars => OneLogo'
    <2> SUFFICES ASSUME OneLogo, [Next]_vars PROVE OneLogo'
      OBVIOUS
    <2>1. ASSUME NEW c \in Callers, NEW v \in MetaValues, NEW k \in LogoKinds,
                 set_logo(c, k, v)
          PROVE  OneLogo'
      BY <2>1 DEF set_logo, OneLogo
    <2>2. CASE UNCHANGED logo
      BY <2>2 DEF OneLogo
    <2> QED BY ZenonT(60), <2>1, <2>2 DEF Next, vars, meta, transfer, transfer_from, approve,
                              always_approve, revoke_always_approve, set_name
  <1> QED BY <1>1, <1>2, PTL DEF Spec

\* One check of the balance protects each branch of transfer_from alone: an
\* account is overdrawn only when the spender has custody and an allowance.
THEOREM WhoOverdraws == Spec => OverdrawnOnlyByBoth
  <1> DEFINE Both(a) == \E s \in Callers : custodial[<<a, s>>] /\ allowances'[<<a, s>>] < allowances[<<a, s>>]
             Claim == \A a \in Accounts :
                        balances'[a] < 0 /\ balances'[a] < balances[a] => Both(a)
  <1>1. TypeOK /\ [Next]_vars => [Claim]_balances
    <2> SUFFICES ASSUME TypeOK, Next, balances' # balances,
                        NEW a \in Accounts, balances'[a] < 0, balances'[a] < balances[a]
                 PROVE  Both(a)
      BY DEF vars
    <2> USE TokenAssumption, CallersAreAccounts
    <2>1. ASSUME NEW c \in Callers, NEW n \in Amounts, NEW to \in Accounts, transfer(c, n, to)
          PROVE  FALSE
      <3>0. /\ n \in Int /\ n > 0 /\ balances \in [Accounts -> Int] /\ balances[c] >= n
            /\ balances' = MoveCoins(balances, c, to, n)
        BY <2>1 DEF transfer, TypeOK
      <3>1. /\ balances' \in [Accounts -> Int]
            /\ a = c /\ balances'[a] >= balances[a] - n
        BY <3>0, MoveFacts
      <3>2. balances'[a] \in Int /\ balances[a] \in Int
        BY <3>0, <3>1
      <3> QED BY <3>0, <3>1, <3>2
    <2>2. ASSUME NEW c \in Callers, NEW n \in Amounts, NEW to \in Accounts,
                 NEW main \in Callers, transfer_from(c, n, to, main)
          PROVE  Both(a)
      <3> DEFINE moved == ByCustody(c, n, to, main)
      <3>0. n \in Int /\ n > 0 /\ balances \in [Accounts -> Int] /\ balances[main] >= n
        BY <2>2 DEF transfer_from, TypeOK
      <3>1. /\ moved \in [Accounts -> Int]
            /\ moved[a] < balances[a] => a = main /\ custodial[<<main, c>>]
            /\ moved[a] >= balances[a] - n
        BY <3>0, MoveFacts DEF ByCustody
      <3>2. CASE CanSpend(c, n, main)
        <4>1. balances' = MoveCoins(moved, main, to, n)
          BY <2>2, <3>2 DEF transfer_from
        <4>2. balances'[a] < moved[a] => a = main
          BY <4>1, <3>0, <3>1, MoveFacts
        <4>3. balances'[a] >= moved[a] - n
          BY <4>1, <3>0, <3>1, MoveFacts
        <4>4. balances'[a] \in Int /\ moved[a] \in Int /\ balances[a] \in Int
          <5>1. balances' \in [Accounts -> Int]
            BY <4>1, <3>0, <3>1, MoveFacts
          <5> QED BY <5>1, <3>0, <3>1
        <4>5. a = main
          BY <4>2, <4>4, <3>1
        <4>6. custodial[<<main, c>>]
          <5> SUFFICES ASSUME ~custodial[<<main, c>>] PROVE FALSE
            OBVIOUS
          <5>1. moved[a] >= balances[a]
            BY <3>1, <4>4
          <5> QED BY <5>1, <4>3, <4>4, <4>5, <3>0
        <4>7. allowances'[<<main, c>>] < allowances[<<main, c>>]
          BY <2>2, <3>0, <3>2 DEF transfer_from, TypeOK
        <4> QED BY <4>5, <4>6, <4>7
      <3>3. CASE ~CanSpend(c, n, main)
        <4>1. balances' = moved
          BY <2>2, <3>3 DEF transfer_from
        <4> QED BY <4>1, <3>0, <3>1
      <3> QED BY <3>2, <3>3
    <2> QED BY <2>1, <2>2 DEF Next, approve, always_approve, revoke_always_approve,
                              set_logo, set_name
  <1> QED BY <1>1, TypeCorrect, PTL DEF Spec, OverdrawnOnlyByBoth

\* The sum over the accounts, as the difference of two totals.
LEMMA SupplySum ==
  ASSUME balances \in [Accounts -> Int], IsFiniteSet(Accounts)
  PROVE  MapThenSumSet(LAMBDA a : balances[a], Accounts) = Net(balances, Accounts)
  <1> DEFINE Adds(iter) == iter = [s \in SUBSET Accounts |->
                             IF s = {} THEN 0
                             ELSE balances[CHOOSE x \in s : TRUE]
                                    + iter[s \ {CHOOSE x \in s : TRUE}]]
             sum == CHOOSE iter : Adds(iter)
  <1>1. ASSUME NEW iter PROVE Adds(iter) <=> IsSetSum(iter, balances, Accounts)
    BY DEF IsSetSum
  <1>2. Adds(sum)
    <2>1. \E iter : IsSetSum(iter, balances, Accounts)
      BY NetSolves
    <2> HIDE DEF Adds
    <2> QED  BY <1>1, <2>1
  <1>3. sum[Accounts] = Net(balances, Accounts)
    BY <1>1, <1>2, SetSumIsNet
  <1>4. MapThenSumSet(LAMBDA a : balances[a], Accounts) = sum[Accounts]
    BY DEF MapThenSumSet, MapThenFoldSet
  <1> QED  BY <1>3, <1>4

\* The token has finitely many accounts.
LEMMA AccountsFinite == IsFiniteSet(Accounts)
  BY TokenAssumption, FS_Union DEF Accounts

\* Coins only change hands.
LEMMA MoveCoinsSum ==
  ASSUME NEW b \in [Accounts -> Int], NEW from \in Accounts, NEW to \in Accounts, NEW amount \in Int
  PROVE  /\ MoveCoins(b, from, to, amount) \in [Accounts -> Int]
         /\ Net(MoveCoins(b, from, to, amount), Accounts) = Net(b, Accounts)
  <1>1. PICK mid : mid = [b EXCEPT ![from] = @ - amount]
    OBVIOUS
  <1>2. PICK new : new = [mid EXCEPT ![to] = @ + amount]
    OBVIOUS
  <1>3. MoveCoins(b, from, to, amount) = new
    BY <1>1, <1>2 DEF MoveCoins
  <1>4. /\ mid \in [Accounts -> Int] /\ mid[from] = b[from] - amount
        /\ \A y \in Accounts \ {from} : mid[y] = b[y]
    BY <1>1
  <1>5. /\ new \in [Accounts -> Int] /\ new[to] = mid[to] + amount
        /\ \A y \in Accounts \ {to} : new[y] = mid[y]
    BY <1>2, <1>4
  <1>6. Net(mid, Accounts) = Net(b, Accounts) - b[from] + mid[from]
    BY <1>4, AccountsFinite, NetUpdate
  <1>7. Net(new, Accounts) = Net(mid, Accounts) - mid[to] + new[to]
    BY <1>4, <1>5, AccountsFinite, NetUpdate
  <1>8. Net(b, Accounts) \in Int /\ Net(mid, Accounts) \in Int /\ Net(new, Accounts) \in Int
    BY <1>4, <1>5, AccountsFinite, NetInt, Accounts \in SUBSET Accounts
  <1>9. b[from] \in Int /\ mid[to] \in Int
    BY <1>4
  <1> QED  BY <1>3, <1>4, <1>5, <1>6, <1>7, <1>8, <1>9

\* No call makes or loses coins, whichever branches of transfer_from run, and
\* though a balance may become negative.
THEOREM SupplyIsConserved == Spec => []SupplyConserved
  <1> DEFINE Conserved == Net(balances, Accounts) = Supply
  <1>1. Init => Conserved
    <2> SUFFICES ASSUME Init PROVE Conserved
      OBVIOUS
    <2> DEFINE none == [a \in Accounts |-> 0]
    <2>1. none \in [Accounts -> Int] /\ balances \in [Accounts -> Int] /\ Deployer \in Accounts
      BY TokenAssumption, CallersAreAccounts DEF Init
    <2>2. /\ balances[Deployer] = Supply /\ none[Deployer] = 0 /\ \A a \in Accounts : none[a] = 0
          /\ \A y \in Accounts \ {Deployer} : balances[y] = none[y]
      BY <2>1 DEF Init
    <2> HIDE DEF none
    <2>3. Net(none, Accounts) = 0
      BY <2>2, NetZero
    <2>4. Net(balances, Accounts) = Net(none, Accounts) - none[Deployer] + balances[Deployer]
      BY <2>1, <2>2, AccountsFinite, NetUpdate
    <2> QED  BY <2>2, <2>3, <2>4, TokenAssumption
  <1>2. TypeOK /\ Conserved /\ [Next]_vars => Conserved'
    <2> SUFFICES ASSUME TypeOK, Conserved, [Next]_vars PROVE Conserved'
      OBVIOUS
    <2> USE TokenAssumption, CallersAreAccounts
    <2>0. balances \in [Accounts -> Int]
      BY DEF TypeOK
    <2>1. ASSUME NEW b \in [Accounts -> Int], Net(b, Accounts) = Supply, balances' = b
          PROVE  Conserved'
      BY <2>1
    <2>2. ASSUME NEW c \in Callers, NEW n \in Amounts, NEW to \in Accounts, transfer(c, n, to)
          PROVE  Conserved'
      <3>1. PICK b : b = MoveCoins(balances, c, to, n)
        OBVIOUS
      <3>2. b \in [Accounts -> Int] /\ Net(b, Accounts) = Supply
        BY <2>0, <3>1, MoveCoinsSum
      <3> QED  BY <2>1, <2>2, <3>1, <3>2 DEF transfer
    <2>3. ASSUME NEW c \in Callers, NEW n \in Amounts, NEW to \in Accounts,
                 NEW main \in Callers, transfer_from(c, n, to, main)
          PROVE  Conserved'
      <3>1. PICK moved : moved = ByCustody(c, n, to, main)
        OBVIOUS
      <3>2. moved \in [Accounts -> Int] /\ Net(moved, Accounts) = Supply
        <4>1. moved = balances \/ moved = MoveCoins(balances, main, to, n)
          BY <3>1 DEF ByCustody
        <4> QED  BY <2>0, <4>1, MoveCoinsSum
      <3>3. PICK b : b = MoveCoins(moved, main, to, n)
        OBVIOUS
      <3>4. b \in [Accounts -> Int] /\ Net(b, Accounts) = Supply
        BY <3>2, <3>3, MoveCoinsSum
      <3>5. balances' = b \/ balances' = moved
        BY <2>3, <3>1, <3>3 DEF transfer_from
      <3> QED  BY <2>1, <3>2, <3>4, <3>5
    <2>4. CASE UNCHANGED balances
      BY <2>4
    <2> HIDE DEF Conserved
    <2> QED  BY <2>2, <2>3, <2>4 DEF Next, vars, meta, approve, always_approve,
                revoke_always_approve, set_logo, set_name
  <1>3. TypeOK /\ Conserved => SupplyConserved
    BY SupplySum, AccountsFinite DEF TypeOK, SupplyConserved
  <1> QED  BY <1>1, <1>2, <1>3, TypeCorrect, PTL DEF Spec

-----------------------------------------------------------------------------
(* The wallet of several signers *)

Kinds == {"transfer", "add_signature", "remove_signature", "change_approval_percentage",
          "change_minimum_duration"}
ProposalSet == [type : Kinds, amount : Int, reciever : Addresses \cup {Wallet}, ends : Int]
PassedSet == [accepted : BOOLEAN, approvers : SUBSET Addresses, signers : SUBSET Addresses,
              once : BOOLEAN, share : Int]

WalletTyped ==
  /\ sig \in [Addresses -> BOOLEAN] /\ number_of_sig \in Int
  /\ proposal_details \in Seq(ProposalSet)
  /\ \A i \in DOMAIN proposal_details :
       proposal_details[i].type \in {"transfer", "add_signature", "remove_signature"} =>
         proposal_details[i].reciever \in Addresses
  /\ Len(proposal_details) <= MaxProposals
  /\ voters \in [Ids -> Seq(Addresses)] /\ votes \in [Ids -> [Addresses -> BOOLEAN]]
  /\ minimum_proposal_duration \in Int /\ required_approval_percentage \in Int
  /\ currency \in [Addresses \cup {Wallet} -> Int]
  /\ now \in Nat /\ recounted \in BOOLEAN /\ passed \in [Ids -> PassedSet]

\* Only a proposal that is made is finished, and only one that is finished passed.
Finished ==
  /\ finished_proposals \subseteq DOMAIN proposal_details
  /\ \A i \in Ids : passed[i].accepted => i \in finished_proposals

\* The count of the signers is right until somebody is added or removed twice.
Counted == ~recounted => number_of_sig = Cardinality(SignersNow)

Proposed == [i \in DOMAIN proposal_details |-> proposal_details[i].amount]
Transferred == {i \in DOMAIN proposal_details :
                  passed[i].accepted /\ proposal_details[i].type = "transfer"}
Settled == currency[Wallet] = Funds - Net(Proposed, Transferred)

WalletIInv == WalletTyped /\ Finished /\ Counted /\ Settled /\ ApprovedByShare

\* The wallet has finitely many signers.
LEMMA SignersFinite == IsFiniteSet(Addresses) /\ IsFiniteSet(SignersNow) /\ SignersNow \subseteq Addresses
  <1>1. IsFiniteSet(Addresses)
    BY WalletAssumption, FS_Union DEF Addresses
  <1>2. SignersNow \subseteq Addresses
    BY DEF SignersNow
  <1> QED  BY <1>1, <1>2, FS_Subset

\* Proposals are numbered from 1 on, without gaps.
LEMMA ProposalsAreIds ==
  ASSUME WalletTyped
  PROVE  /\ DOMAIN proposal_details = 1 .. Len(proposal_details)
         /\ Len(proposal_details) \in Nat
         /\ DOMAIN proposal_details \subseteq Ids
         /\ IsFiniteSet(DOMAIN proposal_details)
         /\ \A i \in DOMAIN proposal_details : proposal_details[i] \in ProposalSet
         /\ Proposed \in [DOMAIN proposal_details -> Int]
  <1>1. /\ DOMAIN proposal_details = 1 .. Len(proposal_details) /\ Len(proposal_details) \in Nat
        /\ \A i \in DOMAIN proposal_details : proposal_details[i] \in ProposalSet
    BY LenProperties, ElementOfSeq DEF WalletTyped
  <1>2. IsFiniteSet(DOMAIN proposal_details)
    BY <1>1, FS_Interval
  <1>3. Proposed \in [DOMAIN proposal_details -> Int]
    BY <1>1 DEF Proposed, ProposalSet
  <1> QED  BY <1>1, <1>2, <1>3, WalletAssumption DEF WalletTyped, Ids

\* The wallet's invariant holds at the start.
LEMMA InitWallet == WalletInit => WalletIInv
  <1> SUFFICES ASSUME WalletInit PROVE WalletIInv
    OBVIOUS
  <1>1. /\ sig = [a \in Addresses |-> a \in Signers] /\ number_of_sig = Cardinality(Signers)
        /\ proposal_details = <<>> /\ finished_proposals = {} /\ recounted = FALSE
        /\ voters = [i \in Ids |-> <<>>] /\ votes = [i \in Ids |-> [a \in Addresses |-> FALSE]]
        /\ passed = [i \in Ids |-> NobodyYet]
        /\ currency = [a \in Addresses \union {Wallet} |-> IF a = Wallet THEN Funds ELSE 0]
    BY DEF WalletInit
  <1>2. SignersNow = Signers
    BY <1>1 DEF SignersNow, Addresses
  <1>3. IsFiniteSet(Signers) /\ Cardinality(Signers) \in Nat
    BY WalletAssumption, FS_CardinalityType
  <1>4. NobodyYet \in PassedSet /\ ~NobodyYet.accepted /\ ~NobodyYet.once
    BY DEF NobodyYet, PassedSet
  <1>5. DOMAIN proposal_details = {} /\ Len(proposal_details) = 0
        /\ \A S : proposal_details \in Seq(S) /\ <<>> \in Seq(S)
    BY <1>1
  <1>6. WalletTyped
    <2>1. sig \in [Addresses -> BOOLEAN] /\ votes \in [Ids -> [Addresses -> BOOLEAN]]
      <3>1. \A a \in Addresses : (a \in Signers) \in BOOLEAN
        OBVIOUS
      <3>2. sig \in [Addresses -> BOOLEAN]
        BY <1>1, <3>1, Zenon
      <3>3. [a \in Addresses |-> FALSE] \in [Addresses -> BOOLEAN]
        OBVIOUS
      <3>4. votes \in [Ids -> [Addresses -> BOOLEAN]]
        BY <1>1, <3>3
      <3> QED  BY <3>2, <3>4
    <2>2. currency \in [Addresses \cup {Wallet} -> Int]
      BY <1>1, WalletAssumption
    <2>3. passed \in [Ids -> PassedSet] /\ voters \in [Ids -> Seq(Addresses)]
      BY <1>1, <1>4, <1>5
    <2>4. /\ minimum_proposal_duration \in Int /\ required_approval_percentage \in Int
          /\ now \in Nat /\ recounted \in BOOLEAN /\ number_of_sig \in Int
      <3>1. recounted = FALSE
        BY <1>1, Zenon
      <3>2. recounted \in BOOLEAN
        BY <3>1, Zenon
      <3> QED  BY <1>1, <1>3, <3>2 DEF WalletInit
    <2> QED  BY <1>5, <2>1, <2>2, <2>3, <2>4, WalletAssumption DEF WalletTyped
  <1>7. Finished
    BY <1>1, <1>4 DEF Finished
  <1>8. Counted
    BY <1>1, <1>2 DEF Counted
  <1>9. Settled
    <2>1. Transferred = {}
      BY <1>5 DEF Transferred
    <2>2. Net(Proposed, {}) = 0
      BY NetZero
    <2>3. currency[Wallet] = Funds
      BY <1>1
    <2> QED  BY <2>1, <2>2, <2>3, WalletAssumption DEF Settled
  <1>10. ApprovedByShare
    BY <1>1, <1>4 DEF ApprovedByShare
  <1> QED  BY <1>6, <1>7, <1>8, <1>9, <1>10 DEF WalletIInv

\* A proposal is added, and changes nothing else.
LEMMA ProposeKeeps ==
  ASSUME WalletIInv, NEW caller \in Addresses, NEW type \in Kinds, NEW amount \in Int,
         NEW reciever \in Addresses \cup {Wallet}, NEW duration \in Int,
         type \in {"transfer", "add_signature", "remove_signature"} => reciever \in Addresses,
         propose(caller, type, amount, reciever, duration)
  PROVE  WalletIInv'
  <1> USE DEF WalletIInv
  <1>1. PICK p : p = [type |-> type, amount |-> amount, reciever |-> reciever, ends |-> now + duration]
    OBVIOUS
  <1>2. /\ p \in ProposalSet
        /\ p.type \in {"transfer", "add_signature", "remove_signature"} => p.reciever \in Addresses
    BY <1>1 DEF ProposalSet, WalletTyped
  <1>3. /\ proposal_details' = Append(proposal_details, p) /\ Len(proposal_details) < MaxProposals
        /\ UNCHANGED <<voters, votes, now, settingsOfWallet>>
    BY <1>1 DEF propose
  <1>4. PICK n \in Nat : n = Len(proposal_details) /\ DOMAIN proposal_details = 1 .. n
    BY ProposalsAreIds
  <1>5. /\ proposal_details' \in Seq(ProposalSet) /\ Len(proposal_details') = n + 1
        /\ DOMAIN proposal_details' = 1 .. n + 1
        /\ proposal_details'[n + 1] = p
        /\ \A i \in 1 .. n : proposal_details'[i] = proposal_details[i]
    <2>1. proposal_details \in Seq(ProposalSet)
      BY DEF WalletTyped
    <2>2. /\ proposal_details' \in Seq(ProposalSet) /\ Len(proposal_details') = n + 1
          /\ proposal_details'[n + 1] = p
          /\ \A i \in 1 .. n : proposal_details'[i] = proposal_details[i]
      BY <1>2, <1>3, <1>4, <2>1, AppendProperties
    <2> QED  BY <2>2, LenProperties
  <1>6. WalletTyped'
    BY <1>2, <1>3, <1>4, <1>5, WalletAssumption DEF WalletTyped, settingsOfWallet
  <1>7. n + 1 \in Ids /\ ~passed[n + 1].accepted
    BY <1>3, <1>4, WalletAssumption DEF Finished, Ids
  <1>8. Settled'
    <2>1. Transferred' = Transferred
      BY <1>3, <1>4, <1>5, <1>7 DEF Transferred, settingsOfWallet
    <2>2. PICK T : T = Transferred
      OBVIOUS
    <2>3. \A i \in T : Proposed'[i] = Proposed[i]
      BY <1>4, <1>5, <2>2 DEF Proposed, Transferred
    <2>4. Net(Proposed', T) = Net(Proposed, T)
      BY <2>3, NetEqual
    <2> QED  BY <1>3, <2>1, <2>2, <2>4 DEF Settled, settingsOfWallet
  <1>9. Finished' /\ Counted' /\ ApprovedByShare'
    BY <1>3, <1>4, <1>5 DEF Finished, Counted, ApprovedByShare, SignersNow, settingsOfWallet
  <1> QED  BY <1>6, <1>8, <1>9

\* Votes, what the cache loses of them, and the days.
LEMMA VotingKeeps ==
  ASSUME WalletIInv,
         \/ \E c \in Addresses, i \in Ids, result \in BOOLEAN : vote(c, i, result)
         \/ CacheDropped \/ NextDay \/ UNCHANGED walletVars
  PROVE  WalletIInv'
  <1> USE DEF WalletIInv
  <1>1. UNCHANGED <<proposal_details, settingsOfWallet>>
    BY DEF vote, CacheDropped, NextDay, walletVars, settingsOfWallet
  <1>2. voters' \in [Ids -> Seq(Addresses)]
    <2>1. ASSUME NEW c \in Addresses, NEW i \in Ids, voters' = [voters EXCEPT ![i] = Append(@, c)]
          PROVE  voters' \in [Ids -> Seq(Addresses)]
      <3>1. voters[i] \in Seq(Addresses)
        BY DEF WalletTyped
      <3>2. Append(voters[i], c) \in Seq(Addresses)
        BY <3>1, AppendProperties
      <3> QED  BY <2>1, <3>2 DEF WalletTyped
    <2>2. CASE CacheDropped
      <3>1. ASSUME NEW i \in Ids, voters[i] # <<>> PROVE <<voters[i][1]>> \in Seq(Addresses)
        <4>1. voters[i] \in Seq(Addresses)
          BY DEF WalletTyped
        <4>2. voters[i][1] \in Addresses
          BY <3>1, <4>1, EmptySeq, LenProperties, ElementOfSeq
        <4> QED  BY <4>2
      <3> QED  BY <2>2, <3>1 DEF CacheDropped, WalletTyped
    <2> QED  BY <2>1, <2>2 DEF vote, NextDay, walletVars, WalletTyped
  <1>3. votes' \in [Ids -> [Addresses -> BOOLEAN]]
    <2>1. ASSUME NEW c \in Addresses, NEW i \in Ids, NEW result \in BOOLEAN,
                 votes' = [votes EXCEPT ![i][c] = result]
          PROVE  votes' \in [Ids -> [Addresses -> BOOLEAN]]
      <3>1. votes[i] \in [Addresses -> BOOLEAN] /\ votes \in [Ids -> [Addresses -> BOOLEAN]]
        BY DEF WalletTyped
      <3>2. PICK row : row = [votes[i] EXCEPT ![c] = result]
        OBVIOUS
      <3>3. row \in [Addresses -> BOOLEAN]
        BY <3>1, <3>2
      <3>4. votes' = [votes EXCEPT ![i] = row]
        BY <2>1, <3>2
      <3> QED  BY <3>1, <3>3, <3>4
    <2>2. (\E c \in Addresses, i \in Ids, result \in BOOLEAN :
             votes' = [votes EXCEPT ![i][c] = result]) \/ votes' = votes
      BY DEF vote, CacheDropped, NextDay, walletVars
    <2> QED  BY <2>1, <2>2 DEF WalletTyped
  <1>4. now' \in Nat
    BY DEF vote, CacheDropped, NextDay, walletVars, WalletTyped
  <1>5. WalletTyped'
    BY <1>1, <1>2, <1>3, <1>4 DEF WalletTyped, settingsOfWallet
  <1>6. Finished' /\ Counted' /\ ApprovedByShare' /\ Settled'
    BY <1>1 DEF Finished, Counted, ApprovedByShare, Settled, SignersNow, Transferred, Proposed,
                settingsOfWallet
  <1> QED  BY <1>5, <1>6

\* Adding or removing a signer keeps the count right, unless it is done twice.
LEMMA CarryOutFacts ==
  ASSUME WalletIInv, NEW i \in DOMAIN proposal_details, CarryOut(proposal_details[i])
  PROVE  /\ sig' \in [Addresses -> BOOLEAN] /\ number_of_sig' \in Int
         /\ minimum_proposal_duration' \in Int /\ required_approval_percentage' \in Int
         /\ currency' \in [Addresses \cup {Wallet} -> Int] /\ recounted' \in BOOLEAN
         /\ ~recounted' => ~recounted /\ Counted'
         /\ currency'[Wallet] = currency[Wallet] -
              IF proposal_details[i].type = "transfer" THEN proposal_details[i].amount ELSE 0
  <1> USE DEF WalletIInv
  <1>1. PICK p \in ProposalSet : p = proposal_details[i]
    BY ProposalsAreIds
  <1>2. /\ p.amount \in Int /\ p.type \in Kinds
        /\ p.type \in {"transfer", "add_signature", "remove_signature"} => p.reciever \in Addresses
    BY <1>1 DEF WalletTyped, ProposalSet
  <1>3. CarryOut(p)
    BY <1>1
  <1>4. /\ sig \in [Addresses -> BOOLEAN] /\ number_of_sig \in Int
        /\ minimum_proposal_duration \in Int /\ required_approval_percentage \in Int
        /\ currency \in [Addresses \cup {Wallet} -> Int] /\ recounted \in BOOLEAN
    BY DEF WalletTyped
  <1>5. PICK before : before = SignersNow /\ IsFiniteSet(before)
    BY SignersFinite
  <1>6. Cardinality(before) \in Nat
    BY <1>5, FS_CardinalityType
  <1>7. CASE p.type = "transfer"
    <2>1. /\ currency' = Move(currency, Wallet, p.reciever, p.amount)
          /\ UNCHANGED <<sig, number_of_sig, minimum_proposal_duration,
                         required_approval_percentage, recounted>>
      BY <1>3, <1>7 DEF CarryOut, Transfer
    <2>2. p.reciever \in Addresses /\ p.reciever # Wallet
      BY <1>2, <1>7, WalletAssumption
    <2>3. /\ currency' \in [Addresses \cup {Wallet} -> Int]
          /\ currency'[Wallet] = currency[Wallet] - p.amount
      BY <1>2, <1>4, <2>1, <2>2 DEF Move
    <2>4. ~recounted' => ~recounted /\ Counted'
      BY <2>1 DEF Counted, SignersNow
    <2> QED  BY <1>1, <1>4, <1>7, <2>1, <2>3, <2>4
  <1>8. CASE p.type = "add_signature"
    <2>1. /\ sig' = [sig EXCEPT ![p.reciever] = TRUE] /\ number_of_sig' = number_of_sig + 1
          /\ recounted' = (recounted \/ sig[p.reciever])
          /\ UNCHANGED <<minimum_proposal_duration, required_approval_percentage, currency>>
      BY <1>3, <1>8 DEF CarryOut
    <2>2. p.reciever \in Addresses
      BY <1>2, <1>8
    <2>3. sig' \in [Addresses -> BOOLEAN] /\ recounted' \in BOOLEAN
      BY <1>4, <2>1, <2>2
    <2>4. SignersNow' = before \cup {p.reciever}
      BY <1>4, <1>5, <2>1, <2>2 DEF SignersNow
    <2>5. ~recounted' => ~recounted /\ p.reciever \notin before
      BY <1>4, <1>5, <2>1, <2>2 DEF SignersNow
    <2>6. ~recounted' => Cardinality(before \cup {p.reciever}) = Cardinality(before) + 1
      BY <1>5, <2>5, FS_AddElement
    <2>7. ~recounted' => ~recounted /\ Counted'
      BY <1>5, <1>6, <2>1, <2>4, <2>5, <2>6 DEF Counted
    <2>8. currency'[Wallet] = currency[Wallet] - 0
      BY <1>4, <2>1
    <2> QED  BY <1>1, <1>4, <1>8, <2>1, <2>3, <2>7, <2>8
  <1>9. CASE p.type = "remove_signature"
    <2>1. /\ sig' = [sig EXCEPT ![p.reciever] = FALSE] /\ number_of_sig' = number_of_sig - 1
          /\ recounted' = (recounted \/ ~sig[p.reciever])
          /\ UNCHANGED <<minimum_proposal_duration, required_approval_percentage, currency>>
      BY <1>3, <1>9 DEF CarryOut
    <2>2. p.reciever \in Addresses
      BY <1>2, <1>9
    <2>3. sig' \in [Addresses -> BOOLEAN] /\ recounted' \in BOOLEAN
      BY <1>4, <2>1, <2>2
    <2>4. SignersNow' = before \ {p.reciever}
      BY <1>4, <1>5, <2>1, <2>2 DEF SignersNow
    <2>5. ~recounted' => ~recounted /\ p.reciever \in before
      BY <1>4, <1>5, <2>1, <2>2 DEF SignersNow
    <2>6. ~recounted' => Cardinality(before \ {p.reciever}) = Cardinality(before) - 1
      BY <1>5, <2>5, FS_RemoveElement
    <2>7. ~recounted' => ~recounted /\ Counted'
      BY <1>5, <1>6, <2>1, <2>4, <2>5, <2>6 DEF Counted
    <2>8. currency'[Wallet] = currency[Wallet] - 0
      BY <1>4, <2>1
    <2> QED  BY <1>1, <1>4, <1>9, <2>1, <2>3, <2>7, <2>8
  <1>10. CASE p.type \in {"change_approval_percentage", "change_minimum_duration"}
    <2>1. /\ UNCHANGED <<sig, number_of_sig, currency, recounted>>
          /\ required_approval_percentage' \in {p.amount, required_approval_percentage}
          /\ minimum_proposal_duration' \in {p.amount, minimum_proposal_duration}
      BY <1>3, <1>10 DEF CarryOut
    <2>2. ~recounted' => ~recounted /\ Counted'
      BY <2>1 DEF Counted, SignersNow
    <2>3. currency'[Wallet] = currency[Wallet] - 0
      BY <1>4, <2>1
    <2> QED  BY <1>1, <1>2, <1>4, <1>10, <2>1, <2>2, <2>3
  <1> QED  BY <1>2, <1>7, <1>8, <1>9, <1>10 DEF Kinds

\* Who approved is as many as the entries for it, when nobody voted twice.
LEMMA ApproversCounted ==
  ASSUME WalletTyped, NEW i \in Ids,
         \A m, n \in DOMAIN voters[i] : voters[i][m] = voters[i][n] => m = n
  PROVE  /\ approvals(i) = Cardinality({a \in Range(voters[i]) : votes[i][a]})
         /\ approvals(i) \in Nat
  <1>1. PICK list \in Seq(Addresses) : list = voters[i]
    BY DEF WalletTyped
  <1>2. PICK for : for = votes[i]
    OBVIOUS
  <1> DEFINE entries == {n \in DOMAIN list : for[list[n]]}
             people == {a \in Range(list) : for[a]}
             at == [n \in entries |-> list[n]]
  <1>3. at \in Surjection(entries, people)
    BY DEF Surjection, Range
  <1>4. at \in Injection(entries, people)
    BY <1>1, <1>3 DEF Injection, Surjection, IsInjective
  <1>5. IsFiniteSet(entries)
    <2>1. DOMAIN list = 1 .. Len(list) /\ Len(list) \in Nat
      BY LenProperties
    <2>2. IsFiniteSet(1 .. Len(list))
      BY <2>1, FS_Interval
    <2> QED  BY <2>1, <2>2, FS_Subset
  <1>6. Cardinality(people) = Cardinality(entries) /\ Cardinality(entries) \in Nat
    <2> HIDE DEF entries, people, at
    <2> QED  BY <1>3, <1>4, <1>5, FS_Surjection, FS_CardinalityType
  <1> QED  BY <1>1, <1>2, <1>6 DEF approvals

\* Determining a proposal pays once what passed, and notes who approved it.
LEMMA DetermineKeeps ==
  ASSUME WalletIInv, NEW i \in Ids, determine_results(i)
  PROVE  WalletIInv'
  <1> USE DEF WalletIInv
  <1>1. /\ i \in DOMAIN proposal_details /\ i \notin finished_proposals
        /\ finished_proposals' = finished_proposals \union {i}
        /\ UNCHANGED <<proposal_details, voters, votes, now>>
    BY DEF determine_results
  <1>2. ~passed[i].accepted
    BY <1>1 DEF Finished
  <1>3. CASE ~Accepted(i)
    <2>1. UNCHANGED <<sig, number_of_sig, minimum_proposal_duration,
                      required_approval_percentage, currency, passed, recounted>>
      BY <1>3 DEF determine_results
    <2>2. WalletTyped'
      BY <1>1, <2>1 DEF WalletTyped
    <2> QED  BY <1>1, <2>1, <2>2 DEF Finished, Counted, ApprovedByShare, Settled, SignersNow,
                                     Transferred, Proposed
  <1>4. CASE Accepted(i)
    <2> DEFINE who == {a \in Range(voters[i]) : votes[i][a]}
               single == \A m, n \in DOMAIN voters[i] : voters[i][m] = voters[i][n] => m = n
    <2>1. PICK q : q = [accepted |-> TRUE, approvers |-> who, signers |-> SignersNow,
                        once |-> single, share |-> required_approval_percentage]
      OBVIOUS
    <2>2. CarryOut(proposal_details[i]) /\ passed' = [passed EXCEPT ![i] = q]
      BY <1>4, <2>1 DEF determine_results
    <2>3. /\ sig' \in [Addresses -> BOOLEAN] /\ number_of_sig' \in Int
          /\ minimum_proposal_duration' \in Int /\ required_approval_percentage' \in Int
          /\ currency' \in [Addresses \cup {Wallet} -> Int] /\ recounted' \in BOOLEAN
          /\ ~recounted' => ~recounted /\ Counted'
          /\ currency'[Wallet] = currency[Wallet] -
               IF proposal_details[i].type = "transfer" THEN proposal_details[i].amount ELSE 0
      BY <1>1, <2>2, CarryOutFacts
    <2>4. q \in PassedSet
      <3>1. voters[i] \in Seq(Addresses) /\ required_approval_percentage \in Int
        BY DEF WalletTyped
      <3>2. who \in SUBSET Addresses
        <4>1. PICK list \in Seq(Addresses) : list = voters[i]
          BY <3>1
        <4>2. \A n \in DOMAIN list : list[n] \in Addresses
          BY LenProperties, ElementOfSeq
        <4> QED  BY <4>1, <4>2 DEF Range
      <3>3. single \in BOOLEAN /\ TRUE \in BOOLEAN
        BY Zenon
      <3> HIDE DEF who, single
      <3> QED  BY <2>1, <3>1, <3>2, <3>3, SignersFinite DEF PassedSet
    <2>5. q.accepted /\ (q.once => single)
      <3> HIDE DEF who, single
      <3> QED  BY <2>1
    <2>6. q.approvers = who /\ q.signers = SignersNow /\ q.share = required_approval_percentage
      <3> HIDE DEF who, single
      <3> QED  BY <2>1
    <2>7. passed' \in [Ids -> PassedSet] /\ passed'[i] = q
          /\ \A j \in Ids \ {i} : passed'[j] = passed[j]
      BY <2>2, <2>4 DEF WalletTyped
    <2>8. WalletTyped'
      BY <1>1, <2>3, <2>7 DEF WalletTyped
    <2>9. Finished'
      BY <1>1, <2>7 DEF Finished
    <2>10. Counted'
      BY <2>3 DEF Counted
    <2>11. Settled'
      <3>1. PICK T : T = Transferred
        OBVIOUS
      <3>2. PICK f : f = Proposed /\ f \in [DOMAIN proposal_details -> Int]
        BY ProposalsAreIds
      <3>3. /\ f[i] = proposal_details[i].amount /\ i \notin T /\ T \subseteq DOMAIN proposal_details
            /\ currency[Wallet] = Funds - Net(f, T)
        BY <1>1, <1>2, <3>1, <3>2 DEF Proposed, Transferred, Settled
      <3>4. Proposed' = f
        BY <1>1, <3>2 DEF Proposed
      <3>5. Net(f, T) \in Int /\ f[i] \in Int
        BY <1>1, <3>2, <3>3, ProposalsAreIds, NetInt
      <3>6. CASE proposal_details[i].type = "transfer"
        <4>1. Transferred' = T \cup {i}
          BY <1>1, <2>5, <2>7, <3>1, <3>6, ProposalsAreIds DEF Transferred
        <4>2. PICK U \in SUBSET DOMAIN proposal_details : U = T \cup {i}
          BY <1>1, <3>3
        <4>3. Net(f, U) = f[i] + Net(f, U \ {i})
          BY <1>1, <3>2, <4>2, ProposalsAreIds, NetExtend
        <4>4. U \ {i} = T
          BY <3>3, <4>2
        <4>5. Transferred' = U
          BY <4>1, <4>2
        <4>6. Net(f, U) = f[i] + Net(f, T)
          BY <4>3, <4>4
        <4>7. currency'[Wallet] = currency[Wallet] - f[i]
          BY <2>3, <3>3, <3>6
        <4>8. PICK total \in Int : total = Net(f, T)
          BY <3>5
        <4>9. Funds \in Int
          BY WalletAssumption
        <4>10. currency'[Wallet] = Funds - Net(f, U)
          BY <3>3, <3>5, <4>6, <4>7, <4>8, <4>9
        <4> QED  BY <3>4, <4>5, <4>10, Zenon DEF Settled
      <3>7. CASE proposal_details[i].type # "transfer"
        <4>1. Transferred' = T
          BY <1>1, <2>7, <3>1, <3>7, ProposalsAreIds DEF Transferred
        <4> QED  BY <2>3, <3>3, <3>4, <3>5, <3>7, <4>1, WalletAssumption DEF Settled
      <3> QED  BY <3>6, <3>7
    <2>12. ApprovedByShare'
      <3> SUFFICES ASSUME NEW j \in Ids, passed'[j].once, ~recounted'
                   PROVE  Cardinality(passed'[j].approvers) * 100
                            >= passed'[j].share * Cardinality(passed'[j].signers)
        BY DEF ApprovedByShare
      <3>1. CASE j # i
        BY <2>3, <2>7, <3>1 DEF ApprovedByShare
      <3>2. CASE j = i
        <4>1. single
          BY <2>5, <2>7, <3>2
        <4>2. approvals(i) = Cardinality(who)
          BY <4>1, ApproversCounted
        <4>3. number_of_sig = Cardinality(SignersNow)
          BY <2>3 DEF Counted
        <4>4. approvals(i) * 100 >= required_approval_percentage * number_of_sig
          BY <1>4 DEF Accepted
        <4> HIDE DEF who, single
        <4> QED  BY <2>6, <2>7, <3>2, <4>2, <4>3, <4>4
      <3> QED  BY <3>1, <3>2
    <2> QED  BY <2>8, <2>9, <2>10, <2>11, <2>12
  <1> QED  BY <1>3, <1>4

\* Every call of the wallet keeps its invariant.
LEMMA WalletKeeps == WalletIInv /\ [WalletNext]_walletVars => WalletIInv'
  <1> SUFFICES ASSUME WalletIInv, [WalletNext]_walletVars PROVE WalletIInv'
    OBVIOUS
  <1>1. ASSUME NEW c \in Addresses, NEW d \in Durations,
               \/ \E n \in Transfers, to \in Outsiders : create_transfer_proposal(c, n, to, d)
               \/ \E a \in Addresses : create_signature_proposal(c, a, d)
                                       \/ remove_signature_proposal(c, a, d)
               \/ \E n \in Percentages : change_approval_percentage(c, n, d)
               \/ \E n \in Durations \ {0} : change_minimum_duration(c, n, d)
        PROVE  WalletIInv'
    <2>1. \A n \in Transfers \cup Percentages \cup Durations \cup {0} : n \in Int
      BY WalletAssumption
    <2>2. Outsiders \subseteq Addresses
      BY DEF Addresses
    <2>3. \E type \in Kinds, n \in Int, to \in Addresses \cup {Wallet} :
             /\ propose(c, type, n, to, d)
             /\ type \in {"transfer", "add_signature", "remove_signature"} => to \in Addresses
      BY <1>1, <2>1, <2>2
         DEF create_transfer_proposal, create_signature_proposal, remove_signature_proposal,
             change_approval_percentage, change_minimum_duration, Kinds
    <2> QED  BY <2>1, <2>3, ProposeKeeps
  <1>2. CASE \/ \E c \in Addresses, i \in Ids, result \in BOOLEAN : vote(c, i, result)
             \/ CacheDropped \/ NextDay \/ UNCHANGED walletVars
    BY <1>2, VotingKeeps
  <1>3. ASSUME NEW i \in Ids, determine_results(i) PROVE WalletIInv'
    BY <1>3, DetermineKeeps
  <1> QED  BY <1>1, <1>2, <1>3 DEF WalletNext

\* What the wallet of several signers has paid is what its proposals have moved:
\* each transfer that passed once, and no other.
THEOREM TransfersArePaidOnce == WalletSpec => []PaidOrOpen
  <1>1. WalletIInv => PaidOrOpen
    <2> SUFFICES ASSUME WalletIInv PROVE PaidOrOpen
      OBVIOUS
    <2> DEFINE amount(i) == proposal_details[i].amount
               Adds(iter) == iter = [s \in SUBSET Transferred |->
                               IF s = {} THEN 0
                               ELSE amount(CHOOSE x \in s : TRUE)
                                      + iter[s \ {CHOOSE x \in s : TRUE}]]
               sum == CHOOSE iter : Adds(iter)
    <2>1. PICK T : T = Transferred
      OBVIOUS
    <2>2. T \subseteq DOMAIN proposal_details /\ IsFiniteSet(T)
      BY <2>1, ProposalsAreIds, FS_Subset DEF Transferred, WalletIInv
    <2>3. PICK f : f = [i \in T |-> amount(i)]
      OBVIOUS
    <2>4. f \in [T -> Int] /\ \A x \in T : f[x] = Proposed[x] /\ f[x] = amount(x)
      BY <2>2, <2>3, ProposalsAreIds DEF Proposed, WalletIInv
    <2>5. ASSUME NEW iter PROVE Adds(iter) <=> IsSetSum(iter, f, T)
      <3>1. \A s \in SUBSET T : s # {} => amount(CHOOSE x \in s : TRUE) = f[CHOOSE x \in s : TRUE]
        BY <2>4
      <3> HIDE DEF amount
      <3> QED  BY <2>1, <3>1 DEF IsSetSum
    <2>6. Adds(sum)
      <3>1. \E iter : IsSetSum(iter, f, T)
        BY <2>2, <2>4, NetSolves
      <3> HIDE DEF Adds
      <3> QED  BY <2>5, <3>1
    <2>7. sum[T] = Net(f, T)
      BY ZenonT(60), <2>2, <2>4, <2>5, <2>6, SetSumIsNet
    <2>8. Net(f, T) = Net(Proposed, T)
      BY <2>4, NetEqual
    <2>9. MapThenSumSet(LAMBDA i : proposal_details[i].amount, Transferred) = sum[Transferred]
      BY DEF MapThenSumSet, MapThenFoldSet
    <2>10. currency[Wallet] = Funds - Net(Proposed, T)
      BY <2>1 DEF WalletIInv, Settled
    <2>11. currency[Wallet] =
             Funds - MapThenSumSet(LAMBDA i : proposal_details[i].amount, Transferred)
      <3> HIDE DEF sum
      <3> QED  BY <2>1, <2>7, <2>8, <2>9, <2>10
    <2> QED  BY <2>11 DEF PaidOrOpen, Transferred
  <1> QED  BY <1>1, InitWallet, WalletKeeps, PTL DEF WalletSpec

\* What passed had the share of the signers that was required then, unless
\* somebody voted twice or the count of the signers was off.
THEOREM SharesAreReal == WalletSpec => []ApprovedByShare
  <1>1. WalletIInv => ApprovedByShare
    BY DEF WalletIInv
  <1> QED  BY <1>1, InitWallet, WalletKeeps, PTL DEF WalletSpec

-----------------------------------------------------------------------------
(* The first AMM: its arithmetic *)

\* One step of the loop of sqrt.
NextRoot(k, z) == (k \div z + z) \div 2

IsRoot(root, k, n) ==
  root = [z \in 1 .. n |->
            IF NextRoot(k, z) < z /\ NextRoot(k, z) > 0 THEN root[NextRoot(k, z)] ELSE z]

\* A step of the loop of sqrt gives an integer.
LEMMA NextRootInt ==
  ASSUME NEW k \in Nat, NEW z \in Nat, z > 0
  PROVE  NextRoot(k, z) \in Int
  <1>1. k \div z \in Int
    OBVIOUS
  <1> QED  BY <1>1 DEF NextRoot

\* The loop goes on with smaller numbers only, so it ends.
LEMMA RootExists ==
  ASSUME NEW k \in Nat, NEW n \in Nat
  PROVE  \E root : IsRoot(root, k, n)
  <1> DEFINE T == {m \in Nat : \E root : IsRoot(root, k, m)}
  <1>1. 0 \in T
    <2>1. IsRoot([z \in 1 .. 0 |-> z], k, 0)
      BY DEF IsRoot
    <2> QED  BY <2>1
  <1>2. ASSUME NEW m \in T PROVE m + 1 \in T
    <2>1. PICK root : IsRoot(root, k, m)
      BY <1>2
    <2> DEFINE last == IF NextRoot(k, m + 1) < m + 1 /\ NextRoot(k, m + 1) > 0
                         THEN root[NextRoot(k, m + 1)] ELSE m + 1
               longer == [z \in 1 .. m + 1 |-> IF z = m + 1 THEN last ELSE root[z]]
    <2>2. \A z \in 1 .. m + 1 : NextRoot(k, z) \in Int
      BY NextRootInt
    <2>3. ASSUME NEW z \in 1 .. m + 1
          PROVE  longer[z] = IF NextRoot(k, z) < z /\ NextRoot(k, z) > 0
                               THEN longer[NextRoot(k, z)] ELSE z
      <3>1. NextRoot(k, z) \in Int
        BY <2>2
      <3>2. CASE z = m + 1
        BY <3>1, <3>2
      <3>3. CASE z # m + 1
        <4>1. root[z] = IF NextRoot(k, z) < z /\ NextRoot(k, z) > 0
                          THEN root[NextRoot(k, z)] ELSE z
          <5>1. z \in 1 .. m
            BY <3>3
          <5> QED  BY <2>1, <5>1 DEF IsRoot
        <4> QED  BY <3>1, <3>3, <4>1
      <3> QED  BY <3>2, <3>3
    <2>4. IsRoot(longer, k, m + 1)
      BY <2>3 DEF IsRoot
    <2> QED  BY <2>4
  <1> HIDE DEF T
  <1>3. T = Nat
    BY <1>1, <1>2, NatSetInduction DEF T
  <1> QED  BY <1>3 DEF T

\* The loop started at a positive number ends at one.
LEMMA RootRange ==
  ASSUME NEW k \in Nat, NEW n \in Nat, NEW root, IsRoot(root, k, n)
  PROVE  \A z \in 1 .. n : root[z] \in Nat /\ root[z] > 0
  <1> DEFINE T == {m \in Nat : \A z \in 1 .. n : z <= m => root[z] \in Nat /\ root[z] > 0}
  <1>1. 0 \in T
    OBVIOUS
  <1>2. ASSUME NEW m \in T PROVE m + 1 \in T
    <2>1. ASSUME NEW z \in 1 .. n, z <= m + 1 PROVE root[z] \in Nat /\ root[z] > 0
      <3>1. NextRoot(k, z) \in Int
        BY NextRootInt
      <3>2. root[z] = IF NextRoot(k, z) < z /\ NextRoot(k, z) > 0
                        THEN root[NextRoot(k, z)] ELSE z
        BY DEF IsRoot
      <3>3. CASE NextRoot(k, z) < z /\ NextRoot(k, z) > 0
        <4>1. NextRoot(k, z) \in 1 .. n /\ NextRoot(k, z) <= m
          BY <2>1, <3>1, <3>3
        <4> QED  BY <3>2, <3>3, <4>1
      <3> QED  BY <3>2, <3>3
    <2> QED  BY <2>1
  <1> HIDE DEF T
  <1>3. T = Nat
    BY <1>1, <1>2, NatSetInduction DEF T
  <1>4. n \in T
    BY <1>3
  <1> QED  BY <1>4 DEF T

\* sqrt answers a positive number.
LEMMA SqrtPositive ==
  ASSUME NEW k \in Nat
  PROVE  sqrt(k) \in Nat /\ sqrt(k) > 0
  <1>1. One \in Nat /\ One > 0
    BY AmmAssumption
  <1>2. CASE k > 3 * One * One
    <2> DEFINE z0 == (k \div One) \div 2 + One
    <2>1. z0 \in Nat /\ z0 > 0
      <3>1. \A a, b \in Nat : b > 0 => a \div b \in Nat
        OBVIOUS
      <3>2. (k \div One) \div 2 \in Nat
        BY <1>1, <3>1
      <3> QED  BY <1>1, <3>2
    <2> HIDE DEF z0
    <2> DEFINE root == CHOOSE r : IsRoot(r, k, z0)
    <2>2. IsRoot(root, k, z0)
      BY <2>1, RootExists
    <2>3. Babylon(k, z0) = root[z0]
      BY DEF Babylon, IsRoot, NextRoot
    <2> HIDE DEF root
    <2>4. root[z0] \in Nat /\ root[z0] > 0
      BY <2>1, <2>2, RootRange
    <2> QED  BY <1>2, <2>3, <2>4 DEF sqrt, z0
  <1>3. CASE ~(k > 3 * One * One)
    BY <1>1, <1>3 DEF sqrt
  <1> QED  BY <1>2, <1>3

\* A quotient that is cut off is at most the exact one.
LEMMA CutOff ==
  ASSUME NEW a \in Nat, NEW b \in Nat, b > 0
  PROVE  a \div b \in Nat /\ (a \div b) * b <= a
  OBVIOUS

\* The fee is a natural number, and within the growth it is a share of.
LEMMA FeeFacts ==
  ASSUME DexTypeOK, NEW p \in Pairs
  PROVE  /\ Fee(p) \in Nat
         /\ Fee(p) > 0 =>
              LET rootK == sqrt(reserves[p][1] * reserves[p][2]) IN
                6 * rootK * Fee(p) <= (supply[p] + Fee(p)) * (rootK - sqrt(kLast[p]))
  <1>1. /\ reserves[p][1] \in Nat /\ reserves[p][2] \in Nat
        /\ supply[p] \in Nat /\ kLast[p] \in Nat
    BY DEF DexTypeOK
  <1>2. PICK K, L : K = sqrt(reserves[p][1] * reserves[p][2]) /\ L = sqrt(kLast[p])
    OBVIOUS
  <1>3. K \in Nat /\ L \in Nat
    <2>1. \A a, b \in Nat : a * b \in Nat
      OBVIOUS
    <2>2. reserves[p][1] * reserves[p][2] \in Nat
      BY <1>1, <2>1
    <2> QED  BY <1>1, <1>2, <2>2, SqrtPositive
  <1>4. CASE feeTo # Zero /\ kLast[p] # 0 /\ K > L
    <2>1. PICK s, d, q : s = supply[p] /\ d = K - L /\ q = K * 5 + L
      OBVIOUS
    <2>2. s \in Nat /\ d \in Nat /\ q \in Nat /\ q > 0
      BY <1>1, <1>3, <1>4, <2>1
    <2>3. \A a, b \in Nat : a * b \in Nat
      OBVIOUS
    <2>4. PICK m : m = s * d
      OBVIOUS
    <2>5. m \in Nat
      BY <2>2, <2>3, <2>4
    <2>6. PICK f : f = m \div q
      OBVIOUS
    <2>7. f \in Nat /\ f * q <= m
      BY <2>2, <2>5, <2>6, CutOff
    <2>8. Fee(p) = f
      BY <1>2, <1>4, <2>1, <2>4, <2>6 DEF Fee, Denominator
    <2>9. 6 * K * f <= (s + f) * d
      <3>1. 6 * K * f = f * q + f * d
        <4>1. \A a, b, c \in Int : c * (a * 5 + b) + c * (a - b) = 6 * a * c
          OBVIOUS
        <4> QED  BY <1>3, <2>1, <2>7, <4>1
      <3>2. (s + f) * d = m + f * d
        <4>1. \A a, b, c \in Int : (a + b) * c = a * c + b * c
          OBVIOUS
        <4> QED  BY <2>2, <2>4, <2>7, <4>1
      <3>3. f * q \in Int /\ f * d \in Int
        BY <2>2, <2>3, <2>7
      <3> QED  BY <2>5, <2>7, <3>1, <3>2, <3>3
    <2> QED  BY <1>2, <2>1, <2>7, <2>8, <2>9
  <1>5. CASE ~(feeTo # Zero /\ kLast[p] # 0 /\ K > L)
    <2>1. Fee(p) = 0
      BY <1>2, <1>5 DEF Fee
    <2> QED  BY <2>1
  <1> QED  BY <1>4, <1>5

-----------------------------------------------------------------------------
(* The first AMM: its inductive invariant *)

\* The AMM knows finitely many accounts.
LEMMA PairAccountsFinite == IsFiniteSet(PairAccounts)
  <1>1. IsFiniteSet({This, Zero, FeeTaker})
    <2>1. IsFiniteSet({This}) /\ IsFiniteSet({Zero}) /\ IsFiniteSet({FeeTaker})
      BY FS_Singleton
    <2>2. IsFiniteSet({This} \cup {Zero})
      BY <2>1, FS_Union
    <2>3. IsFiniteSet(({This} \cup {Zero}) \cup {FeeTaker})
      BY <2>1, <2>2, FS_Union
    <2>4. {This, Zero, FeeTaker} = ({This} \cup {Zero}) \cup {FeeTaker}
      OBVIOUS
    <2> QED  BY <2>3, <2>4
  <1> QED  BY <1>1, AmmAssumption, FS_Union DEF PairAccounts

\* A market is of two different assets.
LEMMA TwoAssets ==
  ASSUME NEW p \in Pairs
  PROVE  p[1] \in Assets /\ p[2] \in Assets /\ p[1] # p[2]
  BY AmmAssumption

\* A payment of what is there.
LEMMA PaidFacts ==
  ASSUME NEW h \in [Assets -> [PairAccounts -> Nat]], NEW x \in Assets,
         NEW from \in PairAccounts, NEW to \in PairAccounts, from # to,
         NEW amount \in Nat, h[x][from] >= amount
  PROVE  /\ Paid(h, x, from, to, amount) \in [Assets -> [PairAccounts -> Nat]]
         /\ Paid(h, x, from, to, amount)[x][from] = h[x][from] - amount
         /\ Paid(h, x, from, to, amount)[x][to] = h[x][to] + amount
         /\ \A y \in Assets : y # x => Paid(h, x, from, to, amount)[y] = h[y]
  <1>1. h[x] \in [PairAccounts -> Nat] /\ h[x][from] - amount \in Nat /\ h[x][to] + amount \in Nat
    OBVIOUS
  <1>2. PICK g : g = [h[x] EXCEPT ![from] = h[x][from] - amount, ![to] = h[x][to] + amount]
    OBVIOUS
  <1>3. /\ g \in [PairAccounts -> Nat]
        /\ g[from] = h[x][from] - amount /\ g[to] = h[x][to] + amount
    BY <1>1, <1>2
  <1>4. Paid(h, x, from, to, amount) = [h EXCEPT ![x] = g]
    BY <1>2 DEF Paid
  <1> QED  BY <1>3, <1>4

ReservePairs == [Pairs -> Nat \X Nat]

\* What the markets that trade x count as their reserve of it.
Row(v, x) == [p \in Pairs |-> IF p[1] = x THEN v[p][1] ELSE IF p[2] = x THEN v[p][2] ELSE 0]

Covers(h, c, v) ==
  \A x \in Assets :
    /\ Total(Row(v, x)) <= IF c[x] = -1 THEN 0 ELSE c[x]
    /\ c[x] <= h[x][This]

\* The property in terms of the operator the lemmas are about.
LEMMA CoversDef == ReservesCovered <=> Covers(held, recorded, reserves)
  BY DEF ReservesCovered, Covers, Row, ReserveOf

\* A row of reserves has a total.
LEMMA RowType ==
  ASSUME NEW v \in ReservePairs, NEW x
  PROVE  Row(v, x) \in [Pairs -> Nat] /\ Total(Row(v, x)) \in Nat
  <1>1. \A p \in Pairs : v[p][1] \in Nat /\ v[p][2] \in Nat
    BY DEF ReservePairs
  <1>2. Row(v, x) \in [Pairs -> Nat]
    BY <1>1 DEF Row
  <1> QED  BY <1>2, AmmAssumption, TotalBounds

\* A market that was not created has no reserves; of one that was, the balances
\* of both tokens were recorded.
Created ==
  \A p \in Pairs :
    IF p \in created THEN recorded[p[1]] # -1 /\ recorded[p[2]] # -1
    ELSE reserves[p] = <<0, 0>>

DexIInv == DexTypeOK /\ Created /\ ReservesCovered /\ SupplyIsHeld

\* A market's reserve of an asset is within what was recorded, and that is there.
LEMMA ReserveIsThere ==
  ASSUME DexIInv, NEW p \in Pairs, p \in created, NEW i \in {1, 2}
  PROVE  /\ reserves[p][i] \in Nat /\ recorded[p[i]] \in Nat /\ held[p[i]][This] \in Nat
         /\ reserves[p][i] <= recorded[p[i]] /\ recorded[p[i]] <= held[p[i]][This]
  <1> USE DEF DexIInv
  <1>1. PICK x \in Assets : x = p[i]
    BY TwoAssets
  <1>2. reserves[p][i] \in Nat /\ recorded[x] \in Nat
    BY <1>1 DEF DexTypeOK, Created
  <1>3. held[x][This] \in Nat
    <2>1. This \in PairAccounts
      BY DEF PairAccounts
    <2> QED  BY <2>1 DEF DexTypeOK
  <1>4. Row(reserves, x)[p] = reserves[p][i]
    BY <1>1, TwoAssets DEF Row
  <1>5. Row(reserves, x) \in [Pairs -> Nat] /\ Total(Row(reserves, x)) \in Nat
    BY RowType DEF DexTypeOK, ReservePairs
  <1>6. Row(reserves, x)[p] <= Total(Row(reserves, x))
    BY <1>5, AmmAssumption, TotalBounds
  <1>7. Total(Row(reserves, x)) <= recorded[x] /\ recorded[x] <= held[x][This]
    BY <1>2, CoversDef DEF Covers
  <1> QED  BY <1>1, <1>2, <1>3, <1>4, <1>5, <1>6, <1>7

\* TotalUpdate for a ledger with an entry for each market.
LEMMA PairsUpdate ==
  ASSUME NEW p \in Pairs, NEW before \in [Pairs -> Nat], NEW after \in [Pairs -> Nat],
         \A q \in Pairs \ {p} : after[q] = before[q]
  PROVE  Total(after) = Total(before) - before[p] + after[p]
  <1>1. IsFiniteSet(Pairs)
    BY AmmAssumption
  <1> QED  BY <1>1, TotalUpdate

\* What one market counts moves the total by the difference.
LEMMA RowUpdate ==
  ASSUME NEW p \in Pairs, NEW v \in ReservePairs, NEW w \in ReservePairs,
         \A q \in Pairs : q # p => w[q] = v[q], NEW x
  PROVE  Total(Row(w, x)) = Total(Row(v, x)) - Row(v, x)[p] + Row(w, x)[p]
  <1>1. PICK before, after : before = Row(v, x) /\ after = Row(w, x)
    OBVIOUS
  <1>2. before \in [Pairs -> Nat] /\ after \in [Pairs -> Nat]
    BY <1>1, RowType
  <1>3. \A q \in Pairs \ {p} : after[q] = before[q]
    BY <1>1 DEF Row
  <1>4. Total(after) = Total(before) - before[p] + after[p]
    BY <1>2, <1>3, PairsUpdate
  <1> QED  BY <1>1, <1>4

\* An operation on a market that counts what it found beyond the recorded
\* balances in that market's reserves, and records the balances: v, h and c are
\* the reserves, what is held and what is recorded before it, w, g and d after.
Claims(p, v, w, h, g, c, d) ==
  /\ v \in ReservePairs /\ w \in ReservePairs
  /\ h \in [Assets -> [PairAccounts -> Nat]] /\ g \in [Assets -> [PairAccounts -> Nat]]
  /\ c \in [Assets -> Nat \cup {-1}] /\ d \in [Assets -> Nat \cup {-1}]
  /\ c[p[1]] \in Nat /\ c[p[2]] \in Nat
  /\ \A x \in Assets : d[x] = IF x \in {p[1], p[2]} THEN g[x][This] ELSE c[x]
  /\ \A x \in Assets : x \notin {p[1], p[2]} => g[x] = h[x]
  /\ \A q \in Pairs : q # p => w[q] = v[q]
  /\ \A i \in {1, 2} : w[p][i] = v[p][i] + g[p[i]][This] - c[p[i]]

\* A market's claim leaves the reserves covered.
LEMMA ClaimKeeps ==
  ASSUME NEW p \in Pairs, NEW v, NEW w, NEW h, NEW g, NEW c, NEW d,
         Claims(p, v, w, h, g, c, d), Covers(h, c, v)
  PROVE  Covers(g, d, w)
  <1>0. This \in PairAccounts
    BY DEF PairAccounts
  <1>a. /\ v \in ReservePairs /\ w \in ReservePairs
        /\ h \in [Assets -> [PairAccounts -> Nat]] /\ g \in [Assets -> [PairAccounts -> Nat]]
        /\ c \in [Assets -> Nat \cup {-1}]
    BY DEF Claims
  <1> SUFFICES ASSUME NEW x \in Assets
               PROVE  /\ Total(Row(w, x)) <= IF d[x] = -1 THEN 0 ELSE d[x]
                      /\ d[x] <= g[x][This]
    BY DEF Covers
  <1>1. /\ Row(v, x) \in [Pairs -> Nat] /\ Total(Row(v, x)) \in Nat
        /\ Row(w, x) \in [Pairs -> Nat] /\ Total(Row(w, x)) \in Nat
    BY <1>a, RowType
  <1>3. Total(Row(w, x)) = Total(Row(v, x)) - Row(v, x)[p] + Row(w, x)[p]
    <2>1. \A q \in Pairs : q # p => w[q] = v[q]
      BY DEF Claims
    <2> QED  BY <1>a, <2>1, RowUpdate
  <1>4. /\ Total(Row(v, x)) <= IF c[x] = -1 THEN 0 ELSE c[x]
        /\ c[x] <= h[x][This]
    BY DEF Covers
  <1>5. ASSUME NEW i \in {1, 2}, x = p[i]
        PROVE  /\ Total(Row(w, x)) <= IF d[x] = -1 THEN 0 ELSE d[x]
               /\ d[x] <= g[x][This]
    <2>1. Row(w, x)[p] = w[p][i] /\ Row(v, x)[p] = v[p][i]
      BY <1>5, TwoAssets DEF Row
    <2>2. w[p][i] = v[p][i] + g[x][This] - c[x] /\ c[x] \in Nat /\ d[x] = g[x][This]
      BY <1>5 DEF Claims
    <2>3. g[x][This] \in Nat /\ v[p][i] \in Nat /\ w[p][i] \in Nat
      BY <1>0, <1>a DEF ReservePairs
    <2>4. Total(Row(w, x)) = Total(Row(v, x)) + g[x][This] - c[x]
      BY <1>1, <1>3, <2>1, <2>2, <2>3
    <2> QED  BY <1>1, <1>4, <2>2, <2>3, <2>4
  <1>6. CASE x \notin {p[1], p[2]}
    <2>1. Row(w, x)[p] = 0 /\ Row(v, x)[p] = 0
      BY <1>6 DEF Row
    <2>2. d[x] = c[x] /\ g[x][This] = h[x][This] /\ c[x] \in Int
      BY <1>6, <1>a DEF Claims
    <2> QED  BY <1>1, <1>3, <1>4, <2>1, <2>2
  <1> QED  BY <1>5, <1>6

\* Minting adds to the total.
LEMMA MintedFacts ==
  ASSUME NEW b \in [PairAccounts -> Nat], NEW to \in PairAccounts, NEW n \in Nat
  PROVE  /\ Minted(b, to, n) \in [PairAccounts -> Nat]
         /\ Total(Minted(b, to, n)) = Total(b) + n
         /\ Minted(b, to, n)[to] = b[to] + n
         /\ \A a \in PairAccounts : a # to => Minted(b, to, n)[a] = b[a]
  <1>1. PICK g : g = Minted(b, to, n)
    OBVIOUS
  <1>2. /\ g \in [PairAccounts -> Nat] /\ g[to] = b[to] + n
        /\ \A a \in PairAccounts \ {to} : g[a] = b[a]
    BY <1>1 DEF Minted
  <1>3. Total(g) = Total(b) - b[to] + g[to]
    BY <1>2, PairAccountsFinite, TotalUpdate
  <1>4. Total(b) \in Nat /\ b[to] \in Nat
    BY PairAccountsFinite, TotalBounds
  <1> QED  BY <1>1, <1>2, <1>3, <1>4

\* The AMM's invariant holds at the start.
LEMMA InitDex == DexInit => DexIInv
  <1> SUFFICES ASSUME DexInit PROVE DexIInv
    OBVIOUS
  <1>1. DexTypeOK
    <2>1. PICK e \in Endowments :
            held = [x \in Assets |-> [a \in PairAccounts |-> IF a \in Users THEN e[x] ELSE 0]]
      BY DEF DexInit
    <2>2. e \in [Assets -> Nat]
      BY AmmAssumption
    <2>3. held \in [Assets -> [PairAccounts -> Nat]]
      BY <2>1, <2>2
    <2> QED  BY <2>3 DEF DexInit, DexTypeOK
  <1>2. Created
    BY DEF DexInit, Created
  <1>3. ReservesCovered
    <2>1. ASSUME NEW x \in Assets PROVE Total(Row(reserves, x)) = 0
      <3>1. DOMAIN Row(reserves, x) = Pairs /\ \A p \in Pairs : Row(reserves, x)[p] = 0
        BY DEF Row, DexInit
      <3> QED  BY <3>1, TotalZero
    <2>2. This \in PairAccounts
      BY DEF PairAccounts
    <2>3. ASSUME NEW x \in Assets PROVE recorded[x] = -1 /\ held[x][This] \in Nat
      BY <1>1, <2>2 DEF DexInit, DexTypeOK
    <2>4. Covers(held, recorded, reserves)
      BY <2>1, <2>3 DEF Covers
    <2> QED  BY <2>4, CoversDef
  <1>4. SupplyIsHeld
    <2>1. ASSUME NEW p \in Pairs PROVE supply[p] = Total(lp[p])
      <3>1. PICK b : b = lp[p]
        OBVIOUS
      <3>2. DOMAIN b = PairAccounts /\ \A a \in PairAccounts : b[a] = 0
        BY <3>1 DEF DexInit
      <3>3. Total(b) = 0
        BY <3>2, TotalZero
      <3> QED  BY <3>1, <3>3 DEF DexInit
    <2> QED  BY <2>1 DEF SupplyIsHeld
  <1> QED  BY <1>1, <1>2, <1>3, <1>4 DEF DexIInv

\* What mint_liquidity finds and mints.
LEMMA MintFinds ==
  ASSUME DexIInv, NEW p \in Pairs, NEW to \in Users, mint_liquidity(p, to),
         NEW s, s = supply[p] + Fee(p),
         NEW t1, t1 = Unclaimed(p[1]), NEW t2, t2 = Unclaimed(p[2]),
         NEW n, n = Liquidity(p, t1, t2, s)
  PROVE  /\ s \in Nat /\ t1 \in Nat /\ t2 \in Nat /\ n \in Nat
         /\ s > 0 => /\ reserves[p][1] > 0 /\ n <= (t1 * s) \div reserves[p][1]
                     /\ reserves[p][2] > 0 /\ n <= (t2 * s) \div reserves[p][2]
  <1>1. p \in created /\ t1 > 0 /\ t2 > 0 /\ n > 0
    BY DEF mint_liquidity
  <1>2. /\ supply[p] \in Nat /\ reserves[p][1] \in Nat /\ reserves[p][2] \in Nat
        /\ Fee(p) \in Nat
    BY FeeFacts DEF DexIInv, DexTypeOK
  <1>3. s \in Nat /\ (s > 0 => reserves[p][1] > 0 /\ reserves[p][2] > 0)
    BY <1>2 DEF mint_liquidity
  <1>4. t1 \in Nat /\ t2 \in Nat
    BY <1>1, ReserveIsThere DEF Unclaimed
  <1>5. \A a, b \in Nat : a * b \in Nat
    OBVIOUS
  <1>6. CASE s = 0
    <2>1. t1 * t2 \in Nat
      BY <1>4, <1>5
    <2>2. sqrt(t1 * t2) \in Nat /\ MinimumLiquidity \in Nat
      BY <2>1, SqrtPositive, AmmAssumption
    <2>3. n = sqrt(t1 * t2) - MinimumLiquidity
      BY <1>6 DEF Liquidity
    <2> QED  BY <1>1, <1>3, <1>4, <1>6, <2>2, <2>3
  <1>7. CASE s # 0
    <2>1. PICK x, y : x = (t1 * s) \div reserves[p][1] /\ y = (t2 * s) \div reserves[p][2]
      OBVIOUS
    <2>2. t1 * s \in Nat /\ t2 * s \in Nat
      BY <1>3, <1>4, <1>5
    <2>3. x \in Nat /\ y \in Nat
      BY <1>2, <1>3, <1>7, <2>1, <2>2, CutOff
    <2>4. n = IF x <= y THEN x ELSE y
      BY <1>7, <2>1 DEF Liquidity
    <2> QED  BY <1>3, <1>4, <2>1, <2>3, <2>4
  <1> QED  BY <1>6, <1>7

\* An operation that settles a market: the reserves take in what was found,
\* the balances are recorded and the supply is still what the accounts hold.
LEMMA SettleKeeps ==
  ASSUME DexIInv, NEW p \in Pairs, p \in created, created' = created, feeTo' = feeTo,
         NEW g \in [Assets -> [PairAccounts -> Nat]], held' = g,
         \A x \in Assets : x \notin {p[1], p[2]} => g[x] = held[x],
         recorded' = [x \in Assets |-> IF x \in {p[1], p[2]} THEN g[x][This] ELSE recorded[x]],
         NEW n1 \in Nat, NEW n2 \in Nat, reserves' = [reserves EXCEPT ![p] = <<n1, n2>>],
         n1 = reserves[p][1] + g[p[1]][This] - recorded[p[1]],
         n2 = reserves[p][2] + g[p[2]][This] - recorded[p[2]],
         NEW k \in Nat, kLast' = [kLast EXCEPT ![p] = k],
         NEW b \in [PairAccounts -> Nat], lp' = [lp EXCEPT ![p] = b],
         NEW m \in Nat, supply' = [supply EXCEPT ![p] = m], Total(b) = m
  PROVE  DexIInv'
  <1> USE DEF DexIInv
  <1>0. This \in PairAccounts
    BY DEF PairAccounts
  <1>1. PICK d, w : d = recorded' /\ w = reserves'
    OBVIOUS
  <1>2. d \in [Assets -> Nat \cup {-1}]
    <2>1. \A x \in Assets : g[x][This] \in Nat
      BY <1>0
    <2> QED  BY <1>1, <2>1 DEF DexTypeOK
  <1>3. w \in [Pairs -> Nat \X Nat]
    BY <1>1 DEF DexTypeOK
  <1>4. DexTypeOK'
    <2>1. supply' \in [Pairs -> Nat] /\ kLast' \in [Pairs -> Nat]
      BY DEF DexTypeOK
    <2>2. lp' \in [Pairs -> [PairAccounts -> Nat]]
      BY DEF DexTypeOK
    <2> QED  BY <1>1, <1>2, <1>3, <2>1, <2>2 DEF DexTypeOK
  <1>5. Created'
    <2>1. \A x \in Assets : recorded[x] # -1 => d[x] # -1
      <3>1. \A x \in Assets : g[x][This] \in Nat
        BY <1>0
      <3> QED  BY <1>1, <3>1
    <2>2. ASSUME NEW q \in Pairs
          PROVE  IF q \in created THEN d[q[1]] # -1 /\ d[q[2]] # -1 ELSE w[q] = <<0, 0>>
      <3>1. CASE q \in created
        BY <2>1, <3>1, TwoAssets DEF Created
      <3>2. CASE q \notin created
        BY <1>1, <3>2 DEF Created, DexTypeOK
      <3> QED  BY <3>1, <3>2
    <2> QED  BY <1>1, <2>2 DEF Created
  <1>6. ReservesCovered'
    <2>1. recorded[p[1]] \in Nat /\ recorded[p[2]] \in Nat
      BY ReserveIsThere
    <2>2. \A x \in Assets : d[x] = IF x \in {p[1], p[2]} THEN g[x][This] ELSE recorded[x]
      BY <1>1
    <2>3. \A q \in Pairs : q # p => w[q] = reserves[q]
      BY <1>1 DEF DexTypeOK
    <2>4. w[p][1] = n1 /\ w[p][2] = n2
      BY <1>1 DEF DexTypeOK
    <2>5. \A i \in {1, 2} : w[p][i] = reserves[p][i] + g[p[i]][This] - recorded[p[i]]
      BY <2>4
    <2>6. PICK h, c, v : h = held /\ c = recorded /\ v = reserves
      OBVIOUS
    <2>7. /\ h \in [Assets -> [PairAccounts -> Nat]]
          /\ c \in [Assets -> Nat \cup {-1}] /\ v \in [Pairs -> Nat \X Nat]
          /\ Covers(h, c, v)
      BY <2>6, CoversDef DEF DexTypeOK
    <2>8. Claims(p, v, w, h, g, c, d)
      BY <1>2, <1>3, <2>1, <2>2, <2>3, <2>5, <2>6, <2>7 DEF Claims, ReservePairs
    <2>9. Covers(g, d, w)
      BY <2>7, <2>8, ClaimKeeps
    <2>10. Covers(held', recorded', reserves')
      BY <1>1, <2>9
    <2>11. ReservesCovered' <=> Covers(held', recorded', reserves')
      BY DEF ReservesCovered, Covers, Row, ReserveOf
    <2> QED  BY <2>10, <2>11
  <1>7. SupplyIsHeld'
    <2>1. ASSUME NEW q \in Pairs PROVE supply'[q] = Total(lp'[q])
      <3>1. CASE q = p
        <4>1. lp'[q] = b /\ supply'[q] = m
          BY <3>1 DEF DexTypeOK
        <4> QED  BY <4>1
      <3>2. CASE q # p
        <4>1. lp'[q] = lp[q] /\ supply'[q] = supply[q]
          BY <3>2 DEF DexTypeOK
        <4> QED  BY <4>1 DEF SupplyIsHeld
      <3> QED  BY <3>1, <3>2
    <2> QED  BY <2>1 DEF SupplyIsHeld
  <1> QED  BY <1>4, <1>5, <1>6, <1>7

\* mint_liquidity keeps the AMM's invariant.
LEMMA MintKeeps ==
  ASSUME DexIInv, NEW p \in Pairs, NEW to \in Users, mint_liquidity(p, to)
  PROVE  DexIInv'
  <1>1. PICK f, s, t1, t2 : /\ f = Fee(p) /\ s = supply[p] + f
                            /\ t1 = Unclaimed(p[1]) /\ t2 = Unclaimed(p[2])
    OBVIOUS
  <1>2. PICK n, locked : /\ n = Liquidity(p, t1, t2, s)
                         /\ locked = IF s = 0 THEN MinimumLiquidity ELSE 0
    OBVIOUS
  <1>3. s \in Nat /\ t1 \in Nat /\ t2 \in Nat /\ n \in Nat
    BY <1>1, <1>2, MintFinds
  <1>4. /\ f \in Nat /\ locked \in Nat
        /\ supply[p] \in Nat /\ reserves[p][1] \in Nat /\ reserves[p][2] \in Nat
    <2>1. f \in Nat
      BY <1>1, FeeFacts DEF DexIInv
    <2>2. locked \in Nat
      BY <1>2, AmmAssumption
    <2> QED  BY <2>1, <2>2 DEF DexIInv, DexTypeOK
  <1>5. PICK n1, n2, k : /\ n1 = reserves[p][1] + t1 /\ n2 = reserves[p][2] + t2
                         /\ k = n1 * n2
    OBVIOUS
  <1>6. n1 \in Nat /\ n2 \in Nat /\ k \in Nat
    <2>1. n1 \in Nat /\ n2 \in Nat
      BY <1>3, <1>4, <1>5
    <2>2. \A a, b \in Nat : a * b \in Nat
      OBVIOUS
    <2> QED  BY <1>5, <2>1, <2>2
  <1>7. PICK b1, b2, b : /\ b1 = Minted(lp[p], feeTo, f) /\ b2 = Minted(b1, Zero, locked)
                         /\ b = Minted(b2, to, n)
    OBVIOUS
  <1>8. b \in [PairAccounts -> Nat] /\ Total(b) = supply[p] + f + locked + n
    <2>1. /\ feeTo \in PairAccounts /\ Zero \in PairAccounts /\ to \in PairAccounts
          /\ lp[p] \in [PairAccounts -> Nat]
      BY DEF DexIInv, DexTypeOK, PairAccounts
    <2>2. b1 \in [PairAccounts -> Nat] /\ Total(b1) = Total(lp[p]) + f
      BY <1>4, <1>7, <2>1, MintedFacts
    <2>3. b2 \in [PairAccounts -> Nat] /\ Total(b2) = Total(b1) + locked
      BY <1>4, <1>7, <2>1, <2>2, MintedFacts
    <2>4. b \in [PairAccounts -> Nat] /\ Total(b) = Total(b2) + n
      BY ZenonT(60), <1>3, <1>7, <2>1, <2>3, MintedFacts
    <2>5. Total(lp[p]) = supply[p]
      BY DEF DexIInv, SupplyIsHeld
    <2> QED  BY <2>2, <2>3, <2>4, <2>5
  <1>9. PICK m : m = supply[p] + f + locked + n
    OBVIOUS
  <1>10. m \in Nat
    BY <1>3, <1>4, <1>9
  <1>11. /\ p \in created /\ created' = created /\ feeTo' = feeTo
         /\ supply' = [supply EXCEPT ![p] = m]
    <2>1. s + locked + n = m
      BY <1>1, <1>3, <1>4, <1>9
    <2> QED  BY <1>1, <1>2, <2>1 DEF mint_liquidity
  <1>12. lp' = [lp EXCEPT ![p] = b]
    BY <1>1, <1>2, <1>7 DEF mint_liquidity
  <1>13. /\ held' = held /\ reserves' = [reserves EXCEPT ![p] = <<n1, n2>>]
         /\ recorded' = [x \in Assets |->
                           IF x \in {p[1], p[2]} THEN held[x][This] ELSE recorded[x]]
    BY <1>1, <1>5 DEF mint_liquidity, Settle
  <1>14. kLast' = [kLast EXCEPT ![p] = k]
    <2>1. <<n1, n2>>[1] = n1 /\ <<n1, n2>>[2] = n2
      OBVIOUS
    <2> QED  BY <1>1, <1>5, <2>1 DEF mint_liquidity, Settle
  <1>15. PICK g : g = held
    OBVIOUS
  <1>16. g \in [Assets -> [PairAccounts -> Nat]]
    BY <1>15 DEF DexIInv, DexTypeOK
  <1>17. /\ n1 = reserves[p][1] + g[p[1]][This] - recorded[p[1]]
         /\ n2 = reserves[p][2] + g[p[2]][This] - recorded[p[2]]
    <2>1. /\ held[p[1]][This] \in Nat /\ held[p[2]][This] \in Nat
          /\ recorded[p[1]] \in Nat /\ recorded[p[2]] \in Nat
      BY <1>11, ReserveIsThere
    <2> QED  BY <1>1, <1>4, <1>5, <1>15, <2>1 DEF Unclaimed
  <1> QED  BY <1>6, <1>8, <1>9, <1>10, <1>11, <1>12, <1>13, <1>14, <1>15, <1>16, <1>17, SettleKeeps

\* The payments of both assets of a market.
LEMMA PaidTwice ==
  ASSUME NEW p \in Pairs, NEW to \in Users, NEW h \in [Assets -> [PairAccounts -> Nat]],
         NEW o1 \in Nat, NEW o2 \in Nat, o1 <= h[p[1]][This], o2 <= h[p[2]][This],
         NEW g, g = Paid(Paid(h, p[1], This, to, o1), p[2], This, to, o2)
  PROVE  /\ g \in [Assets -> [PairAccounts -> Nat]]
         /\ g[p[1]][This] = h[p[1]][This] - o1 /\ g[p[2]][This] = h[p[2]][This] - o2
         /\ \A x \in Assets : x \notin {p[1], p[2]} => g[x] = h[x]
  <1>1. This \in PairAccounts /\ to \in PairAccounts /\ This # to
    BY AmmAssumption DEF PairAccounts
  <1>2. PICK x, y : x = p[1] /\ y = p[2]
    OBVIOUS
  <1>3. x \in Assets /\ y \in Assets /\ x # y
    BY <1>2, TwoAssets
  <1>4. PICK f : f = Paid(h, x, This, to, o1)
    OBVIOUS
  <1>5. /\ f \in [Assets -> [PairAccounts -> Nat]] /\ f[x][This] = h[x][This] - o1
        /\ \A z \in Assets : z # x => f[z] = h[z]
    <2>1. h[x][This] >= o1
      BY <1>1, <1>2, <1>3
    <2> QED  BY <1>1, <1>3, <1>4, <2>1, PaidFacts
  <1>6. /\ g \in [Assets -> [PairAccounts -> Nat]] /\ g[y][This] = f[y][This] - o2
        /\ \A z \in Assets : z # y => g[z] = f[z]
    <2>1. f[y][This] >= o2
      BY <1>1, <1>2, <1>3, <1>5
    <2>2. g = Paid(f, y, This, to, o2)
      BY <1>2, <1>4
    <2>3. f \in [Assets -> [PairAccounts -> Nat]]
      BY <1>5
    <2>4. /\ Paid(f, y, This, to, o2) \in [Assets -> [PairAccounts -> Nat]]
          /\ Paid(f, y, This, to, o2)[y][This] = f[y][This] - o2
          /\ \A z \in Assets : z # y => Paid(f, y, This, to, o2)[z] = f[z]
      BY <1>1, <1>3, <2>1, <2>3, PaidFacts
    <2> QED  BY <2>2, <2>4
  <1> QED  BY <1>2, <1>3, <1>5, <1>6

\* A share of an amount is within it.
LEMMA ProRataWithin ==
  ASSUME NEW n \in Nat, NEW a \in Nat, NEW s \in Nat, n <= s, s > 0
  PROVE  ProRata(n, a, s) \in Nat /\ ProRata(n, a, s) <= a /\ ProRata(n, a, s) * s <= n * a
  <1>1. PICK m, q : m = n * a /\ q = m \div s
    OBVIOUS
  <1>2. m \in Nat /\ m <= s * a
    <2>1. \A b, c \in Nat : b * c \in Nat
      OBVIOUS
    <2>2. n * a <= s * a
      <3>1. \A b, c, d \in Nat : b <= c => b * d <= c * d
        OBVIOUS
      <3> QED  BY <3>1
    <2> QED  BY <1>1, <2>1, <2>2
  <1>3. q \in Nat /\ q * s <= m
    BY <1>1, <1>2, CutOff
  <1>4. q <= a
    <2>1. \A b, c, d \in Nat : b >= c + 1 => b * d >= c * d + d
      OBVIOUS
    <2>2. q >= a + 1 => q * s >= a * s + s
      BY <1>3, <2>1
    <2>3. s * a = a * s /\ a * s \in Nat /\ q * s \in Nat
      BY <1>3
    <2> QED  BY <1>2, <1>3, <2>2, <2>3
  <1> QED  BY <1>1, <1>3, <1>4 DEF ProRata

\* What burn_liquidity finds and pays out of each asset.
LEMMA BurnFinds ==
  ASSUME DexIInv, NEW p \in Pairs, p \in created, NEW burned, burned = lp[p][This],
         NEW s, s = supply[p] + Fee(p), s > 0,
         NEW i \in {1, 2}, NEW a, a = reserves[p][i] + Unclaimed(p[i]),
         NEW o, o = ProRata(burned, a, s)
  PROVE  /\ s \in Nat /\ burned \in Nat /\ burned <= s /\ a \in Nat /\ a <= held[p[i]][This]
         /\ burned <= supply[p] /\ reserves[p][i] <= a /\ o \in Nat /\ o <= a /\ o * s <= burned * a
  <1>1. /\ supply[p] \in Nat /\ Fee(p) \in Nat
    BY FeeFacts DEF DexIInv, DexTypeOK
  <1>2. s \in Nat /\ supply[p] <= s
    BY <1>1
  <1>3. burned \in Nat /\ burned <= supply[p]
    <2>1. lp[p] \in [PairAccounts -> Nat] /\ This \in PairAccounts
      BY DEF DexIInv, DexTypeOK, PairAccounts
    <2>2. supply[p] = Total(lp[p])
      BY DEF DexIInv, SupplyIsHeld
    <2> QED  BY <2>1, <2>2, PairAccountsFinite, TotalBounds
  <1>4. a \in Nat /\ a <= held[p[i]][This] /\ reserves[p][i] <= a
    BY ReserveIsThere DEF Unclaimed
  <1>5. burned <= s
    BY <1>1, <1>2, <1>3
  <1> QED  BY <1>2, <1>3, <1>4, <1>5, ProRataWithin

\* burn_liquidity keeps the AMM's invariant.
LEMMA BurnKeeps ==
  ASSUME DexIInv, NEW p \in Pairs, NEW to \in Users, burn_liquidity(p, to)
  PROVE  DexIInv'
  <1>1. PICK f, s, burned : f = Fee(p) /\ s = supply[p] + f /\ burned = lp[p][This]
    OBVIOUS
  <1>2. PICK a1, a2 : /\ a1 = reserves[p][1] + Unclaimed(p[1])
                      /\ a2 = reserves[p][2] + Unclaimed(p[2])
    OBVIOUS
  <1>3. PICK o1, o2 : o1 = ProRata(burned, a1, s) /\ o2 = ProRata(burned, a2, s)
    OBVIOUS
  <1>4. /\ p \in created /\ s > 0 /\ created' = created /\ feeTo' = feeTo
    BY <1>1 DEF burn_liquidity
  <1>5. /\ s \in Nat /\ burned \in Nat /\ burned <= s /\ burned <= supply[p]
        /\ a1 \in Nat /\ a1 <= held[p[1]][This] /\ o1 \in Nat /\ o1 <= a1
        /\ a2 \in Nat /\ a2 <= held[p[2]][This] /\ o2 \in Nat /\ o2 <= a2
    BY <1>1, <1>2, <1>3, <1>4, BurnFinds
  <1>6. PICK n1, n2, k : n1 = a1 - o1 /\ n2 = a2 - o2 /\ k = n1 * n2
    OBVIOUS
  <1>7. n1 \in Nat /\ n2 \in Nat /\ k \in Nat
    <2>1. n1 \in Nat /\ n2 \in Nat
      BY <1>5, <1>6
    <2>2. \A x, y \in Nat : x * y \in Nat
      OBVIOUS
    <2> QED  BY <1>6, <2>1, <2>2
  <1>8. PICK b1, b : b1 = Minted(lp[p], feeTo, f) /\ b = Burnt(b1, This, burned)
    OBVIOUS
  <1>9. PICK m : m = s - burned
    OBVIOUS
  <1>10. b \in [PairAccounts -> Nat] /\ Total(b) = m /\ m \in Nat
    <2>1. /\ feeTo \in PairAccounts /\ This \in PairAccounts /\ feeTo # This
          /\ lp[p] \in [PairAccounts -> Nat] /\ supply[p] \in Nat
      BY AmmAssumption DEF DexIInv, DexTypeOK, PairAccounts
    <2>2. f \in Nat
      BY <1>1, FeeFacts DEF DexIInv
    <2>3. /\ b1 \in [PairAccounts -> Nat] /\ Total(b1) = Total(lp[p]) + f
          /\ b1[This] = burned
      BY <1>1, <1>8, <2>1, <2>2, MintedFacts
    <2>4. /\ b \in [PairAccounts -> Nat] /\ b[This] = 0
          /\ \A x \in PairAccounts \ {This} : b[x] = b1[x]
      BY <1>5, <1>8, <2>1, <2>3 DEF Burnt
    <2>5. Total(b) = Total(b1) - b1[This] + b[This]
      BY <2>1, <2>3, <2>4, PairAccountsFinite, TotalUpdate
    <2>6. Total(lp[p]) = supply[p]
      BY DEF DexIInv, SupplyIsHeld
    <2>7. s = supply[p] + f /\ m = s - burned /\ m \in Nat
      BY <1>1, <1>5, <1>9
    <2>8. Total(b) = m
      BY <1>5, <2>1, <2>2, <2>3, <2>4, <2>5, <2>6, <2>7
    <2> QED  BY <2>4, <2>7, <2>8
  <1>11. supply' = [supply EXCEPT ![p] = m] /\ lp' = [lp EXCEPT ![p] = b]
    <2>1. supply' = [supply EXCEPT ![p] = m]
      BY <1>1, <1>9 DEF burn_liquidity
    <2>2. lp' = [lp EXCEPT ![p] = Burnt(Minted(lp[p], feeTo, f), This, burned)]
      BY <1>1 DEF burn_liquidity
    <2> QED  BY <1>8, <2>1, <2>2
  <1>12. PICK g : g = Paid(Paid(held, p[1], This, to, o1), p[2], This, to, o2)
    OBVIOUS
  <1>13. /\ g \in [Assets -> [PairAccounts -> Nat]]
         /\ g[p[1]][This] = held[p[1]][This] - o1 /\ g[p[2]][This] = held[p[2]][This] - o2
         /\ \A x \in Assets : x \notin {p[1], p[2]} => g[x] = held[x]
    <2>1. PICK h : h = held
      OBVIOUS
    <2>2. h \in [Assets -> [PairAccounts -> Nat]] /\ o1 <= h[p[1]][This] /\ o2 <= h[p[2]][This]
      <3>1. /\ held[p[1]][This] \in Nat /\ held[p[2]][This] \in Nat
        BY <1>4, ReserveIsThere
      <3> QED  BY <1>5, <2>1, <3>1 DEF DexIInv, DexTypeOK
    <2> QED  BY <1>5, <1>12, <2>1, <2>2, PaidTwice
  <1>14. /\ held' = g /\ reserves' = [reserves EXCEPT ![p] = <<n1, n2>>]
         /\ recorded' = [x \in Assets |-> IF x \in {p[1], p[2]} THEN g[x][This] ELSE recorded[x]]
         /\ kLast' = [kLast EXCEPT ![p] = k]
    <2>1. <<n1, n2>>[1] = n1 /\ <<n1, n2>>[2] = n2
      OBVIOUS
    <2>2. Settle(p, g, <<n1, n2>>)
      BY <1>1, <1>2, <1>3, <1>6, <1>12 DEF burn_liquidity
    <2> QED  BY <1>6, <2>1, <2>2 DEF Settle
  <1>15. /\ n1 = reserves[p][1] + g[p[1]][This] - recorded[p[1]]
         /\ n2 = reserves[p][2] + g[p[2]][This] - recorded[p[2]]
    <2>1. /\ held[p[1]][This] \in Nat /\ recorded[p[1]] \in Nat /\ reserves[p][1] \in Nat
          /\ held[p[2]][This] \in Nat /\ recorded[p[2]] \in Nat /\ reserves[p][2] \in Nat
      BY <1>4, ReserveIsThere
    <2>2. /\ a1 = reserves[p][1] + (held[p[1]][This] - recorded[p[1]])
          /\ a2 = reserves[p][2] + (held[p[2]][This] - recorded[p[2]])
      BY <1>2 DEF Unclaimed
    <2>3. n1 = a1 - o1 /\ n2 = a2 - o2 /\ o1 \in Nat /\ o2 \in Nat
      BY <1>5, <1>6
    <2> QED  BY <1>13, <2>1, <2>2, <2>3
  <1> QED  BY <1>4, <1>7, <1>10, <1>11, <1>13, <1>14, <1>15, SettleKeeps

\* swap keeps the AMM's invariant.
LEMMA SwapKeeps ==
  ASSUME DexIInv, NEW p \in Pairs, NEW to \in Users, NEW o1 \in Int, NEW o2 \in Int,
         o1 = 0 \/ o2 = 0, swap(p, o1, o2, to)
  PROVE  DexIInv'
  <1>1. /\ p \in created /\ created' = created /\ feeTo' = feeTo
        /\ supply' = supply /\ lp' = lp /\ kLast' = kLast
    BY DEF swap
  <1>2. o1 \in Nat /\ o2 \in Nat
    BY DEF swap
  <1>3. /\ held[p[1]][This] \in Nat /\ recorded[p[1]] \in Nat /\ reserves[p][1] \in Nat
        /\ held[p[2]][This] \in Nat /\ recorded[p[2]] \in Nat /\ reserves[p][2] \in Nat
        /\ reserves[p][1] <= recorded[p[1]] /\ recorded[p[1]] <= held[p[1]][This]
        /\ reserves[p][2] <= recorded[p[2]] /\ recorded[p[2]] <= held[p[2]][This]
    BY <1>1, ReserveIsThere
  <1>4. o1 < reserves[p][1] /\ o2 < reserves[p][2]
    BY <1>2, <1>3 DEF swap, WithinReserves
  <1>5. PICK g : g = Paid(Paid(held, p[1], This, to, o1), p[2], This, to, o2)
    OBVIOUS
  <1>6. /\ g \in [Assets -> [PairAccounts -> Nat]]
        /\ g[p[1]][This] = held[p[1]][This] - o1 /\ g[p[2]][This] = held[p[2]][This] - o2
        /\ \A x \in Assets : x \notin {p[1], p[2]} => g[x] = held[x]
    <2>1. PICK h : h = held
      OBVIOUS
    <2>2. h \in [Assets -> [PairAccounts -> Nat]] /\ o1 <= h[p[1]][This] /\ o2 <= h[p[2]][This]
      BY <1>2, <1>3, <1>4, <2>1 DEF DexIInv, DexTypeOK
    <2> QED  BY <1>2, <1>5, <2>1, <2>2, PaidTwice
  <1>7. PICK n1, n2 : /\ n1 = reserves[p][1] + g[p[1]][This] - recorded[p[1]]
                      /\ n2 = reserves[p][2] + g[p[2]][This] - recorded[p[2]]
    OBVIOUS
  <1>8. n1 \in Nat /\ n2 \in Nat
    BY <1>2, <1>3, <1>4, <1>6, <1>7
  <1>9. /\ held' = g /\ reserves' = [reserves EXCEPT ![p] = <<n1, n2>>]
        /\ recorded' = [x \in Assets |-> IF x \in {p[1], p[2]} THEN g[x][This] ELSE recorded[x]]
    BY <1>5, <1>7 DEF swap
  <1>10. PICK k, b, m : k = kLast[p] /\ b = lp[p] /\ m = supply[p]
    OBVIOUS
  <1>11. /\ k \in Nat /\ b \in [PairAccounts -> Nat] /\ m \in Nat /\ Total(b) = m
         /\ kLast' = [kLast EXCEPT ![p] = k] /\ lp' = [lp EXCEPT ![p] = b]
         /\ supply' = [supply EXCEPT ![p] = m]
    BY <1>1, <1>10 DEF DexIInv, DexTypeOK, SupplyIsHeld
  <1> QED  BY <1>1, <1>6, <1>7, <1>8, <1>9, <1>11, SettleKeeps

\* A new market records the balances of tokens nobody traded, and has no reserves.
LEMMA CreateKeeps ==
  ASSUME DexIInv, NEW p \in Pairs, create_pair(p)
  PROVE  DexIInv'
  <1> USE DEF DexIInv
  <1>0. This \in PairAccounts /\ \A x \in Assets : held[x][This] \in Nat
    BY DEF DexTypeOK, PairAccounts
  <1>1. PICK d, c : d = recorded' /\ c = created'
    OBVIOUS
  <1>2. /\ held' = held /\ reserves' = reserves /\ c = created \cup {p}
        /\ \A x \in Assets : d[x] = recorded[x] \/ (recorded[x] = -1 /\ d[x] = held[x][This])
        /\ \A x \in {p[1], p[2]} : recorded[x] = -1 => d[x] = held[x][This]
    <2>1. p[1] \in Assets /\ p[2] \in Assets
      BY TwoAssets
    <2>2. d = [x \in Assets |->
                 IF x \in {p[1], p[2]} /\ recorded[x] = -1 THEN held[x][This] ELSE recorded[x]]
      BY <1>1 DEF create_pair
    <2>3. held' = held /\ reserves' = reserves /\ c = created \cup {p}
      BY <1>1 DEF create_pair
    <2>4. ASSUME NEW x \in Assets
          PROVE  d[x] = recorded[x] \/ (recorded[x] = -1 /\ d[x] = held[x][This])
      <3>1. d[x] = IF x \in {p[1], p[2]} /\ recorded[x] = -1 THEN held[x][This] ELSE recorded[x]
        BY <2>2
      <3> QED  BY <3>1
    <2>5. \A x \in {p[1], p[2]} : recorded[x] = -1 => d[x] = held[x][This]
      BY <2>1, <2>2
    <2> QED  BY <2>3, <2>4, <2>5
  <1>3. DexTypeOK'
    <2>1. d \in [Assets -> Nat \cup {-1}]
      BY <1>0, <1>1 DEF create_pair, DexTypeOK
    <2> QED  BY <1>1, <2>1 DEF create_pair, DexTypeOK
  <1>4. Created'
    <2>1. ASSUME NEW q \in Pairs
          PROVE  IF q \in c THEN d[q[1]] # -1 /\ d[q[2]] # -1 ELSE reserves[q] = <<0, 0>>
      <3>1. CASE q = p
        BY <1>0, <1>2, <3>1, TwoAssets
      <3>2. CASE q # p
        BY <1>0, <1>2, <3>2, TwoAssets DEF Created
      <3> QED  BY <3>1, <3>2
    <2> QED  BY <1>1, <1>2, <2>1 DEF Created
  <1>5. ReservesCovered'
    <2>1. Covers(held, recorded, reserves)
      BY CoversDef
    <2>2. Covers(held, d, reserves)
      <3> SUFFICES ASSUME NEW x \in Assets
                   PROVE  /\ Total(Row(reserves, x)) <= IF d[x] = -1 THEN 0 ELSE d[x]
                          /\ d[x] <= held[x][This]
        BY DEF Covers
      <3>1. Total(Row(reserves, x)) \in Nat /\ recorded[x] \in Nat \cup {-1}
        BY RowType DEF DexTypeOK, ReservePairs
      <3> QED  BY <1>0, <1>2, <2>1, <3>1 DEF Covers
    <2>3. Covers(held', recorded', reserves')
      BY <1>1, <1>2, <2>2
    <2>4. ReservesCovered' <=> Covers(held', recorded', reserves')
      BY DEF ReservesCovered, Covers, Row, ReserveOf
    <2> QED  BY <2>3, <2>4
  <1>6. SupplyIsHeld'
    BY DEF create_pair, SupplyIsHeld
  <1> QED  BY <1>3, <1>4, <1>5, <1>6

\* A deposit adds to what the contract holds, and waits to be claimed.
LEMMA DepositKeeps ==
  ASSUME DexIInv, NEW u \in Users, NEW x \in Assets, NEW n \in DepositAmounts, deposit(u, x, n)
  PROVE  DexIInv'
  <1> USE DEF DexIInv
  <1>1. n \in Nat /\ u \in PairAccounts /\ This \in PairAccounts /\ u # This
    BY AmmAssumption DEF deposit, PairAccounts
  <1>2. PICK h, g : h = held /\ g = Paid(h, x, u, This, n)
    OBVIOUS
  <1>3. /\ held' = g /\ recorded' = recorded /\ reserves' = reserves /\ created' = created
        /\ supply' = supply /\ lp' = lp /\ kLast' = kLast /\ feeTo' = feeTo
    BY <1>2 DEF deposit
  <1>4. /\ g \in [Assets -> [PairAccounts -> Nat]] /\ g[x][This] = h[x][This] + n
        /\ \A y \in Assets : y # x => g[y] = h[y]
    <2>1. h \in [Assets -> [PairAccounts -> Nat]] /\ h[x][u] >= n
      BY <1>2 DEF deposit, DexTypeOK
    <2> QED  BY <1>1, <1>2, <2>1, PaidFacts
  <1>5. \A y \in Assets : h[y][This] \in Nat /\ h[y][This] <= g[y][This]
    BY <1>1, <1>2, <1>4 DEF DexTypeOK
  <1>6. ReservesCovered'
    <2>1. Covers(held, recorded, reserves)
      BY CoversDef
    <2>2. Covers(g, recorded, reserves)
      <3>1. ASSUME NEW y \in Assets PROVE recorded[y] <= g[y][This]
        <4>1. recorded[y] \in Int /\ recorded[y] <= h[y][This] /\ g[y][This] \in Nat
          BY <1>1, <1>2, <1>4, <2>1 DEF Covers, DexTypeOK
        <4> QED  BY <1>5, <4>1
      <3> QED  BY <2>1, <3>1 DEF Covers
    <2>3. Covers(held', recorded', reserves')
      BY <1>3, <2>2
    <2>4. ReservesCovered' <=> Covers(held', recorded', reserves')
      BY DEF ReservesCovered, Covers, Row, ReserveOf
    <2> QED  BY <2>3, <2>4
  <1>7. DexTypeOK'
    BY <1>3, <1>4 DEF DexTypeOK
  <1>8. Created' /\ SupplyIsHeld'
    BY <1>3 DEF Created, SupplyIsHeld
  <1> QED  BY <1>6, <1>7, <1>8

\* LP tokens that change hands.
LEMMA TransferLpKeeps ==
  ASSUME DexIInv, NEW u \in Users, NEW p \in Pairs, NEW n \in TransferAmounts,
         NEW to \in Users \cup {This}, transfer_lp(u, p, n, to)
  PROVE  DexIInv'
  <1> USE DEF DexIInv
  <1>1. n \in Int /\ u \in PairAccounts /\ to \in PairAccounts
    BY AmmAssumption DEF PairAccounts
  <1>2. PICK b, g : b = lp[p] /\ g = Move(b, u, to, n)
    OBVIOUS
  <1>3. b \in [PairAccounts -> Nat] /\ CanTransfer(b, u, n)
    BY <1>2 DEF DexTypeOK, transfer_lp
  <1>4. g \in [PairAccounts -> Nat] /\ Total(g) = Total(b)
    BY <1>1, <1>2, <1>3, PairAccountsFinite, MoveKeepsSupply
  <1>5. lp' = [lp EXCEPT ![p] = g]
    BY <1>2 DEF transfer_lp
  <1>6. /\ held' = held /\ recorded' = recorded /\ reserves' = reserves /\ created' = created
        /\ supply' = supply /\ kLast' = kLast /\ feeTo' = feeTo
    BY DEF transfer_lp
  <1>7. DexTypeOK'
    <2>1. lp' \in [Pairs -> [PairAccounts -> Nat]]
      BY <1>4, <1>5 DEF DexTypeOK
    <2> QED  BY <1>6, <2>1 DEF DexTypeOK
  <1>8. Created' /\ ReservesCovered'
    BY <1>6 DEF Created, ReservesCovered, ReserveOf
  <1>9. SupplyIsHeld'
    <2>1. ASSUME NEW q \in Pairs PROVE supply[q] = Total(lp'[q])
      <3>1. CASE q = p
        <4>1. lp'[q] = g
          BY <1>5, <3>1 DEF DexTypeOK
        <4> QED  BY <1>2, <1>4, <3>1, <4>1 DEF SupplyIsHeld
      <3>2. CASE q # p
        <4>1. lp'[q] = lp[q]
          BY <1>5, <3>2 DEF DexTypeOK
        <4> QED  BY <4>1 DEF SupplyIsHeld
      <3> QED  BY <3>1, <3>2
    <2> QED  BY <1>6, <2>1 DEF SupplyIsHeld
  <1> QED  BY <1>7, <1>8, <1>9

\* Every call of the AMM keeps its invariant.
LEMMA DexKeeps == DexIInv /\ [DexNext]_dexVars => DexIInv'
  <1> SUFFICES ASSUME DexIInv, [DexNext]_dexVars PROVE DexIInv'
    OBVIOUS
  <1>1. ASSUME NEW p \in Pairs, create_pair(p) PROVE DexIInv'
    BY <1>1, CreateKeeps
  <1>2. ASSUME NEW a \in {Zero, FeeTaker}, set_fee_to(a) PROVE DexIInv'
    BY <1>2 DEF set_fee_to, DexIInv, DexTypeOK, Created, ReservesCovered, ReserveOf, SupplyIsHeld
  <1>3. ASSUME NEW u \in Users, NEW x \in Assets, NEW n \in DepositAmounts, deposit(u, x, n)
        PROVE  DexIInv'
    BY <1>3, DepositKeeps
  <1>4. ASSUME NEW u \in Users, NEW p \in Pairs, NEW n \in TransferAmounts,
               NEW to \in Users \cup {This}, transfer_lp(u, p, n, to)
        PROVE  DexIInv'
    BY <1>4, TransferLpKeeps
  <1>5. ASSUME NEW u \in Users, NEW p \in Pairs, mint_liquidity(p, u) \/ burn_liquidity(p, u)
        PROVE  DexIInv'
    BY <1>5, MintKeeps, BurnKeeps
  <1>6. ASSUME NEW u \in Users, NEW p \in Pairs, NEW n \in SwapAmounts,
               swap(p, n, 0, u) \/ swap(p, 0, n, u)
        PROVE  DexIInv'
    BY <1>6, AmmAssumption, SwapKeeps
  <1>7. CASE UNCHANGED dexVars
    BY <1>7 DEF dexVars, DexIInv, DexTypeOK, Created, ReservesCovered, ReserveOf, SupplyIsHeld
  <1> QED  BY <1>1, <1>2, <1>3, <1>4, <1>5, <1>6, <1>7 DEF DexNext

\* The types, the reserves and the supplies hold together in every state of the AMM.
THEOREM DexInductive == DexSpec => []DexIInv
  BY InitDex, DexKeeps, PTL DEF DexSpec

-----------------------------------------------------------------------------
(* The first AMM: what its users rely on *)

\* Markets that share a token never claim the same coins twice: their reserves
\* together are within the balance that was recorded, and that balance is there.
THEOREM ReservesAreThere == DexSpec => []ReservesCovered
  BY DexInductive, PTL DEF DexIInv

\* The LP tokens of a market are the sum of the balances of its accounts.
THEOREM SharesAddUp == DexSpec => []SupplyIsHeld
  BY DexInductive, PTL DEF DexIInv

\* The protocol's fee is at most a sixth of the growth of the pool, whatever the
\* loop of sqrt makes of the two products.
THEOREM FeeStaysWithinGrowth == DexSpec => []FeeWithinGrowth
  <1>1. DexIInv => FeeWithinGrowth
    BY FeeFacts DEF DexIInv, FeeWithinGrowth
  <1> QED  BY <1>1, DexInductive, PTL

\* Providing and removing liquidity rounds in favour of those who stay: what a
\* share stands for falls in no such step, but for the fee.
THEOREM SharesKeepTheirWorth == DexSpec => SharesNotDiluted
  <1> DEFINE Worth == \A p \in Pairs : supply'[p] # supply[p] /\ supply[p] > 0 =>
       LET old == supply[p] + Fee(p) IN
         /\ reserves'[p][1] * old >= reserves[p][1] * supply'[p]
         /\ reserves'[p][2] * old >= reserves[p][2] * supply'[p]
  <1>1. ASSUME DexIInv, [DexNext]_dexVars PROVE [Worth]_dexVars
    <2> SUFFICES ASSUME NEW q \in Pairs, supply'[q] # supply[q], supply[q] > 0,
                        NEW s, s = supply[q] + Fee(q), NEW i \in {1, 2}
                 PROVE  reserves'[q][i] * s >= reserves[q][i] * supply'[q]
      OBVIOUS
    <2>0. /\ supply[q] \in Nat /\ Fee(q) \in Nat /\ reserves[q][i] \in Nat /\ s \in Nat /\ s > 0
      <3>1. supply[q] \in Nat /\ Fee(q) \in Nat /\ reserves[q][i] \in Nat
        BY <1>1, FeeFacts DEF DexIInv, DexTypeOK
      <3> QED  BY <3>1
    <2>1. \/ \E u \in Users, p \in Pairs : mint_liquidity(p, u) \/ burn_liquidity(p, u)
          \/ supply' = supply
      <3>1. /\ \A p \in Pairs : create_pair(p) => supply' = supply
            /\ \A a \in {Zero, FeeTaker} : set_fee_to(a) => supply' = supply
        BY DEF create_pair, set_fee_to
      <3>2. \A u \in Users :
              /\ \A x \in Assets, n \in DepositAmounts : deposit(u, x, n) => supply' = supply
              /\ \A p \in Pairs, n \in TransferAmounts, to \in Users \union {This} :
                   transfer_lp(u, p, n, to) => supply' = supply
        BY DEF deposit, transfer_lp
      <3>3. \A u \in Users, p \in Pairs, n1, n2 \in SwapAmounts \union {0} :
              swap(p, n1, n2, u) => supply' = supply
        BY DEF swap
      <3>4. CASE UNCHANGED dexVars
        BY <3>4 DEF dexVars
      <3>5. CASE DexNext
        BY <3>1, <3>2, <3>3, <3>5 DEF DexNext
      <3> QED  BY <1>1, <3>4, <3>5
    <2>2. PICK u \in Users, p \in Pairs : mint_liquidity(p, u) \/ burn_liquidity(p, u)
      BY <2>1
    <2>3. p = q
      BY <1>1, <2>2 DEF mint_liquidity, burn_liquidity, DexIInv, DexTypeOK
    <2>4. CASE mint_liquidity(q, u)
      <3>1. PICK t1, t2, n : /\ t1 = Unclaimed(q[1]) /\ t2 = Unclaimed(q[2])
                             /\ n = Liquidity(q, t1, t2, s)
        OBVIOUS
      <3>2. PICK t, r : t = (IF i = 1 THEN t1 ELSE t2) /\ r = reserves[q][i]
        OBVIOUS
      <3>3. t \in Nat /\ n \in Nat /\ r \in Nat /\ r > 0 /\ n <= (t * s) \div r
        <4>1. /\ t1 \in Nat /\ t2 \in Nat /\ n \in Nat
              /\ reserves[q][1] > 0 /\ n <= (t1 * s) \div reserves[q][1]
              /\ reserves[q][2] > 0 /\ n <= (t2 * s) \div reserves[q][2]
          BY <1>1, <2>0, <2>4, <3>1, MintFinds
        <4>2. CASE i = 1
          BY <2>0, <3>2, <4>1, <4>2
        <4>3. CASE i = 2
          BY <2>0, <3>2, <4>1, <4>3
        <4> QED  BY <4>2, <4>3
      <3>4. reserves'[q][i] = r + t
        BY <1>1, <2>4, <3>1, <3>2 DEF mint_liquidity, Settle, DexIInv, DexTypeOK
      <3>5. supply'[q] = s + n
        <4>1. PICK locked : locked = IF s = 0 THEN MinimumLiquidity ELSE 0
          OBVIOUS
        <4>2. supply' = [supply EXCEPT ![q] = s + locked + n]
          BY <2>4, <3>1, <4>1 DEF mint_liquidity
        <4>3. locked = 0
          BY <2>0, <4>1
        <4> QED  BY <1>1, <2>0, <3>3, <4>2, <4>3 DEF DexIInv, DexTypeOK
      <3>6. (r + t) * s >= r * (s + n)
        <4>1. PICK m, d : m = t * s /\ d = m \div r
          OBVIOUS
        <4>2. m \in Nat
          <5>1. \A a, b \in Nat : a * b \in Nat
            OBVIOUS
          <5> QED  BY <2>0, <3>3, <4>1, <5>1
        <4>3. d \in Nat /\ d * r <= m /\ n <= d
          BY <3>3, <4>1, <4>2, CutOff
        <4>4. n * r <= d * r
          <5>1. \A a, b, c \in Nat : a <= b => a * c <= b * c
            OBVIOUS
          <5> QED  BY <3>3, <4>3, <5>1
        <4>5. (r + t) * s = r * s + m /\ r * (s + n) = r * s + n * r
          <5>1. \A a, b, c \in Nat : (a + b) * c = a * c + b * c
            OBVIOUS
          <5>2. \A a, b, c \in Nat : a * (b + c) = a * b + c * a
            OBVIOUS
          <5>3. (r + t) * s = r * s + t * s
            BY <2>0, <3>3, <5>1
          <5>4. r * (s + n) = r * s + n * r
            BY <2>0, <3>3, <5>2
          <5> QED  BY <4>1, <5>3, <5>4
        <4>6. r * s \in Nat /\ n * r \in Nat /\ d * r \in Nat
          <5>1. \A a, b \in Nat : a * b \in Nat
            OBVIOUS
          <5> QED  BY <2>0, <3>3, <4>3, <5>1
        <4> QED  BY <4>2, <4>3, <4>4, <4>5, <4>6
      <3> QED  BY <3>2, <3>4, <3>5, <3>6
    <2>5. CASE burn_liquidity(q, u)
      <3>1. PICK b, a, o, r : /\ b = lp[q][This] /\ a = reserves[q][i] + Unclaimed(q[i])
                              /\ o = ProRata(b, a, s) /\ r = reserves[q][i]
        OBVIOUS
      <3>2. q \in created
        BY <2>5 DEF burn_liquidity
      <3>3. /\ b \in Nat /\ b <= s /\ a \in Nat /\ r \in Nat /\ r <= a
            /\ o \in Nat /\ o <= a /\ o * s <= b * a
        BY <1>1, <2>0, <3>1, <3>2, BurnFinds
      <3>4. reserves'[q][i] = a - o
        BY <1>1, <2>5, <3>1 DEF burn_liquidity, Settle, DexIInv, DexTypeOK
      <3>5. supply'[q] = s - b
        BY <1>1, <2>5, <3>1 DEF burn_liquidity, DexIInv, DexTypeOK
      <3>6. (a - o) * s >= r * (s - b)
        <4>1. (a - o) * s = a * s - o * s /\ a * (s - b) = a * s - b * a
          <5>1. \A x, y, z \in Int : (x - y) * z = x * z - y * z /\ x * (y - z) = x * y - z * x
            OBVIOUS
          <5> QED  BY <2>0, <3>3, <5>1
        <4>2. r * (s - b) <= a * (s - b)
          <5>1. \A x, y, z \in Nat : x <= y => x * z <= y * z
            OBVIOUS
          <5>2. s - b \in Nat
            BY <2>0, <3>3
          <5> QED  BY <3>3, <5>1, <5>2
        <4>3. /\ a * s \in Int /\ o * s \in Int /\ b * a \in Int
              /\ r * (s - b) \in Int /\ a * (s - b) \in Int
          <5>1. \A x, y \in Int : x * y \in Int
            OBVIOUS
          <5>2. s - b \in Int
            BY <2>0, <3>3
          <5> QED  BY <2>0, <3>3, <5>1, <5>2
        <4> QED  BY <3>3, <4>1, <4>2, <4>3
      <3> QED  BY <3>1, <3>4, <3>5, <3>6
    <2> QED  BY <2>2, <2>3, <2>4, <2>5
  <1> QED  BY <1>1, DexInductive, PTL DEF SharesNotDiluted, DexSpec
=============================================================================
