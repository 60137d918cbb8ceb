------------------------------ MODULE DexPairs -----------------------------
(***************************************************************************)
(* The pair contract of the first AMM (dex_pairs.py) with the calls of     *)
(* dex.py it depends on.  Tokens are first transferred to the contract and *)
(* then claimed by mint_liquidity or swap, which compare what the contract *)
(* holds with what it recorded; LP tokens are transferred to the contract  *)
(* and then burned.  A failed assert reverts, so asserts are guards.       *)
(*                                                                         *)
(* Amounts count the smallest decimal; products keep all their digits and  *)
(* quotients are cut off.  One is 1.0 in that unit.  A missing LP entry    *)
(* (None) is 0: wherever it is read the call fails for both.  Deposits are *)
(* plain token transfers, by whichever user.                               *)
(***************************************************************************)
EXTENDS Tally, Ledger

CONSTANTS
  Assets,            \* token contracts; "tau" is whichever comes first
  Pairs,             \* the markets that may be created
  Users,
  This,              \* the pair contract as an account
  Zero,              \* zero_address()
  FeeTaker,          \* the account fees may be sent to
  One,
  MinimumLiquidity,  \* expand_to_token_decimals(MINIMUM_LIQUIDITY)
  Endowments,        \* asset -> what every user may have of it at first
  DepositAmounts, TransferAmounts, SwapAmounts

PairAccounts == Users \union {This, Zero, FeeTaker}

ASSUME AmmAssumption ==
  /\ IsFiniteSet(Pairs) /\ IsFiniteSet(Users)
  /\ Pairs \subseteq {p \in Assets \X Assets : p[1] # p[2]}
  /\ {One, MinimumLiquidity} \subseteq Nat \ {0}
  /\ Endowments \subseteq [Assets -> Nat]
  /\ UNION {DepositAmounts, TransferAmounts, SwapAmounts} \subseteq Int
  /\ Zero # This /\ Zero # FeeTaker /\ FeeTaker # This
  /\ Users \intersect {This, Zero, FeeTaker} = {}

VARIABLES
  held,       \* asset -> account -> amount: the token contracts
  recorded,   \* asset -> pairs[asset, 'balance'], -1 for None
  created,    \* pairs[tau, token] is not None
  reserves,   \* pair -> <<tau_reserve, token_reserve>>
  supply,     \* pair -> lp_token_supply
  lp,         \* pair -> account -> lp_token_balance
  kLast,      \* pair -> kLast
  feeTo       \* dex.fee_to

dexVars == <<held, recorded, created, reserves, supply, lp, kLast, feeTo>>

DexInit ==
  /\ \E e \in Endowments :
       held = [x \in Assets |-> [a \in PairAccounts |-> IF a \in Users THEN e[x] ELSE 0]]
  /\ recorded = [x \in Assets |-> -1]
  /\ created = {}
  /\ reserves = [p \in Pairs |-> <<0, 0>>]
  /\ supply = [p \in Pairs |-> 0]
  /\ lp = [p \in Pairs |-> [a \in PairAccounts |-> 0]]
  /\ kLast = [p \in Pairs |-> 0]
  /\ feeTo = Zero

\* The loop of sqrt on a product k of two amounts, from z on.
Babylon(k, z0) ==
  LET root[z \in 1 .. z0] ==
        LET x == (k \div z + z) \div 2 IN IF x < z /\ x > 0 THEN root[x] ELSE z
  IN  root[z0]

\* sqrt: up to 3.0 the loop is skipped and the answer is 1.0.  Of nothing it
\* fails, which callers rule out.
sqrt(k) ==
  IF k > 3 * One * One THEN Babylon(k, (k \div One) \div 2 + One) ELSE One

\* held after a transfer between two different accounts.
Paid(h, x, from, to, amount) ==
  [h EXCEPT ![x][from] = @ - amount, ![x][to] = @ + amount]

\* The calls of dex.py: create_pair is the only caller of initialize.
create_pair(p) ==
  /\ p \notin created
  /\ created' = created \union {p}
  /\ recorded' = [x \in Assets |->
       IF x \in {p[1], p[2]} /\ recorded[x] = -1 THEN held[x][This] ELSE recorded[x]]
  /\ UNCHANGED <<held, reserves, supply, lp, kLast, feeTo>>

set_fee_to(account) ==
  /\ feeTo' = account
  /\ UNCHANGED <<held, recorded, created, reserves, supply, lp, kLast>>

\* Somebody's transfer of x to the pair contract.
deposit(u, x, amount) ==
  /\ amount > 0
  /\ held[x][u] >= amount
  /\ held' = Paid(held, x, u, This, amount)
  /\ UNCHANGED <<recorded, created, reserves, supply, lp, kLast, feeTo>>

\* The contract's transfer, of LP tokens.
transfer_lp(u, p, amount, to) ==
  /\ p \in created
  /\ CanTransfer(lp[p], u, amount)
  /\ lp' = [lp EXCEPT ![p] = Move(@, u, to, amount)]
  /\ UNCHANGED <<held, recorded, created, reserves, supply, kLast, feeTo>>

\* Slip: the factor 5 is missing.
Denominator_noFactor(rootK, rootKLast) == rootK + rootKLast

\* What an operation on p finds of asset x beyond what was recorded.
Unclaimed(x) == held[x][This] - recorded[x]

Denominator(rootK, rootKLast) == rootK * 5 + rootKLast

\* The LP tokens mint_fee mints: a share of the growth since kLast.
Fee(p) ==
  LET rootK == sqrt(reserves[p][1] * reserves[p][2])
      rootKLast == sqrt(kLast[p])
  IN  IF feeTo # Zero /\ kLast[p] # 0 /\ rootK > rootKLast
        THEN (supply[p] * (rootK - rootKLast)) \div Denominator(rootK, rootKLast)
        ELSE 0

\* mint_fee takes a root only when fees are on and there is a kLast.
CanTakeRoot(p) ==
  feeTo # Zero /\ kLast[p] # 0 => reserves[p][1] > 0 /\ reserves[p][2] > 0

\* lp balances of p after mint_lp_tokens and burn_lp_tokens.
Minted(balances, to, amount) == [balances EXCEPT ![to] = @ + amount]
Burnt(balances, from, amount) == [balances EXCEPT ![from] = @ - amount]

\* Slip: only the first asset's balance is recorded.
Settle_firstOnly(p, h, newReserves) ==
  /\ held' = h
  /\ recorded' = [recorded EXCEPT ![p[1]] = h[p[1]][This]]
  /\ reserves' = [reserves EXCEPT ![p] = newReserves]
  /\ kLast' = [kLast EXCEPT ![p] = newReserves[1] * newReserves[2]]

\* update, and kLast: fee_on holds the pair that mint_fee returns, which is
\* always true, so kLast is set whether fees are on or not.
Settle(p, h, newReserves) ==
  /\ held' = h
  /\ recorded' = [x \in Assets |-> IF x \in {p[1], p[2]} THEN h[x][This] ELSE recorded[x]]
  /\ reserves' = [reserves EXCEPT ![p] = newReserves]
  /\ kLast' = [kLast EXCEPT ![p] = newReserves[1] * newReserves[2]]

\* The liquidity that ta and tb add to a pool of which s shares are out.
Liquidity(p, ta, tb, s) ==
  IF s = 0 THEN sqrt(ta * tb) - MinimumLiquidity
  ELSE LET byTau == (ta * s) \div reserves[p][1]
           byToken == (tb * s) \div reserves[p][2]
       IN  IF byTau <= byToken THEN byTau ELSE byToken

mint_liquidity(p, to) ==
  LET ta == Unclaimed(p[1])
      tb == Unclaimed(p[2])
      s == supply[p] + Fee(p)
      liquidity == Liquidity(p, ta, tb, s)
      locked == IF s = 0 THEN MinimumLiquidity ELSE 0
  IN  /\ p \in created
      /\ ta > 0 /\ tb > 0
      /\ CanTakeRoot(p)
      /\ s > 0 => reserves[p][1] > 0 /\ reserves[p][2] > 0
      /\ liquidity > 0
      /\ supply' = [supply EXCEPT ![p] = s + locked + liquidity]
      /\ lp' = [lp EXCEPT ![p] =
                  Minted(Minted(Minted(@, feeTo, Fee(p)), Zero, locked), to, liquidity)]
      /\ Settle(p, held, <<reserves[p][1] + ta, reserves[p][2] + tb>>)
      /\ UNCHANGED <<created, feeTo>>

\* Slip: the payout is rounded up.
ProRata_up(n, amount, s) == (n * amount + s - 1) \div s

\* What burning n of s shares pays out of amount.
ProRata(n, amount, s) == (n * amount) \div s

burn_liquidity(p, to) ==
  LET balance(i) == reserves[p][i] + Unclaimed(p[i])
      burned == lp[p][This]
      s == supply[p] + Fee(p)
      out(i) == ProRata(burned, balance(i), s)
  IN  /\ p \in created
      /\ s > 0
      /\ CanTakeRoot(p)
      /\ out(1) > 0 /\ out(2) > 0
      /\ supply' = [supply EXCEPT ![p] = s - burned]
      /\ lp' = [lp EXCEPT ![p] = Burnt(Minted(@, feeTo, Fee(p)), This, burned)]
      /\ Settle(p, Paid(Paid(held, p[1], This, to, out(1)), p[2], This, to, out(2)),
                <<balance(1) - out(1), balance(2) - out(2)>>)
      /\ UNCHANGED <<created, feeTo>>

WithinReserves(p, tauOut, tokenOut) ==
  reserves[p][1] > tauOut /\ reserves[p][2] > tokenOut

\* swap: the check of the invariant K is commented out in the contract.
swap(p, tauOut, tokenOut, to) ==
  LET left == Paid(Paid(held, p[1], This, to, tauOut), p[2], This, to, tokenOut)
      balance1 == reserves[p][1] + left[p[1]][This] - recorded[p[1]]
      balance2 == reserves[p][2] + left[p[2]][This] - recorded[p[2]]
  IN  /\ p \in created
      /\ ~(tauOut > 0 /\ tokenOut > 0)
      /\ tauOut > 0 \/ tokenOut > 0
      /\ WithinReserves(p, tauOut, tokenOut)
      /\ balance1 > reserves[p][1] \/ balance2 > reserves[p][2]
      /\ held' = left
      /\ recorded' = [x \in Assets |-> IF x \in {p[1], p[2]} THEN left[x][This] ELSE recorded[x]]
      /\ reserves' = [reserves EXCEPT ![p] = <<balance1, balance2>>]
      /\ UNCHANGED <<created, supply, lp, kLast, feeTo>>

DexNext ==
  \/ \E p \in Pairs : create_pair(p)
  \/ \E a \in {Zero, FeeTaker} : set_fee_to(a)
  \/ \E u \in Users :
       \/ \E x \in Assets, n \in DepositAmounts : deposit(u, x, n)
       \/ \E p \in Pairs, n \in TransferAmounts, to \in Users \union {This} : transfer_lp(u, p, n, to)
       \/ \E p \in Pairs : mint_liquidity(p, u) \/ burn_liquidity(p, u)
       \/ \E p \in Pairs, n \in SwapAmounts : swap(p, n, 0, u) \/ swap(p, 0, n, u)

DexSpec == DexInit /\ [][DexNext]_dexVars

-----------------------------------------------------------------------------

DexTypeOK ==
  /\ held \in [Assets -> [PairAccounts -> Nat]]
  /\ recorded \in [Assets -> Nat \union {-1}]
  /\ created \subseteq Pairs
  /\ reserves \in [Pairs -> Nat \X Nat]
  /\ supply \in [Pairs -> Nat]
  /\ lp \in [Pairs -> [PairAccounts -> Nat]]
  /\ kLast \in [Pairs -> Nat]
  /\ feeTo \in {Zero, FeeTaker}

\* The LP tokens of a market are all in some account: minting, burning,
\* transfers and fees keep the recorded supply the sum of the balances.
SupplyIsHeld == \A p \in Pairs : supply[p] = Total(lp[p])

ReserveOf(p, x) == IF p[1] = x THEN reserves[p][1] ELSE IF p[2] = x THEN reserves[p][2] ELSE 0

\* Markets that share a token cannot claim the same coins twice: their
\* reserves together are within what was recorded, and that is there.
ReservesCovered ==
  \A x \in Assets :
    /\ Total([p \in Pairs |-> ReserveOf(p, x)]) <= IF recorded[x] = -1 THEN 0 ELSE recorded[x]
    /\ recorded[x] <= held[x][This]

\* Providing and removing liquidity rounds in favour of those who stay: no
\* step but a swap and a fee lowers what one share stands for.
SharesNotDiluted ==
  [][\A p \in Pairs : supply'[p] # supply[p] /\ supply[p] > 0 =>
       LET old == supply[p] + Fee(p) IN
         /\ reserves'[p][1] * old >= reserves[p][1] * supply'[p]
         /\ reserves'[p][2] * old >= reserves[p][2] * supply'[p]]_dexVars

\* The protocol's fee is at most a sixth of the growth of the pool.
FeeWithinGrowth ==
  \A p \in Pairs : Fee(p) > 0 =>
    LET rootK == sqrt(reserves[p][1] * reserves[p][2]) IN
      6 * rootK * Fee(p) <= (supply[p] + Fee(p)) * (rootK - sqrt(kLast[p]))
=============================================================================
