----------------------------- MODULE BasicToken -----------------------------
(***************************************************************************)
(* con_basic_token.py, the Lamden token standard LST001 that every token   *)
(* Rocketswap lists follows.  balances[owner] and balances[owner, spender] *)
(* share one Hash in the contract; here they are two functions.  A failed  *)
(* assert reverts the call, so the asserts are guards.                     *)
(***************************************************************************)
EXTENDS Integers, FiniteSetsExt

CONSTANTS
  Callers,       \* accounts that send transactions
  Holders,       \* accounts that only receive
  Deployer,
  Supply,        \* 100000000
  Amounts,       \* amounts of transfers
  Allowances,    \* amounts of approvals
  MetaValues,    \* names, symbols and logos
  None

ASSUME TokenAssumption ==
  /\ Deployer \in Callers
  /\ IsFiniteSet(Callers) /\ IsFiniteSet(Holders)
  /\ Supply \in Nat /\ Amounts \subseteq Int /\ Allowances \subseteq Int
  /\ None \notin MetaValues

Accounts == Callers \union Holders

VARIABLES
  balances,     \* account -> coins
  allowances,   \* owner, spender -> coins
  custodial,    \* owner, spender -> may always spend
  token_owner,
  logo,         \* kind of logo -> value or None
  names         \* "name", "symbol" -> value

vars == <<balances, allowances, custodial, token_owner, logo, names>>
meta == <<token_owner, logo, names>>

LogoKinds == {"url", "svg", "png"}

Init ==
  /\ balances = [a \in Accounts |-> IF a = Deployer THEN Supply ELSE 0]
  /\ allowances = [p \in Accounts \X Accounts |-> 0]
  /\ custodial = [p \in Accounts \X Accounts |-> FALSE]
  /\ token_owner = Deployer
  /\ logo = [k \in LogoKinds |-> None]
  /\ names \in [{"name", "symbol"} -> MetaValues]

\* Slip: the recipient's old balance is overwritten.
MoveCoins_overwrites(b, from, to, amount) ==
  [b EXCEPT ![from] = @ - amount, ![to] = amount]

\* balances[from] -= amount, then balances[to] += amount.
MoveCoins(b, from, to, amount) ==
  LET debited == [b EXCEPT ![from] = @ - amount]
  IN  [debited EXCEPT ![to] = @ + amount]

\* Slip: the balance is not looked at.
transfer_unchecked(caller, amount, to) ==
  /\ amount > 0
  /\ balances' = MoveCoins(balances, caller, to, amount)
  /\ UNCHANGED <<allowances, custodial, meta>>

transfer(caller, amount, to) ==
  /\ amount > 0
  /\ balances[caller] >= amount
  /\ balances' = MoveCoins(balances, caller, to, amount)
  /\ UNCHANGED <<allowances, custodial, meta>>

approve(caller, amount, to) ==
  /\ amount >= 0
  /\ allowances' = [allowances EXCEPT ![<<caller, to>>] = amount]
  /\ UNCHANGED <<balances, custodial, meta>>

always_approve(caller, to) ==
  /\ custodial' = [custodial EXCEPT ![<<caller, to>>] = TRUE]
  /\ UNCHANGED <<balances, allowances, meta>>

revoke_always_approve(caller, to) ==
  /\ custodial' = [custodial EXCEPT ![<<caller, to>>] = FALSE]
  /\ UNCHANGED <<balances, allowances, meta>>

\* The balances after the custodial branch of transfer_from.
ByCustody(caller, amount, to, main) ==
  IF custodial[<<main, caller>>] THEN MoveCoins(balances, main, to, amount) ELSE balances

CanSpend(caller, amount, main) == allowances[<<main, caller>>] >= amount

\* The second branch is not an else: with custody and an allowance both run.
\* With neither the call succeeds and does nothing.
transfer_from(caller, amount, to, main) ==
  /\ amount > 0
  /\ balances[main] >= amount
  /\ LET moved == ByCustody(caller, amount, to, main) IN
     IF CanSpend(caller, amount, main)
       THEN /\ balances' = MoveCoins(moved, main, to, amount)
            /\ allowances' = [allowances EXCEPT ![<<main, caller>>] = @ - amount]
       ELSE /\ balances' = moved
            /\ UNCHANGED allowances
  /\ UNCHANGED <<custodial, meta>>

set_logo(caller, kind, value) ==
  /\ caller = token_owner
  /\ logo' = [k \in LogoKinds |-> IF k = kind THEN value ELSE None]
  /\ UNCHANGED <<balances, allowances, custodial, token_owner, names>>

\* set_name and set_symbol.
set_name(caller, what, value) ==
  /\ caller = token_owner
  /\ names' = [names EXCEPT ![what] = value]
  /\ UNCHANGED <<balances, allowances, custodial, token_owner, logo>>

Next ==
  \E c \in Callers :
    \/ \E n \in Amounts, to \in Accounts :
         \/ transfer(c, n, to)
         \/ \E main \in Callers : transfer_from(c, n, to, main)
    \/ \E n \in Allowances, to \in Callers : approve(c, n, to)
    \/ \E to \in Callers : always_approve(c, to) \/ revoke_always_approve(c, to)
    \/ \E v \in MetaValues :
         \/ \E k \in LogoKinds : set_logo(c, k, v)
         \/ \E w \in {"name", "symbol"} : set_name(c, w, v)

Spec == Init /\ [][Next]_vars

TypeOK ==
  /\ balances \in [Accounts -> Int]
  /\ allowances \in [Accounts \X Accounts -> Nat]
  /\ custodial \in [Accounts \X Accounts -> BOOLEAN]
  /\ token_owner \in Callers
  /\ logo \in [LogoKinds -> MetaValues \union {None}]
  /\ names \in [{"name", "symbol"} -> MetaValues]

\* Whatever branches of transfer_from ran, coins only change hands.
SupplyConserved == MapThenSumSet(LAMBDA a : balances[a], Accounts) = Supply

\* A wallet shows one logo: the setters leave at most one kind of it.
OneLogo == \A j, k \in LogoKinds : logo[j] # None /\ logo[k] # None => j = k

\* An account is overdrawn only by a spender to whom it gave custody and an
\* allowance at once; either alone never spends more than there is.
OverdrawnOnlyByBoth ==
  [][\A a \in Accounts : balances'[a] < 0 /\ balances'[a] < balances[a] =>
       \E s \in Callers : custodial[<<a, s>>] /\ allowances'[<<a, s>>] < allowances[<<a, s>>]]_balances
=============================================================================
