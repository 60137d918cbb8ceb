------------------------------- MODULE Ledger ------------------------------
(***************************************************************************)
(* The calls of a token contract that other contracts make, on a ledger of *)
(* balances: the asserts of transfer and transfer_from as guards, the two  *)
(* assignments as Move.  A failed assert reverts the whole transaction, so *)
(* a caller conjoins the guard with its own.                               *)
(***************************************************************************)
EXTENDS Integers

\* balances[from] -= amount, then balances[to] += amount: a transfer to
\* oneself changes nothing.
Move(balances, from, to, amount) ==
  LET debited == [balances EXCEPT ![from] = @ - amount]
  IN  [debited EXCEPT ![to] = @ + amount]

\* The asserts of transfer.
CanTransfer(balances, from, amount) ==
  amount > 0 /\ balances[from] >= amount

\* The asserts of currency.transfer_from: approvals[from] is what from lets
\* the calling contract spend.
CanTransferFrom(balances, approvals, from, amount) ==
  /\ amount > 0
  /\ approvals[from] >= amount
  /\ balances[from] >= amount
=============================================================================
