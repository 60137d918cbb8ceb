------------------------------ MODULE ClientStore ------------------------------
(***************************************************************************)
(* The stores of the web client that its session fills and its pages read  *)
(* (store.ts): who is connected, through which wallet, and what the        *)
(* account holds.  The extension is taken to be installed.                 *)
(***************************************************************************)
EXTENDS Integers

CONSTANTS Accounts,  \* verifying keys
          None       \* no account, no token, no answer

ASSUME NoneIsNobody == None \notin Accounts

VARIABLES lwc_info,      \* what the extension last told: address, approved, locked
          keystore,      \* account of the keystore that is open in this page
          tokenBalances, \* whose balances are listed, and how much of each asset
          ammFuelTank    \* whose discount on fees is applied

Nothing == [of |-> None, amount |-> 0]

\* The extension goes first.
walletAddress ==
  IF lwc_info.approved /\ lwc_info.walletAddress # None THEN lwc_info.walletAddress
                                                        ELSE keystore

walletIsReady ==
  \/ keystore # None
  \/ lwc_info.approved /\ ~lwc_info.locked /\ lwc_info.walletAddress # None

walletBalance == tokenBalances.amount
===============================================================================
