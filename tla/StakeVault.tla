----------------------------- MODULE StakeVault ----------------------------
(***************************************************************************)
(* What a staking contract promises about principal, whatever it does      *)
(* about yield: every user has a stake, the vault's recorded total is what *)
(* all users staked, a stake grows only by what its owner puts in, and the *)
(* only way out is to get all of it back at once.                          *)
(***************************************************************************)
EXTENDS Integers

CONSTANTS Users, StakeAmounts

VARIABLES stake,   \* user -> what the contract owes the user
          vault    \* the recorded total

vaultVars == <<stake, vault>>

VaultInit ==
  /\ stake = [u \in Users |-> 0]
  /\ vault = 0

PutIn(u, amount) ==
  /\ amount > 0
  /\ stake' = [stake EXCEPT ![u] = @ + amount]
  /\ vault' = vault + amount

TakeAll(u) ==
  /\ stake[u] > 0
  /\ stake' = [stake EXCEPT ![u] = 0]
  /\ vault' = vault - stake[u]

VaultNext ==
  \E u \in Users : TakeAll(u) \/ \E amount \in StakeAmounts : PutIn(u, amount)

VaultSpec == VaultInit /\ [][VaultNext]_vaultVars
=============================================================================
