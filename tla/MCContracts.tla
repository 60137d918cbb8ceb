------------------------------ MODULE MCContracts ------------------------------
(* The token, the wallet of several signers and the first AMM, which have  *)
(* nothing to do with each other: a behaviour is about one of them.        *)
EXTENDS BasicToken, Multisig, DexPairs, TLC

CONSTANTS a1, a2, h, m1,  \* of the token
          s1, s2, o,      \* of the wallet
          tau, tok, tok2, u1, zero, fee  \* of the AMM

(* Two markets that share an asset: coins for one of them only, in amounts *)
(* that leave a fee to round, or some for each.                            *)
SharedPairs == {<<tau, tok>>, <<tau, tok2>>}
Purses == {(tau :> 34 @@ tok :> 34 @@ tok2 :> 0), (tau :> 34 @@ tok :> 17 @@ tok2 :> 17)}

Renamings == Permutations(Signers)

VARIABLE contract

MCInit ==
  /\ Init /\ WalletInit /\ DexInit
  /\ contract \in {"token", "wallet", "dex"}
  /\ contract # "dex" => held[tok2][u1] = 0

MCNext ==
  /\ \/ contract = "token" /\ Next /\ UNCHANGED <<walletVars, dexVars>>
     \/ contract = "wallet" /\ WalletNext /\ UNCHANGED <<vars, dexVars>>
     \/ contract = "dex" /\ DexNext /\ UNCHANGED <<vars, walletVars>>
  /\ UNCHANGED contract

MCSpec == MCInit /\ [][MCNext]_<<vars, walletVars, dexVars, contract>>
===============================================================================
