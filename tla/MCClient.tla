-------------------------------- MODULE MCClient --------------------------------
(* Two markets with different prices, the second deeper; units of 1/100. *)
EXTENDS Client

CONSTANTS a, b,  \* tokens
          v, w   \* accounts

MCReserves(token, trades) ==
  IF token = a THEN [currency |-> 200 + 20 * trades, token |-> 400 - 30 * trades]
               ELSE [currency |-> 1000 + 50 * trades, token |-> 600 - 20 * trades]

MCBudgets == {[session |-> 0, form |-> 3, others |-> 1],
              [session |-> 1, form |-> 2, others |-> 0],
              [session |-> 4, form |-> 0, others |-> 1]}

(* Three scenes: the forms for a connected account, the session alone, and *)
(* the two together.  In the first the client may be opened at a page that *)
(* sends the user on, in all three at the swap page.                       *)
Elsewhere == IF market[a] = NoMarket THEN "add" ELSE "create"

MCInit ==
  /\ ClientInit /\ settings.tolerance = 49
  /\ acts.session = 0 => walletAddress # None
  /\ acts.session = 1 => walletAddress = None /\ Page.contract # None
  /\ acts.form = 0 =>
       /\ Page.contract = None /\ \A t \in Tokens : market[t] = 1
  /\ acts.form > 0 => market[b] = 1
  /\ Page.at # "swap" => acts.form = 3 /\ Page.contract = a /\ Page.at = Elsewhere

Renamings == Permutations(Accounts)

MCSpec == MCInit /\ [][ClientNext]_clientVars
===============================================================================
