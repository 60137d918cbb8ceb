------------------------------- MODULE MCTxFlow -------------------------------
(* The allowances and wallets TxFlow is checked with: a keystore, the          *)
(* extension, a keystore that is still locked beside the extension, and both.  *)
EXTENDS TxFlow

Start(c, t, s, keystore, approved) ==
  [allowance |-> [currency |-> c, token |-> t, stake |-> s],
   wallet |-> [keystore |-> keystore, approved |-> approved]]

MCStarts == {Start(0, 1, 0, "open", FALSE), Start(1, 1, 1, "none", TRUE),
             Start(0, 0, 0, "locked", TRUE), Start(0, 1, 1, "open", TRUE)}

\* Bound: with both wallets, where every transaction is there twice, either one
\* operation is pressed, or the two are sales and removals of the pages.
Small ==
  wallet.keystore = "open" /\ wallet.approved =>
    \/ \E f \in Flows : \A g \in Flows \ {f} : flow[g].stage = "idle"
    \/ \A f \in Flows : flow[f].in = "page" /\ flow[f].spends \subseteq {"token"}

MCNext == Next /\ Small'

MCSpec == Init /\ [][MCNext]_vars /\ \A f \in Flows : WF_vars(Step(f)) /\ WF_vars(Travel(f))
===============================================================================
