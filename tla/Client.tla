--------------------------------- MODULE Client ---------------------------------
(***************************************************************************)
(* The web client: its session and its trading forms, in one page of the   *)
(* browser.  The forms read the account, the balances and the discount the *)
(* session puts in the stores, and the input of the currency works out the *)
(* cost of the stamps once an account is there.                            *)
(***************************************************************************)
EXTENDS Session, TradeForm

CONSTANTS Budgets  \* bound: how often the user acts in the session and in the forms,
                   \* and how often somebody trades or an account pays meanwhile

VARIABLES acts     \* bound: what is left of that

clientVars == <<sessionVars, formVars, acts>>

ClientInit == SessionInit /\ FormInit /\ acts \in Budgets

\* An account that connects has the cost worked out.
SessionSeen ==
  /\ costKnown' = (costKnown \/ walletAddress' # None)
  /\ UNCHANGED <<market, pages, asked, amounts, buy, confirming, txOkay, settings, tradeFeed,
                 failures, chosen, contested, failed, late>>

\* Only what the browser keeps outlives a reload: the settings, and the address.
ReloadClient ==
  /\ Reload
  /\ pages' = <<[at |-> Page.at, contract |-> Page.contract, sel |-> NoToken, lp |-> NoLP]>>
  /\ asked' = IF Page.contract = None THEN <<>> ELSE <<Ask(1, Page.contract)>>
  /\ amounts' = [currency |-> Null, token |-> Null, lp |-> Null]
  /\ buy' = TRUE /\ confirming' = FALSE /\ txOkay' = TRUE /\ costKnown' = FALSE
  /\ tradeFeed' = None
  /\ chosen' = Page.contract /\ contested' = FALSE /\ failed' = FALSE /\ late' = FALSE
  /\ UNCHANGED <<market, settings, failures>>

ClientNext ==
  \/ /\ acts.session > 0
     /\ acts' = [acts EXCEPT !.session = @ - 1]
     /\ \/ SessionUser /\ SessionSeen
        \/ ReloadClient
  \/ /\ acts.form > 0
     /\ acts' = [acts EXCEPT !.form = @ - 1]
     /\ FormUser
     /\ UNCHANGED sessionVars
  \/ SessionWorld /\ SessionSeen /\ UNCHANGED acts
  \/ FormWorld /\ UNCHANGED <<sessionVars, acts>>
  \/ /\ acts.others > 0
     /\ acts' = [acts EXCEPT !.others = @ - 1]
     /\ \/ SessionOthers /\ SessionSeen
        \/ FormOthers /\ UNCHANGED sessionVars

ClientSpec == ClientInit /\ [][ClientNext]_clientVars
===============================================================================
