-------------------------------- MODULE TxFlow --------------------------------
(***************************************************************************)
(* How the web client turns a press of a button into transactions, and how *)
(* the answers find their way back: the operations of wallet.service.ts    *)
(* with their approvals, the two wallets (a keystore whose transactions go *)
(* through the API's proxy, and the Lamden Wallet extension), the callbacks *)
(* ws.service.ts keeps by uid, and the dialogs that wait.  An operation is  *)
(* a chain of promises, and every await is a point where other operations   *)
(* of the same user, the wallet and the network take steps.                 *)
(*                                                                         *)
(* Amounts are abstracted to one: an operation spends one of every          *)
(* allowance it needs, an approval adds Big (the code approves 10^9).       *)
(* Stamps are compared with a balance that anything may change: enough or   *)
(* not is a choice each time.                                              *)
(***************************************************************************)
EXTENDS Naturals, FiniteSets

CONSTANTS Flows,      \* presses of a button, 1..N: the order they happen in
          Big,        \* what an approval adds to an allowance
          Starts,     \* allowances and wallets the user may start with
          Closed, Blank, \* a dialog that is shut, and one that does not wait
          MaxFaults      \* bound: presses that meet a fault

ASSUME FlowsAssumption == Flows \subseteq Nat
Keys == {"currency", "token", "stake"}
TankDialogs == {"fill", "empty"}
Dialogs == {"page", "stake", "remove", "withdraw"} \cup TankDialogs
Ids == Flows \X (Keys \cup {"main"})
Wallets == [keystore : {"none", "locked", "open"}, approved : BOOLEAN]

ASSUME AmountsAssumption ==
  /\ Big \in Nat \ {0} /\ MaxFaults \in Nat
  /\ Starts \subseteq [allowance : [Keys -> Nat], wallet : Wallets]

VARIABLES flow,      \* flow[f]: the promises of the operation press f started
          txs,       \* transactions handed to a wallet; "to" is the callback that
                     \* txCallbacks holds under the uid of this transaction
          allowance, \* allowance[k]: what the contract may take of the user's k
          wallet,    \* the keystore, and whether the extension is approved
          dialog,    \* dialog[d]: Closed, Blank, or the press it waits for
          hushed,    \* ghost: presses whose answer a fault has swallowed
          crossed    \* ghost: presses that share a uid with another
vars == <<flow, txs, allowance, wallet, dialog, hushed, crossed>>

Unused == [k \in Keys |-> "unused"]
Idle == [stage |-> "idle", in |-> "page", spends |-> {}, appr |-> Unused,
         loading |-> FALSE, told |-> "none"]

Init ==
  /\ flow = [f \in Flows |-> Idle]
  /\ txs = {}
  /\ \E s \in Starts : allowance = s.allowance /\ wallet = s.wallet
  /\ dialog = [d \in Dialogs |-> Closed]
  /\ hushed = {} /\ crossed = {}

(***************************************************************************)
(* The operations: the allowances each spends, and whether its stamps are  *)
(* estimated before anything is sent.                                      *)
(***************************************************************************)
createMarket     == [spends |-> {"currency", "token"}, estimates |-> TRUE]
addLiquidity     == [spends |-> {"currency", "token"}, estimates |-> TRUE]
removeLiquidity  == [spends |-> {}, estimates |-> FALSE]
swapBuy          == [spends |-> {"currency"}, estimates |-> TRUE]
swapSell         == [spends |-> {"token"}, estimates |-> TRUE]
stakeTokens      == [spends |-> {"stake"}, estimates |-> TRUE]
removeStake      == [spends |-> {}, estimates |-> TRUE]
withdrawStake    == [spends |-> {}, estimates |-> TRUE]
stakeTokensInAMM == [spends |-> {"token"}, estimates |-> TRUE]

(***************************************************************************)
(* The dialogs.                                                            *)
(***************************************************************************)
\* A click beside the dialog, or on its cross.
Close(d) ==
  /\ dialog[d] # Closed
  /\ dialog' = [dialog EXCEPT ![d] = Closed]
  /\ UNCHANGED <<flow, txs, allowance, wallet, hushed, crossed>>

\* A page closes the dialog that is open, whoever opened it; a panel hands out
\* its toggle, which opens the dialog again when the user has closed it.
ClosedBySuccess(d) ==
  IF d = "page" \/ dialog[d] # Closed THEN Closed ELSE Blank

\* The user opens the dialog, unless it is there, and presses its button: it
\* shows "loading" and the operation's promise runs.
Press(d, op) ==
  \E f \in Flows :
    /\ flow[f].stage = "idle" /\ \A g \in Flows : g < f => flow[g].stage # "idle"
    /\ dialog[d] = Blank \/ \A e \in Dialogs : dialog[e] = Closed
    /\ dialog' = [dialog EXCEPT ![d] = f]
    /\ flow' = [flow EXCEPT ![f] =
         [Idle EXCEPT !.stage = IF op.estimates THEN "needs" ELSE "send",
                      !.in = d, !.spends = op.spends, !.loading = TRUE]]
    /\ UNCHANGED <<txs, allowance, wallet, hushed, crossed>>

ConfirmCreate        == Press("page", createMarket)
ConfirmAdd           == Press("page", addLiquidity)
ConfirmRemove        == Press("page", removeLiquidity)
ConfirmSwap          == Press("page", swapBuy) \/ Press("page", swapSell)
ConfirmStakingToken  == Press("stake", stakeTokens)
ConfirmRemoveStake   == Press("remove", removeStake)
ConfirmWithdrawStake == Press("withdraw", withdrawStake)
ConfirmFillTank      == Press("fill", stakeTokensInAMM)
ConfirmEmptyTank     == Press("empty", stakeTokensInAMM)

(***************************************************************************)
(* What the callbacks do.                                                  *)
(***************************************************************************)
Over(f, told) == [flow EXCEPT ![f] = [@ EXCEPT !.stage = "over", !.appr = Unused,
                                               !.loading = FALSE, !.told = told]]
\* The dialog is there still, and takes another press.
finish(f, told) ==
  /\ flow' = Over(f, told)
  /\ dialog' = [d \in Dialogs |-> IF dialog[d] = f THEN Blank ELSE dialog[d]]

Fail(f) == finish(f, "error")

Succeed(f) ==
  /\ flow' = Over(f, "success")
  /\ dialog' = [dialog EXCEPT ![flow[f].in] = ClosedBySuccess(flow[f].in)]

\* A failed transaction is reported; one that is pending is not.
\* Slip: the status of the result is not looked at.
txResultBlind(f, says) ==
  CASE says \in {"ok", "failed", "short"} -> Succeed(f)
    [] OTHER -> UNCHANGED <<flow, dialog>>

txResult(f, says) ==
  CASE says = "ok" -> Succeed(f)
    [] says \in {"failed", "short"} -> Fail(f)
    [] OTHER -> UNCHANGED <<flow, dialog>>

\* An approval's promise settles once; all but a success is a refusal.
callApprove(f, k, says) ==
  /\ flow' = IF flow[f].appr[k] # "wait" THEN flow
             ELSE [flow EXCEPT ![f].appr[k] = IF says = "ok" THEN "yes" ELSE "no"]
  /\ UNCHANGED dialog

Call(id, says) ==
  IF id[2] = "main" THEN txResult(id[1], says) ELSE callApprove(id[1], id[2], says)

(***************************************************************************)
(* The operation's promises.                                               *)
(***************************************************************************)
\* A fault after which nobody answers the press.
Hush(who) == hushed' = hushed \cup who
Fault == Cardinality(hushed \cup crossed) < MaxFaults

needsApproval(k) == allowance[k] < 1

\* Without the explorer the operation's promise is rejected.  The panels catch
\* it; on a page nobody does, and the dialog waits on.
ReadNeedsFails(f) ==
  /\ flow[f].stage = "needs" /\ flow[f].spends # {}
  /\ IF flow[f].in = "page"
     THEN Fault /\ Hush({f}) /\ flow' = [flow EXCEPT ![f].stage = "over"] /\ UNCHANGED dialog
     ELSE finish(f, "none") /\ UNCHANGED hushed
  /\ UNCHANGED <<txs, allowance, wallet, crossed>>

\* The allowances are read to know which stamps to ask for, nothing more.
userHasSufficientStamps(f) ==
  /\ flow[f].stage = "needs"
  /\ \/ /\ flow' = [flow EXCEPT ![f].stage = IF flow[f].spends = {} THEN "send" ELSE "approve",
                                ![f].appr = [k \in Keys |->
                                   IF k \in flow[f].spends THEN "check" ELSE "unused"]]
        /\ UNCHANGED dialog
     \/ Fail(f)
  /\ UNCHANGED <<txs, allowance, wallet, hushed, crossed>>

\* A keystore that is still locked throws before the extension is asked.
Ways == IF wallet.keystore = "locked" THEN {}
        ELSE (IF wallet.keystore = "open" THEN {"proxy"} ELSE {})
             \cup (IF wallet.approved THEN {"lwc"} ELSE {})

sendTransaction(f, slot) ==
  /\ txs' = txs \cup {[of |-> f, slot |-> slot, via |-> w, to |-> <<f, slot>>, says |-> "none",
                       at |-> IF w = "proxy" THEN "nonce" ELSE "chain"] : w \in Ways}
  /\ IF Ways = {} THEN Hush({f}) ELSE UNCHANGED hushed

\* callApprove reads the allowance again, and sends an approval if it is short.
\* Without the explorer, or without the stamps for the approval, nobody is told
\* and the promise never settles.
approveBN(f, k) ==
  /\ flow[f].appr[k] = "check"
  /\ \/ /\ ~needsApproval(k) /\ UNCHANGED <<txs, hushed>>
        /\ flow' = [flow EXCEPT ![f].appr[k] = "yes"]
     \/ /\ needsApproval(k) /\ sendTransaction(f, k)
        /\ flow' = [flow EXCEPT ![f].appr[k] = "wait"]
     \/ /\ Fault /\ Hush({f}) /\ UNCHANGED txs
        /\ flow' = [flow EXCEPT ![f].appr[k] = "lost"]
  /\ UNCHANGED <<allowance, wallet, dialog, crossed>>

\* Slip: some approval is taken for every approval.
AllApprovedSome(f) == \E k \in flow[f].spends : flow[f].appr[k] = "yes"
AllApproved(f) == \A k \in flow[f].spends : flow[f].appr[k] = "yes"

Approvals(f) ==
  /\ flow[f].stage = "approve"
  /\ \A k \in flow[f].spends : flow[f].appr[k] \in {"yes", "no"}

\* Slip: a refused approval ends the operation without a word.
ApprovalsSettledQuiet(f) ==
  /\ Approvals(f)
  /\ flow' = [flow EXCEPT ![f].stage = IF AllApproved(f) THEN "send" ELSE "over", ![f].appr = Unused]
  /\ UNCHANGED <<txs, allowance, wallet, dialog, hushed, crossed>>

ApprovalsSettled(f) ==
  /\ Approvals(f)
  /\ IF AllApproved(f) THEN /\ flow' = [flow EXCEPT ![f].stage = "send", ![f].appr = Unused]
                           /\ UNCHANGED dialog
     ELSE Fail(f)
  /\ UNCHANGED <<txs, allowance, wallet, hushed, crossed>>

SendMain(f) ==
  /\ flow[f].stage = "send"
  /\ \/ /\ sendTransaction(f, "main")
        /\ flow' = [flow EXCEPT ![f].stage = "sent"] /\ UNCHANGED dialog
     \/ Fail(f) /\ UNCHANGED <<txs, hushed>>
  /\ UNCHANGED <<allowance, wallet, crossed>>

(***************************************************************************)
(* A transaction on its way.                                               *)
(***************************************************************************)
Moved(t, u) == txs' = (txs \ {t}) \cup {u}

\* An operation that is over stays for the properties; an approval is forgotten.
Ended(t) == txs' = (txs \ {t}) \cup
  (IF t.slot = "main" THEN {[t EXCEPT !.at = "done", !.to = <<t.of, t.slot>>]} ELSE {})

\* The nonce has come: the transaction is signed, its uid is the time of day to
\* the millisecond, and the socket carries it to the API.  Two signed in the
\* same millisecond share the uid, and the later callback replaces the earlier.
Sign(t) ==
  /\ t.at = "nonce" /\ wallet.keystore = "open"
  /\ Moved(t, [t EXCEPT !.at = "chain"])
  /\ UNCHANGED <<flow, allowance, wallet, dialog, hushed, crossed>>

SignSameMillisecond(t, u) ==
  /\ t.at = "nonce" /\ wallet.keystore = "open"
  /\ Fault /\ u.via = "proxy" /\ u.at = "chain"
  /\ txs' = {IF v = t THEN [t EXCEPT !.at = "chain"]
             ELSE IF v.via = "proxy" /\ v.at \in {"chain", "ran"} /\ v.to = u.to
             THEN [v EXCEPT !.to = t.to] ELSE v : v \in txs}
  /\ crossed' = crossed \cup {t.of, u.to[1]}
  /\ UNCHANGED <<flow, allowance, wallet, dialog, hushed>>

\* No nonce, or no keystore left to sign with: nobody is told.
SignFails(t) ==
  /\ t.at = "nonce"
  /\ Fault \/ wallet.keystore # "open"
  /\ Ended(t) /\ Hush({t.of})
  /\ UNCHANGED <<flow, allowance, wallet, dialog, crossed>>

\* The contracts: an approval adds to the allowance, an operation needs all it
\* spends and may fail for other reasons; the extension's user may cancel.
Execute(t) ==
  /\ t.at = "chain"
  /\ \/ /\ t.slot # "main"
        /\ allowance' = [allowance EXCEPT ![t.slot] = @ + Big]
        /\ Moved(t, [t EXCEPT !.at = "ran", !.says = "ok"])
     \/ /\ t.slot = "main" /\ \A k \in flow[t.of].spends : allowance[k] >= 1
        /\ allowance' = [k \in Keys |->
             IF k \in flow[t.of].spends THEN allowance[k] - 1 ELSE allowance[k]]
        /\ Moved(t, [t EXCEPT !.at = "ran", !.says = "ok"])
     \/ /\ t.slot = "main" /\ \E k \in flow[t.of].spends : allowance[k] < 1
        /\ Moved(t, [t EXCEPT !.at = "ran", !.says = "short"])
        /\ UNCHANGED allowance
     \/ /\ Moved(t, [t EXCEPT !.at = "ran", !.says = "failed"])
        /\ UNCHANGED allowance
  /\ UNCHANGED <<flow, wallet, dialog, hushed, crossed>>

\* The API sends what it knows of the transaction under its uid.
handleProxyTxnResponse(t) ==
  /\ t.at = "ran"
  /\ Call(t.to, t.says)
  /\ Ended(t)
  /\ UNCHANGED <<allowance, wallet, hushed, crossed>>

\* ... and may send it while the result is still out: pending.
PendingResponse(t) ==
  /\ t.at = "chain" /\ t.via = "proxy"
  /\ Call(t.to, "pending")
  /\ UNCHANGED <<txs, allowance, wallet, hushed, crossed>>

\* An error of the API carries no uid, so that the client finds no callback;
\* a socket that is gone carries nothing.
NoResponse(t) ==
  /\ t.at \in {"chain", "ran"} /\ t.via = "proxy"
  /\ Fault /\ Ended(t) /\ Hush({t.to[1], t.of})
  /\ UNCHANGED <<flow, allowance, wallet, dialog, crossed>>

Step(f) ==
  \/ userHasSufficientStamps(f) \/ ApprovalsSettled(f) \/ SendMain(f)
  \/ \E k \in Keys : approveBN(f, k)
Travel(f) ==
  \E t \in txs : t.of = f /\ (Sign(t) \/ SignFails(t) \/ Execute(t) \/ handleProxyTxnResponse(t))

Next ==
  \/ \E d \in Dialogs : Close(d)
  \/ ConfirmCreate \/ ConfirmAdd \/ ConfirmRemove \/ ConfirmSwap
  \/ ConfirmStakingToken \/ ConfirmRemoveStake \/ ConfirmWithdrawStake
  \/ ConfirmFillTank \/ ConfirmEmptyTank
  \/ \E f \in Flows : ReadNeedsFails(f) \/ Step(f) \/ Travel(f)
  \/ \E t, u \in txs : SignSameMillisecond(t, u)
  \/ \E t \in txs : PendingResponse(t) \/ NoResponse(t)

\* Promises settle and the chain moves; the user and the faults are free.
Spec == Init /\ [][Next]_vars /\ \A f \in Flows : WF_vars(Step(f)) /\ WF_vars(Travel(f))

(***************************************************************************)
(* Properties.                                                             *)
(***************************************************************************)
TypeOK ==
  /\ \A f \in Flows :
       /\ flow[f].stage \in {"idle", "needs", "approve", "send", "sent", "over"}
       /\ flow[f].appr \in [Keys -> {"unused", "check", "wait", "yes", "no", "lost"}]
       /\ flow[f].told \in {"none", "success", "error"} /\ flow[f].spends \subseteq Keys
  /\ \A t \in txs :
       /\ <<t.of, t.slot>> \in Ids /\ t.to \in Ids /\ t.via \in {"proxy", "lwc"}
       /\ t.at \in {"nonce", "chain", "ran", "done"}
       /\ t.says \in {"none", "ok", "failed", "short"}
  /\ allowance \in [Keys -> Nat] /\ wallet \in Wallets
  /\ dialog \in [Dialogs -> Flows \cup {Closed, Blank}]
  /\ hushed \subseteq Flows /\ crossed \subseteq Flows

Ran(f) == \E t \in txs : t.of = f /\ t.slot = "main" /\ t.says = "ok"
Refused(f) == \E t \in txs : t.of = f /\ t.slot = "main" /\ t.says \in {"failed", "short"}

\* What the user is told is what happened, whatever was refused, pending or
\* answered late.  A success means that the chain has carried the operation out;
\* after an error it has not, so that pressing again does not do it twice, unless
\* both wallets are there and one of the two transactions was refused: the code
\* sends through each wallet, and hears of each.
\* Operations whose transactions shared a uid with another's are left out.
AnswerIsReal ==
  \A f \in Flows \ crossed :
    /\ flow[f].told = "success" => Ran(f)
    /\ flow[f].told = "error" /\ Ran(f) =>
         wallet.keystore = "open" /\ wallet.approved /\ Refused(f)

\* The contract refuses a transaction for its allowance only when another of the
\* same user has spent that allowance since it was read, be it that of the same
\* operation in the other wallet: the approvals are all in place before either is
\* sent.
ShortOnlyIfOvertaken ==
  \A t \in txs : t.says = "short" /\ t.of \notin crossed =>
    \E u \in txs : u # t /\ u.slot = "main" /\ u.says = "ok"
                  /\ flow[u.of].spends \cap flow[t.of].spends # {}

\* A dialog that waits is told in the end, or stops waiting, unless one of the
\* silent faults has swallowed the answer.
Answered ==
  \A f \in Flows : flow[f].loading ~> (~flow[f].loading \/ f \in hushed \cup crossed)
==============================================================================
