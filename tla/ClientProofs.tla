---------------------------- MODULE ClientProofs ----------------------------
(***************************************************************************)
(* Proofs about the client.  First TxFlow, for any number of presses and   *)
(* faults, any balances of allowance to start with, and one wallet or      *)
(* both: what the user is told, and why the contract refuses an operation. *)
(* A step is first summed up: what it may do to one operation (Moves), to  *)
(* one transaction (Comes, Kept) and to an allowance.  The invariants      *)
(* follow from the sums, without another look at the actions.              *)
(*                                                                         *)
(* Then Client, for any number of accounts, tokens, pages and questions:   *)
(* whose balances and token the session uses, on which token and market a  *)
(* page settles, and whether the market pays what the button sends.        *)
(***************************************************************************)
EXTENDS TxFlow, Client, SequenceTheorems, FiniteSetTheorems, TLAPS

-----------------------------------------------------------------------------
(* The inductive invariant *)

Stages == {"idle", "needs", "approve", "send", "sent", "over"}
Settlings == {"unused", "check", "wait", "yes", "no", "lost"}
FlowSet == [stage : Stages, in : Dialogs, spends : SUBSET Keys, appr : [Keys -> Settlings],
            loading : BOOLEAN, told : {"none", "success", "error"}]
TxSet == [of : Flows, slot : Keys \cup {"main"}, via : {"proxy", "lwc"}, to : Ids,
          says : {"none", "ok", "failed", "short"}, at : {"nonce", "chain", "ran", "done"}]

Typed ==
  /\ flow \in [Flows -> FlowSet] /\ txs \subseteq TxSet
  /\ allowance \in [Keys -> Nat] /\ wallet \in Wallets
  /\ dialog \in [Dialogs -> Flows \cup {Closed, Blank}]
  /\ hushed \subseteq Flows /\ crossed \subseteq Flows

\* A transaction holds its own operation's callback, or both share a uid with another.
Owned(t) == t.to = <<t.of, t.slot>> \/ (t.of \in crossed /\ t.to[1] \in crossed)

Marked(t) ==
  /\ Owned(t)
  /\ t.at = "nonce" => t.to = <<t.of, t.slot>>
  /\ t.at \in {"nonce", "chain"} => t.says = "none"
  /\ t.at = "ran" => t.says # "none"
  /\ t.says = "short" => t.slot = "main"
Marks == \A t \in txs : Marked(t)

\* Before an operation is sent there is no transaction of it, and before it is
\* pressed none at all, nor a callback.
Staged ==
  \A f \in Flows :
    /\ flow[f].stage \in {"idle", "needs", "approve", "send"} =>
         \A t \in txs : t.of = f => t.slot # "main"
    /\ flow[f].stage = "idle" => f \notin crossed /\ \A t \in txs : t.of # f
    /\ flow[f].stage # "approve" => flow[f].appr = Unused
    /\ flow[f].told # "none" => flow[f].stage = "over"

Both == wallet.keystore = "open" /\ wallet.approved

Single ==
  ~Both => \A t, u \in txs : t.slot = "main" /\ u.slot = "main" /\ t.of = u.of => t = u

ToldTrue ==
  \A f \in Flows \ crossed :
    /\ flow[f].told = "success" => Ran(f)
    /\ flow[f].told = "error" /\ ~Both =>
         \A t \in txs : t.of = f /\ t.slot = "main" => t.says \in {"failed", "short"}
    /\ flow[f].told = "error" /\ (\E t \in txs : t.of = f /\ t.slot = "main") => Refused(f)

\* An operation has spent allowance k.
Taken(k) == \E u \in txs : u.slot = "main" /\ u.says = "ok" /\ k \in flow[u.of].spends
Granted(k) == allowance[k] >= 1 \/ Taken(k)

\* Where an approval has been taken for given, there has been an allowance: it
\* is there still, or an operation has spent it.
Covered ==
  /\ \A t \in txs : t.slot # "main" /\ t.says = "ok" => Granted(t.slot)
  /\ \A t \in txs : t.slot = "main" /\ t.of \notin crossed =>
       \A k \in flow[t.of].spends : Granted(k)
  /\ \A f \in Flows \ crossed : \A k \in flow[f].spends :
       flow[f].appr[k] = "yes" \/ flow[f].stage \in {"send", "sent"} => Granted(k)

Overtaken ==
  \A t \in txs : t.says = "short" /\ t.of \notin crossed => \E k \in flow[t.of].spends : Taken(k)

IInv == Typed /\ Marks /\ Staged /\ Single /\ ToldTrue /\ Covered /\ Overtaken

-----------------------------------------------------------------------------
(* What a step does *)

\* ... to operation f.
Moves(f) ==
  LET p == flow[f]
      q == flow'[f]
  IN
  \/ q = p
  \/ /\ p.stage = "idle" /\ q.stage \in {"needs", "send"} /\ q.told = "none" /\ q.appr = Unused
     /\ q.stage = "send" => q.spends = {}
  \/ /\ p.stage # "idle" /\ q.spends = p.spends
     /\ \/ /\ p.stage = "needs" /\ q.stage = "over" /\ q.told = "none" /\ q.appr = Unused
        \/ /\ p.stage = "needs" /\ q.stage = "send" /\ q.told = "none" /\ q.appr = Unused
           /\ p.spends = {}
        \/ /\ p.stage = "needs" /\ q.stage = "approve" /\ q.told = "none"
           /\ \A k \in Keys : q.appr[k] # "yes"
        \/ /\ p.stage = "approve" /\ q.stage = "approve" /\ q.told = "none"
           /\ \A k \in Keys : q.appr[k] = "yes" =>
                \/ p.appr[k] = "yes" \/ allowance[k] >= 1
                \/ \E t \in txs : t.to = <<f, k>> /\ t.says = "ok"
        \/ /\ p.stage = "approve" /\ q.stage = "send" /\ q.told = "none" /\ q.appr = Unused
           /\ \A k \in p.spends : p.appr[k] = "yes"
        \/ /\ p.stage = "send" /\ q.stage = "sent" /\ q.told = "none" /\ q.appr = Unused
        \/ /\ p.stage \in {"needs", "approve", "send"} /\ txs' = txs
           /\ q.stage = "over" /\ q.told = "error" /\ q.appr = Unused
        \/ /\ q.stage = "over" /\ q.appr = Unused
           /\ \E t \in txs : /\ t.to = <<f, "main">> /\ t.at = "ran"
                             /\ \/ t.says = "ok" /\ q.told = "success"
                                \/ t.says \in {"failed", "short"} /\ q.told = "error"

\* ... to transaction w, which is there after it: it is new, or comes from one
\* that may have been carried out.
Born(w) ==
  /\ w.says = "none"
  /\ flow[w.of].stage # "idle"
  /\ w.slot = "main" => flow[w.of].stage = "send" /\ flow'[w.of].stage = "sent"
From(v, w) ==
  /\ w.of = v.of /\ w.slot = v.slot
  /\ \/ w.says = v.says
     \/ /\ v.says = "none" /\ v.at = "chain" /\ UNCHANGED flow
        /\ \/ w.says = "ok" /\ (w.slot # "main" => allowance'[w.slot] >= 1)
           \/ w.says = "short" /\ w.slot = "main" /\ \E k \in flow[w.of].spends : allowance[k] < 1
           \/ w.says = "failed"
Comes(w) == Born(w) \/ \E v \in txs : From(v, w)

\* ... and to one that was there before: an operation's is kept, with its result.
Kept(v) ==
  v.slot = "main" =>
    \E w \in txs' : w.of = v.of /\ w.slot = "main" /\ (v.says # "none" => w.says = v.says)

\* An allowance shrinks only where an operation has spent it.
Spent(k) ==
  allowance[k] >= 1 =>
    \/ allowance'[k] >= 1
    \/ \E w \in txs' : w.slot = "main" /\ w.says = "ok" /\ k \in flow[w.of].spends
                       /\ flow' = flow

Summary ==
  /\ \A f \in Flows : Moves(f)
  /\ \A w \in txs' : Comes(w)
  /\ \A v \in txs : Kept(v)
  /\ \A k \in Keys : Spent(k)
  /\ wallet' = wallet /\ crossed \subseteq crossed'

-----------------------------------------------------------------------------
(* The transactions after a step *)

\* At most one transaction of each operation.
Alone(S) == \A t, u \in S : t.slot = "main" /\ u.slot = "main" /\ t.of = u.of => t = u

\* What the lemmas of this section show of the transactions after a step.
TxsFollow ==
  /\ txs' \subseteq TxSet
  /\ Alone(txs) => Alone(txs')
  /\ \A w \in txs' : Comes(w)
  /\ \A v \in txs : Kept(v)

\* A transaction's slot is not mistaken for an approval's.
LEMMA SlotFacts ==
  /\ "main" \notin Keys
  /\ \A t \in TxSet : /\ t.of \in Flows /\ t.slot \in Keys \cup {"main"}
                      /\ t.to \in Flows \X (Keys \cup {"main"}) /\ t.to[1] \in Flows
                      /\ <<t.of, t.slot>> \in Ids
  BY DEF TxSet, Ids, Keys

\* No transaction is touched.
LEMMA TxsStay ==
  ASSUME Typed, UNCHANGED txs
  PROVE  TxsFollow
  <1>1. \A w \in txs' : From(w, w) /\ w \in txs
    BY DEF From
  <1>2. \A v \in txs : Kept(v)
    BY DEF Kept
  <1> QED  BY <1>1, <1>2 DEF TxsFollow, Typed, Comes, Alone

\* One transaction is replaced by one of the same operation, which comes from it.
LEMMA TxMoved ==
  ASSUME Typed, NEW t \in txs, NEW u \in TxSet, Moved(t, u), From(t, u)
  PROVE  TxsFollow
  <1>1. \A w \in txs' : w = u \/ (w \in txs /\ w # t)
    BY DEF Moved
  <1>2. \A w \in txs : w \in txs' \/ w = t
    BY DEF Moved
  <1>3. u \in txs' /\ u.of = t.of /\ u.slot = t.slot /\ (t.says # "none" => u.says = t.says)
    BY DEF Moved, From
  <1>4. txs' \subseteq TxSet
    BY <1>1 DEF Typed
  <1>5. Alone(txs) => Alone(txs')
    <2> SUFFICES ASSUME Alone(txs), NEW w \in txs', NEW x \in txs',
                        w.slot = "main", x.slot = "main", w.of = x.of
                 PROVE  w = x
      BY DEF Alone
    <2> QED  BY <1>1, <1>3 DEF Alone
  <1>6. ASSUME NEW w \in txs' PROVE Comes(w)
    <2>1. CASE w = u
      BY <2>1 DEF Comes
    <2>2. CASE w \in txs
      BY <2>2 DEF Comes, From
    <2> QED  BY <1>1, <2>1, <2>2
  <1>7. ASSUME NEW v \in txs PROVE Kept(v)
    BY <1>2, <1>3 DEF Kept
  <1> QED  BY <1>4, <1>5, <1>6, <1>7 DEF TxsFollow

\* One transaction has ended.
LEMMA TxEnded ==
  ASSUME Typed, Marks, NEW t \in txs, Ended(t), crossed \subseteq crossed'
  PROVE  TxsFollow /\ (\A w \in txs' : Marked(w) \/ w \in txs)
  <1> DEFINE done == [t EXCEPT !.at = "done", !.to = <<t.of, t.slot>>]
  <1>1. PICK u : u = done
    OBVIOUS
  <1>2. t \in TxSet
    BY DEF Typed
  <1>3. /\ u \in TxSet /\ u.of = t.of /\ u.slot = t.slot /\ u.says = t.says
        /\ u.to = <<u.of, u.slot>> /\ u.at = "done"
    BY <1>1, <1>2, SlotFacts DEF TxSet
  <1>4. From(t, u)
    BY <1>3 DEF From
  <1>5. Marked(u)
    BY <1>3 DEF Marks, Marked, Owned
  <1>6. CASE t.slot = "main"
    <2>1. Moved(t, u)
      BY <1>1, <1>6 DEF Ended, Moved
    <2>2. TxsFollow
      BY <1>3, <1>4, <2>1, TxMoved
    <2> QED  BY <1>5, <2>1, <2>2 DEF Moved
  <1>7. CASE t.slot # "main"
    <2>1. txs' = txs \ {t}
      BY <1>7 DEF Ended
    <2>2. \A w \in txs' : From(w, w) /\ w \in txs
      BY <2>1 DEF From
    <2>3. \A v \in txs : Kept(v)
      BY <1>7, <2>1 DEF Kept
    <2> QED  BY <2>1, <2>2, <2>3 DEF TxsFollow, Comes, Alone, Typed
  <1> QED  BY <1>6, <1>7

\* Only with both wallets is an operation sent twice.
LEMMA WaysFacts ==
  /\ Ways \subseteq {"proxy", "lwc"}
  /\ ~Both => \A v, w \in Ways : v = w
  <1>1. Ways \subseteq {"proxy", "lwc"}
    BY DEF Ways
  <1>2. ASSUME ~Both PROVE \A v, w \in Ways : v = w
    BY <1>2 DEF Ways, Both
  <1> QED  BY <1>1, <1>2

\* A transaction is handed to the wallets: as many as there are.
LEMMA TxSent ==
  ASSUME Typed, Staged, NEW f \in Flows, NEW slot \in Keys \cup {"main"},
         sendTransaction(f, slot), flow[f].stage # "idle",
         slot = "main" => flow[f].stage = "send" /\ flow'[f].stage = "sent"
  PROVE  /\ Both \/ TxsFollow
         /\ txs' \subseteq TxSet
         /\ \A w \in txs' : Comes(w)
         /\ \A v \in txs : Kept(v)
         /\ \A w \in txs' : Marked(w) \/ w \in txs
  <1> DEFINE tx(w) == [of |-> f, slot |-> slot, via |-> w, to |-> <<f, slot>>, says |-> "none",
                       at |-> IF w = "proxy" THEN "nonce" ELSE "chain"]
  <1>1. txs' = txs \cup {tx(w) : w \in Ways}
    BY DEF sendTransaction
  <1>2. ASSUME NEW w \in Ways
        PROVE  /\ tx(w) \in TxSet /\ tx(w).of = f /\ tx(w).slot = slot /\ tx(w).says = "none"
               /\ tx(w).at \in {"nonce", "chain"} /\ tx(w).to = <<f, slot>>
    BY WaysFacts DEF TxSet, Ids
  <1>3. ASSUME NEW x \in txs' PROVE x \in txs \/ \E w \in Ways : x = tx(w)
    BY <1>1
  <1> HIDE DEF tx
  <1>4. txs' \subseteq TxSet
    BY <1>2, <1>3 DEF Typed
  <1>5. ASSUME NEW x \in txs' PROVE Comes(x)
    <2>1. CASE x \in txs
      BY <2>1 DEF Comes, From
    <2>2. CASE x \notin txs
      BY <2>2, <1>2, <1>3 DEF Comes, Born
    <2> QED  BY <2>1, <2>2
  <1>6. ASSUME NEW v \in txs PROVE Kept(v)
    BY <1>1 DEF Kept
  <1>7. ASSUME NEW x \in txs' PROVE Marked(x) \/ x \in txs
    BY <1>2, <1>3 DEF Marked, Owned
  <1>8. ASSUME ~Both, Alone(txs) PROVE Alone(txs')
    <2> SUFFICES ASSUME NEW x \in txs', NEW y \in txs',
                        x.slot = "main", y.slot = "main", x.of = y.of
                 PROVE  x = y
      BY DEF Alone
    <2>1. CASE x \in txs /\ y \in txs
      BY <1>8, <2>1 DEF Alone
    <2>2. CASE x \notin txs /\ y \notin txs
      BY <1>3, <1>8, <2>2, WaysFacts
    <2>3. ASSUME NEW z \in txs, NEW w \in Ways, z.slot = "main", tx(w).slot = "main",
                 z.of = tx(w).of
          PROVE  FALSE
      BY <1>2, <2>3 DEF Staged
    <2> QED  BY <1>3, <2>1, <2>2, <2>3
  <1> QED  BY <1>4, <1>5, <1>6, <1>7, <1>8 DEF TxsFollow

\* Two are signed in the same millisecond.
LEMMA TxsCrossed ==
  ASSUME Typed, Marks, NEW t \in txs, NEW u \in txs, SignSameMillisecond(t, u)
  PROVE  TxsFollow /\ Marks'
  <1> DEFINE image(v) == IF v = t THEN [t EXCEPT !.at = "chain"]
                         ELSE IF v.via = "proxy" /\ v.at \in {"chain", "ran"} /\ v.to = u.to
                         THEN [v EXCEPT !.to = t.to] ELSE v
  <1>1. txs' = {image(v) : v \in txs}
    BY DEF SignSameMillisecond
  <1>2. /\ crossed' = crossed \cup {t.of, u.to[1]} /\ t.at = "nonce"
    BY DEF SignSameMillisecond
  <1>3. ASSUME NEW v \in txs
        PROVE  /\ image(v) \in TxSet /\ image(v).of = v.of /\ image(v).slot = v.slot
               /\ image(v).says = v.says
    BY DEF Typed, TxSet
  <1>4. ASSUME NEW v \in txs PROVE Marked(image(v))'
    <2>0. v \in TxSet /\ t \in TxSet
      BY DEF Typed
    <2>1. CASE v = t
      <3>1. /\ image(v).to = t.to /\ t.to = <<t.of, t.slot>> /\ image(v).at = "chain"
            /\ t.says = "none"
        BY <1>2, <2>0, <2>1 DEF TxSet, Marks, Marked
      <3> QED  BY <1>3, <2>1, <3>1 DEF Marked, Owned
    <2>2. CASE v # t /\ ~(v.via = "proxy" /\ v.at \in {"chain", "ran"} /\ v.to = u.to)
      BY <1>2, <2>2 DEF Marks, Marked, Owned
    <2>3. CASE v # t /\ v.via = "proxy" /\ v.at \in {"chain", "ran"} /\ v.to = u.to
      <3>1. /\ image(v).to = t.to /\ t.to = <<t.of, t.slot>> /\ image(v).at = v.at
        BY <1>2, <2>0, <2>3 DEF TxSet, Marks, Marked
      <3>2. v.of = u.to[1] \/ v.of \in crossed
        BY <2>3 DEF Marks, Marked, Owned
      <3> QED  BY <1>2, <1>3, <2>3, <3>1, <3>2 DEF Marks, Marked, Owned
    <2> QED  BY <2>1, <2>2, <2>3
  <1> HIDE DEF image
  <1>5. txs' \subseteq TxSet /\ Marks'
    BY <1>1, <1>3, <1>4 DEF Marks
  <1>6. Alone(txs) => Alone(txs')
    BY <1>1, <1>3 DEF Alone
  <1>7. ASSUME NEW w \in txs' PROVE Comes(w)
    BY <1>1, <1>3 DEF Comes, From
  <1>8. ASSUME NEW v \in txs PROVE Kept(v)
    <2>1. image(v) \in txs'
      BY <1>1
    <2> QED  BY <1>3, <2>1 DEF Kept
  <1> QED  BY <1>5, <1>6, <1>7, <1>8 DEF TxsFollow

-----------------------------------------------------------------------------
(* The operations after a step *)

FlowsFollow == flow' \in [Flows -> FlowSet] /\ \A f \in Flows : Moves(f)

\* The fields of an operation, one by one.
LEMMA FlowFacts ==
  ASSUME Typed, NEW f \in Flows
  PROVE  /\ flow[f] \in FlowSet /\ flow[f].stage \in Stages /\ flow[f].in \in Dialogs
         /\ flow[f].spends \subseteq Keys /\ flow[f].appr \in [Keys -> Settlings]
  BY DEF Typed, FlowSet

\* An operation at rest has asked for no approval.
LEMMA UnusedFacts ==
  /\ Unused \in [Keys -> Settlings] /\ \A k \in Keys : Unused[k] = "unused"
  /\ Idle \in FlowSet /\ Idle.told = "none" /\ Idle.appr = Unused
  BY DEF Unused, Settlings, Idle, FlowSet, Stages, Dialogs

\* A step that leaves the operations alone moves none.
LEMMA FlowsStay ==
  ASSUME Typed, UNCHANGED flow
  PROVE  FlowsFollow
  BY DEF FlowsFollow, Moves, Typed

\* One operation gets another record.
LEMMA FlowMoved ==
  ASSUME Typed, NEW f \in Flows, NEW q \in FlowSet, flow' = [flow EXCEPT ![f] = q], Moves(f)
  PROVE  FlowsFollow
  <1>1. flow' \in [Flows -> FlowSet] /\ \A g \in Flows \ {f} : flow'[g] = flow[g]
    BY DEF Typed
  <1>2. ASSUME NEW g \in Flows, g # f PROVE Moves(g)
    BY <1>1, <1>2 DEF Moves
  <1> QED  BY <1>1, <1>2 DEF FlowsFollow

\* The record of an operation that is over.
LEMMA OverFacts ==
  ASSUME Typed, NEW f \in Flows, NEW told \in {"none", "success", "error"}
  PROVE  \E q \in FlowSet :
           /\ Over(f, told) = [flow EXCEPT ![f] = q]
           /\ Over(f, told)[f] = q
           /\ q.stage = "over" /\ q.appr = Unused /\ q.told = told /\ q.spends = flow[f].spends
  <1> DEFINE over == [flow[f] EXCEPT !.stage = "over", !.appr = Unused,
                                     !.loading = FALSE, !.told = told]
  <1>1. PICK q : q = over
    OBVIOUS
  <1>2. /\ q \in FlowSet /\ q.stage = "over" /\ q.appr = Unused /\ q.told = told
        /\ q.spends = flow[f].spends
    BY <1>1, FlowFacts, UnusedFacts DEF FlowSet, Stages
  <1>3. Over(f, told) = [flow EXCEPT ![f] = q]
    BY <1>1 DEF Over
  <1>4. Over(f, told)[f] = q
    BY <1>3 DEF Typed
  <1> QED  BY <1>2, <1>3, <1>4

\* The end of an operation leaves dialogs that are closed, blank or an operation's.
LEMMA DialogFacts ==
  ASSUME Typed, NEW f \in Flows
  PROVE  (\E told : finish(f, told)) \/ Succeed(f)
            => dialog' \in [Dialogs -> Flows \cup {Closed, Blank}]
  BY FlowFacts DEF finish, Succeed, ClosedBySuccess, Typed

\* The user has pressed a button.
LEMMA Pressed ==
  ASSUME Typed, Staged, NEW d \in Dialogs, NEW op, op.spends \subseteq Keys,
         op.estimates \/ op.spends = {}, Press(d, op)
  PROVE  FlowsFollow /\ dialog' \in [Dialogs -> Flows \cup {Closed, Blank}]
  <1>1. PICK f \in Flows :
          /\ flow[f].stage = "idle"
          /\ dialog' = [dialog EXCEPT ![d] = f]
          /\ flow' = [flow EXCEPT ![f] =
               [Idle EXCEPT !.stage = IF op.estimates THEN "needs" ELSE "send",
                            !.in = d, !.spends = op.spends, !.loading = TRUE]]
    BY DEF Press
  <1>2. PICK stage \in {"needs", "send"} :
          /\ stage = IF op.estimates THEN "needs" ELSE "send"
          /\ stage = "send" => op.spends = {}
    BY Zenon
  <1>3. PICK i \in FlowSet : i = Idle /\ i.told = "none" /\ i.appr = Unused
    BY UnusedFacts
  <1>4. PICK q : q = [i EXCEPT !.stage = stage, !.in = d, !.spends = op.spends, !.loading = TRUE]
    OBVIOUS
  <1>5. /\ q \in FlowSet /\ q.stage = stage /\ q.told = "none" /\ q.appr = Unused
        /\ q.spends = op.spends
    BY <1>3, <1>4 DEF FlowSet, Stages
  <1>6. flow' = [flow EXCEPT ![f] = q]
    BY <1>1, <1>2, <1>3, <1>4, Zenon
  <1>7. flow'[f] = q
    BY <1>6 DEF Typed
  <1>8. Moves(f)
    BY <1>1, <1>2, <1>5, <1>7 DEF Moves
  <1> QED  BY <1>1, <1>5, <1>6, <1>8, FlowMoved DEF Typed

\* An operation spends approvals of tokens there are.
LEMMA OperationFacts ==
  ASSUME NEW op \in {createMarket, addLiquidity, removeLiquidity, swapBuy, swapSell,
                     stakeTokens, removeStake, withdrawStake, stakeTokensInAMM}
  PROVE  op.spends \subseteq Keys /\ (op.estimates \/ op.spends = {})
  <1>1. CASE op = removeLiquidity
    BY <1>1 DEF removeLiquidity
  <1>2. CASE op # removeLiquidity
    <2>1. PICK spends \in SUBSET Keys : op = [spends |-> spends, estimates |-> TRUE]
      BY <1>2 DEF createMarket, addLiquidity, swapBuy, swapSell,
                  stakeTokens, removeStake, withdrawStake, stakeTokensInAMM, Keys
    <2>2. op.spends = spends
      BY <2>1
    <2>3. op.estimates
      BY <2>1
    <2> QED  BY <2>2, <2>3
  <1> QED  BY <1>1, <1>2

\* An operation that is not sent yet has failed.
LEMMA Failed ==
  ASSUME Typed, NEW f \in Flows, Fail(f), flow[f].stage \in {"needs", "approve", "send"},
         UNCHANGED txs
  PROVE  FlowsFollow /\ dialog' \in [Dialogs -> Flows \cup {Closed, Blank}]
  <1>1. PICK q \in FlowSet :
          /\ Over(f, "error") = [flow EXCEPT ![f] = q] /\ Over(f, "error")[f] = q
          /\ q.stage = "over" /\ q.appr = Unused /\ q.told = "error" /\ q.spends = flow[f].spends
    BY OverFacts
  <1>2. flow' = [flow EXCEPT ![f] = q] /\ flow'[f] = q
    BY <1>1 DEF Fail, finish
  <1>3. Moves(f)
    BY <1>1, <1>2 DEF Moves
  <1> QED  BY <1>2, <1>3, FlowMoved, DialogFacts DEF Fail

\* A callback of an approval: what it writes.
LEMMA ApproveCalled ==
  ASSUME Typed, Staged, NEW f \in Flows, NEW k \in Keys, NEW says, callApprove(f, k, says),
         says = "ok" => \E t \in txs : t.to = <<f, k>> /\ t.says = "ok"
  PROVE  FlowsFollow
  <1>1. CASE flow[f].appr[k] # "wait"
    BY <1>1, FlowsStay DEF callApprove
  <1>2. CASE flow[f].appr[k] = "wait"
    <2>1. PICK x \in Settlings : /\ x = (IF says = "ok" THEN "yes" ELSE "no")
                                 /\ x = "yes" => says = "ok"
      BY DEF Settlings
    <2>2. flow' = [flow EXCEPT ![f].appr[k] = x]
      BY <1>2, <2>1 DEF callApprove
    <2>3. PICK q : q = [flow[f] EXCEPT !.appr[k] = x]
      OBVIOUS
    <2>4. /\ q \in FlowSet /\ q.stage = flow[f].stage /\ q.told = flow[f].told
          /\ q.spends = flow[f].spends /\ q.appr = [flow[f].appr EXCEPT ![k] = x]
      BY <2>3, FlowFacts DEF FlowSet
    <2>5. flow' = [flow EXCEPT ![f] = q] /\ flow'[f] = q
      BY <2>2, <2>3 DEF Typed
    <2>6. flow[f].stage = "approve" /\ flow[f].told = "none"
      BY <1>2, UnusedFacts DEF Staged
    <2>7. \A j \in Keys : q.appr[j] = IF j = k THEN x ELSE flow[f].appr[j]
      BY <2>4, FlowFacts
    <2>8. Moves(f)
      BY ZenonT(60), <2>1, <2>4, <2>5, <2>6, <2>7 DEF Moves
    <2> QED  BY <2>4, <2>5, <2>8, FlowMoved
  <1> QED  BY <1>1, <1>2

\* A callback of the operation itself.
LEMMA ResultCalled ==
  ASSUME Typed, Staged, NEW f \in Flows, flow[f].stage # "idle", NEW says, txResult(f, says),
         says # "pending" => \E t \in txs : t.to = <<f, "main">> /\ t.at = "ran" /\ t.says = says
  PROVE  FlowsFollow /\ dialog' \in [Dialogs -> Flows \cup {Closed, Blank}]
  <1>1. CASE says = "ok"
    <2>1. Succeed(f)
      BY <1>1 DEF txResult
    <2>2. PICK q \in FlowSet :
          /\ Over(f, "success") = [flow EXCEPT ![f] = q] /\ Over(f, "success")[f] = q
          /\ q.stage = "over" /\ q.appr = Unused /\ q.told = "success"
          /\ q.spends = flow[f].spends
      BY OverFacts
    <2>3. flow' = [flow EXCEPT ![f] = q] /\ flow'[f] = q
      BY <2>1, <2>2 DEF Succeed
    <2>4. Moves(f)
      BY <1>1, <2>2, <2>3 DEF Moves
    <2> QED  BY <2>1, <2>3, <2>4, FlowMoved, DialogFacts
  <1>2. CASE says \in {"failed", "short"}
    <2>1. Fail(f)
      BY <1>2 DEF txResult
    <2>2. PICK q \in FlowSet :
          /\ Over(f, "error") = [flow EXCEPT ![f] = q] /\ Over(f, "error")[f] = q
          /\ q.stage = "over" /\ q.appr = Unused /\ q.told = "error"
          /\ q.spends = flow[f].spends
      BY OverFacts
    <2>3. flow' = [flow EXCEPT ![f] = q] /\ flow'[f] = q
      BY <2>1, <2>2 DEF Fail, finish
    <2>4. Moves(f)
      BY <1>2, <2>2, <2>3 DEF Moves
    <2> QED  BY <2>1, <2>3, <2>4, FlowMoved, DialogFacts DEF Fail
  <1>3. CASE says \notin {"ok", "failed", "short"}
    <2>1. UNCHANGED <<flow, dialog>>
      BY <1>3 DEF txResult
    <2> QED  BY <2>1, FlowsStay DEF Typed
  <1> QED  BY <1>1, <1>2, <1>3

\* The answer to a transaction reaches a callback.
LEMMA Called ==
  ASSUME Typed, Marks, Staged, NEW t \in txs, NEW says, Call(t.to, says),
         says = "pending" \/ (t.at = "ran" /\ says = t.says)
  PROVE  FlowsFollow /\ dialog' \in [Dialogs -> Flows \cup {Closed, Blank}]
  <1>1. t \in TxSet
    BY DEF Typed
  <1>2. PICK f \in Flows, slot \in Keys \cup {"main"} : t.to = <<f, slot>>
    <2>1. t.to \in Flows \X (Keys \cup {"main"})
      BY <1>1, SlotFacts
    <2>2. \A S, T : \A x \in S \X T : \E a \in S, b \in T : x = <<a, b>>
      OBVIOUS
    <2> QED  BY <2>1, <2>2
  <1>3. flow[f].stage # "idle"
    <2>1. t.of = f \/ f \in crossed
      <3>1. t.to[1] = f
        BY <1>2
      <3>2. <<t.of, t.slot>>[1] = t.of
        OBVIOUS
      <3> QED  BY <3>1, <3>2 DEF Marks, Marked, Owned
    <2> QED  BY <2>1 DEF Staged
  <1>4. CASE slot = "main"
    <2>1. txResult(f, says)
      BY <1>2, <1>4 DEF Call
    <2> QED  BY <1>2, <1>3, <1>4, <2>1, ResultCalled
  <1>5. CASE slot \in Keys
    <2>1. callApprove(f, slot, says)
      BY <1>2, <1>5, SlotFacts DEF Call
    <2>2. FlowsFollow
      BY <1>2, <1>5, <2>1, ApproveCalled
    <2> QED  BY <2>1, <2>2 DEF callApprove, Typed
  <1> QED  BY <1>4, <1>5

-----------------------------------------------------------------------------
(* The actions, one by one *)

Dialogued == dialog' \in [Dialogs -> Flows \cup {Closed, Blank}]

\* What every action is shown to do.
Sound == Typed' /\ Marks' /\ Single' /\ Summary

\* The parts of the summary of a step, put together.
LEMMA Assembled ==
  ASSUME Typed, Single, FlowsFollow, Dialogued, wallet' = wallet,
         txs' \subseteq TxSet, Both \/ (Alone(txs) => Alone(txs')),
         \A w \in txs' : Comes(w), \A v \in txs : Kept(v), Marks',
         allowance' \in [Keys -> Nat], \A k \in Keys : Spent(k),
         hushed' \subseteq Flows, crossed \subseteq crossed', crossed' \subseteq Flows
  PROVE  Sound
  <1>1. Typed'
    BY DEF Typed, FlowsFollow, Dialogued
  <1>2. Both' <=> Both
    BY DEF Both
  <1>3. Single'
    BY <1>2 DEF Single, Alone
  <1> QED  BY <1>1, <1>3 DEF Sound, Summary, FlowsFollow

\* Most steps leave the allowances, the wallet and the shared uids alone.
LEMMA Ordinary ==
  ASSUME Typed, Marks, Single, FlowsFollow, Dialogued, UNCHANGED <<allowance, wallet, crossed>>,
         TxsFollow, \A w \in txs' : Marked(w) \/ w \in txs, hushed' \subseteq Flows
  PROVE  Sound
  <1>1. Marks'
    BY DEF Marks, Marked, Owned
  <1>2. \A k \in Keys : Spent(k)
    BY DEF Spent
  <1>3. allowance' \in [Keys -> Nat] /\ crossed' \subseteq Flows
    BY DEF Typed
  <1>4. /\ txs' \subseteq TxSet /\ (Alone(txs) => Alone(txs'))
        /\ (\A w \in txs' : Comes(w)) /\ (\A v \in txs : Kept(v))
    BY DEF TxsFollow
  <1> QED  BY <1>1, <1>2, <1>3, <1>4, Assembled

\* A step that changes nothing.
LEMMA Stuttering ==
  ASSUME Typed, Marks, Single, UNCHANGED <<flow, txs, allowance, wallet, hushed, crossed>>, Dialogued
  PROVE  Sound
  BY FlowsStay, TxsStay, Ordinary DEF Typed

\* The summary of the press of a button.
LEMMA PressSound ==
  ASSUME Typed, Marks, Staged, Single, NEW d \in Dialogs,
         NEW op \in {createMarket, addLiquidity, removeLiquidity, swapBuy, swapSell,
                     stakeTokens, removeStake, withdrawStake, stakeTokensInAMM},
         Press(d, op)
  PROVE  Sound
  <1>1. FlowsFollow /\ Dialogued
    BY OperationFacts, Pressed DEF Dialogued
  <1>2. UNCHANGED <<txs, allowance, wallet, hushed, crossed>>
    BY DEF Press
  <1> QED  BY <1>1, <1>2, TxsStay, Ordinary DEF Typed

\* The summary of a failed read of what an operation needs.
LEMMA ReadNeedsFailsSound ==
  ASSUME Typed, Marks, Staged, Single, NEW f \in Flows, ReadNeedsFails(f)
  PROVE  Sound
  <1>1. flow[f].stage = "needs" /\ UNCHANGED <<txs, allowance, wallet, crossed>>
    BY DEF ReadNeedsFails
  <1>2. flow[f].appr = Unused /\ flow[f].told = "none"
    BY <1>1 DEF Staged
  <1>3. CASE flow[f].in = "page"
    <2>1. hushed' = hushed \cup {f} /\ flow' = [flow EXCEPT ![f].stage = "over"] /\ UNCHANGED dialog
      BY <1>3 DEF ReadNeedsFails, Hush
    <2>2. PICK q : q = [flow[f] EXCEPT !.stage = "over"]
      OBVIOUS
    <2>3. /\ q \in FlowSet /\ q.stage = "over" /\ q.appr = Unused /\ q.told = "none"
          /\ q.spends = flow[f].spends
      BY <1>2, <2>2, FlowFacts DEF FlowSet, Stages
    <2>4. flow' = [flow EXCEPT ![f] = q] /\ flow'[f] = q
      BY <2>1, <2>2 DEF Typed
    <2>5. Moves(f)
      BY <1>1, <2>3, <2>4 DEF Moves
    <2>6. FlowsFollow
      BY <2>3, <2>4, <2>5, FlowMoved
    <2> QED  BY <1>1, <2>1, <2>6, TxsStay, Ordinary DEF Typed, Dialogued
  <1>4. CASE flow[f].in # "page"
    <2>1. finish(f, "none") /\ UNCHANGED hushed
      BY <1>4 DEF ReadNeedsFails
    <2>2. PICK q \in FlowSet :
          /\ Over(f, "none") = [flow EXCEPT ![f] = q] /\ Over(f, "none")[f] = q
          /\ q.stage = "over" /\ q.appr = Unused /\ q.told = "none" /\ q.spends = flow[f].spends
      BY OverFacts
    <2>3. flow' = [flow EXCEPT ![f] = q] /\ flow'[f] = q
      BY <2>1, <2>2 DEF finish
    <2>4. Moves(f)
      BY <1>1, <2>2, <2>3 DEF Moves
    <2>5. FlowsFollow /\ Dialogued
      BY <2>1, <2>3, <2>4, FlowMoved, DialogFacts DEF Dialogued
    <2> QED  BY <1>1, <2>1, <2>5, TxsStay, Ordinary DEF Typed
  <1> QED  BY <1>3, <1>4

\* The summary of the check of the stamps.
LEMMA StampsSound ==
  ASSUME Typed, Marks, Staged, Single, NEW f \in Flows, userHasSufficientStamps(f)
  PROVE  Sound
  <1>1. flow[f].stage = "needs" /\ UNCHANGED <<txs, allowance, wallet, hushed, crossed>>
    BY DEF userHasSufficientStamps
  <1>2. CASE Fail(f)
    BY <1>1, <1>2, Failed, TxsStay, Ordinary DEF Typed, Dialogued
  <1>3. CASE ~Fail(f)
    <2> DEFINE appr == [k \in Keys |-> IF k \in flow[f].spends THEN "check" ELSE "unused"]
               stage == IF flow[f].spends = {} THEN "send" ELSE "approve"
    <2>1. UNCHANGED dialog /\ flow' = [flow EXCEPT ![f].stage = stage, ![f].appr = appr]
      BY <1>3 DEF userHasSufficientStamps
    <2>2. appr \in [Keys -> Settlings] /\ stage \in {"send", "approve"}
          /\ \A k \in Keys : appr[k] # "yes"
      BY DEF Settlings
    <2>3. stage = "send" => appr = Unused /\ flow[f].spends = {}
      BY DEF Unused
    <2> HIDE DEF appr, stage
    <2>4. PICK q : q = [flow[f] EXCEPT !.stage = stage, !.appr = appr]
      OBVIOUS
    <2>5. /\ q \in FlowSet /\ q.stage = stage /\ q.appr = appr /\ q.told = flow[f].told
          /\ q.spends = flow[f].spends
      BY <2>2, <2>4, FlowFacts DEF FlowSet, Stages
    <2>6. flow' = [flow EXCEPT ![f] = q] /\ flow'[f] = q
      BY <2>1, <2>4 DEF Typed
    <2>7. flow[f].told = "none"
      BY <1>1 DEF Staged
    <2>8. Moves(f)
      BY <1>1, <2>2, <2>3, <2>5, <2>6, <2>7 DEF Moves
    <2>9. FlowsFollow
      BY <2>5, <2>6, <2>8, FlowMoved
    <2> QED  BY <1>1, <2>1, <2>9, TxsStay, Ordinary DEF Typed, Dialogued
  <1> QED  BY <1>2, <1>3

\* The summary of an operation whose approvals are all settled.
LEMMA SettledSound ==
  ASSUME Typed, Marks, Staged, Single, NEW f \in Flows, ApprovalsSettled(f)
  PROVE  Sound
  <1>1. flow[f].stage = "approve" /\ UNCHANGED <<txs, allowance, wallet, hushed, crossed>>
    BY DEF ApprovalsSettled, Approvals
  <1>2. CASE ~AllApproved(f)
    <2>1. Fail(f)
      BY <1>2 DEF ApprovalsSettled
    <2> QED  BY <1>1, <2>1, Failed, TxsStay, Ordinary DEF Typed, Dialogued
  <1>3. CASE AllApproved(f)
    <2>1. UNCHANGED dialog /\ flow' = [flow EXCEPT ![f].stage = "send", ![f].appr = Unused]
      BY <1>3 DEF ApprovalsSettled
    <2>4. PICK q : q = [flow[f] EXCEPT !.stage = "send", !.appr = Unused]
      OBVIOUS
    <2>5. /\ q \in FlowSet /\ q.stage = "send" /\ q.appr = Unused /\ q.told = flow[f].told
          /\ q.spends = flow[f].spends
      BY <2>4, FlowFacts, UnusedFacts DEF FlowSet, Stages
    <2>6. flow' = [flow EXCEPT ![f] = q] /\ flow'[f] = q
      BY <2>1, <2>4 DEF Typed
    <2>7. flow[f].told = "none"
      BY <1>1 DEF Staged
    <2>8. Moves(f)
      BY <1>1, <1>3, <2>5, <2>6, <2>7 DEF Moves, AllApproved
    <2>9. FlowsFollow
      BY <2>5, <2>6, <2>8, FlowMoved
    <2> QED  BY <1>1, <2>1, <2>9, TxsStay, Ordinary DEF Typed, Dialogued
  <1> QED  BY <1>2, <1>3

\* A transaction has been sent, and its operation has moved on.
LEMMA SentSound ==
  ASSUME Typed, Marks, Staged, Single, NEW f \in Flows, NEW slot \in Keys \cup {"main"},
         sendTransaction(f, slot), flow[f].stage # "idle",
         slot = "main" => flow[f].stage = "send" /\ flow'[f].stage = "sent",
         FlowsFollow, UNCHANGED <<allowance, wallet, dialog, crossed>>
  PROVE  Sound
  <1>1. hushed' \subseteq Flows
    BY DEF sendTransaction, Hush, Typed
  <1>2. /\ Both \/ TxsFollow
        /\ txs' \subseteq TxSet
        /\ \A w \in txs' : Comes(w)
        /\ \A v \in txs : Kept(v)
        /\ \A w \in txs' : Marked(w) \/ w \in txs
    BY TxSent
  <1>3. Marks'
    BY <1>2 DEF Marks, Marked, Owned
  <1>4. \A k \in Keys : Spent(k)
    BY DEF Spent
  <1>5. Dialogued /\ allowance' \in [Keys -> Nat] /\ crossed' \subseteq Flows
    BY DEF Typed, Dialogued
  <1>6. Both \/ (Alone(txs) => Alone(txs'))
    BY <1>2 DEF TxsFollow
  <1> QED  BY <1>1, <1>2, <1>3, <1>4, <1>5, <1>6, Assembled

\* The summary of sending the operation itself.
LEMMA SendMainSound ==
  ASSUME Typed, Marks, Staged, Single, NEW f \in Flows, SendMain(f)
  PROVE  Sound
  <1>1. flow[f].stage = "send" /\ UNCHANGED <<allowance, wallet, crossed>>
    BY DEF SendMain
  <1>2. CASE Fail(f) /\ UNCHANGED <<txs, hushed>>
    BY <1>1, <1>2, Failed, TxsStay, Ordinary DEF Typed, Dialogued
  <1>3. CASE /\ sendTransaction(f, "main")
             /\ flow' = [flow EXCEPT ![f].stage = "sent"] /\ UNCHANGED dialog
    <2>1. PICK q : q = [flow[f] EXCEPT !.stage = "sent"]
      OBVIOUS
    <2>2. /\ q \in FlowSet /\ q.stage = "sent" /\ q.appr = flow[f].appr /\ q.told = flow[f].told
          /\ q.spends = flow[f].spends
      BY <2>1, FlowFacts DEF FlowSet, Stages
    <2>3. flow' = [flow EXCEPT ![f] = q] /\ flow'[f] = q
      BY <1>3, <2>1 DEF Typed
    <2>4. flow[f].told = "none" /\ flow[f].appr = Unused
      BY <1>1 DEF Staged
    <2>5. Moves(f)
      BY <1>1, <2>2, <2>3, <2>4 DEF Moves
    <2>6. FlowsFollow
      BY <2>2, <2>3, <2>5, FlowMoved
    <2> QED  BY <1>1, <1>3, <2>2, <2>3, <2>6, SentSound
  <1> QED  BY <1>2, <1>3 DEF SendMain

\* The summary of sending an approval.
LEMMA ApproveSound ==
  ASSUME Typed, Marks, Staged, Single, NEW f \in Flows, NEW k \in Keys, approveBN(f, k)
  PROVE  Sound
  <1>1. flow[f].appr[k] = "check" /\ UNCHANGED <<allowance, wallet, dialog, crossed>>
    BY DEF approveBN
  <1>2. flow[f].stage = "approve" /\ flow[f].told = "none"
    BY <1>1, UnusedFacts DEF Staged
  <1>3. ASSUME NEW x \in Settlings, flow' = [flow EXCEPT ![f].appr[k] = x],
               x = "yes" => allowance[k] >= 1
        PROVE  FlowsFollow
    <2>3. PICK q : q = [flow[f] EXCEPT !.appr[k] = x]
      OBVIOUS
    <2>4. /\ q \in FlowSet /\ q.stage = flow[f].stage /\ q.told = flow[f].told
          /\ q.spends = flow[f].spends /\ q.appr = [flow[f].appr EXCEPT ![k] = x]
      BY <2>3, FlowFacts DEF FlowSet
    <2>5. flow' = [flow EXCEPT ![f] = q] /\ flow'[f] = q
      BY <1>3, <2>3 DEF Typed
    <2>7. \A j \in Keys : q.appr[j] = IF j = k THEN x ELSE flow[f].appr[j]
      BY <2>4, FlowFacts
    <2>8. Moves(f)
      BY <1>2, <1>3, <2>4, <2>5, <2>7 DEF Moves
    <2> QED  BY <2>4, <2>5, <2>8, FlowMoved
  <1>4. "yes" \in Settlings /\ "wait" \in Settlings /\ "lost" \in Settlings
    BY DEF Settlings
  <1>5. CASE ~needsApproval(k) /\ UNCHANGED <<txs, hushed>>
             /\ flow' = [flow EXCEPT ![f].appr[k] = "yes"]
    <2>1. allowance[k] >= 1
      BY <1>5 DEF needsApproval, Typed
    <2>2. FlowsFollow
      BY <1>3, <1>4, <1>5, <2>1
    <2> QED  BY <1>1, <1>5, <2>2, TxsStay, Ordinary DEF Typed, Dialogued
  <1>6. CASE needsApproval(k) /\ sendTransaction(f, k)
             /\ flow' = [flow EXCEPT ![f].appr[k] = "wait"]
    <2>1. FlowsFollow
      BY <1>3, <1>4, <1>6
    <2> QED  BY <1>1, <1>2, <1>6, <2>1, SlotFacts, SentSound
  <1>7. CASE Fault /\ Hush({f}) /\ UNCHANGED txs
             /\ flow' = [flow EXCEPT ![f].appr[k] = "lost"]
    <2>1. FlowsFollow
      BY <1>3, <1>4, <1>7
    <2> QED  BY <1>1, <1>7, <2>1, TxsStay, Ordinary DEF Typed, Dialogued, Hush
  <1> QED  BY <1>5, <1>6, <1>7 DEF approveBN

\* The summary of a signature.
LEMMA SignSound ==
  ASSUME Typed, Marks, Single, NEW t \in txs, Sign(t)
  PROVE  Sound
  <1>1. t.at = "nonce" /\ UNCHANGED <<flow, allowance, wallet, dialog, hushed, crossed>>
    BY DEF Sign
  <1>2. PICK u : u = [t EXCEPT !.at = "chain"]
    OBVIOUS
  <1>3. /\ u \in TxSet /\ u.of = t.of /\ u.slot = t.slot /\ u.says = t.says /\ u.to = t.to
        /\ u.at = "chain"
    BY <1>2 DEF Typed, TxSet
  <1>4. Moved(t, u) /\ From(t, u)
    BY <1>2, <1>3 DEF Sign, From
  <1>5. Marked(u)
    BY <1>1, <1>3 DEF Marks, Marked, Owned
  <1>6. \A w \in txs' : Marked(w) \/ w \in txs
    BY <1>4, <1>5 DEF Moved
  <1> QED  BY <1>1, <1>3, <1>4, <1>6, TxMoved, FlowsStay, Ordinary DEF Typed, Dialogued

\* The summary of two transactions signed in the same millisecond.
LEMMA CrossedSound ==
  ASSUME Typed, Marks, Single, NEW t \in txs, NEW u \in txs, SignSameMillisecond(t, u)
  PROVE  Sound
  <1>1. /\ crossed' = crossed \cup {t.of, u.to[1]}
        /\ UNCHANGED <<flow, allowance, wallet, dialog, hushed>>
    BY DEF SignSameMillisecond
  <1>2. t.of \in Flows /\ u.to[1] \in Flows
    BY SlotFacts DEF Typed
  <1>3. \A k \in Keys : Spent(k)
    BY <1>1 DEF Spent
  <1>4. /\ txs' \subseteq TxSet /\ (Alone(txs) => Alone(txs'))
        /\ (\A w \in txs' : Comes(w)) /\ (\A v \in txs : Kept(v)) /\ Marks'
    BY TxsCrossed DEF TxsFollow
  <1>5. /\ Dialogued /\ allowance' \in [Keys -> Nat] /\ hushed' \subseteq Flows
        /\ crossed \subseteq crossed' /\ crossed' \subseteq Flows
    BY <1>1, <1>2 DEF Typed, Dialogued
  <1> QED  BY <1>1, <1>3, <1>4, <1>5, FlowsStay, Assembled

\* The summary of a refused signature.
LEMMA SignFailsSound ==
  ASSUME Typed, Marks, Single, NEW t \in txs, SignFails(t)
  PROVE  Sound
  <1>1. /\ Ended(t) /\ hushed' = hushed \cup {t.of}
        /\ UNCHANGED <<flow, allowance, wallet, dialog, crossed>>
    BY DEF SignFails, Hush
  <1>2. t.of \in Flows
    BY SlotFacts DEF Typed
  <1> QED  BY <1>1, <1>2, TxEnded, FlowsStay, Ordinary DEF Typed, Dialogued

\* The summary of a wallet that does not answer.
LEMMA NoResponseSound ==
  ASSUME Typed, Marks, Single, NEW t \in txs, NoResponse(t)
  PROVE  Sound
  <1>1. /\ Ended(t) /\ hushed' = hushed \cup {t.to[1], t.of}
        /\ UNCHANGED <<flow, allowance, wallet, dialog, crossed>>
    BY DEF NoResponse, Hush
  <1>2. t.of \in Flows /\ t.to[1] \in Flows
    BY SlotFacts DEF Typed
  <1> QED  BY <1>1, <1>2, TxEnded, FlowsStay, Ordinary DEF Typed, Dialogued

\* The summary of an answer that arrives.
LEMMA ResponseSound ==
  ASSUME Typed, Marks, Staged, Single, NEW t \in txs, handleProxyTxnResponse(t)
  PROVE  Sound
  <1>1. /\ Call(t.to, t.says) /\ Ended(t) /\ t.at = "ran"
        /\ UNCHANGED <<allowance, wallet, hushed, crossed>>
    BY DEF handleProxyTxnResponse
  <1>2. FlowsFollow /\ Dialogued
    BY <1>1, Called DEF Dialogued
  <1> QED  BY <1>1, <1>2, TxEnded, Ordinary DEF Typed

\* The summary of an answer that is not final.
LEMMA PendingSound ==
  ASSUME Typed, Marks, Staged, Single, NEW t \in txs, PendingResponse(t)
  PROVE  Sound
  <1>1. Call(t.to, "pending") /\ UNCHANGED <<txs, allowance, wallet, hushed, crossed>>
    BY DEF PendingResponse
  <1>2. FlowsFollow /\ Dialogued
    BY <1>1, Called DEF Dialogued
  <1> QED  BY <1>1, <1>2, TxsStay, Ordinary DEF Typed

\* The summary of a transaction the chain carries out.
LEMMA ExecuteSound ==
  ASSUME Typed, Marks, Single, NEW t \in txs, Execute(t)
  PROVE  Sound
  <1>1. t.at = "chain" /\ UNCHANGED <<flow, wallet, dialog, hushed, crossed>>
    BY DEF Execute
  <1>2. t \in TxSet /\ t.says = "none" /\ Owned(t)
    BY <1>1 DEF Typed, Marks, Marked
  <1>3. ASSUME NEW says \in {"ok", "failed", "short"},
               Moved(t, [t EXCEPT !.at = "ran", !.says = says]),
               says = "ok" /\ t.slot # "main" => allowance'[t.slot] >= 1,
               says = "short" => t.slot = "main" /\ \E k \in flow[t.of].spends : allowance[k] < 1,
               allowance' \in [Keys -> Nat],
               \A k \in Keys : allowance[k] >= 1 =>
                 \/ allowance'[k] >= 1
                 \/ says = "ok" /\ t.slot = "main" /\ k \in flow[t.of].spends
        PROVE  Sound
    <2>1. PICK u : u = [t EXCEPT !.at = "ran", !.says = says]
      OBVIOUS
    <2>2. /\ u \in TxSet /\ u.of = t.of /\ u.slot = t.slot /\ u.says = says /\ u.to = t.to
          /\ u.at = "ran"
      BY <1>2, <2>1 DEF TxSet
    <2>3. Moved(t, u)
      BY <1>3, <2>1
    <2>4. From(t, u)
      BY <1>1, <1>2, <1>3, <2>2 DEF From
    <2>5. Marked(u)
      BY <1>2, <1>3, <2>2 DEF Marked, Owned
    <2>6. Marks'
      BY <1>1, <2>3, <2>5 DEF Moved, Marks, Marked, Owned
    <2>7. u \in txs'
      BY <2>3 DEF Moved
    <2>8. \A k \in Keys : Spent(k)
      BY <1>1, <1>3, <2>2, <2>7 DEF Spent
    <2>9. TxsFollow
      BY <2>2, <2>3, <2>4, TxMoved
    <2> QED  BY <1>1, <1>3, <2>6, <2>8, <2>9, FlowsStay, Assembled DEF TxsFollow, Typed, Dialogued
  <1>4. CASE /\ t.slot # "main"
             /\ allowance' = [allowance EXCEPT ![t.slot] = @ + Big]
             /\ Moved(t, [t EXCEPT !.at = "ran", !.says = "ok"])
    <2>1. t.slot \in Keys
      BY <1>2, <1>4, SlotFacts
    <2>2. /\ allowance' \in [Keys -> Nat] /\ allowance'[t.slot] >= 1
          /\ \A k \in Keys : allowance[k] >= 1 => allowance'[k] >= 1
      BY <1>4, <2>1, AmountsAssumption DEF Typed
    <2> QED  BY <1>3, <1>4, <2>2
  <1>5. CASE /\ t.slot = "main" /\ \A k \in flow[t.of].spends : allowance[k] >= 1
             /\ allowance' = [k \in Keys |->
                  IF k \in flow[t.of].spends THEN allowance[k] - 1 ELSE allowance[k]]
             /\ Moved(t, [t EXCEPT !.at = "ran", !.says = "ok"])
    <2>1. /\ allowance' \in [Keys -> Nat]
          /\ \A k \in Keys : k \notin flow[t.of].spends => allowance'[k] = allowance[k]
      BY <1>5 DEF Typed
    <2> QED  BY <1>3, <1>5, <2>1
  <1>6. CASE /\ t.slot = "main" /\ \E k \in flow[t.of].spends : allowance[k] < 1
             /\ Moved(t, [t EXCEPT !.at = "ran", !.says = "short"])
             /\ UNCHANGED allowance
    BY <1>3, <1>6 DEF Typed
  <1>7. CASE /\ Moved(t, [t EXCEPT !.at = "ran", !.says = "failed"])
             /\ UNCHANGED allowance
    BY <1>3, <1>7 DEF Typed
  <1> QED  BY <1>4, <1>5, <1>6, <1>7 DEF Execute

\* Every step is summed up.
LEMMA StepSound ==
  ASSUME Typed, Marks, Staged, Single, [Next]_vars
  PROVE  Sound
  <1>1. CASE UNCHANGED vars
    BY <1>1, Stuttering DEF vars, Typed, Dialogued
  <1>2. CASE \E d \in Dialogs : Close(d)
    BY <1>2, Stuttering DEF Close, Typed, Dialogued
  <1>3. CASE \/ ConfirmCreate \/ ConfirmAdd \/ ConfirmRemove \/ ConfirmSwap
             \/ ConfirmStakingToken \/ ConfirmRemoveStake \/ ConfirmWithdrawStake
             \/ ConfirmFillTank \/ ConfirmEmptyTank
    <2>1. {"page", "stake", "remove", "withdraw", "fill", "empty"} \subseteq Dialogs
      BY DEF Dialogs, TankDialogs
    <2> QED  BY <1>3, <2>1, PressSound
             DEF ConfirmCreate, ConfirmAdd, ConfirmRemove, ConfirmSwap, ConfirmStakingToken,
                 ConfirmRemoveStake, ConfirmWithdrawStake, ConfirmFillTank, ConfirmEmptyTank
  <1>4. CASE \E f \in Flows : ReadNeedsFails(f)
    BY <1>4, ReadNeedsFailsSound
  <1>5. CASE \E f \in Flows : Step(f)
    BY <1>5, StampsSound, SettledSound, SendMainSound, ApproveSound DEF Step
  <1>6. CASE \E f \in Flows : Travel(f)
    BY <1>6, SignSound, SignFailsSound, ExecuteSound, ResponseSound DEF Travel
  <1>7. CASE \E t, u \in txs : SignSameMillisecond(t, u)
    BY <1>7, CrossedSound
  <1>8. CASE \E t \in txs : PendingResponse(t) \/ NoResponse(t)
    BY <1>8, PendingSound, NoResponseSound
  <1> QED  BY <1>1, <1>2, <1>3, <1>4, <1>5, <1>6, <1>7, <1>8 DEF Next

-----------------------------------------------------------------------------
(* The invariants *)

\* The invariant holds at the start.
LEMMA Init_IInv == Init => IInv
  <1> SUFFICES ASSUME Init PROVE IInv
    OBVIOUS
  <1>1. /\ flow = [f \in Flows |-> Idle] /\ txs = {} /\ hushed = {} /\ crossed = {}
        /\ dialog = [d \in Dialogs |-> Closed]
    BY DEF Init
  <1>2. allowance \in [Keys -> Nat] /\ wallet \in Wallets
    BY AmountsAssumption DEF Init
  <1>3. \A f \in Flows : flow[f] = Idle
    BY <1>1
  <1>4. Idle.appr = Unused /\ Idle.told = "none" /\ Idle.spends = {} /\ Idle.stage = "idle"
    BY DEF Idle
  <1>5. Typed
    BY <1>1, <1>2, UnusedFacts DEF Typed
  <1> QED  BY <1>1, <1>3, <1>4, <1>5
           DEF IInv, Marks, Staged, Single, ToldTrue, Covered, Overtaken

\* A step as summed up keeps the stages in order.
LEMMA StagedKept ==
  ASSUME Typed, Marks, Staged, Single, [Next]_vars, Summary
  PROVE  Staged'
  <1> SUFFICES ASSUME NEW f \in Flows
               PROVE  /\ flow'[f].stage \in {"idle", "needs", "approve", "send"} =>
                           \A t \in txs' : t.of = f => t.slot # "main"
                      /\ flow'[f].stage = "idle" => f \notin crossed' /\ \A t \in txs' : t.of # f
                      /\ flow'[f].stage # "approve" => flow'[f].appr = Unused
                      /\ flow'[f].told # "none" => flow'[f].stage = "over"
    BY DEF Staged
  <1>1. Moves(f) /\ \A w \in txs' : Comes(w)
    BY DEF Summary
  <1>2. /\ flow'[f].stage # "approve" => flow'[f].appr = Unused
        /\ flow'[f].told # "none" => flow'[f].stage = "over"
    BY <1>1 DEF Moves, Staged
  <1>3. ASSUME flow'[f].stage \in {"idle", "needs", "approve", "send"},
               NEW w \in txs', w.of = f, w.slot = "main"
        PROVE  FALSE
    <2>1. ~Born(w)
      BY <1>3 DEF Born
    <2>2. PICK v \in txs : v.of = f /\ v.slot = "main"
      BY <1>1, <1>3, <2>1 DEF Comes, From
    <2>3. flow[f].stage \notin {"idle", "needs", "approve", "send"}
      BY <2>2 DEF Staged
    <2> QED  BY <1>1, <1>3, <2>3 DEF Moves
  <1>4. ASSUME flow'[f].stage = "idle" PROVE flow[f].stage = "idle"
    BY <1>1, <1>4 DEF Moves
  <1>5. ASSUME flow'[f].stage = "idle", NEW w \in txs', w.of = f
        PROVE  FALSE
    BY <1>1, <1>4, <1>5 DEF Comes, Born, From, Staged
  <1>6. flow'[f].stage = "idle" => f \notin crossed'
    <2> SUFFICES ASSUME flow[f].stage = "idle" PROVE f \notin crossed'
      BY <1>4
    <2>1. f \notin crossed /\ \A t \in txs : t.of # f /\ t.to[1] # f
      <3>1. f \notin crossed /\ \A t \in txs : t.of # f
        BY DEF Staged
      <3>2. \A t \in txs : <<t.of, t.slot>>[1] = t.of
        OBVIOUS
      <3> QED  BY <3>1, <3>2 DEF Marks, Marked, Owned
    <2>2. crossed' = crossed \/ \E t, u \in txs : SignSameMillisecond(t, u)
      BY DEF Next, vars, Close, ConfirmCreate, ConfirmAdd, ConfirmRemove, ConfirmSwap,
             ConfirmStakingToken, ConfirmRemoveStake, ConfirmWithdrawStake, ConfirmFillTank,
             ConfirmEmptyTank, Press, ReadNeedsFails, Step, userHasSufficientStamps,
             ApprovalsSettled, SendMain, approveBN, Travel, Sign, SignFails, Execute,
             handleProxyTxnResponse, PendingResponse, NoResponse
    <2> QED  BY <2>1, <2>2 DEF SignSameMillisecond
  <1> QED  BY <1>2, <1>3, <1>5, <1>6

\* What an operation spends stays, once there is a transaction of it.
LEMMA SpendsStay ==
  ASSUME Typed, Staged, Summary, NEW v \in txs
  PROVE  flow'[v.of].spends = flow[v.of].spends
  <1>1. v.of \in Flows
    BY SlotFacts DEF Typed
  <1>2. flow[v.of].stage # "idle"
    BY <1>1 DEF Staged
  <1> QED  BY <1>1, <1>2 DEF Summary, Moves

\* A transaction that was sent for an operation stays sent.
LEMMA TakenStays ==
  ASSUME Typed, Staged, Summary, NEW k, Taken(k)
  PROVE  Taken(k)'
  <1>1. PICK u \in txs : u.slot = "main" /\ u.says = "ok" /\ k \in flow[u.of].spends
    BY DEF Taken
  <1>2. PICK w \in txs' : w.of = u.of /\ w.slot = "main" /\ w.says = "ok"
    BY <1>1 DEF Summary, Kept
  <1>3. k \in flow'[w.of].spends
    BY <1>1, <1>2, SpendsStay
  <1> QED  BY <1>2, <1>3 DEF Taken

\* What was granted stays granted until it is spent.
LEMMA GrantedStays ==
  ASSUME Typed, Staged, Summary, NEW k \in Keys, Granted(k)
  PROVE  Granted(k)'
  <1>1. CASE Taken(k)
    BY <1>1, TakenStays DEF Granted
  <1>2. CASE allowance[k] >= 1
    BY <1>2 DEF Summary, Spent, Granted, Taken
  <1> QED  BY <1>1, <1>2 DEF Granted

\* A step as summed up keeps it that the user was told the truth.
LEMMA ToldTrueKept ==
  ASSUME Typed, Marks, Staged, Single, ToldTrue, Summary
  PROVE  ToldTrue'
  <1>1. ASSUME NEW f \in Flows \ crossed', flow'[f].told = "success"
        PROVE  Ran(f)'
    <2>1. Ran(f)
      <3>1. Moves(f) /\ f \notin crossed
        BY DEF Summary
      <3>2. CASE flow[f].told = "success"
        BY <3>1, <3>2 DEF ToldTrue
      <3>3. CASE flow[f].told # "success"
        <4>1. PICK t \in txs : t.to = <<f, "main">> /\ t.says = "ok"
          BY <1>1, <3>1, <3>3 DEF Moves
        <4>2. t.to = <<t.of, t.slot>>
          <5>1. t.to[1] = f
            BY <4>1
          <5> QED  BY <3>1, <5>1 DEF Marks, Marked, Owned
        <4>3. t.of = f /\ t.slot = "main"
          BY <4>1, <4>2
        <4> QED  BY <4>1, <4>3 DEF Ran
      <3> QED  BY <3>2, <3>3
    <2> QED  BY <2>1 DEF Ran, Summary, Kept
  <1>2. ASSUME NEW f \in Flows \ crossed', flow'[f].told = "error", ~Both',
               NEW w \in txs', w.of = f, w.slot = "main"
        PROVE  w.says \in {"failed", "short"}
    <2>1. Moves(f) /\ f \notin crossed /\ ~Both /\ Comes(w)
      BY <1>2 DEF Summary, Both
    <2>2. CASE Born(w)
      <3>1. flow[f].stage = "send" /\ flow'[f].stage = "sent"
        BY <1>2, <2>2 DEF Born
      <3>2. flow[f].told = "none"
        BY <3>1 DEF Staged
      <3> QED  BY <1>2, <2>1, <3>1, <3>2 DEF Moves
    <2>3. CASE ~Born(w)
      <3>1. PICK v \in txs : From(v, w)
        BY <2>1, <2>3 DEF Comes
      <3>2. v.of = f /\ v.slot = "main" /\ flow[f].stage \notin {"idle", "needs", "approve", "send"}
        BY <1>2, <3>1 DEF From, Staged
      <3>3. v.says \in {"failed", "short"}
        <4>1. CASE flow[f].told = "error"
          BY <2>1, <3>2, <4>1 DEF ToldTrue
        <4>2. CASE flow[f].told # "error"
          <5>1. PICK t \in txs : t.to = <<f, "main">> /\ t.says \in {"failed", "short"}
            BY <1>2, <2>1, <3>2, <4>2 DEF Moves
          <5>2. t.to = <<t.of, t.slot>>
            <6>1. t.to[1] = f
              BY <5>1
            <6> QED  BY <2>1, <6>1 DEF Marks, Marked, Owned
          <5>3. t.of = f /\ t.slot = "main"
            BY <5>1, <5>2
          <5>4. t = v
            BY <2>1, <3>2, <5>3 DEF Single
          <5> QED  BY <5>1, <5>4
        <4> QED  BY <4>1, <4>2
      <3> QED  BY <3>1, <3>3 DEF From
    <2> QED  BY <2>2, <2>3
  <1>3. ASSUME NEW f \in Flows \ crossed', flow'[f].told = "error",
               NEW w \in txs', w.of = f, w.slot = "main"
        PROVE  Refused(f)'
    <2>1. Moves(f) /\ f \notin crossed /\ Comes(w)
      BY <1>3 DEF Summary
    <2>2. PICK v \in txs : v.of = f /\ v.slot = "main"
      <3>1. CASE Born(w)
        <4>1. flow[f].stage = "send" /\ flow'[f].stage = "sent" /\ flow[f].told = "none"
          BY <1>3, <3>1 DEF Born, Staged
        <4> QED  BY <1>3, <2>1, <4>1 DEF Moves
      <3>2. CASE ~Born(w)
        BY <1>3, <2>1, <3>2 DEF Comes, From
      <3> QED  BY <3>1, <3>2
    <2>3. flow[f].stage \notin {"idle", "needs", "approve", "send"}
      BY <2>2 DEF Staged
    <2>4. Refused(f)
      <3>1. CASE flow[f].told = "error"
        BY <2>1, <2>2, <3>1 DEF ToldTrue
      <3>2. CASE flow[f].told # "error"
        <4>1. PICK t \in txs : t.to = <<f, "main">> /\ t.says \in {"failed", "short"}
          BY <1>3, <2>1, <2>3, <3>2 DEF Moves
        <4>2. t.to = <<t.of, t.slot>>
          <5>1. t.to[1] = f
            BY <4>1
          <5> QED  BY <2>1, <5>1 DEF Marks, Marked, Owned
        <4>3. t.of = f /\ t.slot = "main"
          BY <4>1, <4>2
        <4> QED  BY <4>1, <4>3 DEF Refused
      <3> QED  BY <3>1, <3>2
    <2>5. PICK t \in txs : t.of = f /\ t.slot = "main" /\ t.says \in {"failed", "short"}
      BY <2>4 DEF Refused
    <2>6. PICK u \in txs' : u.of = f /\ u.slot = "main" /\ u.says = t.says
      BY <2>5 DEF Summary, Kept
    <2> QED  BY <2>5, <2>6 DEF Refused
  <1> QED  BY <1>1, <1>2, <1>3 DEF ToldTrue

\* A step as summed up keeps it that what waits to be sent is covered by its approvals.
LEMMA CoveredKept ==
  ASSUME Typed, Marks, Staged, Covered, Summary, Typed'
  PROVE  Covered'
  <1>0. txs' \subseteq TxSet /\ \A f \in Flows : flow'[f].spends \subseteq Keys
    BY DEF Typed, FlowSet
  <1>1. ASSUME NEW w \in txs', w.slot # "main", w.says = "ok"
        PROVE  Granted(w.slot)'
    <2>1. w.slot \in Keys
      BY <1>0, <1>1, SlotFacts
    <2>2. PICK v \in txs : From(v, w)
      BY <1>1 DEF Summary, Comes, Born
    <2>3. CASE v.says = "ok"
      <3>1. Granted(w.slot)
        BY <1>1, <2>2, <2>3 DEF Covered, From
      <3> QED  BY <2>1, <3>1, GrantedStays
    <2>4. CASE v.says # "ok"
      BY <1>1, <2>2, <2>4 DEF From, Granted
    <2> QED  BY <2>3, <2>4
  <1>2. ASSUME NEW f \in Flows \ crossed', NEW k \in flow'[f].spends, flow[f].stage = "idle",
               flow'[f].appr[k] = "yes" \/ flow'[f].stage \in {"send", "sent"}
        PROVE  FALSE
    <2>1. Moves(f) /\ flow[f].appr = Unused
      BY <1>2 DEF Summary, Staged
    <2>2. flow[f].spends \subseteq Keys
      BY FlowFacts
    <2>3. CASE flow'[f] = flow[f]
      BY <1>2, <2>1, <2>2, <2>3, UnusedFacts
    <2>4. CASE flow'[f] # flow[f]
      <3>1. /\ flow'[f].stage \in {"needs", "send"} /\ flow'[f].appr = Unused
            /\ flow'[f].stage = "send" => flow'[f].spends = {}
        BY <1>2, <2>1, <2>4 DEF Moves
      <3>2. flow'[f].appr[k] # "yes"
        BY <1>0, <3>1, UnusedFacts
      <3> QED  BY <1>2, <3>1, <3>2
    <2> QED  BY <2>3, <2>4
  <1>3. ASSUME NEW f \in Flows \ crossed', NEW k \in flow'[f].spends, flow[f].stage # "idle",
               flow'[f].appr[k] = "yes" \/ flow'[f].stage \in {"send", "sent"}
        PROVE  Granted(k)'
    <2>1. Moves(f) /\ f \notin crossed
      BY DEF Summary
    <2>2. k \in flow[f].spends /\ k \in Keys
      BY <1>3, <2>1, FlowFacts DEF Moves
    <2>3. Granted(k)
      <3>1. CASE flow[f].appr[k] = "yes" \/ flow[f].stage \in {"send", "sent"}
        BY <2>1, <2>2, <3>1 DEF Covered
      <3>2. CASE ~(flow[f].appr[k] = "yes" \/ flow[f].stage \in {"send", "sent"})
        <4>1. \/ allowance[k] >= 1
              \/ \E t \in txs : t.to = <<f, k>> /\ t.says = "ok"
          <5>1. Unused[k] # "yes"
            BY <2>2, UnusedFacts
          <5> QED  BY <1>3, <2>1, <2>2, <3>2, <5>1 DEF Moves
        <4>2. ASSUME NEW t \in txs, t.to = <<f, k>>, t.says = "ok"
              PROVE  Granted(k)
          <5>1. t.to = <<t.of, t.slot>>
            <6>1. t.to[1] = f
              BY <4>2
            <6> QED  BY <2>1, <6>1 DEF Marks, Marked, Owned
          <5>2. t.slot = k
            BY <4>2, <5>1
          <5> QED  BY <2>2, <4>2, <5>2, SlotFacts DEF Covered
        <4> QED  BY <4>1, <4>2 DEF Granted
      <3> QED  BY <3>1, <3>2
    <2> QED  BY <2>2, <2>3, GrantedStays
  <1>4. ASSUME NEW w \in txs', w.slot = "main", w.of \notin crossed', NEW k \in flow'[w.of].spends
        PROVE  Granted(k)'
    <2>1. w.of \in Flows \ crossed'
      BY <1>0, <1>4, SlotFacts
    <2>2. CASE Born(w)
      BY <1>4, <2>1, <2>2, <1>3 DEF Born
    <2>3. CASE ~Born(w)
      <3>1. PICK v \in txs : From(v, w)
        BY <2>3 DEF Summary, Comes
      <3>2. k \in flow[v.of].spends /\ v.slot = "main" /\ v.of \notin crossed
        BY <1>4, <3>1, SpendsStay DEF From, Summary
      <3>3. k \in Keys
        BY <3>2, FlowFacts, SlotFacts DEF Typed
      <3> QED  BY <3>2, <3>3, GrantedStays DEF Covered
    <2> QED  BY <2>2, <2>3
  <1> QED  BY <1>1, <1>2, <1>3, <1>4 DEF Covered

\* A step as summed up keeps it that what falls short was overtaken.
LEMMA OvertakenKept ==
  ASSUME Typed, Marks, Staged, Covered, Overtaken, Summary
  PROVE  Overtaken'
  <1> SUFFICES ASSUME NEW w \in txs', w.says = "short", w.of \notin crossed'
               PROVE  \E k \in flow'[w.of].spends : Taken(k)'
    BY DEF Overtaken
  <1>1. PICK v \in txs : From(v, w)
    BY DEF Summary, Comes, Born
  <1>2. v.of = w.of /\ v.of \notin crossed /\ flow'[v.of].spends = flow[v.of].spends
    BY <1>1, SpendsStay DEF From, Summary
  <1>3. \E k \in flow[v.of].spends : Taken(k)
    <2>1. CASE v.says = "short"
      BY <1>2, <2>1 DEF Overtaken
    <2>2. CASE v.says # "short"
      <3>1. PICK k \in flow[v.of].spends : allowance[k] < 1 /\ v.slot = "main"
        BY <1>1, <2>2 DEF From
      <3>2. Granted(k)
        BY <1>2, <3>1 DEF Covered
      <3>3. allowance[k] \in Nat
        BY <3>1, FlowFacts, SlotFacts DEF Typed
      <3> QED  BY <3>1, <3>2, <3>3 DEF Granted
    <2> QED  BY <2>1, <2>2
  <1> QED  BY <1>2, <1>3, TakenStays

\* Every step keeps the invariant.
LEMMA Next_IInv == IInv /\ [Next]_vars => IInv'
  <1> SUFFICES ASSUME IInv, [Next]_vars PROVE IInv'
    OBVIOUS
  <1> USE DEF IInv
  <1>1. Typed' /\ Marks' /\ Single' /\ Summary
    BY StepSound DEF Sound
  <1> QED  BY <1>1, StagedKept, ToldTrueKept, CoveredKept, OvertakenKept

\* The invariant holds in every state, whatever presses, answers, faults and
\* shared uids there were.
THEOREM Inductive == Spec => []IInv
  BY Init_IInv, Next_IInv, PTL DEF Spec

-----------------------------------------------------------------------------
(* What follows for the user *)

\* Operations, transactions, allowances and dialogs have their types.
THEOREM TypeCorrect == Spec => []TypeOK
  <1>1. IInv => TypeOK
    <2> SUFFICES ASSUME Typed PROVE TypeOK
      BY DEF IInv
    <2>1. ASSUME NEW f \in Flows
          PROVE  /\ flow[f].stage \in {"idle", "needs", "approve", "send", "sent", "over"}
                 /\ flow[f].appr \in [Keys -> {"unused", "check", "wait", "yes", "no", "lost"}]
                 /\ flow[f].told \in {"none", "success", "error"} /\ flow[f].spends \subseteq Keys
      BY DEF Typed, FlowSet, Stages, Settlings
    <2>2. ASSUME NEW t \in txs
          PROVE  /\ <<t.of, t.slot>> \in Ids /\ t.to \in Ids /\ t.via \in {"proxy", "lwc"}
                 /\ t.at \in {"nonce", "chain", "ran", "done"}
                 /\ t.says \in {"none", "ok", "failed", "short"}
      BY SlotFacts DEF Typed, TxSet
    <2> QED  BY <2>1, <2>2 DEF TypeOK, Typed
  <1> QED  BY <1>1, Inductive, PTL

\* What the user is told of an operation is what the chain did: after a success
\* it has been carried out, after an error it has not, unless both wallets are
\* there, through each of which sendTransaction sends, and one of the two was
\* refused.  The operations whose transactions shared a uid with another's are
\* left out.
THEOREM AnswersAreReal == Spec => []AnswerIsReal
  <1>1. IInv => AnswerIsReal
    <2> SUFFICES ASSUME IInv, NEW f \in Flows \ crossed
                 PROVE  /\ flow[f].told = "success" => Ran(f)
                        /\ flow[f].told = "error" /\ Ran(f) =>
                             wallet.keystore = "open" /\ wallet.approved /\ Refused(f)
      BY DEF AnswerIsReal
    <2>1. flow[f].told = "success" => Ran(f)
      BY DEF IInv, ToldTrue
    <2>2. flow[f].told = "error" /\ Ran(f) => Both /\ Refused(f)
      BY DEF IInv, ToldTrue, Ran
    <2> QED  BY <2>1, <2>2 DEF Both
  <1> QED  BY <1>1, Inductive, PTL

\* An operation is refused for its allowance only when another of the same user
\* has spent it: wallet.service.ts sends it after its approvals are in place,
\* and what approved it stays until an operation takes it.
THEOREM ShortMeansOvertaken == Spec => []ShortOnlyIfOvertaken
  <1>1. IInv => ShortOnlyIfOvertaken
    <2> SUFFICES ASSUME IInv, NEW t \in txs, t.says = "short", t.of \notin crossed
                 PROVE  \E u \in txs : u # t /\ u.slot = "main" /\ u.says = "ok"
                                       /\ flow[u.of].spends \cap flow[t.of].spends # {}
      BY DEF ShortOnlyIfOvertaken
    <2> QED  BY DEF IInv, Overtaken, Taken
  <1> QED  BY <1>1, Inductive, PTL

-----------------------------------------------------------------------------
(* The session: whose feeds are joined, and whose balances and token the     *)
(* stores hold.                                                              *)

Someone == Accounts \cup {None}

SessionTyped ==
  /\ lwc_info \in [walletAddress : Someone, approved : BOOLEAN, locked : BOOLEAN]
  /\ service \in [of : Someone, open : BOOLEAN]
  /\ saved \in Someone /\ joined \subseteq Accounts

\* The store has the keystore of the service as long as that one is open.
KeystoreOfService ==
  IF service.open THEN service.of # None /\ keystore = service.of ELSE keystore = None

ExtensionConnected == lwc_info.approved /\ lwc_info.walletAddress # None

\* Feeds are joined for the account that is connected and for no other, those of
\* an account of the extension always; all that is held comes over them.
JoinedByUser ==
  /\ joined \subseteq {walletAddress}
  /\ ExtensionConnected => lwc_info.walletAddress \in joined
  /\ {tokenBalances.of, bearerToken} \subseteq joined \cup {None}

SessionInv == SessionTyped /\ KeystoreOfService /\ (~moved => JoinedByUser)

\* It holds when the page is loaded.
LEMMA SessionStarts == SessionInit => SessionInv
<1> SUFFICES ASSUME SessionInit PROVE SessionInv
  OBVIOUS
<1> USE NoneIsNobody DEF Someone
<1>1. service.open = FALSE /\ service \in [of : Someone, open : BOOLEAN] /\ saved \in Someone
  BY DEF SessionInit, NoKeystore
<1>2. KeystoreOfService /\ bearerToken = None
  BY <1>1 DEF SessionInit, KeystoreOfService
<1>3. CASE lwc_info = NoWallet /\ joined = {} /\ tokenBalances = Nothing
  BY <1>1, <1>2, <1>3 DEF SessionInv, SessionTyped, JoinedByUser, ExtensionConnected,
     NoWallet, Nothing
<1>4. ASSUME NEW vk \in Accounts,
             lwc_info = [walletAddress |-> vk, approved |-> TRUE, locked |-> FALSE],
             joined = {vk}, tokenBalances = [of |-> vk, amount |-> Rich]
      PROVE  SessionInv
  BY <1>1, <1>2, <1>4 DEF SessionInv, SessionTyped, JoinedByUser, ExtensionConnected, walletAddress
<1> QED
  BY <1>3, <1>4 DEF SessionInit

\* An account that connects leaves the feeds of others joined only if that is
\* told (moved); its token is its own or the one that was there.
LEMMA ConnectedJoins ==
  ASSUME NEW vk \in Accounts, SessionInv, Connected(vk)
  PROVE  /\ joined' = joined \cup {vk}
         /\ ~moved' => ~moved /\ joined' = {vk} /\ bearerToken' \in {vk, None}
  BY DEF SessionInv, JoinedByUser, Connected, setBearerToken

\* The extension, the keystore and the log-out.
LEMMA UserKeepsSession ==
  ASSUME SessionInv, SessionUser
  PROVE  SessionInv'
<1> USE NoneIsNobody DEF SessionInv, SessionTyped, KeystoreOfService, ExtensionConnected, Someone
<1>1. ASSUME NEW vk \in Accounts, NEW approved \in BOOLEAN, NEW locked \in BOOLEAN,
             handleWalletInfo([walletAddress |-> vk, approved |-> approved, locked |-> locked])
      PROVE  SessionInv'
  <2> DEFINE told == [walletAddress |-> vk, approved |-> approved, locked |-> locked]
  <2>1. lwc_info' = told /\ UNCHANGED <<keystore, service, saved, tokenBalances>>
    BY <1>1 DEF handleWalletInfo
  <2>2. CASE approved
    <3>1. Connected(vk)
      BY <1>1, <2>2 DEF handleWalletInfo
    <3>2. walletAddress' = vk
      BY <2>1, <2>2 DEF walletAddress
    <3> QED
      BY <2>1, <3>1, <3>2, ConnectedJoins DEF JoinedByUser
  <2>3. CASE ~approved
    <3>1. /\ UNCHANGED <<joined, bearerToken>>
          /\ moved' = (moved \/ (lwc_info.approved /\ lwc_info.walletAddress # None))
      BY <1>1, <2>3 DEF handleWalletInfo
    <3>2. ~moved' => walletAddress' = walletAddress
      BY <2>1, <2>3, <3>1 DEF walletAddress
    <3> QED
      BY <2>1, <2>3, <3>1, <3>2 DEF JoinedByUser
  <2> QED
    BY <2>2, <2>3
<1>2. ASSUME NEW vk \in Accounts, NEW saveData \in BOOLEAN, login(vk, saveData)
      PROVE  SessionInv'
  <2>1. /\ Connected(vk) /\ walletAddress = None
        /\ service' = [of |-> vk, open |-> TRUE] /\ keystore' = vk
        /\ saved' \in Someone /\ UNCHANGED <<lwc_info, tokenBalances>>
    BY <1>2 DEF login
  <2>2. ~ExtensionConnected /\ walletAddress' = vk
    BY <2>1 DEF walletAddress
  <2> QED
    BY <2>1, <2>2, ConnectedJoins DEF JoinedByUser
<1>3. ASSUME decryptKeystore \/ handleRemoveKeystoreData
      PROVE  SessionInv'
  <2>1. /\ walletAddress = None /\ service' \in [of : Someone, open : BOOLEAN] /\ saved' \in Someone
        /\ KeystoreOfService'
        /\ UNCHANGED <<lwc_info, tokenBalances, joined, bearerToken, moved>>
    <3>1. CASE decryptKeystore
      <4>1. /\ service' = [of |-> service.of, open |-> TRUE] /\ service.of # None
            /\ keystore' = service.of
        BY <3>1 DEF decryptKeystore
      <4> QED
        BY <3>1, <4>1 DEF decryptKeystore
    <3>2. CASE handleRemoveKeystoreData
      BY <3>2 DEF handleRemoveKeystoreData, removeKeystoreData, NoKeystore
    <3> QED
      BY <1>3, <3>1, <3>2
  <2>2. ~moved => joined = {}
    BY <2>1 DEF JoinedByUser
  <2> QED
    BY <2>1, <2>2 DEF JoinedByUser
<1>4. ASSUME logout
      PROVE  SessionInv'
  BY <1>4 DEF logout, leaveUserFeeds, removeKeystoreData, NoKeystore, JoinedByUser, Nothing
<1>5. ASSUME createAccountName \/ sendAuth
      PROVE  SessionInv'
  BY <1>5 DEF createAccountName, sendAuth, JoinedByUser, walletAddress
<1> QED
  BY <1>1, <1>2, <1>3, <1>4, <1>5 DEF SessionUser

\* Timers, answers and payments of others.
LEMMA WorldKeepsSession ==
  ASSUME SessionInv, SessionWorld \/ SessionOthers
  PROVE  SessionInv'
<1> USE NoneIsNobody DEF SessionInv, SessionTyped, KeystoreOfService, ExtensionConnected, Someone
<1>1. ASSUME conenctToKeystore
      PROVE  SessionInv'
  <2>1. UNCHANGED <<lwc_info, keystore, tokenBalances, service, saved>>
    BY <1>1 DEF conenctToKeystore
  <2>2. CASE service.open
    <3>1. Connected(service.of) /\ service.of \in Accounts
      BY <1>1, <2>2 DEF conenctToKeystore
    <3>2. ~moved' => walletAddress' = service.of
      BY <2>1, <2>2, <3>1, ConnectedJoins DEF walletAddress, JoinedByUser
    <3> QED
      BY <2>1, <3>1, <3>2, ConnectedJoins DEF JoinedByUser
  <2>3. CASE ~service.open
    BY <1>1, <2>1, <2>3 DEF conenctToKeystore, JoinedByUser, walletAddress
  <2> QED
    BY <2>2, <2>3
<1>2. ASSUME NEW vk \in Accounts, BalancesArrive(vk) \/ BalanceUpdate(vk)
      PROVE  SessionInv'
  BY <1>2 DEF BalancesArrive, BalanceUpdate, handleJoinBalanceFeed, JoinedByUser, walletAddress
<1>3. ASSUME checkForName \/ \E vk \in Accounts : getAccountName(vk) \/ getAmmStakeDetails(vk) \/ setName(vk)
      PROVE  SessionInv'
  BY <1>3 DEF checkForName, getAccountName, getAmmStakeDetails, setName, JoinedByUser, walletAddress
<1>4. ASSUME NEW vk \in Accounts, handleAuthResponse(vk)
      PROVE  SessionInv'
  BY <1>4 DEF handleAuthResponse, JoinedByUser, walletAddress
<1> QED
  BY <1>1, <1>2, <1>3, <1>4 DEF SessionWorld, SessionOthers

\* In the client: the forms leave the session alone, and a reload starts it again.
LEMMA ClientKeepsSession ==
  ASSUME SessionInv, [ClientNext]_clientVars
  PROVE  SessionInv'
<1>1. CASE UNCHANGED sessionVars
  BY <1>1 DEF sessionVars, SessionInv, SessionTyped, KeystoreOfService, JoinedByUser,
     ExtensionConnected, walletAddress
<1>2. CASE Reload
  <2>1. /\ lwc_info' = NoWallet /\ joined' = {} /\ tokenBalances' = Nothing /\ bearerToken' = None
        /\ keystore' = None /\ service' = [of |-> saved, open |-> FALSE] /\ saved' = saved
    BY <1>2 DEF Reload
  <2>2. SessionTyped' /\ KeystoreOfService'
    BY <2>1 DEF SessionInv, SessionTyped, KeystoreOfService, NoWallet, Someone
  <2>3. JoinedByUser'
    BY <2>1 DEF JoinedByUser, ExtensionConnected, NoWallet, Nothing
  <2> QED
    BY <2>2, <2>3 DEF SessionInv
<1> QED
  BY <1>1, <1>2, UserKeepsSession, WorldKeepsSession
     DEF ClientNext, ReloadClient, clientVars

\* What an account holds, and what is listed of it.
Held == {0, Rich, Poor}
HoldingsTyped == wealth \in [Accounts -> Held] /\ tokenBalances.amount \in Held

\* Payments and what the API tells of them.
LEMMA HoldingsKept ==
  ASSUME HoldingsTyped, [ClientNext]_clientVars
  PROVE  HoldingsTyped'
<1>1. CASE UNCHANGED <<wealth, tokenBalances>>
  BY <1>1 DEF HoldingsTyped
<1>2. ASSUME NEW vk \in Accounts, BalancesArrive(vk) \/ BalanceUpdate(vk)
      PROVE  HoldingsTyped'
  <2>1. wealth' \in [Accounts -> Held]
    BY <1>2 DEF BalancesArrive, BalanceUpdate, HoldingsTyped, Held
  <2>2. /\ wealth[vk] \in Held
        /\ \/ tokenBalances' = tokenBalances
           \/ tokenBalances' = [of |-> vk, amount |-> wealth[vk]]
           \/ tokenBalances' = [of |-> vk, amount |-> Poor]
    BY <1>2 DEF BalancesArrive, BalanceUpdate, handleJoinBalanceFeed, HoldingsTyped
  <2> QED
    BY <2>1, <2>2 DEF HoldingsTyped, Held
<1>3. CASE logout \/ Reload
  <2>1. wealth' = wealth /\ tokenBalances' = Nothing
    BY <1>3 DEF logout, leaveUserFeeds, Reload
  <2> QED
    BY <2>1 DEF HoldingsTyped, Held, Nothing
<1>4. ASSUME NEW vk \in Accounts,
             \/ getAccountName(vk) \/ getAmmStakeDetails(vk) \/ setName(vk) \/ handleAuthResponse(vk)
             \/ \E saveData \in BOOLEAN : login(vk, saveData)
             \/ \E approved, locked \in BOOLEAN :
                  handleWalletInfo([walletAddress |-> vk, approved |-> approved, locked |-> locked])
      PROVE  UNCHANGED <<wealth, tokenBalances>>
  BY <1>4 DEF getAccountName, getAmmStakeDetails, setName, handleAuthResponse, login, handleWalletInfo
<1>5. ASSUME \/ decryptKeystore \/ handleRemoveKeystoreData \/ createAccountName \/ sendAuth
             \/ conenctToKeystore \/ checkForName
      PROVE  UNCHANGED <<wealth, tokenBalances>>
  BY <1>5 DEF decryptKeystore, handleRemoveKeystoreData, createAccountName, sendAuth,
     conenctToKeystore, checkForName
<1>6. \/ UNCHANGED sessionVars \/ SessionUser \/ SessionWorld \/ SessionOthers \/ Reload
  BY DEF ClientNext, ReloadClient, clientVars
<1>7. CASE UNCHANGED sessionVars
  BY <1>1, <1>7 DEF sessionVars
<1>8. CASE SessionUser
  BY <1>1, <1>3, <1>4, <1>5, <1>8 DEF SessionUser
<1>9. CASE SessionWorld
  BY <1>1, <1>2, <1>4, <1>5, <1>9 DEF SessionWorld
<1>10. CASE SessionOthers
  BY <1>2, <1>10 DEF SessionOthers
<1> QED
  BY <1>3, <1>6, <1>7, <1>8, <1>9, <1>10

\* Whatever is due from before, the balances that are listed and the token that
\* signs messages are of the account that is connected, unless another account or
\* token came in past the log-in.
THEOREM SessionIsOfUser == ClientSpec => []SessionOfUser
<1>1. ClientInit => SessionInv
  BY SessionStarts DEF ClientInit
<1>2. SessionInv => SessionOfUser
  BY DEF SessionInv, JoinedByUser, SessionOfUser
<1> QED
  BY <1>1, <1>2, ClientKeepsSession, PTL DEF ClientSpec

-----------------------------------------------------------------------------
(* Sequences of questions, as sets.                                          *)

\* One more question.
LEMMA RangeAppend ==
  ASSUME NEW S, NEW s \in Seq(S), NEW e \in S
  PROVE  Append(s, e) \in Seq(S) /\ Range(Append(s, e)) = Range(s) \cup {e}
<1>1. PICK n \in Nat : n = Len(s) /\ DOMAIN s = 1 .. n
  BY LenProperties
<1>2. PICK a : a = Append(s, e)
  OBVIOUS
<1>3. /\ a \in Seq(S) /\ Len(a) = n + 1 /\ a[n + 1] = e
      /\ \A i \in 1 .. n : a[i] = s[i]
  BY <1>1, <1>2, AppendProperties
<1>4. DOMAIN a = 1 .. n + 1
  BY <1>3, LenProperties
<1>5. Range(a) = Range(s) \cup {e}
  <2>1. ASSUME NEW x \in Range(a)
        PROVE  x \in Range(s) \cup {e}
    <3>1. PICK i \in 1 .. n + 1 : x = a[i]
      BY <1>4 DEF Range
    <3>2. CASE i = n + 1
      BY <1>3, <3>1, <3>2
    <3>3. CASE i # n + 1
      <4>1. i \in 1 .. n
        BY <3>3
      <4> QED
        BY <1>1, <1>3, <3>1, <4>1 DEF Range
    <3> QED
      BY <3>2, <3>3
  <2>2. ASSUME NEW i \in 1 .. n
        PROVE  s[i] \in Range(a)
    <3>1. i \in 1 .. n + 1 /\ a[i] = s[i]
      BY <1>3
    <3> QED
      BY <1>4, <3>1 DEF Range
  <2>3. e \in Range(a)
    <3>1. n + 1 \in 1 .. n + 1
      OBVIOUS
    <3> QED
      BY <1>3, <1>4, <3>1 DEF Range
  <2>4. Range(s) \subseteq Range(a)
    BY <1>1, <2>2 DEF Range
  <2> QED
    BY <2>1, <2>3, <2>4
<1> QED
  BY <1>2, <1>3, <1>5

\* The questions that are left when one is answered.
LEMMA RangeRemoved ==
  ASSUME NEW S, NEW s \in Seq(S), NEW k \in DOMAIN s
  PROVE  /\ RemoveAt(s, k) \in Seq(S)
         /\ Range(RemoveAt(s, k)) \subseteq Range(s)
         /\ Range(s) \subseteq Range(RemoveAt(s, k)) \cup {s[k]}
<1>1. PICK n \in Nat : n = Len(s) /\ DOMAIN s = 1 .. n
  BY LenProperties
<1>2. k \in 1 .. n /\ \A i \in 1 .. n : s[i] \in S
  BY <1>1, ElementOfSeq
<1>3. PICK a : a = SubSeq(s, 1, k - 1)
  OBVIOUS
<1>4. PICK b : b = SubSeq(s, k + 1, n)
  OBVIOUS
<1>5. a \in Seq(S) /\ DOMAIN a = 1 .. k - 1 /\ \A i \in 1 .. k - 1 : a[i] = s[i]
  <2>1. 1 \in Int /\ k - 1 \in Int /\ \A i \in 1 .. k - 1 : s[i] \in S
    BY <1>2
  <2>2. /\ a \in Seq(S) /\ Len(a) = IF 1 <= k - 1 THEN k - 1 - 1 + 1 ELSE 0
        /\ \A i \in 1 .. k - 1 - 1 + 1 : a[i] = s[1 + i - 1]
    BY <1>3, <2>1, SubSeqProperties
  <2>3. Len(a) = k - 1 /\ \A i \in 1 .. k - 1 : a[i] = s[i]
    BY <1>1, <1>2, <2>2
  <2> QED
    BY <2>2, <2>3, LenProperties
<1>6. b \in Seq(S) /\ DOMAIN b = 1 .. n - k /\ \A i \in 1 .. n - k : b[i] = s[k + i]
  <2>1. k + 1 \in Int /\ n \in Int /\ \A i \in k + 1 .. n : s[i] \in S
    BY <1>2
  <2>2. /\ b \in Seq(S) /\ Len(b) = IF k + 1 <= n THEN n - (k + 1) + 1 ELSE 0
        /\ \A i \in 1 .. n - (k + 1) + 1 : b[i] = s[k + 1 + i - 1]
    BY <1>4, <2>1, SubSeqProperties
  <2>3. n - (k + 1) + 1 = n - k /\ (k + 1 <= n <=> n - k # 0) /\ n - k \in Nat
    BY <1>2
  <2>4. Len(b) = n - k
    BY <1>2, <2>2, <2>3
  <2>5. ASSUME NEW i \in 1 .. n - k PROVE b[i] = s[k + i]
    <3>1. k + 1 + i - 1 = k + i
      BY <1>2
    <3> QED
      BY <2>2, <2>3, <3>1
  <2> QED
    BY <2>2, <2>4, <2>5, LenProperties
<1>7. PICK c : c = a \o b
  OBVIOUS
<1>8. c = RemoveAt(s, k)
  BY <1>1, <1>3, <1>4, <1>7 DEF RemoveAt
<1>9. c \in Seq(S) /\ Range(c) = Range(a) \cup Range(b)
  BY <1>5, <1>6, <1>7, ConcatProperties, RangeConcatenation
<1>10. Range(a) \subseteq Range(s)
  <2>1. 1 .. k - 1 \subseteq 1 .. n
    BY <1>2
  <2> QED
    BY <1>1, <1>5, <2>1 DEF Range
<1>11. Range(b) \subseteq Range(s)
  <2>1. \A i \in 1 .. n - k : k + i \in 1 .. n
    BY <1>2
  <2> QED
    BY <1>1, <1>6, <2>1 DEF Range
<1>12. ASSUME NEW i \in 1 .. n
       PROVE  s[i] \in Range(a) \cup Range(b) \cup {s[k]}
  <2>1. CASE i < k
    <3>1. i \in 1 .. k - 1
      BY <1>2, <2>1
    <3> QED
      BY <1>5, <3>1 DEF Range
  <2>2. CASE i > k
    <3>1. i - k \in 1 .. n - k /\ k + (i - k) = i
      BY <1>2, <2>2
    <3>2. b[i - k] = s[i]
      BY <1>6, <3>1
    <3> QED
      BY <1>6, <3>1, <3>2 DEF Range
  <2>3. CASE i = k
    BY <2>3
  <2> QED
    BY <1>2, <2>1, <2>2, <2>3
<1>13. Range(s) \subseteq Range(a) \cup Range(b) \cup {s[k]}
  BY <1>1, <1>12 DEF Range
<1> QED
  BY <1>8, <1>9, <1>10, <1>11, <1>13

\* A set of one question or none, as a sequence.
LEMMA RangeOfFew ==
  ASSUME NEW S, NEW e \in S, NEW Q, Q = {} \/ Q = {e}
  PROVE  SetToSeq(Q) \in Seq(S) /\ Range(SetToSeq(Q)) = Q
<1>1. CASE Q = {}
  <2>1. Cardinality(Q) = 0
    BY <1>1, FS_EmptySet
  <2>2. PICK f \in [1 .. 0 -> Q] : IsInjective(f)
    <3>1. [i \in 1 .. 0 |-> e] \in [1 .. 0 -> Q]
      OBVIOUS
    <3>2. IsInjective([i \in 1 .. 0 |-> e])
      BY DEF IsInjective
    <3> QED
      BY <3>1, <3>2
  <2>3. SetToSeq(Q) \in [1 .. 0 -> Q]
    BY <2>1, <2>2 DEF SetToSeq
  <2>4. SetToSeq(Q) \in Seq(S) /\ DOMAIN SetToSeq(Q) = {}
    <3>1. PICK g : g = SetToSeq(Q)
      OBVIOUS
    <3>2. g \in [1 .. 0 -> S] /\ DOMAIN g = 1 .. 0
      BY <2>3, <3>1, <1>1
    <3>3. g \in Seq(S) /\ 1 .. 0 = {}
      BY <3>2, SeqDef
    <3> QED
      BY <3>1, <3>2, <3>3
  <2> QED
    BY <1>1, <2>4 DEF Range
<1>2. CASE Q = {e}
  <2>1. Cardinality(Q) = 1
    BY <1>2, FS_Singleton
  <2>2. PICK f \in [1 .. 1 -> Q] : IsInjective(f)
    <3>1. [i \in 1 .. 1 |-> e] \in [1 .. 1 -> Q]
      BY <1>2
    <3>2. IsInjective([i \in 1 .. 1 |-> e])
      <4>1. \A i, j \in 1 .. 1 : i = j
        OBVIOUS
      <4>2. DOMAIN [i \in 1 .. 1 |-> e] = 1 .. 1
        OBVIOUS
      <4> QED
        BY <4>1, <4>2 DEF IsInjective
    <3> QED
      BY <3>1, <3>2
  <2>3. PICK g : g = SetToSeq(Q)
    OBVIOUS
  <2>4. g \in [1 .. 1 -> Q]
    BY <2>1, <2>2, <2>3 DEF SetToSeq
  <2>5. DOMAIN g = {1} /\ g[1] = e
    BY <1>2, <2>4
  <2>6. g \in Seq(S)
    <3>1. g \in [1 .. 1 -> S]
      BY <1>2, <2>4
    <3> QED
      BY <3>1, SeqDef
  <2> QED
    BY <1>2, <2>3, <2>5, <2>6 DEF Range
<1> QED
  BY <1>1, <1>2

-----------------------------------------------------------------------------
(* The forms: the tokens pages show and the questions they have asked.       *)

Shown == [token : Tokens \cup {None}, market : BOOLEAN, full : BOOLEAN, balance : Held \cup {Null}]
Trades == {NoMarket} \cup 0 .. MaxTrades
Markets == {NoLP} \cup [token : Tokens, trades : 0 .. MaxTrades]
Form == [at : {"swap", "add", "create", "remove"}, contract : Tokens \cup {None},
         sel : Shown, lp : Markets]
Question == [by : Nat, token : Tokens, timer : BOOLEAN]

FormTyped ==
  /\ market \in [Tokens -> Trades]
  /\ pages \in Seq(Form) /\ Len(pages) > 0
  /\ asked \in Seq(Question)
  /\ \A q \in Range(asked) : q.by \in 1 .. Live

\* The page at hand is about the token that was chosen for it, and so are its
\* questions.
ChoiceHolds ==
  ~contested /\ chosen # None =>
    /\ Page.sel # NoToken => Page.sel.token = chosen
    /\ \A q \in Range(asked) : q.by = Live => q.token = chosen

\* The page at hand quotes from the market of its token, or has asked for it.
QuotesOwn ==
  /\ Page.sel.market => Page.lp.token = Page.sel.token
  /\ ~Page.sel.market => Page.lp.token = None
  /\ Page.at = "swap" /\ ~late => tradeFeed = Page.sel.token
QuoteComes ==
  ~failed /\ Page.sel # NoToken => QuotesOwn \/ \E q \in Range(asked) : q.by = Live

FormInv == FormTyped /\ ChoiceHolds /\ QuoteComes

\* One trade more, or the market that is created.
LEMMA OneMoreTrade ==
  ASSUME NEW n \in Trades, n < MaxTrades
  PROVE  n + 1 \in Trades
  BY FormAssumption DEF Trades, NoMarket

\* The pages, by number, and their last.
LEMMA PageFacts ==
  ASSUME FormTyped
  PROVE  /\ Live \in Nat \ {0} /\ DOMAIN pages = 1 .. Live /\ Live \in 1 .. Live
         /\ Page \in Form
         /\ \A i \in 1 .. Live : pages[i] \in Form
         /\ \A k \in DOMAIN asked : asked[k] \in Question /\ asked[k] \in Range(asked)
                                    /\ asked[k].by \in 1 .. Live
<1>1. Live \in Nat /\ Live > 0 /\ DOMAIN pages = 1 .. Live
  BY LenProperties DEF FormTyped, Live
<1>2. \A i \in 1 .. Live : pages[i] \in Form
  BY ElementOfSeq DEF FormTyped, Live
<1>3. ASSUME NEW k \in DOMAIN asked
      PROVE  asked[k] \in Question /\ asked[k] \in Range(asked) /\ asked[k].by \in 1 .. Live
  <2>1. asked[k] \in Question
    BY LenProperties, ElementOfSeq DEF FormTyped
  <2> QED
    BY <2>1 DEF FormTyped, Range
<1> QED
  BY <1>1, <1>2, <1>3 DEF Page

\* A token saved in the store of a page that stays.
LEMMA SavedStays ==
  ASSUME FormTyped, NEW i \in 1 .. Live, NEW record \in Shown, record.token \in Tokens,
         NEW lp \in Markets, NEW rest \in Seq(Question),
         saveSelectedToken(i, record, lp, rest, "stay")
  PROVE  /\ pages' \in Seq(Form) /\ Live' = Live
         /\ \A j \in 1 .. Live : j # i => pages'[j] = pages[j]
         /\ pages'[i] = [at |-> pages[i].at, contract |-> pages[i].contract, sel |-> record, lp |-> lp]
         /\ asked' \in Seq(Question)
         /\ Range(asked') = Range(rest) \cup {Ask(i, t) : t \in Refreshed(pages[i], record)}
<1>1. PICK p : p = pages[i]
  OBVIOUS
<1>2. /\ Live \in Nat /\ DOMAIN pages = 1 .. Live /\ p \in Form
      /\ \A j \in 1 .. Live : pages[j] \in Form
  BY <1>1, PageFacts
<1>3. PICK Q : Q = {Ask(i, t) : t \in Refreshed(p, record)}
  OBVIOUS
<1>4. Q = {} \/ Q = {Ask(i, record.token)}
  BY <1>3 DEF Refreshed
<1>5. Ask(i, record.token) \in Question
  BY <1>2 DEF Ask, Question
<1>6. SetToSeq(Q) \in Seq(Question) /\ Range(SetToSeq(Q)) = Q
  BY <1>4, <1>5, RangeOfFew
<1>7. /\ asked' = rest \o SetToSeq(Q)
      /\ pages' = [pages EXCEPT ![i].sel = record, ![i].lp = lp]
  BY <1>1, <1>3 DEF saveSelectedToken, Mounts
<1>8. asked' \in Seq(Question) /\ Range(asked') = Range(rest) \cup Q
  BY <1>6, <1>7, ConcatProperties, RangeConcatenation
<1>9. PICK f : f = [at |-> p.at, contract |-> p.contract, sel |-> record, lp |-> lp]
  OBVIOUS
<1>10. f \in Form /\ [p EXCEPT !.sel = record, !.lp = lp] = f
  <2>1. /\ p = [at |-> p.at, contract |-> p.contract, sel |-> p.sel, lp |-> p.lp]
        /\ p.at \in {"swap", "add", "create", "remove"} /\ p.contract \in Tokens \cup {None}
    BY <1>2 DEF Form
  <2>2. f \in Form
    BY <1>9, <2>1 DEF Form
  <2>3. [p EXCEPT !.sel = record, !.lp = lp] = f
    <3>1. PICK e : e = [p EXCEPT !.sel = record]
      OBVIOUS
    <3>2. e = [at |-> p.at, contract |-> p.contract, sel |-> record, lp |-> p.lp]
      BY <2>1, <3>1
    <3>3. [e EXCEPT !.lp = lp] = f
      BY <1>9, <3>2
    <3> QED
      BY <3>1, <3>3
  <2> QED
    BY <2>2, <2>3
<1>11. pages' = [pages EXCEPT ![i] = f]
  BY <1>1, <1>2, <1>7, <1>10
<1>12. /\ pages' \in Seq(Form) /\ Len(pages') = Len(pages)
       /\ \A j \in 1 .. Len(pages) : pages'[j] = IF j = i THEN f ELSE pages[j]
  <2>1. pages \in Seq(Form) /\ i \in 1 .. Len(pages)
    BY DEF FormTyped, Live
  <2> QED
    BY <1>10, <1>11, <2>1, ExceptSeq
<1> QED
  BY <1>1, <1>3, <1>8, <1>9, <1>12 DEF Live

\* One that sends the user to another page, which asks for it.
LEMMA SavedGoes ==
  ASSUME FormTyped, NEW i \in 1 .. Live, NEW record \in Shown, record.token \in Tokens,
         NEW lp \in Markets, NEW rest \in Seq(Question), NEW goto \in {"add", "create"},
         Mounts(goto), saveSelectedToken(i, record, lp, rest, goto)
  PROVE  /\ pages' \in Seq(Form) /\ Live' = Live + 1
         /\ Page' = [at |-> goto, contract |-> record.token, sel |-> NoToken, lp |-> NoLP]
         /\ asked' \in Seq(Question)
         /\ Range(asked') = Range(rest) \cup {Ask(i, t) : t \in Refreshed(pages[i], record)}
                                        \cup {Ask(Live + 1, record.token)}
<1>1. PICK p : p = pages[i]
  OBVIOUS
<1>2. /\ Live \in Nat /\ DOMAIN pages = 1 .. Live /\ p \in Form
      /\ \A j \in 1 .. Live : pages[j] \in Form
  BY <1>1, PageFacts
<1>3. PICK Q : Q = {Ask(i, t) : t \in Refreshed(p, record)}
  OBVIOUS
<1>4. Q = {} \/ Q = {Ask(i, record.token)}
  BY <1>3 DEF Refreshed
<1>5. Ask(i, record.token) \in Question /\ Ask(Live + 1, record.token) \in Question
  BY <1>2 DEF Ask, Question
<1>6. SetToSeq(Q) \in Seq(Question) /\ Range(SetToSeq(Q)) = Q
  BY <1>4, <1>5, RangeOfFew
<1>7. PICK s : s = rest \o SetToSeq(Q)
  OBVIOUS
<1>8. s \in Seq(Question) /\ Range(s) = Range(rest) \cup Q
  BY <1>6, <1>7, ConcatProperties, RangeConcatenation
<1>9. PICK f : f = [at |-> p.at, contract |-> p.contract, sel |-> record, lp |-> lp]
  OBVIOUS
<1>10. f \in Form /\ [p EXCEPT !.sel = record, !.lp = lp] = f
  <2>1. /\ p = [at |-> p.at, contract |-> p.contract, sel |-> p.sel, lp |-> p.lp]
        /\ p.at \in {"swap", "add", "create", "remove"} /\ p.contract \in Tokens \cup {None}
    BY <1>2 DEF Form
  <2>2. f \in Form
    BY <1>9, <2>1 DEF Form
  <2>3. [p EXCEPT !.sel = record, !.lp = lp] = f
    <3>1. PICK e : e = [p EXCEPT !.sel = record]
      OBVIOUS
    <3>2. e = [at |-> p.at, contract |-> p.contract, sel |-> record, lp |-> p.lp]
      BY <2>1, <3>1
    <3>3. [e EXCEPT !.lp = lp] = f
      BY <1>9, <3>2
    <3> QED
      BY <3>1, <3>3
  <2> QED
    BY <2>2, <2>3
<1>11. PICK kept : kept = [pages EXCEPT ![i] = f]
  OBVIOUS
<1>12. kept = [pages EXCEPT ![i].sel = record, ![i].lp = lp]
  BY <1>1, <1>2, <1>10, <1>11
<1>13. PICK new : new = [at |-> goto, contract |-> record.token, sel |-> NoToken, lp |-> NoLP]
  OBVIOUS
<1>14. /\ asked' = Append(s, Ask(Live + 1, record.token))
       /\ pages' = Append(kept, new)
  BY <1>1, <1>3, <1>7, <1>12, <1>13 DEF saveSelectedToken, Live
<1>15. asked' \in Seq(Question) /\ Range(asked') = Range(s) \cup {Ask(Live + 1, record.token)}
  BY <1>5, <1>8, <1>14, RangeAppend
<1>16. kept \in Seq(Form) /\ Len(kept) = Live
  <2>1. pages \in Seq(Form) /\ i \in 1 .. Len(pages)
    BY DEF FormTyped, Live
  <2> QED
    BY <1>10, <1>11, <2>1, ExceptSeq DEF Live
<1>17. new \in Form
  BY <1>13 DEF Form, NoToken, NoLP, NoMarket, Shown, Markets, Held
<1>18. pages' \in Seq(Form) /\ Len(pages') = Live + 1 /\ pages'[Live + 1] = new
  BY <1>14, <1>16, <1>17, AppendProperties
<1>19. Live' = Live + 1 /\ Page' = new
  BY <1>18 DEF Live, Page
<1> QED
  BY <1>1, <1>3, <1>8, <1>13, <1>15, <1>18, <1>19

\* One that sends the user to where the page at hand is already: that page has
\* another address, and nothing else of it changes.
LEMMA SavedReaddresses ==
  ASSUME FormTyped, NEW i \in 1 .. Live, i # Live, NEW record \in Shown, record.token \in Tokens,
         NEW lp \in Markets, NEW rest \in Seq(Question), NEW goto \in {"add", "create"},
         ~Mounts(goto), saveSelectedToken(i, record, lp, rest, goto)
  PROVE  /\ pages' \in Seq(Form) /\ Live' = Live
         /\ Page'.at = Page.at /\ Page'.sel = Page.sel /\ Page'.lp = Page.lp
         /\ asked' \in Seq(Question)
         /\ Range(asked') = Range(rest) \cup {Ask(i, t) : t \in Refreshed(pages[i], record)}
<1>1. PICK kept : kept = [pages EXCEPT ![i].sel = record, ![i].lp = lp]
  OBVIOUS
<1>2. PICK asks : asks = rest \o SetToSeq({Ask(i, t) : t \in Refreshed(pages[i], record)})
  OBVIOUS
<1>3. PICK c : c = Readdressed(record.token)
  OBVIOUS
<1>4. asked' = asks /\ pages' = [kept EXCEPT ![Live].contract = c]
  BY <1>1, <1>2, <1>3 DEF saveSelectedToken
<1>5. /\ Live \in Nat /\ Live \in 1 .. Live /\ Page \in Form /\ Page = pages[Live]
      /\ \A j \in 1 .. Live : pages[j] \in Form
      /\ pages \in Seq(Form) /\ Live = Len(pages) /\ DOMAIN pages = 1 .. Live
  BY PageFacts DEF FormTyped, Live, Page
<1>6. c \in Tokens \cup {None}
  BY <1>3, <1>5 DEF Readdressed, Form
<1>7. asks \in Seq(Question)
      /\ Range(asks) = Range(rest) \cup {Ask(i, t) : t \in Refreshed(pages[i], record)}
  <2>1. PICK Q : Q = {Ask(i, t) : t \in Refreshed(pages[i], record)}
    OBVIOUS
  <2>2. Q = {} \/ Q = {Ask(i, record.token)}
    BY <2>1 DEF Refreshed
  <2>3. Ask(i, record.token) \in Question
    BY <1>5 DEF Ask, Question
  <2>4. PICK s : s = SetToSeq(Q)
    OBVIOUS
  <2>5. s \in Seq(Question) /\ Range(s) = Q
    BY <2>2, <2>3, <2>4, RangeOfFew
  <2>6. asks = rest \o s
    BY <1>2, <2>1, <2>4
  <2>7. asks \in Seq(Question) /\ Range(asks) = Range(rest) \cup Range(s)
    BY <2>5, <2>6, ConcatProperties, RangeConcatenation
  <2> QED
    BY <2>1, <2>5, <2>7
<1>8. kept \in Seq(Form) /\ Len(kept) = Live /\ kept[Live] = Page
  <2>1. PICK p : p = pages[i]
    OBVIOUS
  <2>2. PICK f : f = [p EXCEPT !.sel = record, !.lp = lp]
    OBVIOUS
  <2>3. p \in Form
    BY <1>5, <2>1
  <2>4. f \in Form
    <3>1. PICK e : e = [p EXCEPT !.sel = record]
      OBVIOUS
    <3>2. e \in Form
      BY <2>3, <3>1 DEF Form
    <3>3. f = [e EXCEPT !.lp = lp]
      BY <2>2, <3>1
    <3> QED
      BY <3>2, <3>3 DEF Form
  <2>5. kept = [pages EXCEPT ![i] = f]
    BY <1>1, <1>5, <2>1, <2>2
  <2>6. /\ kept \in Seq(Form) /\ Len(kept) = Len(pages)
        /\ \A j \in 1 .. Len(pages) : kept[j] = IF j = i THEN f ELSE pages[j]
    <3>1. pages \in Seq(Form) /\ i \in 1 .. Len(pages)
      BY <1>5
    <3> QED
      BY <2>4, <2>5, <3>1, ExceptSeq
  <2> QED
    BY <1>5, <2>6
<1>9. PICK g : g = [Page EXCEPT !.contract = c]
  OBVIOUS
<1>10. g \in Form /\ g.at = Page.at /\ g.sel = Page.sel /\ g.lp = Page.lp
  BY <1>5, <1>6, <1>9 DEF Form
<1>11. pages' = [kept EXCEPT ![Live] = g]
  BY <1>4, <1>5, <1>8, <1>9
<1>12. /\ pages' \in Seq(Form) /\ Len(pages') = Len(kept)
       /\ \A j \in 1 .. Len(kept) : pages'[j] = IF j = Live THEN g ELSE kept[j]
  <2>1. kept \in Seq(Form) /\ Live \in 1 .. Len(kept)
    BY <1>5, <1>8
  <2> QED
    BY <1>10, <1>11, <2>1, ExceptSeq
<1>13. Live' = Live /\ Page' = g
  BY <1>5, <1>8, <1>12 DEF Live, Page
<1> QED
  BY <1>4, <1>7, <1>10, <1>12, <1>13

\* What leaves the pages and their questions alone.
LEMMA FormsLeft ==
  ASSUME FormInv, market' \in [Tokens -> Trades],
         UNCHANGED <<pages, asked, tradeFeed, chosen, contested, failed, late>>
  PROVE  FormInv'
<1>1. Live' = Live /\ Page' = Page
  BY DEF Live, Page
<1>2. FormTyped'
  BY <1>1 DEF FormInv, FormTyped
<1>3. ChoiceHolds' /\ QuoteComes'
  BY <1>1 DEF FormInv, ChoiceHolds, QuoteComes, QuotesOwn
<1> QED
  BY <1>2, <1>3 DEF FormInv

\* A page that comes up empty has asked for what was chosen, and for nothing else.
LEMMA ComesUpEmpty ==
  ASSUME FormTyped, market' \in [Tokens -> Trades],
         pages' \in Seq(Form), Live' = Live + 1, Page'.sel = NoToken,
         asked' \in Seq(Question),
         \A q \in Range(asked') : \/ q.by \in 1 .. Live
                                  \/ q.by = Live + 1 /\ q.token = chosen'
  PROVE  FormInv'
<1>1. Live \in Nat /\ Len(pages') = Live + 1
  BY PageFacts DEF Live
<1>2. \A q \in Range(asked') : q.by \in 1 .. Live'
  BY <1>1
<1>3. FormTyped'
  BY <1>1, <1>2 DEF FormTyped
<1>4. \A q \in Range(asked') : q.by = Live' => q.token = chosen'
  BY <1>1
<1>5. ChoiceHolds'
  BY <1>4 DEF ChoiceHolds
<1>6. QuoteComes'
  BY DEF QuoteComes
<1> QED
  BY <1>3, <1>5, <1>6 DEF FormInv

\* The user opens another page.
LEMMA OpenKeeps ==
  ASSUME FormInv, NEW at \in {"swap", "add", "create", "remove"}, NEW c \in Tokens \cup {None},
         OpenPage(at, c)
  PROVE  FormInv'
<1>1. /\ FormTyped /\ Live \in Nat /\ pages \in Seq(Form) /\ Live = Len(pages)
      /\ asked \in Seq(Question) /\ \A q \in Range(asked) : q.by \in 1 .. Live
  BY PageFacts DEF FormInv, FormTyped, Live
<1>2. PICK new : new = [at |-> at, contract |-> c, sel |-> NoToken, lp |-> NoLP]
  OBVIOUS
<1>3. new \in Form
  BY <1>2 DEF Form, NoToken, NoLP, NoMarket, Shown, Markets, Held
<1>4. /\ pages' = Append(pages, new) /\ market' = market /\ chosen' = c
      /\ asked' = IF c = None THEN asked ELSE Append(asked, Ask(Live + 1, c))
  BY <1>2 DEF OpenPage, Mounted
<1>5. pages' \in Seq(Form) /\ Len(pages') = Live + 1 /\ pages'[Live + 1] = new
  BY <1>1, <1>3, <1>4, AppendProperties
<1>6. Live' = Live + 1 /\ Page'.sel = NoToken
  BY <1>2, <1>5 DEF Live, Page
<1>7. asked' \in Seq(Question) /\ \A q \in Range(asked') : \/ q.by \in 1 .. Live
                                                           \/ q.by = Live + 1 /\ q.token = chosen'
  <2>1. CASE c = None
    BY <1>1, <1>4, <2>1
  <2>2. CASE c # None
    <3>1. PICK e : e = Ask(Live + 1, c)
      OBVIOUS
    <3>2. e \in Question /\ e.by = Live + 1 /\ e.token = c
      BY <1>1, <2>2, <3>1 DEF Ask, Question
    <3>3. asked' \in Seq(Question) /\ Range(asked') = Range(asked) \cup {e}
      BY <1>1, <1>4, <2>2, <3>1, <3>2, RangeAppend
    <3> QED
      BY <1>1, <1>4, <3>2, <3>3
  <2> QED
    BY <2>1, <2>2
<1>8. market' \in [Tokens -> Trades]
  BY <1>1, <1>4 DEF FormTyped
<1> QED
  BY <1>1, <1>5, <1>6, <1>7, <1>8, ComesUpEmpty

\* The answer about a token.
LEMMA AnswerFacts ==
  ASSUME FormTyped, HoldingsTyped, NEW t \in Tokens
  PROVE  /\ getToken(t).token \in Shown /\ getToken(t).lp_info \in Markets
         /\ getToken(t).token.token = t /\ getToken(t).token # NoToken
         /\ getToken(t).token.market => getToken(t).lp_info.token = t
         /\ ~getToken(t).token.market => getToken(t).lp_info.token = None
<1>1. market[t] \in Trades /\ BalanceShown \in Held
  BY DEF FormTyped, HoldingsTyped, BalanceShown, walletBalance, Held
<1>2. PICK r : r = getToken(t)
  OBVIOUS
<1>3. r.token = [token |-> t, market |-> market[t] # NoMarket, full |-> TRUE, balance |-> BalanceShown]
  BY <1>2 DEF getToken
<1>4. r.token \in Shown /\ r.token.token = t /\ r.token.full = TRUE
      /\ r.token.market = (market[t] # NoMarket)
  BY <1>1, <1>3 DEF Shown
<1>5. r.token # NoToken
  BY <1>4 DEF NoToken
<1>6. CASE market[t] # NoMarket
  <2>1. r.lp_info = [token |-> t, trades |-> market[t]]
    BY <1>2, <1>6 DEF getToken
  <2>2. r.lp_info \in Markets /\ r.lp_info.token = t
    BY <1>1, <1>6, <2>1 DEF Markets, Trades
  <2>3. r.token.market
    BY <1>4, <1>6
  <2> QED
    BY <1>2, <1>4, <1>5, <2>2, <2>3
<1>7. CASE market[t] = NoMarket
  <2>1. r.lp_info = NoLP
    BY <1>2, <1>7 DEF getToken
  <2>2. r.lp_info \in Markets /\ r.lp_info.token = None
    BY <2>1 DEF Markets, NoLP, NoMarket
  <2>3. ~r.token.market
    BY <1>4, <1>7
  <2> QED
    BY <1>2, <1>4, <1>5, <2>2, <2>3
<1> QED
  BY <1>6, <1>7

\* An answer, in whatever order it comes, and to whatever page.
LEMMA AnswerKeeps ==
  ASSUME FormInv, HoldingsTyped, NEW k \in DOMAIN asked, refreshTokenInfo(k)
  PROVE  FormInv'
<1>1. PICK ask : ask = asked[k]
  OBVIOUS
<1>2. /\ FormTyped /\ Live \in Nat /\ Live \in 1 .. Live /\ asked \in Seq(Question)
      /\ \A q \in Range(asked) : q.by \in 1 .. Live
      /\ ask \in Question /\ ask \in Range(asked) /\ ask.by \in 1 .. Live /\ ask.token \in Tokens
  BY <1>1, PageFacts DEF FormInv, FormTyped, Question
<1>3. PICK p : p = pages[ask.by]
  OBVIOUS
<1>4. PICK r : r = getToken(ask.token).token
  OBVIOUS
<1>5. PICK lp : lp = getToken(ask.token).lp_info
  OBVIOUS
<1>6. /\ r \in Shown /\ lp \in Markets /\ r.token = ask.token /\ r # NoToken
      /\ r.market => lp.token = ask.token
      /\ ~r.market => lp.token = None
  BY <1>2, <1>4, <1>5, AnswerFacts
<1>7. PICK rest : rest = RemoveAt(asked, k)
  OBVIOUS
<1>8. /\ rest \in Seq(Question) /\ Range(rest) \subseteq Range(asked)
      /\ Range(asked) \subseteq Range(rest) \cup {ask}
  BY <1>1, <1>2, <1>7, RangeRemoved
<1>9. PICK goto : goto = Redirect(p, r)
  OBVIOUS
<1>10. goto \in {"stay", "add", "create"}
  BY <1>9 DEF Redirect
<1>11. /\ saveSelectedToken(ask.by, r, lp, rest, goto)
       /\ tradeFeed' = TradeFeed(p, goto, ask.token)
       /\ late' = (late \/ (p.at = "swap" /\ ask.by # Live))
       /\ ~Mounts(goto) => UNCHANGED <<chosen, contested, failed>>
       /\ Mounts(goto) => chosen' = ask.token
       /\ market' = market
  BY <1>1, <1>3, <1>4, <1>5, <1>7, <1>9 DEF refreshTokenInfo, Mounted
<1>12. market' \in [Tokens -> Trades]
  BY <1>2, <1>11 DEF FormTyped
<1>13. PICK Q : Q = {Ask(ask.by, t) : t \in Refreshed(p, r)}
  OBVIOUS
<1>14. \A q \in Q : q.by = ask.by /\ q.token = ask.token
  BY <1>6, <1>13 DEF Refreshed, Ask
<1>15. CASE Mounts(goto)
  <2>1. goto \in {"add", "create"}
    BY <1>10, <1>15 DEF Mounts
  <2>2. /\ pages' \in Seq(Form) /\ Live' = Live + 1 /\ Page'.sel = NoToken
        /\ asked' \in Seq(Question)
        /\ Range(asked') = Range(rest) \cup Q \cup {Ask(Live + 1, ask.token)}
    BY <1>2, <1>3, <1>6, <1>8, <1>11, <1>13, <1>15, <2>1, SavedGoes
  <2>3. ASSUME NEW q \in Range(asked')
        PROVE  q.by \in 1 .. Live \/ (q.by = Live + 1 /\ q.token = chosen')
    <3>1. q \in Range(asked) \/ q \in Q \/ q = Ask(Live + 1, ask.token)
      BY <1>8, <2>2
    <3> QED
      BY <1>2, <1>11, <1>14, <1>15, <3>1 DEF Ask
  <2> QED
    BY <1>2, <1>12, <2>2, <2>3, ComesUpEmpty
<1>16. CASE goto = "stay"
  <2>1. /\ pages' \in Seq(Form) /\ Live' = Live
        /\ \A j \in 1 .. Live : j # ask.by => pages'[j] = pages[j]
        /\ pages'[ask.by] = [at |-> p.at, contract |-> p.contract, sel |-> r, lp |-> lp]
        /\ asked' \in Seq(Question)
        /\ Range(asked') = Range(rest) \cup Q
    <3>1. saveSelectedToken(ask.by, r, lp, rest, "stay")
      BY <1>11, <1>16
    <3>2. r.token \in Tokens
      BY <1>2, <1>6
    <3> QED
      BY <1>2, <1>3, <1>6, <1>8, <1>13, <3>1, <3>2, SavedStays
  <2>2. FormTyped'
    <3>1. \A q \in Range(asked') : q.by \in 1 .. Live'
      BY <1>2, <1>8, <1>14, <2>1
    <3>2. Len(pages') > 0
      BY <1>2, <2>1 DEF Live
    <3> QED
      BY <1>12, <2>1, <3>1, <3>2 DEF FormTyped
  <2>3. ASSUME ask.by = Live
        PROVE  ChoiceHolds' /\ QuoteComes'
    <3>1. Page' = [at |-> p.at, contract |-> p.contract, sel |-> r, lp |-> lp]
      BY <2>1, <2>3 DEF Page
    <3>2. ASSUME ~contested', chosen' # None
          PROVE  Page'.sel.token = chosen' /\ \A q \in Range(asked') : q.by = Live' => q.token = chosen'
      <4>1. /\ chosen' = chosen /\ ask.token = chosen
            /\ \A q \in Range(asked) : q.by = Live => q.token = chosen
        BY <1>2, <1>11, <1>16, <2>3, <3>2 DEF FormInv, ChoiceHolds, Mounts
      <4> QED
        BY <1>6, <1>8, <1>14, <2>1, <3>1, <4>1
    <3>3. QuotesOwn'
      <4>1. p.at = "swap" => tradeFeed' = ask.token
        BY <1>11 DEF TradeFeed
      <4>2. Page'.sel = r /\ Page'.lp = lp /\ Page'.at = p.at
        BY <3>1
      <4> QED
        BY <1>6, <4>1, <4>2 DEF QuotesOwn
    <3> QED
      BY <3>2, <3>3 DEF ChoiceHolds, QuoteComes
  <2>4. ASSUME ask.by # Live
        PROVE  ChoiceHolds' /\ QuoteComes'
    <3>1. Page' = Page /\ \A q \in Q : q.by # Live
      BY <1>2, <1>14, <2>1, <2>4 DEF Page
    <3>2. \A q \in Range(asked') : q.by = Live => q \in Range(asked)
      BY <1>8, <2>1, <3>1
    <3>3. \A q \in Range(asked) : q.by = Live => q \in Range(asked')
      BY <1>8, <2>1, <2>4
    <3>4. ChoiceHolds'
      BY <1>11, <1>16, <2>1, <3>1, <3>2 DEF FormInv, ChoiceHolds, Mounts
    <3>5. late' \/ (tradeFeed' = tradeFeed /\ ~late)
      BY <1>11, <1>16, <2>4 DEF TradeFeed
    <3>6. QuotesOwn => QuotesOwn'
      BY <3>1, <3>5 DEF QuotesOwn
    <3>7. QuoteComes'
      BY <1>11, <1>16, <2>1, <3>1, <3>3, <3>6 DEF FormInv, QuoteComes, Mounts
    <3> QED
      BY <3>4, <3>7
  <2> QED
    BY <2>2, <2>3, <2>4 DEF FormInv
<1>17. CASE goto # "stay" /\ ~Mounts(goto)
  <2>1. goto \in {"add", "create"} /\ goto = Page.at /\ goto # p.at
    BY <1>9, <1>10, <1>17 DEF Mounts, Redirect
  <2>2. ask.by # Live
    BY <1>3, <2>1 DEF Page
  <2>3. /\ pages' \in Seq(Form) /\ Live' = Live
        /\ Page'.at = Page.at /\ Page'.sel = Page.sel /\ Page'.lp = Page.lp
        /\ asked' \in Seq(Question)
        /\ Range(asked') = Range(rest) \cup Q
    <3>1. r.token \in Tokens
      BY <1>2, <1>6
    <3> QED
      BY <1>2, <1>3, <1>6, <1>8, <1>11, <1>13, <1>17, <2>1, <2>2, <3>1, SavedReaddresses
  <2>4. FormTyped'
    <3>1. \A q \in Range(asked') : q.by \in 1 .. Live'
      BY <1>2, <1>8, <1>14, <2>3
    <3>2. Len(pages') > 0
      BY <1>2, <2>3 DEF Live
    <3> QED
      BY <1>12, <2>3, <3>1, <3>2 DEF FormTyped
  <2>5. \A q : q.by = Live => (q \in Range(asked') <=> q \in Range(asked))
    BY <1>8, <1>14, <2>2, <2>3
  <2>6. UNCHANGED <<chosen, contested, failed>>
    BY <1>11, <1>17
  <2>7. ChoiceHolds'
    BY <2>3, <2>5, <2>6 DEF FormInv, ChoiceHolds
  <2>8. QuotesOwn => QuotesOwn'
    BY <2>1, <2>3 DEF QuotesOwn
  <2>9. QuoteComes'
    BY <2>3, <2>5, <2>6, <2>8 DEF FormInv, QuoteComes
  <2> QED
    BY <2>4, <2>7, <2>9 DEF FormInv
<1> QED
  BY <1>15, <1>16, <1>17

\* A question that fails.
LEMMA FailureKeeps ==
  ASSUME FormInv, NEW k \in DOMAIN asked, refreshTokenInfoFails(k)
  PROVE  FormInv'
<1>1. PICK ask : ask = asked[k]
  OBVIOUS
<1>2. PICK rest : rest = RemoveAt(asked, k)
  OBVIOUS
<1>3. /\ rest \in Seq(Question) /\ Range(rest) \subseteq Range(asked)
      /\ Range(asked) \subseteq Range(rest) \cup {ask}
  BY <1>1, <1>2, RangeRemoved DEF FormInv, FormTyped
<1>4. /\ asked' = rest /\ failed' = (failed \/ ask.by = Live)
      /\ UNCHANGED <<market, pages, tradeFeed, chosen, contested, late>>
  BY <1>1, <1>2 DEF refreshTokenInfoFails
<1>5. Live' = Live /\ Page' = Page
  BY <1>4 DEF Live, Page
<1>6. FormTyped'
  BY <1>3, <1>4, <1>5 DEF FormInv, FormTyped
<1>7. ChoiceHolds'
  BY <1>3, <1>4, <1>5 DEF FormInv, ChoiceHolds
<1>8. QuoteComes'
  <2>1. QuotesOwn => QuotesOwn'
    BY <1>4, <1>5 DEF QuotesOwn
  <2> QED
    BY <1>3, <1>4, <1>5, <2>1 DEF FormInv, QuoteComes
<1> QED
  BY <1>6, <1>7, <1>8 DEF FormInv

\* A timer that runs out: the question goes out, by the same page about the same
\* token.
LEMMA TimerKeeps ==
  ASSUME FormInv, NEW k \in DOMAIN asked, resetPageTimer(k)
  PROVE  FormInv'
<1>1. PICK ask : ask = asked[k]
  OBVIOUS
<1>2. PICK n \in Nat : n = Len(asked) /\ DOMAIN asked = 1 .. n
  BY LenProperties DEF FormInv, FormTyped
<1>3. ask \in Question /\ \A j \in 1 .. n : asked[j] \in Question
  BY <1>1, <1>2, PageFacts DEF FormInv
<1>4. PICK sent : sent = [ask EXCEPT !.timer = FALSE]
  OBVIOUS
<1>5. sent \in Question /\ sent.by = ask.by /\ sent.token = ask.token
  BY <1>3, <1>4 DEF Question
<1>6. /\ asked' = [asked EXCEPT ![k] = sent]
      /\ UNCHANGED <<market, pages, tradeFeed, chosen, contested, failed, late>>
  BY <1>1, <1>4 DEF resetPageTimer, ghosts
<1>7. /\ asked' \in Seq(Question) /\ DOMAIN asked' = 1 .. n
      /\ \A j \in 1 .. n : asked'[j] = IF j = k THEN sent ELSE asked[j]
  <2>1. asked \in Seq(Question) /\ k \in 1 .. Len(asked)
    BY <1>2 DEF FormInv, FormTyped
  <2>2. /\ asked' \in Seq(Question) /\ Len(asked') = Len(asked)
        /\ \A j \in 1 .. Len(asked) : asked'[j] = IF j = k THEN sent ELSE asked[j]
    BY <1>5, <1>6, <2>1, ExceptSeq
  <2> QED
    BY <1>2, <2>2, LenProperties
<1>8. \A j \in 1 .. n : asked'[j].by = asked[j].by /\ asked'[j].token = asked[j].token
  BY <1>1, <1>5, <1>7
<1>9. /\ \A q \in Range(asked') : \E o \in Range(asked) : o.by = q.by /\ o.token = q.token
      /\ \A o \in Range(asked) : \E q \in Range(asked') : o.by = q.by /\ o.token = q.token
  <2>1. PICK a : a = asked'
    OBVIOUS
  <2>2. DOMAIN a = 1 .. n /\ \A j \in 1 .. n : a[j].by = asked[j].by /\ a[j].token = asked[j].token
    BY <1>7, <1>8, <2>1
  <2>3. Range(asked) = {asked[j] : j \in 1 .. n} /\ Range(a) = {a[j] : j \in 1 .. n}
    BY <1>2, <2>2 DEF Range
  <2>4. /\ \A q \in Range(a) : \E o \in Range(asked) : o.by = q.by /\ o.token = q.token
        /\ \A o \in Range(asked) : \E q \in Range(a) : o.by = q.by /\ o.token = q.token
    BY <2>2, <2>3
  <2> QED
    BY <2>1, <2>4
<1>10. Live' = Live /\ Page' = Page
  BY <1>6 DEF Live, Page
<1>11. FormTyped'
  <2>1. \A q \in Range(asked') : q.by \in 1 .. Live'
    BY <1>9, <1>10 DEF FormInv, FormTyped
  <2> QED
    BY <1>6, <1>7, <2>1 DEF FormInv, FormTyped
<1>12. ChoiceHolds'
  <2>1. ASSUME ~contested, chosen # None, NEW q \in Range(asked'), q.by = Live
        PROVE  q.token = chosen
    BY <1>9, <2>1 DEF FormInv, ChoiceHolds
  <2> QED
    BY <1>6, <1>10, <2>1 DEF FormInv, ChoiceHolds
<1>13. QuoteComes'
  <2>1. QuotesOwn => QuotesOwn'
    BY <1>6, <1>10 DEF QuotesOwn
  <2> QED
    BY <1>6, <1>9, <1>10, <2>1 DEF FormInv, QuoteComes
<1> QED
  BY <1>11, <1>12, <1>13 DEF FormInv

\* The user chooses from the list.
LEMMA SelectKeeps ==
  ASSUME FormInv, HoldingsTyped, NEW record \in createTokenList, handleTokenSelect(record)
  PROVE  FormInv'
<1>1. /\ FormTyped /\ Live \in Nat /\ Live \in 1 .. Live /\ asked \in Seq(Question)
      /\ \A q \in Range(asked) : q.by \in 1 .. Live
      /\ Page \in Form /\ Page = pages[Live] /\ Page.lp \in Markets
  BY PageFacts DEF FormInv, FormTyped, Form, Page
<1>2. /\ record \in Shown /\ record.token \in Tokens
      /\ record.market <=> Page.at # "create"
  <2>1. BalanceShown \in Held /\ walletBalance \in Held
    BY DEF HoldingsTyped, BalanceShown, walletBalance, Held
  <2>2. CASE Page.at = "create"
    <3>1. PICK t \in Tokens : record = [token |-> t, market |-> FALSE, full |-> FALSE,
                                        balance |-> BalanceShown]
      BY <2>2 DEF createTokenList, getTokenList
    <3> QED
      BY <2>1, <2>2, <3>1 DEF Shown
  <2>3. CASE Page.at # "create"
    <3>1. PICK t \in Tokens : record = [token |-> t, market |-> TRUE, full |-> TRUE,
                                        balance |-> IF walletIsReady THEN walletBalance ELSE Null]
      BY <2>3 DEF createTokenList, getMarketList
    <3> QED
      BY <2>1, <2>3, <3>1 DEF Shown
  <2> QED
    BY <2>2, <2>3
<1>3. /\ Page.at # "remove" /\ saveSelectedToken(Live, record, Page.lp, asked, "stay")
      /\ chosen' = record.token /\ UNCHANGED <<market, tradeFeed, failed, late>>
      /\ contested' = (contested \/ \E j \in DOMAIN asked :
                                      asked[j].by = Live /\ asked[j].token # record.token)
  BY DEF handleTokenSelect
<1>4. PICK Q : Q = {Ask(Live, t) : t \in Refreshed(Page, record)}
  OBVIOUS
<1>5. /\ pages' \in Seq(Form) /\ Live' = Live
      /\ pages'[Live] = [at |-> Page.at, contract |-> Page.contract, sel |-> record, lp |-> Page.lp]
      /\ asked' \in Seq(Question) /\ Range(asked') = Range(asked) \cup Q
  BY <1>1, <1>2, <1>3, <1>4, SavedStays
<1>6. Page' = [at |-> Page.at, contract |-> Page.contract, sel |-> record, lp |-> Page.lp]
  BY <1>5 DEF Page
<1>7. \A q \in Q : q.by = Live /\ q.token = record.token
  BY <1>4 DEF Refreshed, Ask
<1>8. FormTyped'
  <2>1. \A q \in Range(asked') : q.by \in 1 .. Live'
    BY <1>1, <1>5, <1>7
  <2>2. Len(pages') > 0 /\ market' \in [Tokens -> Trades]
    BY <1>1, <1>3, <1>5 DEF Live, FormTyped
  <2> QED
    BY <1>5, <2>1, <2>2 DEF FormTyped
<1>9. ChoiceHolds'
  <2>1. ASSUME ~contested'
        PROVE  \A q \in Range(asked) : q.by = Live => q.token = record.token
    BY <1>3, <2>1 DEF Range
  <2> QED
    BY <1>3, <1>5, <1>6, <1>7, <2>1 DEF ChoiceHolds
<1>10. QuoteComes'
  <2>1. CASE record = Page.sel
    <3>1. Page'.at = Page.at /\ Page'.sel = Page.sel /\ Page'.lp = Page.lp
      BY <1>6, <2>1
    <3>2. QuotesOwn => QuotesOwn'
      BY <1>3, <3>1 DEF QuotesOwn
    <3> QED
      BY <1>3, <1>5, <3>1, <3>2 DEF FormInv, QuoteComes
  <2>2. CASE record # Page.sel
    <3>1. Page.at \in {"swap", "add", "create"}
      BY <1>1, <1>3 DEF Form
    <3>2. Refreshed(Page, record) = {record.token}
      BY <1>2, <2>2, <3>1 DEF Refreshed
    <3>3. Ask(Live, record.token) \in Q /\ Ask(Live, record.token).by = Live
      BY <1>4, <3>2 DEF Ask
    <3> QED
      BY <1>5, <3>3 DEF QuoteComes
  <2> QED
    BY <2>1, <2>2
<1> QED
  BY <1>8, <1>9, <1>10 DEF FormInv

\* A trade: the page will ask for its token again, or for the one of its address.
LEMMA TradeKeeps ==
  ASSUME FormInv, Succeeds
  PROVE  FormInv'
<1>1. /\ FormTyped /\ Live \in Nat /\ Live \in 1 .. Live /\ asked \in Seq(Question)
      /\ \A q \in Range(asked) : q.by \in 1 .. Live
      /\ Page \in Form /\ Page.contract \in Tokens \cup {None} /\ Page.sel.token \in Tokens \cup {None}
  BY PageFacts DEF FormInv, FormTyped, Form, Shown
<1>2. /\ Page.sel # NoToken
      /\ market' = [market EXCEPT ![Page.sel.token] = @ + 1]
      /\ asked' = IF ResetTo = None THEN asked
                  ELSE Append(asked, [Ask(Live, ResetTo) EXCEPT !.timer = TRUE])
      /\ contested' = (contested \/ (Page.at # "swap" /\ Page.contract \notin {None, Page.sel.token})
                                 \/ \E k \in DOMAIN asked :
                                      asked[k].by = Live /\ asked[k].token # Page.sel.token)
      /\ UNCHANGED <<pages, tradeFeed, chosen, failed, late>>
  BY DEF Succeeds
<1>3. Live' = Live /\ Page' = Page
  BY <1>2 DEF Live, Page
<1>4. market' \in [Tokens -> Trades]
  <2>1. PICK t : t = Page.sel.token
    OBVIOUS
  <2>2. market \in [Tokens -> Trades] /\ market' = [market EXCEPT ![t] = @ + 1]
    BY <1>1, <1>2, <2>1 DEF FormTyped
  <2>3. t \in Tokens => market[t] + 1 \in Trades
    BY <2>1, <2>2, OneMoreTrade DEF Succeeds
  <2> QED
    BY <2>2, <2>3
<1>5. /\ asked' \in Seq(Question) /\ Range(asked) \subseteq Range(asked')
      /\ \A q \in Range(asked') : q \in Range(asked) \/ (q.by = Live /\ q.token = ResetTo /\ ResetTo # None)
  <2>1. CASE ResetTo = None
    BY <1>1, <1>2, <2>1
  <2>2. CASE ResetTo # None
    <3>1. PICK e : e = [Ask(Live, ResetTo) EXCEPT !.timer = TRUE]
      OBVIOUS
    <3>2. e = [by |-> Live, token |-> ResetTo, timer |-> TRUE]
      BY <3>1 DEF Ask
    <3>3. ResetTo \in Tokens
      BY <1>1, <2>2 DEF ResetTo
    <3>4. e \in Question /\ e.by = Live /\ e.token = ResetTo
      BY <1>1, <3>2, <3>3 DEF Question
    <3>5. asked' = Append(asked, e)
      BY <1>2, <2>2, <3>1
    <3>6. asked' \in Seq(Question) /\ Range(asked') = Range(asked) \cup {e}
      BY <1>1, <3>4, <3>5, RangeAppend
    <3> QED
      BY <2>2, <3>4, <3>6
  <2> QED
    BY <2>1, <2>2
<1>6. FormTyped'
  BY <1>1, <1>2, <1>3, <1>4, <1>5 DEF FormTyped
<1>7. ChoiceHolds'
  <2>1. ASSUME ~contested', chosen' # None
        PROVE  /\ Page.sel.token = chosen
               /\ \A q \in Range(asked') : q.by = Live => q.token = chosen
    <3>1. /\ ~contested /\ Page.sel.token = chosen
          /\ \A q \in Range(asked) : q.by = Live => q.token = chosen
      BY <1>2, <2>1 DEF FormInv, ChoiceHolds
    <3>2. ResetTo # None => ResetTo = chosen
      BY <1>2, <2>1, <3>1 DEF ResetTo
    <3> QED
      BY <1>5, <3>1, <3>2
  <2> QED
    BY <1>2, <1>3, <2>1 DEF ChoiceHolds
<1>8. QuoteComes'
  <2>1. QuotesOwn => QuotesOwn'
    BY <1>2, <1>3 DEF QuotesOwn
  <2> QED
    BY <1>2, <1>3, <1>5, <2>1 DEF FormInv, QuoteComes
<1> QED
  BY <1>6, <1>7, <1>8 DEF FormInv

\* What the first page has asked for is what its address says.
LEMMA FirstQuestion ==
  ASSUME NEW c \in Tokens \cup {None}, NEW out, out = IF c = None THEN <<>> ELSE <<Ask(1, c)>>
  PROVE  out \in Seq(Question) /\ \A q \in Range(out) : q.by = 1 /\ q.token = c
<1>1. CASE c = None
  <2>1. out = <<>> /\ DOMAIN out = {}
    BY <1>1
  <2> QED
    BY <2>1 DEF Range
<1>2. CASE c # None
  <2>1. PICK e : e = Ask(1, c)
    OBVIOUS
  <2>2. e \in Question /\ e.by = 1 /\ e.token = c
    BY <1>2, <2>1 DEF Ask, Question
  <2>3. out = <<e>> /\ out \in Seq(Question) /\ DOMAIN out = {1} /\ out[1] = e
    BY <1>2, <2>1, <2>2
  <2> QED
    BY <2>2, <2>3 DEF Range
<1> QED
  BY <1>1, <1>2

\* It holds when the client is opened.
LEMMA FormStarts == FormInit => FormInv
<1> SUFFICES ASSUME FormInit PROVE FormInv
  OBVIOUS
<1>1. PICK c \in Tokens \cup {None}, at \in {"swap", "add", "create", "remove"} :
        /\ pages = <<[at |-> at, contract |-> c, sel |-> NoToken, lp |-> NoLP]>>
        /\ asked = IF c = None THEN <<>> ELSE <<Ask(1, c)>>
        /\ chosen = c
  BY DEF FormInit
<1>2. PICK new : new = [at |-> at, contract |-> c, sel |-> NoToken, lp |-> NoLP]
  OBVIOUS
<1>3. new \in Form /\ new.sel = NoToken
  BY <1>2 DEF Form, NoToken, NoLP, NoMarket, Shown, Markets, Held
<1>4. pages = <<new>> /\ pages \in Seq(Form) /\ Len(pages) = 1 /\ Live = 1 /\ Page = new
  BY <1>1, <1>2, <1>3 DEF Live, Page
<1>5. asked \in Seq(Question) /\ \A q \in Range(asked) : q.by = 1 /\ q.token = c
  BY <1>1, FirstQuestion
<1>6. market \in [Tokens -> Trades]
  <2>1. NoMarket \in Trades /\ 1 \in Trades
    BY FormAssumption DEF Trades
  <2> QED
    BY <2>1 DEF FormInit
<1>7. FormTyped
  BY <1>4, <1>5, <1>6 DEF FormTyped
<1>8. ChoiceHolds /\ QuoteComes
  BY <1>1, <1>3, <1>4, <1>5 DEF ChoiceHolds, QuoteComes
<1> QED
  BY <1>7, <1>8 DEF FormInv

\* And after the page is loaded again.
LEMMA ReloadKeepsForms ==
  ASSUME FormInv, ReloadClient
  PROVE  FormInv'
<1>1. /\ Page \in Form /\ Page.at \in {"swap", "add", "create", "remove"}
      /\ Page.contract \in Tokens \cup {None}
  BY PageFacts DEF FormInv, Form
<1>2. PICK c \in Tokens \cup {None} : c = Page.contract
  BY <1>1
<1>3. PICK new : new = [at |-> Page.at, contract |-> c, sel |-> NoToken, lp |-> NoLP]
  OBVIOUS
<1>4. new \in Form /\ new.sel = NoToken
  BY <1>1, <1>3 DEF Form, NoToken, NoLP, NoMarket, Shown, Markets, Held
<1>5. /\ pages' = <<new>> /\ chosen' = c /\ market' = market
      /\ asked' = IF c = None THEN <<>> ELSE <<Ask(1, c)>>
  BY <1>2, <1>3 DEF ReloadClient
<1>6. pages' \in Seq(Form) /\ Len(pages') = 1 /\ Live' = 1 /\ Page' = new
  BY <1>4, <1>5 DEF Live, Page
<1>7. asked' \in Seq(Question) /\ \A q \in Range(asked') : q.by = 1 /\ q.token = c
  <2>1. PICK out : out = asked'
    OBVIOUS
  <2>2. out \in Seq(Question) /\ \A q \in Range(out) : q.by = 1 /\ q.token = c
    BY <1>5, <2>1, FirstQuestion
  <2> QED
    BY <2>1, <2>2
<1>8. FormTyped'
  BY <1>5, <1>6, <1>7 DEF FormInv, FormTyped
<1>9. ChoiceHolds' /\ QuoteComes'
  BY <1>4, <1>5, <1>6, <1>7 DEF ChoiceHolds, QuoteComes
<1> QED
  BY <1>8, <1>9 DEF FormInv

\* The user at the inputs, and other users in the markets.
LEMMA InputsKeep ==
  ASSUME FormInv, HoldingsTyped, FormUser \/ FormOthers
  PROVE  FormInv'
<1>1. market \in [Tokens -> Trades]
  BY DEF FormInv, FormTyped
<1>2. ASSUME UNCHANGED <<market, pages, asked, tradeFeed, chosen, contested, failed, late>>
      PROVE  FormInv'
  BY <1>1, <1>2, FormsLeft
<1>3. ASSUME NEW amount, TypeCurrency(amount) \/ TypeToken(amount)
      PROVE  FormInv'
  BY <1>2, <1>3 DEF TypeCurrency, TypeToken, ghosts
<1>4. ASSUME swapSlots \/ setPayInRswp \/ openConfirm \/ closeConfirm
      PROVE  FormInv'
  BY <1>2, <1>4 DEF swapSlots, setPayInRswp, openConfirm, closeConfirm, ghosts
<1>5. ASSUME NEW percent, setSlippageTolerance(percent) \/ handleLpTokensChange(percent)
      PROVE  FormInv'
  BY <1>2, <1>5 DEF setSlippageTolerance, handleLpTokensChange, ghosts
<1>6. ASSUME NEW t \in Tokens, Traded(t)
      PROVE  FormInv'
  <2>1. market' \in [Tokens -> Trades]
    <3>1. market[t] + 1 \in Trades
      BY <1>1, <1>6, OneMoreTrade DEF Traded
    <3> QED
      BY <1>1, <1>6, <3>1 DEF Traded
  <2>2. UNCHANGED <<pages, asked, tradeFeed, chosen, contested, failed, late>>
    BY <1>6 DEF Traded, ghosts
  <2> QED
    BY <2>1, <2>2, FormsLeft
<1>7. CASE FormUser
  BY <1>3, <1>4, <1>5, <1>7, OpenKeeps, SelectKeeps DEF FormUser, handleMaxInput
<1>8. CASE FormOthers
  BY <1>6, <1>8 DEF FormOthers
<1> QED
  BY <1>7, <1>8

-----------------------------------------------------------------------------
(* Quotes: what a rounding adds, and what the allowed impact leaves.         *)

\* A rounded quotient, without the quotient.
LEMMA Rounded ==
  ASSUME NEW n \in Nat, NEW d \in Nat \ {0}
  PROVE  /\ toBigNumberPrecision(n, d) \in Nat
         /\ 2 * (d * toBigNumberPrecision(n, d)) <= 2 * n + d
         /\ 2 * n < 2 * (d * toBigNumberPrecision(n, d)) + d
<1>1. PICK x \in Nat : x = 2 * n + d
  OBVIOUS
<1>2. PICK y \in Nat \ {0} : y = 2 * d
  OBVIOUS
<1>3. PICK z : z = x \div y
  OBVIOUS
<1>4. z \in Nat /\ y * z <= x /\ x < y * (z + 1)
  <2>1. z \in Nat
    BY <1>3
  <2>2. y * z <= x /\ x < y * z + y
    BY <1>3
  <2> QED
    BY <2>1, <2>2
<1>5. y * z = 2 * (d * z) /\ y * (z + 1) = 2 * (d * z) + 2 * d
  BY <1>2, <1>4
<1>6. toBigNumberPrecision(n, d) = z
  BY <1>1, <1>2, <1>3 DEF toBigNumberPrecision
<1> QED
  BY <1>1, <1>4, <1>5, <1>6

\* Inequalities are multiplied.
LEMMA Scaled ==
  ASSUME NEW c \in Nat, NEW x \in Int, NEW y \in Int, x <= y
  PROVE  c * x <= c * y
  OBVIOUS

\* And divided.
LEMMA Unscaled ==
  ASSUME NEW c \in Nat \ {0}, NEW x \in Int, NEW y \in Int, c * x <= c * y
  PROVE  x <= y
  OBVIOUS

\* The price before is within the tolerance of the one after, rounded.
Near(p, p1, t) == 20000 * p <= p1 * (20001 + 200 * t)

\* The hypotheses of the next lemma.
Impacted(F, N, A, O, p, p1, q, t) ==
  /\ 2 * (F * p) <= 2 * A + F
  /\ 2 * ((N * N) * p1) <= 2 * (F * A) + O * N + N * N
  /\ Near(p, p1, t)
  /\ 200 * q <= 2 * (p * (100 - t)) + 100

\* The price the user may get, q, is the price at hand, p, less the tolerance; the
\* impact that is allowed leaves the market there, but for the roundings.
LEMMA WithinImpact ==
  ASSUME NEW F \in Nat, NEW N \in Nat \ {0}, F < N, NEW A \in Nat, NEW O \in Nat,
         NEW p \in Nat, NEW p1 \in Nat, NEW q \in Nat, NEW t \in 1 .. 49,
         Impacted(F, N, A, O, p, p1, q, t)
  PROVE  N * q <= A + 3 * N + O
<1> USE DEF Impacted, Near
<1>1. PICK g \in Nat : g = 100 - t
  OBVIOUS
<1>2. PICK K \in Nat : K = 20001 + 200 * t
  OBVIOUS
<1>3. 100 * (N * q) <= N * (p * g) + 50 * N
  <2>1. 100 * q <= p * g + 50
    BY <1>1
  <2>2. N * (100 * q) <= N * (p * g + 50)
    BY <1>1, <2>1, Scaled
  <2> QED
    BY <1>1, <2>2
<1>4. CASE N * g <= 100 * F
  <2>1. p * (N * g) <= p * (100 * F)
    BY <1>1, <1>4, Scaled
  <2>2. N * (p * g) <= 100 * A + 50 * F
    BY <1>1, <2>1
  <2> QED
    BY <1>3, <2>2
<1>5. CASE 100 * F < N * g
  <2>1. A * (100 * F) <= A * (N * g)
    BY <1>1, <1>5, Scaled
  <2>2. (N * N) * (20000 * p) <= (N * N) * (p1 * K)
    BY <1>2, Scaled
  <2>3. K * (2 * ((N * N) * p1)) <= K * (2 * (F * A) + O * N + N * N)
    BY <1>2, Scaled
  <2>4. 40000 * ((N * N) * p) <= K * (2 * (F * A) + O * N + N * N)
    BY <1>2, <2>2, <2>3
  <2>5. 100 * (2 * (F * A) + O * N + N * N) <= N * (2 * (g * A) + 100 * O + 100 * N)
    BY <1>1, <2>1
  <2>6. K * (100 * (2 * (F * A) + O * N + N * N)) <= K * (N * (2 * (g * A) + 100 * O + 100 * N))
    BY <1>1, <1>2, <2>5, Scaled
  <2>7. N * (4000000 * (N * p)) <= N * (K * (2 * (g * A) + 100 * O + 100 * N))
    BY <1>1, <1>2, <2>4, <2>6
  <2>8. 4000000 * (N * p) <= K * (2 * (g * A) + 100 * O + 100 * N)
    BY <1>1, <1>2, <2>7, Unscaled
  <2>9. g * (4000000 * (N * p)) <= g * (K * (2 * (g * A) + 100 * O + 100 * N))
    BY <1>1, <1>2, <2>8, Scaled
  <2>10. PICK m \in Nat : m = K * g
    BY <1>1, <1>2
  <2>11. m <= 2000000 /\ m * g <= 200000000
    <3>1. m = 2000100 - t - 200 * (t * t)
      BY <1>1, <1>2, <2>10
    <3>2. t * t >= t
      OBVIOUS
    <3>3. m <= 1999899
      BY <3>1, <3>2
    <3>4. g * m <= g * 1999899
      BY <1>1, <2>10, <3>3, Scaled
    <3> QED
      BY <1>1, <3>3, <3>4
  <2>12. 4000000 * (N * (p * g)) <= 2 * ((m * g) * A) + 100 * (m * (O + N))
    BY <1>1, <1>2, <2>9, <2>10
  <2>13. A * (m * g) <= A * 200000000
    BY <1>1, <2>10, <2>11, Scaled
  <2>14. (O + N) * m <= (O + N) * 2000000
    BY <2>10, <2>11, Scaled
  <2>15. N * (p * g) <= 100 * A + 50 * (O + N)
    BY <1>1, <2>10, <2>12, <2>13, <2>14
  <2> QED
    BY <1>1, <1>3, <2>15
<1> QED
  BY <1>1, <1>4, <1>5

\* The minimum, m, is the price q times the amount less the fee; the market pays
\* more than its own price times the amount less the fee, and one.
LEMMA WithinPayment ==
  ASSUME NEW a \in Nat, NEW N \in Nat \ {0}, a <= N, NEW A \in Nat, NEW O \in Nat \ {0},
         NEW q \in Nat, NEW m0 \in Nat, NEW m \in Int, NEW pays \in Nat, NEW f \in 0 .. 100,
         NEW T \in Nat, A = T * O,
         N * q <= A + 3 * N + O,
         2 * (O * m0) <= 2 * (a * q) + O,
         100 * m <= m0 * (100 - f) + 50,
         (T * a) * (100 - f) <= 100 * (N * (pays + 1))
  PROVE  O * (m - pays - 3) <= 3 * a
<1>1. PICK h \in Nat : h = 100 - f /\ h <= 100
  OBVIOUS
<1>2. a * (N * q) <= a * (A + 3 * N + O)
  BY Scaled
<1>3. N * (2 * (O * m0)) <= N * (2 * (a * q) + O)
  BY Scaled
<1>4. 2 * (N * (O * m0)) <= 2 * (a * A) + 6 * (a * N) + 2 * (a * O) + O * N
  BY <1>2, <1>3
<1>5. O * a <= O * N
  BY Scaled
<1>6. 2 * (N * (O * m0)) <= 2 * (a * A) + 6 * (a * N) + 3 * (O * N)
  BY <1>4, <1>5
<1>7. h * (2 * (N * (O * m0))) <= h * (2 * (a * A) + 6 * (a * N) + 3 * (O * N))
  BY <1>1, <1>6, Scaled
<1>8. (O * N) * (100 * m) <= (O * N) * (m0 * h + 50)
  BY <1>1, Scaled
<1>9. O * ((T * a) * h) <= O * (100 * (N * (pays + 1)))
  BY <1>1, Scaled
<1>10. PICK w \in Nat : w = 6 * (a * N) + 3 * (O * N)
  OBVIOUS
<1>11. w * h <= w * 100
  BY <1>1, <1>10, Scaled
<1>12. 200 * ((O * N) * m) <= 2 * (h * (a * A)) + w * 100 + 100 * (O * N)
  BY <1>1, <1>7, <1>8, <1>10, <1>11
<1>13. 2 * (h * (a * A)) <= 200 * ((O * N) * (pays + 1))
  BY <1>1, <1>9
<1>14. 200 * ((O * N) * m) <= 200 * ((O * N) * (pays + 1)) + 600 * (a * N) + 400 * (O * N)
  BY <1>10, <1>12, <1>13
<1>15. N * (200 * (O * (m - pays - 3))) <= N * (600 * a)
  BY <1>14
<1>16. 200 * (O * (m - pays - 3)) <= 600 * a
  BY <1>15, Unscaled
<1> QED
  BY <1>16

\* What a market pays, without the quotient.
LEMMA PaysAtLeast ==
  ASSUME NEW r \in [from : Nat \ {0}, to : Nat], NEW a \in Nat \ {0}, NEW discounted \in BOOLEAN
  PROVE  /\ Pays(r, a, discounted) \in Nat
         /\ (r.to * a) * (100 - FeePct) <= 100 * ((r.from + a) * (Pays(r, a, discounted) + 1))
<1>1. PICK d \in 0 .. 100 : d = IF discounted THEN Discount ELSE 100
  BY QuoteAssumption
<1>2. PICK N \in Nat \ {0} : N = r.from + a
  OBVIOUS
<1>3. PICK T \in Nat : T = r.to
  OBVIOUS
<1>4. PICK v \in Nat : v = T * a
  OBVIOUS
<1>5. PICK h \in Nat : h = 10000 - FeePct * d /\ 100 * (100 - FeePct) <= h
  <2>1. FeePct \in Nat /\ FeePct * d <= FeePct * 100 /\ FeePct * 100 <= 10000
    BY QuoteAssumption, Scaled
  <2> QED
    BY <2>1
<1>6. PICK z : z = (v * h) \div (N * 10000)
  OBVIOUS
<1>7. z \in Nat /\ v * h < (N * 10000) * (z + 1)
  <2>1. PICK x \in Nat : x = v * h
    BY <1>4, <1>5
  <2>2. PICK y \in Nat \ {0} : y = N * 10000
    BY <1>2
  <2>3. z = x \div y
    BY <1>6, <2>1, <2>2
  <2>4. z \in Nat /\ x < y * z + y
    BY <2>3
  <2> QED
    BY <2>1, <2>2, <2>4
<1>8. Pays(r, a, discounted) = z
  BY <1>1, <1>2, <1>3, <1>4, <1>5, <1>6 DEF Pays
<1>9. PICK c \in Int : c = 100 - FeePct
  BY QuoteAssumption
<1>10. v * (100 * c) <= v * h
  BY <1>4, <1>5, <1>9, Scaled
<1>11. 100 * (v * c) <= 100 * (100 * (N * (z + 1)))
  BY <1>7, <1>10
<1>12. v * c <= 100 * (N * (z + 1))
  BY <1>7, <1>11
<1> QED
  BY <1>2, <1>3, <1>4, <1>7, <1>8, <1>9, <1>12

\* The price p1 of what is left after a trade.
PriceAfter(r, a, p1) ==
  \E left \in Nat :
    /\ left = toBigNumberPrecision(r.from * r.to, r.from + a)
    /\ p1 = toBigNumberPrecision(left * One, r.from + a)

Allowed(r, a, t) == calcSlippage(r, a) <= 100 * t

\* The impact of a trade, by the prices before and after.
LEMMA ImpactByPrices ==
  ASSUME NEW r \in [from : Nat \ {0}, to : Nat], NEW a \in Nat \ {0}
  PROVE  /\ getPrices(r) \in Nat
         /\ \E p1 \in Nat :
              /\ PriceAfter(r, a, p1)
              /\ calcSlippage(r, a) =
                   IF p1 = 0 THEN IF getPrices(r) = 0 THEN 0 ELSE 100 * One
                   ELSE Distance(toBigNumberPrecision(getPrices(r) * 10000, p1), 10000)
<1>1. PICK N \in Nat \ {0} : N = r.from + a
  OBVIOUS
<1>2. PICK left : left = toBigNumberPrecision(r.from * r.to, N)
  OBVIOUS
<1>3. left \in Nat
  <2>1. r.from * r.to \in Nat
    OBVIOUS
  <2> QED
    BY <1>1, <1>2, <2>1, Rounded
<1>4. PICK p1 : p1 = toBigNumberPrecision(left * One, N)
  OBVIOUS
<1>5. p1 \in Nat
  <2>1. left * One \in Nat
    BY <1>3, QuoteAssumption
  <2> QED
    BY <1>1, <1>4, <2>1, Rounded
<1>6. getPrices(r) \in Nat
  <2>1. r.to * One \in Nat /\ r.from \in Nat \ {0}
    BY QuoteAssumption
  <2> QED
    BY <2>1, Rounded DEF getPrices
<1>7. calcSlippage(r, a) =
        IF p1 = 0 THEN IF getPrices(r) = 0 THEN 0 ELSE 100 * One
        ELSE Distance(toBigNumberPrecision(getPrices(r) * 10000, p1), 10000)
  <2>1. r.to - Purchased(r, a) = left
    BY <1>1, <1>2, <1>3 DEF Purchased
  <2>2. getPrices([from |-> r.from + a, to |-> r.to - Purchased(r, a)]) = p1
    BY <1>1, <1>4, <2>1 DEF getPrices
  <2> QED
    BY <2>2 DEF calcSlippage
<1>8. PriceAfter(r, a, p1)
  BY <1>1, <1>2, <1>3, <1>4 DEF PriceAfter
<1> QED
  BY <1>5, <1>6, <1>7, <1>8

\* It is a number.
LEMMA SlippageTyped ==
  ASSUME NEW r \in [from : Nat \ {0}, to : Nat], NEW a \in Nat \ {0}
  PROVE  calcSlippage(r, a) \in Nat
<1>1. PICK p \in Nat : p = getPrices(r)
  BY ImpactByPrices
<1>2. PICK p1 \in Nat :
        calcSlippage(r, a) = IF p1 = 0 THEN IF p = 0 THEN 0 ELSE 100 * One
                             ELSE Distance(toBigNumberPrecision(p * 10000, p1), 10000)
  BY <1>1, ImpactByPrices
<1>3. p1 # 0 => toBigNumberPrecision(p * 10000, p1) \in Nat
  <2>1. PICK n \in Nat : n = p * 10000
    OBVIOUS
  <2>2. p1 # 0 => toBigNumberPrecision(n, p1) \in Nat
    BY Rounded
  <2> QED
    BY <2>1, <2>2
<1>4. CASE p1 = 0
  BY <1>2, <1>4, QuoteAssumption
<1>5. CASE p1 # 0
  BY <1>2, <1>3, <1>5 DEF Distance
<1> QED
  BY <1>4, <1>5

\* An impact that is allowed bounds the price before by the price after.
LEMMA ImpactAllowed ==
  ASSUME NEW r \in [from : Nat \ {0}, to : Nat], NEW a \in Nat \ {0}, NEW t \in 1 .. 49,
         Allowed(r, a, t)
  PROVE  \E p1 \in Nat : PriceAfter(r, a, p1) /\ Near(getPrices(r), p1, t)
<1>1. PICK p \in Nat : p = getPrices(r)
  BY ImpactByPrices
<1>2. PICK p1 \in Nat :
        /\ PriceAfter(r, a, p1)
        /\ calcSlippage(r, a) = IF p1 = 0 THEN IF p = 0 THEN 0 ELSE 100 * One
                                ELSE Distance(toBigNumberPrecision(p * 10000, p1), 10000)
  BY <1>1, ImpactByPrices
<1>3. Near(p, p1, t)
  <2> USE DEF Near
  <2>1. CASE p1 = 0
    <3>1. p = 0
      BY <1>2, <2>1, QuoteAssumption DEF Allowed
    <3> QED
      BY <2>1, <3>1
  <2>2. CASE p1 # 0
    <3>1. PICK s : s = toBigNumberPrecision(p * 10000, p1)
      OBVIOUS
    <3>2. s \in Nat /\ 2 * (p * 10000) < 2 * (p1 * s) + p1
      <4>1. PICK n \in Nat : n = p * 10000
        OBVIOUS
      <4>2. p1 \in Nat \ {0} /\ s = toBigNumberPrecision(n, p1)
        BY <2>2, <3>1, <4>1
      <4>3. s \in Nat /\ 2 * n < 2 * (p1 * s) + p1
        BY <4>2, Rounded
      <4> QED
        BY <4>1, <4>3
    <3>3. s <= 10000 + 100 * t
      BY <1>2, <2>2, <3>1, <3>2 DEF Distance, Allowed
    <3>4. p1 * s <= p1 * (10000 + 100 * t)
      BY <3>2, <3>3, Scaled
    <3> QED
      BY <3>2, <3>4
  <2> QED
    BY <2>1, <2>2
<1> QED
  BY <1>1, <1>2, <1>3

\* A swap whose impact on the price is within the tolerance is asked for no more
\* than the market pays, but for the roundings.
LEMMA MinimumFits ==
  ASSUME NEW r \in [from : Nat \ {0}, to : Nat], NEW a \in Nat \ {0}, NEW t \in 0 .. 49,
         NEW discounted \in BOOLEAN, calcSlippage(r, a) <= 100 * t
  PROVE  One * (MinimumLessFee(r, a, t) - Pays(r, a, discounted) - 3) <= 3 * a
<1>1. PICK O \in Nat \ {0} : O = One
  BY QuoteAssumption
<1>2. PICK f \in 0 .. 100 : f = FeePct
  BY QuoteAssumption
<1>3. PICK pays \in Nat : /\ pays = Pays(r, a, discounted)
                          /\ (r.to * a) * (100 - f) <= 100 * ((r.from + a) * (pays + 1))
  BY <1>2, PaysAtLeast
<1>4. PICK m0 : m0 = Minimum(r, a, t)
  OBVIOUS
<1>5. PICK m : m = MinimumLessFee(r, a, t)
  OBVIOUS
<1>6. m = m0 - toBigNumberPrecision(m0 * f * 100, 10000)
  BY <1>2, <1>4, <1>5 DEF MinimumLessFee, Fee
<1>7. ASSUME m0 \in Nat
      PROVE  m \in Int /\ 100 * m <= m0 * (100 - f) + 50
  <2>1. PICK n \in Nat : n = m0 * f * 100
    BY <1>7
  <2>2. PICK fee : fee = toBigNumberPrecision(n, 10000)
    OBVIOUS
  <2>3. 10000 \in Nat \ {0}
    OBVIOUS
  <2>4. fee \in Nat /\ 2 * n < 2 * (10000 * fee) + 10000
    BY <2>2, <2>3, Rounded
  <2>5. n = 100 * (m0 * f)
    BY <1>7, <2>1
  <2>6. m0 * f < 100 * fee + 50
    BY <1>7, <2>4, <2>5
  <2>7. m = m0 - fee
    BY <1>6, <2>1, <2>2
  <2> QED
    BY <1>7, <2>4, <2>6, <2>7
<1>8. CASE t = 0
  <2>1. m0 = 0
    BY <1>4, <1>8 DEF Minimum
  <2>2. m \in Int /\ m <= 0
    BY <1>7, <2>1
  <2>3. m - pays - 3 \in Int /\ m - pays - 3 <= 0
    BY <1>3, <2>2
  <2>4. O * (m - pays - 3) <= O * 0
    BY <2>3, Scaled
  <2>5. O * (m - pays - 3) <= 3 * a
    BY <2>2, <2>4
  <2> QED
    BY <1>1, <1>3, <1>5, <2>5
<1>9. CASE t # 0
  <2>1. t \in 1 .. 49
    BY <1>9
  <2>2. PICK F \in Nat \ {0} : F = r.from
    OBVIOUS
  <2>3. PICK T \in Nat : T = r.to
    OBVIOUS
  <2>4. PICK N \in Nat \ {0} : N = F + a
    OBVIOUS
  <2>5. PICK A \in Nat : A = T * O
    OBVIOUS
  <2>6. PICK p \in Nat : p = getPrices(r) /\ 2 * (F * p) <= 2 * A + F
    <3>1. A \in Nat /\ F \in Nat \ {0} /\ getPrices(r) = toBigNumberPrecision(A, F)
      BY <1>1, <2>2, <2>3, <2>5 DEF getPrices
    <3> QED
      BY <3>1, Rounded
  <2>7. PICK p1 \in Nat, left \in Nat :
          /\ left = toBigNumberPrecision(F * T, N)
          /\ p1 = toBigNumberPrecision(left * O, N)
          /\ Near(p, p1, t)
    <3>1. Allowed(r, a, t)
      BY DEF Allowed
    <3>2. PICK x \in Nat : PriceAfter(r, a, x) /\ Near(getPrices(r), x, t)
      BY <2>1, <3>1, ImpactAllowed
    <3> QED
      BY <1>1, <2>2, <2>3, <2>4, <2>6, <3>2 DEF PriceAfter
  <2>8. 2 * (N * left) <= 2 * (F * T) + N
    <3>1. F * T \in Nat
      OBVIOUS
    <3> QED
      BY <2>7, <3>1, Rounded
  <2>9. 2 * (N * p1) <= 2 * (left * O) + N
    <3>1. left * O \in Nat
      OBVIOUS
    <3> QED
      BY <2>7, <3>1, Rounded
  <2>10. 2 * ((N * N) * p1) <= 2 * (F * A) + O * N + N * N
    <3>1. N * (2 * (N * p1)) <= N * (2 * (left * O) + N)
      BY <2>9, Scaled
    <3>2. O * (2 * (N * left)) <= O * (2 * (F * T) + N)
      BY <2>8, Scaled
    <3> QED
      BY <2>5, <3>1, <3>2
  <2>11. PICK q \in Nat : /\ q = toBigNumberPrecision(p * (100 - t), 100)
                          /\ 200 * q <= 2 * (p * (100 - t)) + 100
    <3>1. PICK n \in Nat : n = p * (100 - t)
      BY <2>1
    <3>2. PICK z : z = toBigNumberPrecision(n, 100)
      OBVIOUS
    <3>3. 100 \in Nat \ {0}
      OBVIOUS
    <3>4. z \in Nat /\ 2 * (100 * z) <= 2 * n + 100
      BY <3>2, <3>3, Rounded
    <3> QED
      BY <3>1, <3>2, <3>4
  <2>12. N * q <= A + 3 * N + O
    <3>1. F < N /\ F \in Nat
      BY <2>4
    <3>2. Impacted(F, N, A, O, p, p1, q, t)
      BY <2>6, <2>7, <2>10, <2>11 DEF Impacted
    <3>3. O \in Nat
      OBVIOUS
    <3> QED
      BY <2>1, <3>1, <3>2, <3>3, WithinImpact
  <2>13. m0 \in Nat /\ 2 * (O * m0) <= 2 * (a * q) + O
    <3>1. m0 = toBigNumberPrecision(a * q, O)
      BY <1>1, <1>4, <2>1, <2>6, <2>11 DEF Minimum
    <3>2. a * q \in Nat
      OBVIOUS
    <3> QED
      BY <3>1, <3>2, Rounded
  <2>14. (T * a) * (100 - f) <= 100 * (N * (pays + 1))
    BY <1>3, <2>2, <2>3, <2>4
  <2>15. a <= N
    BY <2>4
  <2>16. m \in Int /\ 100 * m <= m0 * (100 - f) + 50
    BY <1>7, <2>13
  <2>17. O * (m - pays - 3) <= 3 * a
    BY <2>5, <2>12, <2>13, <2>14, <2>15, <2>16, WithinPayment
  <2> QED
    BY <1>1, <1>3, <1>5, <2>17
<1> QED
  BY <1>8, <1>9

-----------------------------------------------------------------------------
(* The amounts of the forms.                                                 *)

Amount == Nat \cup {Null}
AmountsTyped ==
  /\ amounts \in [currency : Amount, token : Amount, lp : Amount]
  /\ settings \in [tolerance : Tolerances, payInRswp : BOOLEAN]
  /\ buy \in BOOLEAN

\* The reserves of a market.
LEMMA QuotedTyped ==
  ASSUME NEW lp \in Markets, lp # NoLP, NEW buying \in BOOLEAN
  PROVE  Quoted(lp, buying) \in [from : Nat \ {0}, to : Nat]
<1>1. lp.token \in Tokens /\ lp.trades \in 0 .. MaxTrades
  BY DEF Markets
<1>2. PICK r : r = Reserves(lp.token, lp.trades)
  OBVIOUS
<1>3. r \in [currency : Nat \ {0}, token : Nat \ {0}]
  BY <1>1, <1>2, FormAssumption
<1>4. Quoted(lp, buying) = IF buying THEN [from |-> r.currency, to |-> r.token]
                                     ELSE [from |-> r.token, to |-> r.currency]
  BY <1>2 DEF Quoted
<1> QED
  BY <1>3, <1>4

\* What a market pays, with the fee and without.
LEMMA PurchasedTyped ==
  ASSUME NEW r \in [from : Nat \ {0}, to : Nat], NEW a \in Nat
  PROVE  /\ Purchased(r, a) \in Nat
         /\ \A discounted \in BOOLEAN : PurchasedLessFee(r, a, discounted) \in Nat
         /\ calcTokenValue(r, a) \in Nat
<1>1. PICK F \in Nat \ {0} : F = r.from
  OBVIOUS
<1>2. PICK T \in Nat : T = r.to
  OBVIOUS
<1>3. PICK N \in Nat \ {0} : N = F + a
  OBVIOUS
<1>4. PICK left : left = toBigNumberPrecision(F * T, N)
  OBVIOUS
<1>5. left \in Nat /\ 2 * (N * left) <= 2 * (F * T) + N
  <2>1. F * T \in Nat
    OBVIOUS
  <2> QED
    BY <1>4, <2>1, Rounded
<1>6. T * F <= T * N
  <2>1. F <= N
    BY <1>3
  <2> QED
    BY <2>1, Scaled
<1>7. N * (2 * left) <= N * (2 * T + 1)
  BY <1>5, <1>6
<1>8. 2 * left <= 2 * T + 1
  BY <1>5, <1>7, Unscaled
<1>9. PICK p \in Nat : p = T - left
  BY <1>5, <1>8
<1>10. Purchased(r, a) = p
  BY <1>1, <1>2, <1>3, <1>4, <1>9 DEF Purchased
<1>11. ASSUME NEW discounted \in BOOLEAN
       PROVE  PurchasedLessFee(r, a, discounted) \in Nat
  <2>1. PICK f \in 0 .. 100 : f = FeePct
    BY QuoteAssumption
  <2>2. PICK d \in 0 .. 100 : d = IF discounted THEN Discount ELSE 100
    BY QuoteAssumption
  <2>3. PICK k \in Nat : k = f * d
    OBVIOUS
  <2>4. k <= 10000
    <3>1. f * d <= f * 100
      BY Scaled
    <3> QED
      BY <2>3, <3>1
  <2>5. PICK n \in Nat : n = p * k
    OBVIOUS
  <2>6. PICK fee : fee = toBigNumberPrecision(n, 10000)
    OBVIOUS
  <2>7. n = p * f * d
    BY <2>3, <2>5
  <2>8. fee = Fee(p, discounted)
    BY <2>1, <2>2, <2>6, <2>7 DEF Fee
  <2>9. fee \in Nat /\ 2 * (10000 * fee) <= 2 * n + 10000
    <3>1. 10000 \in Nat \ {0}
      OBVIOUS
    <3> QED
      BY <2>6, <3>1, Rounded
  <2>10. n <= p * 10000
    BY <2>4, <2>5, Scaled
  <2>11. fee <= p
    BY <2>9, <2>10
  <2> QED
    BY <1>10, <2>8, <2>9, <2>11 DEF PurchasedLessFee
<1>12. calcTokenValue(r, a) \in Nat
  <2>1. PICK O \in Nat \ {0} : O = One
    BY QuoteAssumption
  <2>2. PICK x : x = getPrices(r)
    OBVIOUS
  <2>3. x \in Nat
    <3>1. T * O \in Nat /\ x = toBigNumberPrecision(T * O, F)
      BY <1>1, <1>2, <2>1, <2>2 DEF getPrices
    <3> QED
      BY <3>1, Rounded
  <2>4. x * a \in Nat
    BY <2>3
  <2> QED
    BY <2>1, <2>2, <2>4, Rounded DEF calcTokenValue
<1> QED
  BY <1>10, <1>11, <1>12

\* The other amount, from the market a page has.
LEMMA OtherAmountTyped ==
  ASSUME AmountsTyped, NEW lp \in Markets, lp # NoLP, NEW a \in Nat, NEW side \in BOOLEAN
  PROVE  OtherAmount(lp, a, side) \in Nat
<1>1. PICK r \in [from : Nat \ {0}, to : Nat] : r = Quoted(lp, side)
  BY QuotedTyped
<1>2. PICK discounted \in BOOLEAN : discounted = (ammFuelTank # None)
  OBVIOUS
<1>3. /\ Purchased(r, a) \in Nat /\ PurchasedLessFee(r, a, discounted) \in Nat
      /\ calcTokenValue(r, a) \in Nat
  BY PurchasedTyped
<1> QED
  BY <1>1, <1>2, <1>3 DEF OtherAmount, Counterpart

\* One amount typed, the other worked out.
LEMMA AmountsFilled ==
  ASSUME AmountsTyped, UNCHANGED <<settings, buy>>, NEW x \in Amount, NEW y \in Amount,
         \/ amounts' = [amounts EXCEPT !.currency = x, !.token = y]
         \/ amounts' = [amounts EXCEPT !.token = x, !.currency = y]
         \/ amounts' = [amounts EXCEPT !.currency = x]
         \/ amounts' = [amounts EXCEPT !.lp = x]
  PROVE  AmountsTyped'
<1>1. PICK c \in [currency : Amount, token : Amount, lp : Amount] :
        c = [amounts EXCEPT !.currency = x]
  BY DEF AmountsTyped
<1>2. PICK t \in [currency : Amount, token : Amount, lp : Amount] :
        t = [amounts EXCEPT !.token = x]
  BY DEF AmountsTyped
<1>3. amounts' \in [currency : Amount, token : Amount, lp : Amount]
  <2>1. /\ [c EXCEPT !.token = y] \in [currency : Amount, token : Amount, lp : Amount]
        /\ [t EXCEPT !.currency = y] \in [currency : Amount, token : Amount, lp : Amount]
    OBVIOUS
  <2>2. amounts \in [currency : Amount, token : Amount, lp : Amount]
    BY DEF AmountsTyped
  <2>3. CASE amounts' = [amounts EXCEPT !.currency = x, !.token = y]
    BY <1>1, <2>1, <2>3
  <2>4. CASE amounts' = [amounts EXCEPT !.token = x, !.currency = y]
    BY <1>2, <2>1, <2>4
  <2>5. CASE amounts' = [amounts EXCEPT !.currency = x] \/ amounts' = [amounts EXCEPT !.lp = x]
    BY <2>2, <2>5
  <2> QED
    BY <2>3, <2>4, <2>5
<1> QED
  BY <1>3 DEF AmountsTyped

\* The user types an amount of the currency, or of the token.
LEMMA TypingKeepsAmounts ==
  ASSUME AmountsTyped, FormTyped, NEW a \in Amount, TypeCurrency(a) \/ TypeToken(a)
  PROVE  AmountsTyped'
<1>1. Page.lp \in Markets
  BY PageFacts DEF Form
<1>2. ASSUME NEW side \in BOOLEAN, a # Null, Page.lp # NoLP
      PROVE  OtherAmount(Page.lp, a, side) \in Amount
  <2>1. a \in Nat
    BY <1>2 DEF Amount
  <2> QED
    BY <1>1, <1>2, <2>1, OtherAmountTyped DEF Amount
<1>3. /\ amounts.currency \in Amount /\ amounts.token \in Amount
  BY DEF AmountsTyped
<1>4. CASE TypeCurrency(a)
  <2>1. PICK y : /\ y = IF a # Null /\ Page.sel # NoToken /\ Page.lp # NoLP /\ DeterminesValues
                        THEN OtherAmount(Page.lp, a, TRUE) ELSE amounts.token
                 /\ amounts' = [amounts EXCEPT !.currency = a, !.token = y]
    BY <1>4 DEF TypeCurrency
  <2>2. y \in Amount
    BY <1>2, <1>3, <2>1
  <2>3. UNCHANGED <<settings, buy>>
    BY <1>4 DEF TypeCurrency
  <2> QED
    BY <2>1, <2>2, <2>3, AmountsFilled
<1>5. CASE TypeToken(a)
  <2>1. PICK y : y = CurrencyFor(a) /\ amounts' = [amounts EXCEPT !.token = a, !.currency = y]
    BY <1>5 DEF TypeToken
  <2>2. y \in Amount
    BY <1>2, <1>3, <2>1 DEF CurrencyFor, Present
  <2>3. UNCHANGED <<settings, buy>>
    BY <1>5 DEF TypeToken
  <2> QED
    BY <2>1, <2>2, <2>3, AmountsFilled
<1> QED
  BY <1>4, <1>5

\* What else the user does.
LEMMA UserKeepsAmounts ==
  ASSUME AmountsTyped, FormTyped, HoldingsTyped, FormUser
  PROVE  AmountsTyped'
<1>1. Page.lp \in Markets /\ amounts.currency \in Amount /\ amounts.token \in Amount
  BY PageFacts DEF Form, AmountsTyped
<1>2. Null \in Amount /\ 0 \in Amount /\ walletBalance \in Nat
  BY HoldingsAssumption DEF Amount, HoldingsTyped, Held, walletBalance
<1>3. ASSUME NEW at, NEW c, OpenPage(at, c)
      PROVE  AmountsTyped'
  <2>1. /\ amounts' = [currency |-> Null, token |-> Null, lp |-> Null]
        /\ buy' = TRUE /\ settings' = settings
    BY <1>3 DEF OpenPage, Mounted
  <2>2. amounts' \in [currency : Amount, token : Amount, lp : Amount]
    BY <1>2, <2>1
  <2> QED
    BY <2>1, <2>2 DEF AmountsTyped
<1>4. ASSUME NEW a \in Amounts \union {Null}, TypeCurrency(a) \/ TypeToken(a)
      PROVE  AmountsTyped'
  <2>1. a \in Amount
    BY FormAssumption DEF Amount
  <2> QED
    BY <1>4, <2>1, TypingKeepsAmounts
<1>5. CASE handleMaxInput
  <2>1. PICK a : a = IF costKnown /\ walletBalance > StampCost THEN walletBalance - StampCost ELSE 0
    OBVIOUS
  <2>2. a \in Amount /\ walletBalance \in Amount
    BY <1>2, <2>1, FormAssumption DEF Amount
  <2>3. TypeCurrency(a) \/ TypeToken(walletBalance)
    BY <1>5, <2>1 DEF handleMaxInput
  <2> QED
    BY <2>2, <2>3, TypingKeepsAmounts
<1>6. ASSUME NEW record, handleTokenSelect(record)
      PROVE  AmountsTyped'
  <2>1. PICK y : y = CurrencyFor(amounts.token) /\ amounts' = [amounts EXCEPT !.currency = y]
    BY <1>6 DEF handleTokenSelect
  <2>2. y \in Amount
    <3>1. CASE Present(amounts.token) /\ Page.lp # NoLP
      <4>1. PICK a \in Nat : a = amounts.token
        BY <1>1, <3>1 DEF Present, Amount
      <4>2. OtherAmount(Page.lp, a, FALSE) \in Nat
        BY <1>1, <3>1, OtherAmountTyped
      <4> QED
        BY <1>1, <2>1, <4>1, <4>2 DEF CurrencyFor, Amount
    <3>2. CASE ~(Present(amounts.token) /\ Page.lp # NoLP)
      BY <1>1, <2>1, <3>2 DEF CurrencyFor
    <3> QED
      BY <3>1, <3>2
  <2>3. UNCHANGED <<settings, buy>>
    BY <1>6 DEF handleTokenSelect
  <2> QED
    BY <2>1, <2>2, <2>3, AmountsFilled
<1>7. CASE swapSlots
  <2>1. buy' \in BOOLEAN /\ amounts' = amounts /\ settings' = settings
    BY <1>7 DEF swapSlots
  <2> QED
    BY <2>1 DEF AmountsTyped
<1>8. ASSUME NEW t \in Tolerances, setSlippageTolerance(t)
      PROVE  AmountsTyped'
  <2>1. /\ settings' = [settings EXCEPT !.tolerance = t] /\ amounts' = amounts /\ buy' = buy
    BY <1>8 DEF setSlippageTolerance, pageVars
  <2> QED
    BY <2>1 DEF AmountsTyped
<1>9. CASE setPayInRswp
  <2>1. PICK pays \in BOOLEAN : pays = ~settings.payInRswp
    OBVIOUS
  <2>2. PICK r : r = Quoted(Page.lp, buy)
    OBVIOUS
  <2>3. PICK other : other = IF pays THEN Purchased(r, Paid)
                                     ELSE PurchasedLessFee(r, Paid, ammFuelTank # None)
    OBVIOUS
  <2>4. settings' = [settings EXCEPT !.payInRswp = pays] /\ buy' = buy
    BY <1>9, <2>1 DEF setPayInRswp
  <2>5. settings' \in [tolerance : Tolerances, payInRswp : BOOLEAN]
    BY <2>4 DEF AmountsTyped
  <2>6. CASE Present(Paid) /\ Page.lp # NoLP /\ Page.sel # NoToken
    <3>1. Paid \in Nat
      BY <1>1, <2>6 DEF Present, Paid, Amount
    <3>2. r \in [from : Nat \ {0}, to : Nat]
      BY <1>1, <2>2, <2>6, QuotedTyped DEF AmountsTyped
    <3>3. other \in Amount
      <4>1. PICK discounted \in BOOLEAN : discounted = (ammFuelTank # None)
        OBVIOUS
      <4> QED
        BY <2>3, <3>1, <3>2, <4>1, PurchasedTyped DEF Amount
    <3>4. amounts' = IF buy THEN [amounts EXCEPT !.token = other]
                            ELSE [amounts EXCEPT !.currency = other]
      BY <1>9, <2>1, <2>2, <2>3, <2>6 DEF setPayInRswp
    <3>5. amounts' \in [currency : Amount, token : Amount, lp : Amount]
      BY <3>3, <3>4 DEF AmountsTyped
    <3> QED
      BY <2>4, <2>5, <3>5 DEF AmountsTyped
  <2>7. CASE ~(Present(Paid) /\ Page.lp # NoLP /\ Page.sel # NoToken)
    <3>1. amounts' = amounts
      BY <1>9, <2>7 DEF setPayInRswp
    <3> QED
      BY <2>4, <2>5, <3>1 DEF AmountsTyped
  <2> QED
    BY <2>6, <2>7
<1>10. ASSUME NEW percent \in {50, 100}, handleLpTokensChange(percent)
       PROVE  AmountsTyped'
  <2>1. PICK y : y = LpTokens(percent) /\ amounts' = [amounts EXCEPT !.lp = y]
    BY <1>10 DEF handleLpTokensChange
  <2>2. y \in Amount
    <3>1. PICK n \in Nat : n = LpShare
      BY FormAssumption
    <3>2. percent = 50 \/ percent = 100
      OBVIOUS
    <3>3. (n * percent) \div 100 \in Nat
      <4>1. PICK x \in Nat : x = n * percent
        BY <3>2
      <4>2. x \div 100 \in Nat
        OBVIOUS
      <4> QED
        BY <4>1, <4>2
    <3> QED
      BY <2>1, <3>1, <3>3 DEF LpTokens, Amount
  <2>3. UNCHANGED <<settings, buy>>
    BY <1>10 DEF handleLpTokensChange
  <2> QED
    BY <2>1, <2>2, <2>3, AmountsFilled
<1>11. CASE openConfirm \/ closeConfirm
  BY <1>11 DEF openConfirm, closeConfirm, AmountsTyped
<1> QED
  BY <1>3, <1>4, <1>5, <1>6, <1>7, <1>8, <1>9, <1>10, <1>11 DEF FormUser

\* And what happens meanwhile.
LEMMA ClientKeepsAmounts ==
  ASSUME AmountsTyped, FormTyped, HoldingsTyped, [ClientNext]_clientVars
  PROVE  AmountsTyped'
<1>1. CASE UNCHANGED <<amounts, settings, buy>>
  BY <1>1 DEF AmountsTyped
<1>2. ASSUME /\ amounts' = [currency |-> Null, token |-> Null, lp |-> Null]
             /\ buy' \in BOOLEAN /\ settings' = settings
      PROVE  AmountsTyped'
  <2>1. amounts' \in [currency : Amount, token : Amount, lp : Amount]
    BY <1>2 DEF Amount
  <2> QED
    BY <1>2, <2>1 DEF AmountsTyped
<1>3. CASE ReloadClient
  BY <1>2, <1>3 DEF ReloadClient
<1>4. CASE SessionSeen \/ UNCHANGED formVars
  BY <1>1, <1>4 DEF SessionSeen, formVars
<1>5. ASSUME NEW k, \/ refreshTokenInfo(k) \/ refreshTokenInfoFails(k) \/ resetPageTimer(k)
      PROVE  AmountsTyped'
  <2>1. CASE refreshTokenInfo(k)
    <3>1. /\ settings' = settings
          /\ \/ UNCHANGED pageVars
             \/ Mounted(asked[k].token)
      BY <2>1 DEF refreshTokenInfo
    <3> QED
      BY <1>1, <1>2, <3>1 DEF pageVars, Mounted
  <2>2. CASE refreshTokenInfoFails(k) \/ resetPageTimer(k)
    BY <1>1, <2>2 DEF refreshTokenInfoFails, resetPageTimer, pageVars
  <2> QED
    BY <1>5, <2>1, <2>2
<1>6. CASE Succeeds
  <2>1. /\ amounts' = [currency |-> Null, token |-> Null, lp |-> Null]
        /\ buy' = buy /\ settings' = settings
    BY <1>6 DEF Succeeds
  <2>2. buy \in BOOLEAN
    BY DEF AmountsTyped
  <2> QED
    BY <1>2, <2>1, <2>2
<1>7. CASE FormOthers
  BY <1>1, <1>7 DEF FormOthers, Traded, pageVars
<1> QED
  BY <1>3, <1>4, <1>5, <1>6, <1>7, UserKeepsAmounts DEF ClientNext, FormWorld, clientVars

\* In the client: the session leaves the pages alone.
LEMMA ClientKeepsForms ==
  ASSUME FormInv, HoldingsTyped, [ClientNext]_clientVars
  PROVE  FormInv'
<1>1. ASSUME UNCHANGED formVars \/ SessionSeen
      PROVE  FormInv'
  <2>1. UNCHANGED <<market, pages, asked, tradeFeed, chosen, contested, failed, late>>
    BY <1>1 DEF formVars, SessionSeen
  <2> QED
    BY <2>1, FormsLeft DEF FormInv, FormTyped
<1>2. CASE FormWorld
  BY <1>2, AnswerKeeps, FailureKeeps, TimerKeeps, TradeKeeps DEF FormWorld
<1> QED
  BY <1>1, <1>2, ReloadKeepsForms, InputsKeep DEF ClientNext, clientVars

\* All of it, for the client as a whole.
LEMMA ClientInvariant == ClientSpec => [](HoldingsTyped /\ FormInv /\ AmountsTyped)
<1>1. ClientInit => HoldingsTyped
  BY DEF ClientInit, SessionInit, HoldingsTyped, Held, Nothing
<1>2. ClientInit => FormInv
  BY FormStarts DEF ClientInit
<1>3. ClientInit => AmountsTyped
  <2> SUFFICES ASSUME FormInit PROVE AmountsTyped
    BY DEF ClientInit
  <2>1. /\ amounts = [currency |-> Null, token |-> Null, lp |-> Null] /\ buy = TRUE
        /\ settings \in [tolerance : Tolerances, payInRswp : {FALSE}]
    BY DEF FormInit
  <2> QED
    BY <2>1 DEF AmountsTyped, Amount
<1>4. HoldingsTyped /\ FormInv /\ AmountsTyped /\ [ClientNext]_clientVars
      => HoldingsTyped' /\ FormInv' /\ AmountsTyped'
  BY HoldingsKept, ClientKeepsForms, ClientKeepsAmounts DEF FormInv
<1> QED
  BY <1>1, <1>2, <1>3, <1>4, PTL DEF ClientSpec

\* The page shows the token that was last chosen for it, unless another's answer
\* was due when it was chosen: no answer about a token of before brings that back.
THEOREM ChoiceStands == ClientSpec => []SelectionStands
<1>1. FormInv => SelectionStands
  BY DEF FormInv, ChoiceHolds, SelectionStands
<1> QED
  BY <1>1, ClientInvariant, PTL

\* With no question open and none that failed, the page quotes from the market of
\* the token it shows, and the swap page listens to its trades.
THEOREM QuotesItsToken == ClientSpec => []QuoteOfItsToken
<1>1. ASSUME FormInv PROVE QuoteOfItsToken
  <2>1. ASSUME AtRest PROVE Range(asked) = {}
    <3>1. asked = <<>> /\ DOMAIN asked = {}
      BY <2>1 DEF AtRest
    <3> QED
      BY <3>1 DEF Range
  <2> QED
    BY <1>1, <2>1 DEF FormInv, QuoteComes, QuotesOwn, QuoteOfItsToken
<1> QED
  BY <1>1, ClientInvariant, PTL

\* A swap that may be confirmed asks for no more than its market pays, but for
\* the roundings, for any reserves, tolerance and amount.
THEOREM QuotesFit == ClientSpec => []QuoteFits
<1>1. ASSUME HoldingsTyped, FormInv, AmountsTyped PROVE QuoteFits
  <2> SUFFICES ASSUME Page.at = "swap", Enabled, Page.lp # NoLP, ~settings.payInRswp
               PROVE  One * (minimumReceived
                              - Pays(Quoted(Page.lp, buy), Paid, ammFuelTank # None) - 3) <= 3 * Paid
    BY DEF QuoteFits
  <2>1. PICK r \in [from : Nat \ {0}, to : Nat] : r = Quoted(Page.lp, buy)
    BY <1>1, PageFacts, QuotedTyped DEF FormInv, Form, AmountsTyped
  <2>2. PICK a \in Nat \ {0} : a = Paid
    BY <1>1 DEF Enabled, Present, Paid, AmountsTyped, Amount
  <2>3. PICK t \in 0 .. 49 : t = settings.tolerance
    BY <1>1, FormAssumption DEF AmountsTyped
  <2>4. PICK discounted \in BOOLEAN : discounted = (ammFuelTank # None)
    OBVIOUS
  <2>5. calcSlippage(r, a) <= 100 * t
    <3>1. a # Null
      BY DEF Null
    <3>2. ~priceImpactTooHigh
      BY DEF Enabled
    <3>3. ~(calcSlippage(r, a) > 100 * t)
      BY <2>1, <2>2, <2>3, <3>1, <3>2 DEF priceImpactTooHigh
    <3>4. calcSlippage(r, a) \in Nat
      BY SlippageTyped
    <3> QED
      BY <3>3, <3>4
  <2>6. minimumReceived = MinimumLessFee(r, a, t)
    BY <2>1, <2>2, <2>3 DEF minimumReceived
  <2>7. One * (MinimumLessFee(r, a, t) - Pays(r, a, discounted) - 3) <= 3 * a
    BY <2>5, MinimumFits
  <2> QED
    BY <2>1, <2>2, <2>4, <2>6, <2>7
<1> QED
  BY <1>1, ClientInvariant, PTL
=============================================================================
