--------------------------------- MODULE MCLive --------------------------------
(* A page of the web client, in scenes that follow the rows it is told of,  *)
(* the trades of the swap page or the chat, over tables that are empty; and     *)
(* the two timers of the API's metrics, which have nothing to do with it or *)
(* with each other: a behaviour is about one of the three.                  *)
EXTENDS Live, Metrics

CONSTANTS rswp, tok, dev, farm, holder

Order == <<tok, rswp>>

NoActs == [prices |-> 0, trades |-> 0, pages |-> 0, swaps |-> 0, chat |-> 0, days |-> 0,
           breaks |-> 0]

RowsScene == [NoActs EXCEPT !.prices = 2, !.trades = 1, !.pages = 1, !.breaks = 1]
TradesScene == [NoActs EXCEPT !.trades = 2, !.swaps = 2]
AgainScene == [NoActs EXCEPT !.trades = 1, !.swaps = 3]
BreakScene == [NoActs EXCEPT !.trades = 1, !.swaps = 2, !.breaks = 1]
ChatScene == [NoActs EXCEPT !.chat = 3, !.days = 2, !.breaks = 1]

Scenes == {RowsScene, TradesScene, AgainScene, BreakScene, ChatScene}

VARIABLE part

MCInit ==
  /\ Init /\ MetricsInit
  /\ row[tok] = row[rswp] /\ row[Staking] = 0
  /\ acts # RowsScene => row = [f \in Rows |-> 0]
  /\ \/ part = "page" /\ sales = <<>> /\ amm_meta_entity = Unset
        /\ \A t \in {tok, rswp} : balances[t][farm] = 0
     \/ part = "volumes" /\ acts = ChatScene /\ amm_meta_entity = Unset
        /\ \A t \in {tok, rswp} : balances[t][farm] = 0
     \/ part = "caps" /\ acts = ChatScene /\ sales = <<>>
  /\ (part = "page" /\ acts = ChatScene) \/ inExtension

MCNext ==
  /\ \/ part = "page" /\ Next /\ UNCHANGED metricsVars
     \/ part = "volumes" /\ VolumesNext /\ UNCHANGED vars
     \/ part = "caps" /\ CapsNext /\ UNCHANGED vars
  /\ UNCHANGED part

MCSpec == MCInit /\ [][MCNext]_<<vars, metricsVars, part>>
===============================================================================
