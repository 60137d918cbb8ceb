-------------------------------- MODULE Feeds ----------------------------------
(***************************************************************************)
(* What the web client shows of the API's tables (ws.service.ts, store.ts, *)
(* the swap and farm pages) and how the gateway (app.gateway.ts) and the   *)
(* entities tell it: joining a room is answered with what the table has,   *)
(* and every change is sent to everybody.  Metrics of the markets and the  *)
(* price of TAU replace what was there; the trades of a market come as a   *)
(* history, and then one by one on top of it.  The panel of the staking    *)
(* contracts is sent once: the gateway has no case for staking_panel_      *)
(* update.  The feeds of an account are in Session and StakingIndex.       *)
(*                                                                         *)
(* A row is the number of its changes, 0 when there is none yet; a trade   *)
(* has its market and a number.  Trades at no price, which the client      *)
(* leaves out, and fees in RSWP, which change that market's row and are    *)
(* not told (MarketIndex), are not here.                                   *)
(***************************************************************************)
EXTENDS Socket, FiniteSets

CONSTANTS
  Tokens, Rswp,  \* the markets, and that of the fee token
  TradesTaken    \* how many trades a history has at most: 50

Tau == "tau_usd_price"
Staking == "staking_panel"
Rows == Tokens \union {Tau, Staking}

ASSUME FeedsAssumption ==
  /\ Rswp \in Tokens
  /\ Tokens \intersect {Tau, Staking} = {}
  /\ None \notin Rows \union {"trade", "saved"}
  /\ TradesTaken \in Nat \ {0}

VARIABLES
  (* the API *)
  row,            \* PairEntity, TauMarketEntity, StakingMetaEntity
  updating,       \* rows that are being saved, or saved and not yet told
  TradeHistory,   \* trades of each market that are inserted
  tradeSaves,     \* trades that are told and not yet inserted
  trades,         \* the number of trades
  (* the client *)
  joinedFeeds,
  shown,          \* of each row: what the stores have
  selectedToken,  \* of the swap page; None on another page
  asked,          \* markets the swap page asked for, to join their feed
  current_trade_feed,
  listeners,      \* of each market: how often handleTradeUpdate is registered
  tradeHistory,   \* of each market: trades from its history
  tradeUpdates,   \* of each market: trades that were told, in order
  (* ghosts *)
  missed,         \* rows whose last event was lost
  cut,            \* markets that were listened to when the connection broke
  again,          \* markets that were joined while they were listened to
  early,          \* trades told to a client whose history had yet to be read
  blurred         \* trades told and inserted on two sides of a joining, or too old for it

tradeFeedVars == <<TradeHistory, tradeSaves, trades, selectedToken, asked, current_trade_feed,
                   listeners, tradeHistory, tradeUpdates, cut, again, early, blurred>>
rowVars == <<row, updating, joinedFeeds, shown, missed>>
feedVars == <<tradeFeedVars, rowVars>>

FeedsInit ==
  /\ row \in [Rows -> 0 .. 1] /\ updating = [f \in Rows |-> None]
  /\ TradeHistory = [t \in Tokens |-> {}] /\ tradeSaves = {} /\ trades = 0
  /\ joinedFeeds = {} /\ shown = [f \in Rows |-> 0]
  /\ selectedToken = None /\ asked = {} /\ current_trade_feed = None
  /\ listeners = [t \in Tokens |-> 0]
  /\ tradeHistory = [t \in Tokens |-> {}] /\ tradeUpdates = [t \in Tokens |-> <<>>]
  /\ missed = {} /\ cut = {} /\ again = {} /\ early = {} /\ blurred = {}

-----------------------------------------------------------------------------
(* The rows *)

\* A handler that is about to tell of f.
UpdateOf(f, at) == updating[f] = at

\* handleClientUpdate: everybody is told, whatever rooms they joined.
handleClientUpdate(f) ==
  /\ down' = Emitted(Event("update", f, row[f]))
  /\ missed' = IF connected THEN missed ELSE missed \union {f}

\* Slip: the first price is saved, and nobody is told.
saveUSDPrice_firstUntold ==
  /\ UpdateOf(Tau, None)
  /\ row' = [row EXCEPT ![Tau] = @ + 1]
  /\ updating' = IF row[Tau] = 0 THEN updating ELSE [updating EXCEPT ![Tau] = "saved"]
  /\ UNCHANGED <<socketVars, joinedFeeds, shown, missed, tradeFeedVars>>

\* The ticker has another price: saveUSDPrice saves and then tells.
saveUSDPrice ==
  /\ UpdateOf(Tau, None)
  /\ row' = [row EXCEPT ![Tau] = @ + 1]
  /\ updating' = [updating EXCEPT ![Tau] = "saved"]
  /\ UNCHANGED <<socketVars, joinedFeeds, shown, missed, tradeFeedVars>>

\* A staking contract's row changes: no case of the gateway tells of it.
updateStakingContractMeta ==
  /\ row' = [row EXCEPT ![Staking] = @ + 1]
  /\ UNCHANGED <<socketVars, updating, joinedFeeds, shown, missed, tradeFeedVars>>

\* The pair's row is saved, in updateReserves; savePrice saves the same again.
saveReserves(t) ==
  /\ UpdateOf(t, "trade")
  /\ row' = [row EXCEPT ![t] = @ + 1]
  /\ updating' = [updating EXCEPT ![t] = "saved"]
  /\ UNCHANGED <<socketVars, joinedFeeds, shown, missed, tradeFeedVars>>

metrics_update(f) ==
  /\ UpdateOf(f, "saved")
  /\ handleClientUpdate(f)
  /\ updating' = [updating EXCEPT ![f] = None]
  /\ UNCHANGED <<connected, socket_id, up, row, joinedFeeds, shown, tradeFeedVars>>

\* joinTokenMetricsFeed and joinTauUsdFeed, with what they add to the rooms.
Joined(f) == IF f \in joinedFeeds THEN <<>> ELSE <<Room("row", f)>>

\* A market the account has liquidity in (lpPairs).
joinTokenMetricsFeed(t) ==
  /\ t \notin joinedFeeds
  /\ up' = up \o Joined(t)
  /\ joinedFeeds' = joinedFeeds \union {t}
  /\ UNCHANGED <<connected, socket_id, down, row, updating, shown, missed, tradeFeedVars>>

\* The farm page.
joinStakingPanel ==
  /\ Staking \notin joinedFeeds
  /\ JoinRoom(Room("row", Staking))
  /\ joinedFeeds' = joinedFeeds \union {Staking}
  /\ UNCHANGED <<connected, socket_id, down, row, updating, shown, missed, tradeFeedVars>>

leaveStakingPanel ==
  /\ Staking \in joinedFeeds
  /\ joinedFeeds' = joinedFeeds \ {Staking}
  /\ UNCHANGED <<socketVars, row, updating, shown, missed, tradeFeedVars>>

\* handleJoinPriceFeed, handleJoinTauUsdPrice, handleJoinStakingPanel.  Without
\* a row they fail, and nothing is sent.
handleJoinRow ==
  /\ Joins("row")
  /\ LET f == Head(up).subject IN
       down' = IF row[f] = 0 THEN down ELSE Append(down, Event("update", f, row[f]))
  /\ up' = Tail(up)
  /\ UNCHANGED <<connected, socket_id, feedVars>>

\* handleTokenMetricsFeed, handleTauUsdFeed and the handler of staking_panel.
handleRow ==
  /\ Arrives("update")
  /\ LET f == Head(down).of IN
       /\ shown' = IF f \in joinedFeeds THEN [shown EXCEPT ![f] = Head(down).says] ELSE shown
       /\ missed' = missed \ {f}
  /\ down' = Tail(down)
  /\ UNCHANGED <<connected, socket_id, up, row, updating, joinedFeeds, tradeFeedVars>>

-----------------------------------------------------------------------------
(* The trades *)

\* The queue comes to a trade of t: everybody is told, and an insert is begun
\* that nobody waits for.
updateTradeFeed(t) ==
  /\ \A f \in Tokens : UpdateOf(f, None)
  /\ trades' = trades + 1
  /\ LET trade == <<t, trades'>> IN
       /\ down' = Emitted(Event("trade", t, trade))
       /\ tradeSaves' = tradeSaves \union {trade}
       /\ early' = IF connected /\ Room("trade_feed", t) \in ToSet(up)
                   THEN early \union {trade} ELSE early
  /\ updating' = [updating EXCEPT ![t] = "trade"]
  /\ UNCHANGED <<connected, socket_id, up, row, joinedFeeds, shown, missed, TradeHistory,
                 selectedToken, asked, current_trade_feed, listeners, tradeHistory, tradeUpdates,
                 cut, again, blurred>>

saveTradeUpdate(trade) ==
  /\ trade \in tradeSaves
  /\ TradeHistory' = [TradeHistory EXCEPT ![trade[1]] = @ \union {trade}]
  /\ tradeSaves' = tradeSaves \ {trade}
  /\ UNCHANGED <<socketVars, rowVars, trades, selectedToken, asked, current_trade_feed, listeners,
                 tradeHistory, tradeUpdates, cut, again, early, blurred>>

\* The swap page is opened, or another token is chosen on it.
selectToken(t) ==
  /\ t # selectedToken
  /\ selectedToken' = t
  /\ asked' = asked \union {t}
  /\ UNCHANGED <<socketVars, rowVars, TradeHistory, tradeSaves, trades, current_trade_feed,
                 listeners, tradeHistory, tradeUpdates, cut, again, early, blurred>>

\* The token's data are there.  The feed of another token is not left for it.
joinTradeFeed(t) ==
  /\ t \in asked
  /\ asked' = asked \ {t}
  /\ IF current_trade_feed = t
     THEN UNCHANGED <<up, listeners, current_trade_feed, cut, again, early>>
     ELSE /\ JoinRoom(Room("trade_feed", t))
          /\ listeners' = [listeners EXCEPT ![t] = @ + 1]
          /\ current_trade_feed' = t
          /\ IF listeners[t] > 0
             THEN again' = again \union {t} /\ UNCHANGED <<cut, early>>
             ELSE /\ again' = again \ {t} /\ cut' = cut \ {t}
                  /\ early' = {x \in early : x[1] # t} \union {e.says : e \in {x \in Coming("trade") : x.of = t}}
  /\ UNCHANGED <<connected, socket_id, down, rowVars, TradeHistory, tradeSaves, trades,
                 selectedToken, tradeHistory, tradeUpdates, blurred>>

\* Another page is opened: only the feed of the last token is left.
leaveTradeFeed ==
  /\ selectedToken # None
  /\ selectedToken' = None
  /\ listeners' = IF current_trade_feed = None THEN listeners
                  ELSE [listeners EXCEPT ![current_trade_feed] = 0]
  /\ current_trade_feed' = None
  /\ tradeHistory' = [t \in Tokens |-> {}] /\ tradeUpdates' = [t \in Tokens |-> <<>>]
  /\ UNCHANGED <<socketVars, rowVars, TradeHistory, tradeSaves, trades, asked, cut, again, early,
                 blurred>>

\* The latest trades of t that are inserted.
LatestTrades(t) ==
  {x \in TradeHistory[t] : Cardinality({y \in TradeHistory[t] : y[2] > x[2]}) < TradesTaken}

handleJoinTradeFeed ==
  /\ Joins("trade_feed")
  /\ LET t == Head(up).subject IN
       /\ down' = Append(down, Event("history", t, LatestTrades(t)))
       /\ blurred' = blurred \union (early \intersect TradeHistory[t])
                     \union (TradeHistory[t] \ LatestTrades(t))
                     \union {x \in tradeSaves : x[1] = t /\ x \notin early}
  /\ up' = Tail(up)
  /\ UNCHANGED <<connected, socket_id, rowVars, TradeHistory, tradeSaves, trades, selectedToken,
                 asked, current_trade_feed, listeners, tradeHistory, tradeUpdates, cut, again, early>>

\* Slip: a trade takes the place of the trades before it.
handleTradeUpdate_lastOnly ==
  /\ \/ /\ Arrives("history")
        /\ tradeHistory' = IF listeners[Head(down).of] = 0 THEN tradeHistory
                           ELSE [tradeHistory EXCEPT ![Head(down).of] = Head(down).says]
        /\ UNCHANGED tradeUpdates
     \/ /\ Arrives("trade")
        /\ tradeUpdates' = [tradeUpdates EXCEPT ![Head(down).of] =
             [i \in 1 .. listeners[Head(down).of] |-> Head(down).says]]
        /\ UNCHANGED tradeHistory
  /\ down' = Tail(down)
  /\ UNCHANGED <<connected, socket_id, up, rowVars, TradeHistory, tradeSaves, trades, selectedToken,
                 asked, current_trade_feed, listeners, cut, again, early, blurred>>

\* handleTradeUpdate, as often as it is registered.
handleTradeUpdate ==
  /\ \/ /\ Arrives("history")
        /\ tradeHistory' = IF listeners[Head(down).of] = 0 THEN tradeHistory
                           ELSE [tradeHistory EXCEPT ![Head(down).of] = Head(down).says]
        /\ UNCHANGED tradeUpdates
     \/ /\ Arrives("trade")
        /\ tradeUpdates' = [tradeUpdates EXCEPT ![Head(down).of] =
             @ \o [i \in 1 .. listeners[Head(down).of] |-> Head(down).says]]
        /\ UNCHANGED tradeHistory
  /\ down' = Tail(down)
  /\ UNCHANGED <<connected, socket_id, up, rowVars, TradeHistory, tradeSaves, trades, selectedToken,
                 asked, current_trade_feed, listeners, cut, again, early, blurred>>

-----------------------------------------------------------------------------
(* The connection *)

\* What is on its way is lost, and not asked for again.
FeedsDisconnect ==
  /\ missed' = missed \union {e.of : e \in Coming("update")}
                      \union {r.subject : r \in {x \in ToSet(up) : x.prefix = "row"}}
  /\ cut' = cut \union {t \in Tokens : listeners[t] > 0}
  /\ UNCHANGED <<row, updating, joinedFeeds, shown, TradeHistory, tradeSaves, trades, selectedToken,
                 asked, current_trade_feed, listeners, tradeHistory, tradeUpdates, again, early,
                 blurred>>

RowsApi == saveUSDPrice \/ updateStakingContractMeta

TradesApi == \E t \in Tokens : updateTradeFeed(t)

RowsUser == joinStakingPanel \/ leaveStakingPanel \/ \E t \in Tokens : joinTokenMetricsFeed(t)

TradesUser == leaveTradeFeed \/ \E t \in Tokens : selectToken(t)

FeedsStep ==
  \/ handleJoinRow \/ handleRow \/ handleJoinTradeFeed \/ handleTradeUpdate
  \/ \E f \in Rows : metrics_update(f)
  \/ \E t \in Tokens : saveReserves(t) \/ joinTradeFeed(t)
  \/ \E trade \in tradeSaves : saveTradeUpdate(trade)

-----------------------------------------------------------------------------
(* Properties *)

\* How often a trade is in the table under the forms.
TimesShown(t, trade) ==
  Cardinality({i \in DOMAIN tradeUpdates[t] : tradeUpdates[t][i] = trade})
    + (IF trade \in tradeHistory[t] THEN 1 ELSE 0)

\* When nothing is on its way, the swap page shows every trade of its token
\* once, be it from the history or from the feed.  Not so where the code cannot
\* tell: trades that are told on one side of the reading of the history and
\* inserted on the other, a connection that broke, and a token that is chosen
\* again while it is still listened to.  Nor of trades too old for the history.
TradesShownOnce ==
  Quiet /\ asked = {} /\ selectedToken # None /\ selectedToken \notin cut \union again =>
    \A trade \in TradeHistory[selectedToken] \ blurred : TimesShown(selectedToken, trade) = 1

\* When nothing is on its way, the metrics and prices the client listens to are
\* those of the tables, however joins and updates met, unless the last word
\* about them was lost with a connection.
RowsSettle ==
  Quiet => \A f \in (joinedFeeds \ missed) \ {Staking} :
             updating[f] = None => shown[f] = row[f]
===============================================================================
