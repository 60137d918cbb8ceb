----------------------------- MODULE MarketIndex -----------------------------
(***************************************************************************)
(* The API's copy of the chain: parser.provider.ts takes transactions off  *)
(* its queue one at a time and writes what they changed to the tables for  *)
(* tokens, balances, pairs, liquidity points, trades and prices, telling   *)
(* the clients of a market its new metrics.                                *)
(*                                                                         *)
(* One step is what a handler does up to the next await at which something *)
(* beside the queue may touch what it uses.  Saves of trades and of token  *)
(* metadata are not awaited: they go on beside the queue.                  *)
(* save() of an entity that was read before reads its row again and writes *)
(* the columns that differ from the entity.  The queue may be given        *)
(* transactions again (a second grabber), and a restart loses everything   *)
(* in memory and gives them all again.                                     *)
(*                                                                         *)
(* Of a pair's two reserves only the token's is kept, as a small number; a *)
(* price is named by the reserve at which a trade left it.  The fee token  *)
(* (RSWP) is known and stays the same.                                     *)
(***************************************************************************)
EXTENDS Integers, Sequences, SequencesExt

CONSTANTS
  Tokens,
  Rswp,         \* state:TOKEN_CONTRACT of the AMM, amm_meta_entity.TOKEN_CONTRACT
  Old,          \* tokens and markets from before the first block that is read
  KeyHolders,   \* accounts with a Lamden key
  Contracts,    \* accounts that are contracts: their name is not a key
  None,         \* a column or a state change that is not there
  Calls,        \* the kinds of transactions of an instance
  Amounts,      \* what trades move
  MaxTxs,       \* bound on the chain
  MaxReserve,   \* bound on a reserve
  MaxReplays, MaxCrashes,  \* bounds on transactions given again
  MaxAgain                 \* and on both together

Accounts == KeyHolders \union Contracts

Column == Int \union {None}
TokenRows == [token_symbol : Nat, has_market : BOOLEAN]
PairRows == [reserves : Column, price : Column, lp : Column, token_symbol : Column]

\* What save() is given, and which columns it has found to differ.
MetaSaves == [token : Tokens, entity : TokenRows, at : {"select", "update"},
              columns : SUBSET {"token_symbol", "has_market"}]

ASSUME IndexAssumption ==
  /\ Rswp \in Tokens /\ Old \subseteq Tokens /\ Amounts \subseteq Nat
  /\ None \notin Int /\ None \notin TokenRows /\ None \notin PairRows /\ None \notin MetaSaves
  /\ KeyHolders \intersect Contracts = {}
  /\ Calls \subseteq {"submit", "change_metadata", "create_market", "add_liquidity",
                      "buy", "sell", "buy_rswp_fee"}
  /\ {MaxTxs, MaxReserve, MaxReplays, MaxCrashes, MaxAgain} \subseteq Nat

VARIABLES
  (* the chain *)
  log,          \* the transactions, oldest first
  market,       \* token -> [reserve, price, lp] of the AMM, None when there is none
  points,       \* account -> token -> lp_points
  balance,      \* account -> token -> balances of the token's contract
  symbol,       \* token -> metadata:token_symbol, None before it is submitted
  (* the process *)
  handed,       \* how far the block grabber has come
  action_que,   \* what to do, oldest first: the head is under way
  at,           \* the next handler of the head's processAmmBlock
  entity,       \* savePair's token_entity
  tokenSaves,   \* saveTokenUpdate's handlers under way
  tradeSaves,   \* saveTradeUpdate calls under way
  replays, crashes,
  (* the database *)
  TokenEntity,      \* token -> [token_symbol, has_market] or None
  PairEntity,       \* token -> [reserves, price, lp, token_symbol] or None
  LpPointsEntity,   \* account -> token -> points, None for no entry
  BalanceEntity,    \* account -> token -> amount, None for no entry
  TradeHistory,     \* the rows, in the order of their ids
  Prices,           \* the rows of PriceEntity
  (* the clients *)
  told              \* token -> the last metrics_update, None before the first

chainVars == <<log, market, points, balance, symbol>>
jobVars == <<handed, action_que, at, entity, tokenSaves, replays, crashes>>
rows == <<PairEntity, LpPointsEntity, BalanceEntity, Prices, told>>
indexVars == <<chainVars, jobVars, tradeSaves, TokenEntity, TradeHistory, rows>>

NoMarket == [reserve |-> None, price |-> None, lp |-> None]

IndexInit ==
  /\ log = <<>>
  /\ market = [t \in Tokens |-> IF t \in Old THEN [reserve |-> 1, price |-> 1, lp |-> 1] ELSE NoMarket]
  /\ points = [a \in Accounts |-> [t \in Tokens |-> 0]]
  /\ balance = [a \in Accounts |-> [t \in Tokens |-> MaxReserve]]
  /\ symbol = [t \in Tokens |-> IF t \in Old THEN 0 ELSE None]
  /\ handed = 0 /\ action_que = <<>> /\ at = "savePair" /\ entity = None
  /\ tokenSaves = <<>> /\ tradeSaves = <<>>
  /\ replays = 0 /\ crashes = 0
  /\ TokenEntity = [t \in Tokens |-> None]
  /\ PairEntity = [t \in Tokens |-> None]
  /\ LpPointsEntity = [a \in Accounts |-> [t \in Tokens |-> None]]
  /\ BalanceEntity = [a \in Accounts |-> [t \in Tokens |-> None]]
  /\ TradeHistory = <<>> /\ Prices = <<>>
  /\ told = [t \in Tokens |-> None]

-----------------------------------------------------------------------------
(* The chain.  A transaction's record has the values it wrote. *)

Tx(fn, t, a) ==
  [fn |-> fn, token |-> t, by |-> a, pairs |-> FALSE, reserve |-> None, price |-> None,
   lp |-> None, points |-> None, balance |-> None, rswp |-> None, symbol |-> None,
   moved |-> 0]

Happens(tx) ==
  /\ Len(log) < MaxTxs
  /\ log' = Append(log, tx)
  /\ UNCHANGED <<jobVars, tradeSaves, TokenEntity, TradeHistory, rows>>

submit(t, a) ==
  /\ symbol[t] = None
  /\ symbol' = [symbol EXCEPT ![t] = 0]
  /\ Happens([Tx("submit", t, a) EXCEPT !.symbol = 0, !.balance = balance[a][t]])
  /\ UNCHANGED <<market, points, balance>>

change_metadata(t, a) ==
  /\ symbol[t] # None
  /\ symbol' = [symbol EXCEPT ![t] = @ + 1]
  /\ Happens([Tx("change_metadata", t, a) EXCEPT !.symbol = symbol[t] + 1])
  /\ UNCHANGED <<market, points, balance>>

Exists(t) == market[t] # NoMarket

create_market(t, a) ==
  /\ symbol[t] # None /\ ~Exists(t)
  /\ market' = [market EXCEPT ![t] = [reserve |-> 1, price |-> 1, lp |-> 1]]
  /\ points' = [points EXCEPT ![a][t] = 1]
  /\ balance' = [balance EXCEPT ![a][t] = @ - 1]
  /\ Happens([Tx("create_market", t, a) EXCEPT !.pairs = TRUE, !.reserve = 1, !.price = 1,
                !.lp = 1, !.points = 1, !.balance = balance[a][t] - 1])
  /\ UNCHANGED symbol

add_liquidity(t, a) ==
  LET m == [market[t] EXCEPT !.reserve = @ + 1, !.lp = @ + 1] IN
  /\ Exists(t) /\ m.reserve <= MaxReserve
  /\ market' = [market EXCEPT ![t] = m]
  /\ points' = [points EXCEPT ![a][t] = @ + 1]
  /\ balance' = [balance EXCEPT ![a][t] = @ - 1]
  /\ Happens([Tx("add_liquidity", t, a) EXCEPT !.reserve = m.reserve, !.lp = m.lp,
                !.points = points[a][t] + 1, !.balance = balance[a][t] - 1])
  /\ UNCHANGED symbol

\* A trade that moves amount tokens out of the pool.  With a fee in RSWP the
\* reserve of that market moves too, and its price is left alone.
trade(fn, t, a, amount, inRswp) ==
  LET r == market[t].reserve - amount
      f == market[Rswp].reserve + 1
  IN  /\ Exists(t) /\ r \in 1 .. MaxReserve
      /\ inRswp => t # Rswp /\ Exists(Rswp) /\ f <= MaxReserve
      /\ market' = [s \in Tokens |->
           IF s = t THEN [market[t] EXCEPT !.reserve = r, !.price = r]
           ELSE IF inRswp /\ s = Rswp THEN [market[s] EXCEPT !.reserve = f]
           ELSE market[s]]
      /\ balance' = [balance EXCEPT ![a][t] = @ + amount]
      /\ Happens([Tx(fn, t, a) EXCEPT !.reserve = r, !.price = r,
                    !.balance = balance[a][t] + amount, !.rswp = IF inRswp THEN f ELSE None,
                    !.moved = IF amount > 0 THEN amount ELSE -amount])
      /\ UNCHANGED <<points, symbol>>

ChainStep ==
  \E t \in Tokens :
    \/ \E a \in KeyHolders :
         \/ "submit" \in Calls /\ submit(t, a)
         \/ "change_metadata" \in Calls /\ change_metadata(t, a)
         \/ "create_market" \in Calls /\ create_market(t, a)
         \/ "add_liquidity" \in Calls /\ add_liquidity(t, a)
    \/ \E a \in Accounts, n \in Amounts :
         \/ "buy" \in Calls /\ trade("buy", t, a, n, FALSE)
         \/ "buy_rswp_fee" \in Calls /\ trade("buy", t, a, n, TRUE)
         \/ "sell" \in Calls /\ trade("sell", t, a, -n, FALSE)

-----------------------------------------------------------------------------
(* The queue *)

\* parseBlock: what is queued for the i-th transaction.
ActionsOf(i) ==
  LET does == CASE log[i].fn = "submit" -> <<"saveTransfer", "saveToken">>
                [] log[i].fn = "change_metadata" -> <<"saveTransfer", "saveTokenUpdate">>
                [] OTHER -> <<"saveTransfer", "processAmmBlock">>
  IN  [k \in 1 .. 2 |-> [do |-> does[k], tx |-> i]]

parseBlock ==
  /\ handed < Len(log)
  /\ handed' = handed + 1
  /\ action_que' = action_que \o ActionsOf(handed + 1)
  /\ UNCHANGED <<chainVars, at, entity, tokenSaves, replays, crashes, tradeSaves,
                 TokenEntity, TradeHistory, rows>>

\* Another grabber gives old transactions again, and all after them.
Replay ==
  /\ replays < MaxReplays /\ replays + crashes < MaxAgain
  /\ replays' = replays + 1
  /\ \E k \in 0 .. handed - 1 : handed' = k
  /\ UNCHANGED <<chainVars, action_que, at, entity, tokenSaves, crashes, tradeSaves,
                 TokenEntity, TradeHistory, rows>>

\* The process dies; started again, it is given everything.
Crash ==
  /\ crashes < MaxCrashes /\ replays + crashes < MaxAgain
  /\ crashes' = crashes + 1
  /\ handed' = 0 /\ action_que' = <<>> /\ at' = "savePair" /\ entity' = None
  /\ tokenSaves' = <<>> /\ tradeSaves' = <<>>
  /\ UNCHANGED <<chainVars, replays, TokenEntity, TradeHistory, rows>>

tx == log[Head(action_que).tx]

Doing(action) == action_que # <<>> /\ Head(action_que).do = action

\* The head's action is over.
ActionDone ==
  /\ action_que' = Tail(action_que)
  /\ at' = "savePair" /\ entity' = None
  /\ UNCHANGED <<handed, replays, crashes>>

\* processAmmBlock goes on.
Go(handler) ==
  /\ at' = handler
  /\ UNCHANGED <<handed, action_que, replays, crashes>>

saveTransfer ==
  /\ Doing("saveTransfer")
  /\ BalanceEntity' = IF tx.balance = None THEN BalanceEntity
                      ELSE [BalanceEntity EXCEPT ![tx.by][tx.token] = tx.balance]
  /\ ActionDone
  /\ UNCHANGED <<chainVars, tokenSaves, tradeSaves, TokenEntity, PairEntity, LpPointsEntity,
                 TradeHistory, Prices, told>>

saveToken ==
  /\ Doing("saveToken")
  /\ TokenEntity' = IF TokenEntity[tx.token] # None THEN TokenEntity
       ELSE [TokenEntity EXCEPT ![tx.token] = [token_symbol |-> tx.symbol, has_market |-> FALSE]]
  /\ ActionDone
  /\ UNCHANGED <<chainVars, tokenSaves, tradeSaves, TradeHistory, rows>>

-----------------------------------------------------------------------------
(* The table of tokens.  save() reads the row, and writes what differs. *)

Saving(t, e) == [token |-> t, entity |-> e, at |-> "select", columns |-> {}]

Compared(s) ==
  [s EXCEPT !.at = "update",
            !.columns = {c \in DOMAIN s.entity : s.entity[c] # TokenEntity[s.token][c]}]

TokensAfter(s) ==
  [TokenEntity EXCEPT ![s.token] =
     [c \in DOMAIN @ |-> IF c \in s.columns THEN s.entity[c] ELSE @[c]]]

\* saveTokenUpdate: its handler is started, not awaited, and has to find the
\* entity first.
saveTokenUpdate ==
  /\ Doing("saveTokenUpdate")
  /\ tokenSaves' = Append(tokenSaves,
       [token |-> tx.token, entity |-> tx.symbol, at |-> "find", columns |-> {}])
  /\ ActionDone
  /\ UNCHANGED <<chainVars, tradeSaves, TokenEntity, TradeHistory, rows>>

TokenUpdateStep(k) ==
  LET s == tokenSaves[k]
      row == TokenEntity[s.token]
  IN  /\ \/ /\ s.at = "find" /\ row # None
            /\ tokenSaves' = [tokenSaves EXCEPT ![k] =
                                Saving(s.token, [row EXCEPT !.token_symbol = s.entity])]
            /\ UNCHANGED TokenEntity
         \/ /\ s.at = "find" /\ row = None
            /\ tokenSaves' = RemoveAt(tokenSaves, k)
            /\ UNCHANGED TokenEntity
         \/ /\ s.at = "select"
            /\ tokenSaves' = [tokenSaves EXCEPT ![k] = Compared(s)]
            /\ UNCHANGED TokenEntity
         \/ /\ s.at = "update"
            /\ tokenSaves' = RemoveAt(tokenSaves, k)
            /\ TokenEntity' = TokensAfter(s)
      /\ UNCHANGED <<chainVars, handed, action_que, at, entity, replays, crashes, tradeSaves,
                     TradeHistory, rows>>

-----------------------------------------------------------------------------
(* processAmmBlock, handler by handler *)

In(handler) == Doing("processAmmBlock") /\ at = handler

NoPair == [reserves |-> None, price |-> None, lp |-> None, token_symbol |-> None]

\* findOne, or a new entity.
Pair(t) == IF PairEntity[t] = None THEN NoPair ELSE PairEntity[t]

Or(new, old) == IF new = None THEN old ELSE new

\* savePair marks the token, and then makes the row of the pair.
savePair ==
  /\ In("savePair")
  /\ \/ /\ ~tx.pairs
        /\ Go("savePairLp") /\ UNCHANGED entity
     \/ /\ tx.pairs /\ TokenEntity[tx.token] = None
        /\ Go("insertPair") /\ UNCHANGED entity
     \/ /\ tx.pairs /\ TokenEntity[tx.token] # None
        /\ entity' = Saving(tx.token, [TokenEntity[tx.token] EXCEPT !.has_market = TRUE])
        /\ Go("saveHasMarket")
  /\ UNCHANGED <<chainVars, tokenSaves, tradeSaves, TokenEntity, TradeHistory, rows>>

saveHasMarket ==
  /\ In("saveHasMarket")
  /\ \/ /\ entity.at = "select"
        /\ entity' = Compared(entity)
        /\ Go("saveHasMarket") /\ UNCHANGED TokenEntity
     \/ /\ entity.at = "update"
        /\ TokenEntity' = TokensAfter(entity)
        /\ Go("insertPair") /\ UNCHANGED entity
  /\ UNCHANGED <<chainVars, tokenSaves, tradeSaves, TradeHistory, rows>>

insertPair ==
  /\ In("insertPair")
  /\ PairEntity' = [PairEntity EXCEPT ![tx.token] = [Pair(tx.token) EXCEPT
       !.token_symbol = IF entity = None THEN @ ELSE entity.entity.token_symbol]]
  /\ Go("savePairLp")
  /\ UNCHANGED <<chainVars, entity, tokenSaves, tradeSaves, TokenEntity, TradeHistory,
                 LpPointsEntity, BalanceEntity, Prices, told>>

savePairLp ==
  /\ In("savePairLp")
  /\ PairEntity' = IF tx.lp = None THEN PairEntity
                   ELSE [PairEntity EXCEPT ![tx.token] = [Pair(tx.token) EXCEPT !.lp = tx.lp]]
  /\ Go("saveUserLp")
  /\ UNCHANGED <<chainVars, entity, tokenSaves, tradeSaves, TokenEntity, TradeHistory,
                 LpPointsEntity, BalanceEntity, Prices, told>>

\* Slip: a position that has an entry keeps it.
saveUserLp_keepsFirst ==
  /\ In("saveUserLp")
  /\ LpPointsEntity' = IF tx.points = None \/ LpPointsEntity[tx.by][tx.token] # None
                         THEN LpPointsEntity
                       ELSE [LpPointsEntity EXCEPT ![tx.by][tx.token] = tx.points]
  /\ Go("saveReserves")
  /\ UNCHANGED <<chainVars, entity, tokenSaves, tradeSaves, TokenEntity, TradeHistory,
                 PairEntity, BalanceEntity, Prices, told>>

saveUserLp ==
  /\ In("saveUserLp")
  /\ LpPointsEntity' = IF tx.points = None THEN LpPointsEntity
                       ELSE [LpPointsEntity EXCEPT ![tx.by][tx.token] = tx.points]
  /\ Go("saveReserves")
  /\ UNCHANGED <<chainVars, entity, tokenSaves, tradeSaves, TokenEntity, TradeHistory,
                 PairEntity, BalanceEntity, Prices, told>>

Metrics(row) == [reserves |-> row.reserves, price |-> row.price, lp |-> row.lp]

\* Slip: tells what the table has, before the save.
metrics_update_early(t, row) == told' = [told EXCEPT ![t] = Metrics(Pair(t))]

metrics_update(t, row) == told' = [told EXCEPT ![t] = Metrics(row)]

\* Slip: the same difference for both kinds.
getAmountExchanged_oneWay(fn, old, new) == IF old = None THEN None ELSE old - new

getAmountExchanged(fn, old, new) ==
  IF old = None THEN None ELSE IF fn = "buy" THEN old - new ELSE new - old

\* The trade that updateReserves records of a pair that has a row.
TradeOf(row) ==
  [hash |-> Head(action_que).tx, token |-> tx.token, type |-> tx.fn, vk |-> tx.by,
   amount |-> getAmountExchanged(tx.fn, row.reserves, tx.reserve), price |-> tx.price,
   token_symbol |-> row.token_symbol]

\* saveReserves: the RSWP market first.  updateReserves needs the key of an
\* account whose balance changed; without one it throws, and processAmmBlock
\* logs that and returns.
saveReserves ==
  LET t == tx.token
      rswpSaved == IF tx.rswp = None THEN PairEntity
                   ELSE [PairEntity EXCEPT ![Rswp] = [Pair(Rswp) EXCEPT !.reserves = tx.rswp]]
      updated == [Pair(t) EXCEPT !.reserves = tx.reserve, !.price = Or(tx.price, @),
                                 !.lp = Or(tx.lp, @)]
  IN  /\ In("saveReserves")
      /\ IF tx.by \in KeyHolders
           THEN /\ PairEntity' = [rswpSaved EXCEPT ![t] = updated]
                /\ metrics_update(t, updated)
                /\ tradeSaves' = IF PairEntity[t] # None /\ tx.fn \in {"buy", "sell"}
                                   THEN Append(tradeSaves, TradeOf(PairEntity[t])) ELSE tradeSaves
                /\ Go("savePrice") /\ UNCHANGED entity
           ELSE PairEntity' = rswpSaved /\ ActionDone /\ UNCHANGED <<told, tradeSaves>>
      /\ UNCHANGED <<chainVars, tokenSaves, TokenEntity, TradeHistory, LpPointsEntity,
                     BalanceEntity, Prices>>

savePrice ==
  LET updated == [Pair(tx.token) EXCEPT !.price = tx.price] IN
  /\ In("savePrice")
  /\ IF tx.price = None THEN UNCHANGED <<PairEntity, Prices, told>>
     ELSE /\ PairEntity' = [PairEntity EXCEPT ![tx.token] = updated]
          /\ Prices' = Append(Prices, [token |-> tx.token, price |-> tx.price])
          /\ metrics_update(tx.token, updated)
  /\ ActionDone
  /\ UNCHANGED <<chainVars, tokenSaves, tradeSaves, TokenEntity, TradeHistory,
                 LpPointsEntity, BalanceEntity>>

\* An insert that was not awaited.  token_symbol must not be null.
InsertTrade(k) ==
  /\ tradeSaves' = RemoveAt(tradeSaves, k)
  /\ TradeHistory' = IF tradeSaves[k].token_symbol = None THEN TradeHistory
                     ELSE Append(TradeHistory, tradeSaves[k])
  /\ UNCHANGED <<chainVars, jobVars, TokenEntity, rows>>

IndexNext ==
  \/ ChainStep \/ parseBlock \/ Replay \/ Crash
  \/ saveTransfer \/ saveToken \/ saveTokenUpdate
  \/ \E k \in DOMAIN tokenSaves : TokenUpdateStep(k)
  \/ savePair \/ saveHasMarket \/ insertPair \/ savePairLp \/ saveUserLp
  \/ saveReserves \/ savePrice
  \/ \E k \in DOMAIN tradeSaves : InsertTrade(k)

IndexSpec == IndexInit /\ [][IndexNext]_indexVars

-----------------------------------------------------------------------------
(* Properties *)

\* The type of every table; processAmmBlock is between two of its handlers.
IndexTypeOK ==
  /\ \A i \in DOMAIN log : log[i].by \in Accounts
  /\ handed \in 0 .. Len(log)
  /\ \A k \in DOMAIN action_que : action_que[k].tx \in DOMAIN log
  /\ at \in {"savePair", "saveHasMarket", "insertPair", "savePairLp", "saveUserLp",
             "saveReserves", "savePrice"}
  /\ TokenEntity \in [Tokens -> {None} \union TokenRows]
  /\ PairEntity \in [Tokens -> {None} \union PairRows]
  /\ LpPointsEntity \in [Accounts -> [Tokens -> Column]]
  /\ BalanceEntity \in [Accounts -> [Tokens -> Column]]
  /\ told \in [Tokens -> {None} \union [reserves : Column, price : Column, lp : Column]]

\* Everything that happened was handed over and dealt with.
IndexAtRest ==
  /\ handed = Len(log) /\ action_que = <<>>
  /\ tokenSaves = <<>> /\ tradeSaves = <<>>

TxsOf(t) == {i \in DOMAIN log : log[i].token = t}
Seen(t) == \E i \in TxsOf(t) : log[i].pairs
OnlyKeyHolders(t) == \A i \in TxsOf(t) : log[i].by \in KeyHolders

\* Given transactions again in any number of suffixes, or from the start after
\* a crash between any two steps, the tables end up where the chain is.
MarketsSettle ==
  IndexAtRest =>
    \A t \in Tokens :
      /\ OnlyKeyHolders(t) /\ PairEntity[t] # None =>
           /\ PairEntity[t].reserves \in {None, market[t].reserve}
           /\ PairEntity[t].price \in {None, market[t].price}
           /\ PairEntity[t].lp \in {None, market[t].lp}
      /\ OnlyKeyHolders(t) /\ Seen(t) =>
           PairEntity[t] # None /\ \A c \in DOMAIN NoPair : PairEntity[t][c] # None
      /\ \A a \in Accounts :
           /\ BalanceEntity[a][t] \in {None, balance[a][t]}
           /\ LpPointsEntity[a][t] \in {None, points[a][t]}

\* The last metrics sent to a market's clients are those in the table.
ClientsSettle ==
  IndexAtRest =>
    \A t \in Tokens \ {Rswp} : PairEntity[t] # None /\ OnlyKeyHolders(t) =>
      told[t] = Metrics(PairEntity[t])

Trades == {i \in DOMAIN log : log[i].fn \in {"buy", "sell"}}
RowsOf(i) == {k \in DOMAIN TradeHistory : TradeHistory[k].hash = i}

\* Every trade of a market that was seen from its beginning is in the history;
\* given once, it is there once and with the amount it moved, although that is
\* worked out from the reserve that the table happened to have.
TradesKept ==
  IndexAtRest =>
    \A i \in Trades : Seen(log[i].token) /\ OnlyKeyHolders(log[i].token) =>
      /\ RowsOf(i) # {}
      /\ replays + crashes = 0 =>
           /\ \A j, k \in RowsOf(i) : j = k
           /\ \A k \in RowsOf(i) : TradeHistory[k].amount = log[i].moved
=============================================================================
