-------------------------------- MODULE Metrics --------------------------------
(***************************************************************************)
(* What the API works out on timers and offers to exchanges: the summary   *)
(* of each market's last day (volume.service.ts) and the circulating       *)
(* supply of each token (marketcap.service.ts, its market values being     *)
(* that times a price).  A round reads one table after another, while the  *)
(* queue goes on writing to them, and an exception ends it for all markets *)
(* that are still to come.  A round is over long before the next begins;   *)
(* tokens with a market have their pair's row.                             *)
(***************************************************************************)
EXTENDS Integers, Sequences, SequencesExt, FiniteSetsExt

CONSTANTS
  Listed,            \* tokens with a market, in the table's order
  AmmToken,          \* state:TOKEN_CONTRACT of the AMM
  Developer,         \* account that submitted the tokens
  StakingContracts,  \* accounts of the configured staking contracts
  Holders,           \* other accounts
  Unset,             \* a row that is not there
  Prices,            \* above 0, which calculateMetrics takes for none
  Day,               \* hours
  base_supply,
  MaxSales, MaxMoves, MaxHours, MaxRounds  \* bounds

Summaries == [PrevDay : Int, TimeStamp : Int, Volume : Int, BaseVolume : Int,
              High : Int, Low : Int, Last : Int]

ASSUME MetricsAssumption ==
  /\ Listed \in Seq(ToSet(Listed)) /\ AmmToken # Unset /\ Unset \notin Int /\ base_supply \in Nat
  /\ IsFiniteSet(StakingContracts) /\ IsFiniteSet(Holders)
  /\ Developer \notin StakingContracts \union Holders /\ StakingContracts \intersect Holders = {}
  /\ Unset \notin Summaries /\ Day \in Nat /\ Prices \subseteq Nat \ {0}

Wallets == {Developer} \union StakingContracts \union Holders

VARIABLES
  hour,
  sales,             \* TradeHistoryEntity, in the order of time
  balances,          \* BalanceEntity: of each token and wallet
  balance_updates,   \* saveTransfer: the rows of a transfer still to be written
  amm_meta_entity,   \* the AMM's token, when its settings are known
  VolumeMetrics,     \* VolumeMetricsEntity of each market
  volumeRound,       \* the markets to come, and what was read of the first
  circulating,       \* MarketcapEntity of each token: circulating_supply
  capRound,
  (* ghosts *)
  summed,            \* the hour the last round of summaries began in
  capped,            \* tokens whose row is of the last round of market values
  moved,             \* a transfer was written since that began
  moves, rounds

marketVars == <<hour, sales, balances, balance_updates, amm_meta_entity, moved, moves>>
volumeVars == <<VolumeMetrics, volumeRound, summed>>
capVars == <<circulating, capRound, capped>>
metricsVars == <<marketVars, volumeVars, capVars, rounds>>

Idle == [left |-> <<>>, read |-> Unset]

MetricsInit ==
  /\ hour = Day + 1
  /\ \E old \in SUBSET ToSet(Listed) :
       sales = SetToSeq({[market |-> m, time |-> 0, price |-> 1] : m \in old})
  /\ balances \in [ToSet(Listed) -> {[w \in Wallets |->
       IF w = Developer THEN base_supply ELSE IF w \in Holders THEN 0 ELSE s] : s \in {0, Unset}}]
  /\ balance_updates = <<>> /\ amm_meta_entity \in {AmmToken, Unset}
  /\ VolumeMetrics = [m \in ToSet(Listed) |-> Unset] /\ volumeRound = Idle
  /\ circulating = [t \in ToSet(Listed) |-> Unset] /\ capRound = Idle
  /\ summed = Unset /\ capped = {} /\ moved = FALSE /\ moves = 0 /\ rounds = 0

-----------------------------------------------------------------------------
(* The queue *)

saveTradeOf(m, price) ==
  /\ Len(sales) < MaxSales
  /\ sales' = Append(sales, [market |-> m, time |-> hour, price |-> price])
  /\ UNCHANGED <<hour, balances, balance_updates, amm_meta_entity, moved, moves, volumeVars, capVars,
                 rounds>>

HourPasses ==
  /\ hour < Day + 1 + MaxHours
  /\ hour' = hour + 1
  /\ UNCHANGED <<sales, balances, balance_updates, amm_meta_entity, moved, moves, volumeVars, capVars,
                 rounds>>

\* A wallet's one row names the tokens it has met.
HasRow(w) == \E t \in ToSet(Listed) : balances[t][w] # Unset
Balance(t, w) == IF balances[t][w] = Unset THEN 0 ELSE balances[t][w]

\* The queue comes to a transfer: the sender's row first.
saveTransfer(t, from, to) ==
  /\ balance_updates = <<>> /\ from # to /\ Balance(t, from) > 0 /\ moves < MaxMoves
  /\ moves' = moves + 1
  /\ balance_updates' = <<[token |-> t, vk |-> from, amount |-> Balance(t, from) - 1],
                          [token |-> t, vk |-> to, amount |-> Balance(t, to) + 1]>>
  /\ UNCHANGED <<hour, sales, balances, amm_meta_entity, moved, volumeVars, capVars, rounds>>

updateBalance ==
  /\ balance_updates # <<>>
  /\ LET dto == Head(balance_updates) IN
       balances' = [balances EXCEPT ![dto.token][dto.vk] = dto.amount]
  /\ balance_updates' = Tail(balance_updates)
  /\ moved' = TRUE
  /\ UNCHANGED <<hour, sales, amm_meta_entity, moves, volumeVars, capVars, rounds>>

\* The first block of the AMM writes its settings, the token among them.
updateAmmMeta ==
  /\ amm_meta_entity' = AmmToken
  /\ UNCHANGED <<hour, sales, balances, balance_updates, moved, moves, volumeVars, capVars, rounds>>

-----------------------------------------------------------------------------
(* The summaries *)

\* Trades of a market, by their place in the table.
Yesterday(m) == {i \in DOMAIN sales : sales[i].market = m /\ sales[i].time < hour - Day}
LastDay(m) == {i \in DOMAIN sales : sales[i].market = m /\ sales[i].time > hour - Day}

PricesOf(trades) == {sales[i].price : i \in trades}

\* Every trade is of one token.
BaseVolume(trades) == MapThenSumSet(LAMBDA i : sales[i].price, trades)

\* A day without trades has the last price of before.
calculateMetrics(trades, before) ==
  [PrevDay |-> before, TimeStamp |-> hour,
   Volume |-> Cardinality(trades), BaseVolume |-> BaseVolume(trades),
   High |-> IF trades = {} THEN before ELSE Max(PricesOf(trades)),
   Low |-> IF trades = {} THEN before ELSE Min(PricesOf(trades)),
   Last |-> IF trades = {} THEN before ELSE sales[Max(trades)].price]

updateDailyVolumes ==
  /\ volumeRound = Idle /\ rounds < MaxRounds
  /\ rounds' = rounds + 1
  /\ volumeRound' = [left |-> Listed, read |-> Unset]
  /\ summed' = hour
  /\ UNCHANGED <<marketVars, VolumeMetrics, capVars>>

\* A market without a trade before the last day ends the round.
getLastYesterdayTrade ==
  /\ volumeRound.left # <<>> /\ volumeRound.read = Unset
  /\ LET old == Yesterday(Head(volumeRound.left)) IN
       volumeRound' = IF old = {} THEN Idle ELSE [volumeRound EXCEPT !.read = sales[Max(old)].price]
  /\ UNCHANGED <<marketVars, VolumeMetrics, summed, capVars, rounds>>

\* Slip: a market without trades in the last day ends the round too.
getTradesLastDay_must ==
  /\ volumeRound.left # <<>> /\ volumeRound.read # Unset
  /\ LET m == Head(volumeRound.left) IN
       IF LastDay(m) = {} THEN volumeRound' = Idle /\ UNCHANGED VolumeMetrics
       ELSE /\ VolumeMetrics' = [VolumeMetrics EXCEPT ![m] = calculateMetrics(LastDay(m), volumeRound.read)]
            /\ volumeRound' = [left |-> Tail(volumeRound.left), read |-> Unset]
  /\ UNCHANGED <<marketVars, summed, capVars, rounds>>

getTradesLastDay ==
  /\ volumeRound.left # <<>> /\ volumeRound.read # Unset
  /\ LET m == Head(volumeRound.left) IN
       VolumeMetrics' = [VolumeMetrics EXCEPT ![m] = calculateMetrics(LastDay(m), volumeRound.read)]
  /\ volumeRound' = [left |-> Tail(volumeRound.left), read |-> Unset]
  /\ UNCHANGED <<marketVars, summed, capVars, rounds>>

-----------------------------------------------------------------------------
(* The circulating supplies *)

updateMarketCaps ==
  /\ capRound = Idle /\ rounds < MaxRounds
  /\ rounds' = rounds + 1
  /\ capRound' = [left |-> Listed, read |-> Unset]
  /\ capped' = {} /\ moved' = (balance_updates # <<>>)
  /\ UNCHANGED <<hour, sales, balances, balance_updates, amm_meta_entity, moves, circulating,
                 volumeVars>>

\* const dev_wallet = await BalanceEntity.findOne(token.developer)
readDeveloper ==
  /\ capRound.left # <<>> /\ capRound.read = Unset
  /\ capRound' = [capRound EXCEPT !.read = balances[Head(capRound.left)][Developer]]
  /\ UNCHANGED <<marketVars, circulating, capped, volumeVars, rounds>>

\* Slip: what is staked circulates.
calculateCirculatingSupply_withStaked ==
  /\ capRound.left # <<>> /\ capRound.read # Unset
  /\ LET t == Head(capRound.left) IN
       /\ circulating' = [circulating EXCEPT ![t] = base_supply - capRound.read]
       /\ capped' = capped \union {t}
  /\ capRound' = [left |-> Tail(capRound.left), read |-> Unset]
  /\ UNCHANGED <<marketVars, volumeVars, rounds>>

\* The staking contracts are read for the AMM's token.  Without the settings, or
\* without the row of one of them, the round ends.
calculateCirculatingSupply ==
  /\ capRound.left # <<>> /\ capRound.read # Unset
  /\ LET t == Head(capRound.left)
         staked == IF t = amm_meta_entity THEN StakingContracts ELSE {}
         ends == amm_meta_entity = Unset \/ \E w \in staked : ~HasRow(w) IN
       IF ends THEN capRound' = Idle /\ UNCHANGED <<circulating, capped>>
       ELSE /\ circulating' = [circulating EXCEPT ![t] =
                 base_supply - capRound.read - MapThenSumSet(LAMBDA w : Balance(t, w), staked)]
            /\ capped' = capped \union {t}
            /\ capRound' = [left |-> Tail(capRound.left), read |-> Unset]
  /\ UNCHANGED <<marketVars, volumeVars, rounds>>

VolumesNext ==
  \/ \E m \in ToSet(Listed), price \in Prices : saveTradeOf(m, price)
  \/ HourPasses \/ updateDailyVolumes \/ getLastYesterdayTrade \/ getTradesLastDay

CapsNext ==
  \/ \E t \in ToSet(Listed), from, to \in Wallets : saveTransfer(t, from, to)
  \/ updateBalance \/ updateAmmMeta
  \/ updateMarketCaps \/ readDeveloper \/ calculateCirculatingSupply

MetricsSpec == MetricsInit /\ [][VolumesNext \/ CapsNext]_metricsVars

-----------------------------------------------------------------------------
(* Properties *)

\* A round of summaries gives a market a row of its own day, with the last price
\* between the extremes, unless the market or one listed before it has no trade
\* older than a day: a new market stops the summaries of those behind it.
SummariesReach ==
  volumeRound = Idle /\ summed = hour =>
    \A i \in DOMAIN Listed :
      (\A k \in 1 .. i : Yesterday(Listed[k]) # {}) =>
        LET row == VolumeMetrics[Listed[i]] IN
        row # Unset /\ row.TimeStamp = hour /\ row.Low <= row.Last /\ row.Last <= row.High

\* What a round says of a supply is what others than the developer and, for the
\* AMM's token, the staking contracts hold, if no transfer was written while it
\* read one wallet after the other.
CirculatingIsHeld ==
  capRound = Idle /\ ~moved =>
    \A t \in capped :
      circulating[t] = MapThenSumSet(LAMBDA w : Balance(t, w),
        Holders \union (IF t = AmmToken THEN {} ELSE StakingContracts))
===============================================================================
