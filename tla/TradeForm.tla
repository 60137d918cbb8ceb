------------------------------- MODULE TradeForm -------------------------------
(***************************************************************************)
(* The forms that trade: the swap page and the pages that add, create and  *)
(* remove liquidity (ui/src/pages), with the inputs, panels and buttons    *)
(* they share and pageUtils.  A page asks the API for its token, and for   *)
(* the token's market, whenever the token in its store changes: by the     *)
(* address it was opened at, by the user's choice from the list, or by the *)
(* answer to such a question.  Answers come in any order, also to a page   *)
(* that was left, whose subscriptions stay.  Amounts typed fill in the     *)
(* other amount from the reserves at hand; the quote and the button follow *)
(* every change.                                                           *)
(*                                                                         *)
(* A market is the number of trades it has seen; Reserves gives its        *)
(* reserves, in units of the last decimal.  The address bar is left out:   *)
(* updateWindowHistory replaces what it shows and the router hears nothing.*)
(***************************************************************************)
EXTENDS ClientStore, Quotes, Sequences, SequencesExt

CONSTANTS Tokens, Reserves(_, _), \* reserves of a token's market after so many trades
          Amounts,                \* amounts a user types
          Tolerances,             \* slippage tolerances a user sets, in percent
          StampCost,              \* the stamps of a trade and its approval, in currency
          LpShare,                \* liquidity points of the user
          MaxTrades,              \* bound: trades of a market
          MaxAsked,               \* bound: questions open at once
          MaxPages,               \* bound: pages mounted one after the other
          MaxFailures             \* bound: questions that fail

\* The page takes no tolerance above 49.
ASSUME FormAssumption ==
  /\ Tolerances \subseteq 0 .. 49 /\ Amounts \subseteq Nat /\ StampCost \in Nat /\ LpShare \in Nat
  /\ MaxTrades \in Nat \ {0}
  /\ \A t \in Tokens, n \in 0 .. MaxTrades :
       Reserves(t, n) \in [currency : Nat \ {0}, token : Nat \ {0}]

Null == -1       \* an amount that is not there
NoMarket == -1   \* in place of the trades of a market: there is none
NoLP == [token |-> None, trades |-> NoMarket]
NoToken == [token |-> None, market |-> FALSE, full |-> FALSE, balance |-> 0]

VARIABLES market,      \* of each token: the trades of its market, or NoMarket
          pages,       \* the pages mounted so far: kind, address, and their stores
          asked,       \* getToken requests that are out, and resetPage's timers
          amounts,     \* currencyAmount, tokenAmount and lpTokenAmount of the page
          buy,         \* direction of the swap
          confirming,  \* the confirmation is open
          txOkay,      \* what the last check of the stamps said
          costKnown,   \* the cost of the stamps has been worked out
          settings,    \* slippageTolerance, payInRswp
          tradeFeed,   \* current_trade_feed
          failures,    \* bound: questions that failed
          chosen,      \* ghost: the token last chosen for the page
          contested,   \* ghost: chosen while another token's answer was due
          failed,      \* ghost: a question of the page failed
          late         \* ghost: a swap page that was left took the trade feed

formVars == <<market, pages, asked, amounts, buy, confirming, txOkay, costKnown, settings,
              tradeFeed, failures, chosen, contested, failed, late>>
pageVars == <<amounts, buy, confirming, txOkay>>
ghosts   == <<chosen, contested, failed, late>>

Live == Len(pages)
Page == pages[Live]
Ask(by, token) == [by |-> by, token |-> token, timer |-> FALSE]

-----------------------------------------------------------------------------
(* The quote of the swap page.                                              *)

\* The reserves at hand, from the asset that is paid to the one received.
Quoted(lp, buying) ==
  LET r == Reserves(lp.token, lp.trades) IN
  IF buying THEN [from |-> r.currency, to |-> r.token] ELSE [from |-> r.token, to |-> r.currency]

Paid == IF buy THEN amounts.currency ELSE amounts.token

\* What the confirmation sends as minimum_received.
minimumReceived ==
  IF settings.payInRswp THEN Minimum(Quoted(Page.lp, buy), Paid, settings.tolerance)
                        ELSE MinimumLessFee(Quoted(Page.lp, buy), Paid, settings.tolerance)

priceImpactTooHigh ==
  /\ Page.at = "swap" /\ Page.lp # NoLP /\ Paid # Null
  /\ calcSlippage(Quoted(Page.lp, buy), Paid) > 100 * settings.tolerance

\* The other amount of a swap.  It is shown without the fee if that is paid in
\* RSWP, and only if the amount is on the paying side.
Counterpart(lp, amount, paysCurrency) ==
  LET r == Quoted(lp, paysCurrency) IN
  IF settings.payInRswp /\ buy = paysCurrency
  THEN Purchased(r, amount)
  ELSE PurchasedLessFee(r, amount, ammFuelTank # None)

Present(amount) == amount \notin {Null, 0}

\* The button, which every store it reads wakes.
Enabled ==
  LET pool == Page.at \in {"add", "create"} IN
  /\ walletIsReady
  /\ ~(Page.at = "swap" /\ ~txOkay /\ buy)
  /\ ~priceImpactTooHigh
  /\ Page.at # "remove" =>
       /\ Present(amounts.currency) /\ Present(amounts.token) /\ Page.sel # NoToken
       /\ pool \/ buy => amounts.currency <= walletBalance
       /\ (pool \/ ~buy) /\ tokenBalances.of # None => amounts.token <= walletBalance
  /\ Page.at = "remove" => Present(amounts.lp)

\* A cost that is not known yet stops nobody, and its arrival checks nothing.
checkCurrencyAmountForStamps(currency) ==
  txOkay' = (currency = Null \/ ~costKnown \/ currency + StampCost <= walletBalance)

-----------------------------------------------------------------------------
(* Tokens of a page.                                                        *)

\* Slip: the page is refreshed only while it has no market.
RefreshedIfEmpty(p, record) ==
  IF record # p.sel /\ p.lp = NoLP THEN {record.token} ELSE {}

\* Slip: the page asks for the token of its address again.
RefreshedAddress(p, record) ==
  IF record # p.sel /\ p.at = "swap" /\ p.contract # None THEN {p.contract} ELSE {}

\* What the page asks for when a token is saved in its store, and where it goes.
Refreshed(p, record) ==
  IF record # p.sel /\ (\/ p.at = "swap"
                        \/ p.at = "add" /\ record.market
                        \/ p.at = "create" /\ ~record.market)
  THEN {record.token} ELSE {}

Redirect(p, record) ==
  IF record = p.sel THEN "stay"
  ELSE IF p.at = "add" /\ ~record.market THEN "create"
  ELSE IF p.at = "create" /\ record.market THEN "add"
  ELSE "stay"

\* A redirect mounts a page, unless the one at hand is of that route already: its
\* address is another one then, and the router lets it be.
Mounts(goto) == goto \notin {"stay", Page.at}
Readdressed(token) == IF Page.sel.token = token THEN Page.contract ELSE token

\* Saves a token in the store of page i, and its market; goto is where the page
\* sends the user, and rest the other questions that are out.
saveSelectedToken(i, record, lp, rest, goto) ==
  LET p    == pages[i]
      kept == [pages EXCEPT ![i].sel = record, ![i].lp = lp]
      asks == rest \o SetToSeq({Ask(i, t) : t \in Refreshed(p, record)})
  IN IF ~Mounts(goto)
     THEN /\ Len(asks) <= MaxAsked
          /\ asked' = asks
          /\ pages' = IF goto = "stay" THEN kept
                      ELSE [kept EXCEPT ![Live].contract = Readdressed(record.token)]
     ELSE /\ Len(asks) < MaxAsked /\ Len(pages) < MaxPages
          /\ pages' = Append(kept, [at |-> goto, contract |-> record.token,
                                    sel |-> NoToken, lp |-> NoLP])
          /\ asked' = Append(asks, Ask(Len(pages) + 1, record.token))

\* A page comes up empty; the swap page that goes leaves its feed.
Mounted(contract) ==
  /\ amounts' = [currency |-> Null, token |-> Null, lp |-> Null]
  /\ buy' = TRUE /\ confirming' = FALSE /\ txOkay' = TRUE
  /\ costKnown' = (walletAddress # None)
  /\ chosen' = contract /\ contested' = FALSE /\ failed' = FALSE

OpenPage(at, contract) ==
  /\ at # Page.at /\ Len(pages) < MaxPages
  /\ at = "remove" => contract # None
  /\ contract # None => Len(asked) < MaxAsked
  /\ pages' = Append(pages, [at |-> at, contract |-> contract, sel |-> NoToken, lp |-> NoLP])
  /\ asked' = IF contract = None THEN asked ELSE Append(asked, Ask(Live + 1, contract))
  /\ tradeFeed' = IF Page.at = "swap" THEN None ELSE tradeFeed
  /\ Mounted(contract)
  /\ UNCHANGED <<market, settings, failures, late>>

BalanceShown == IF walletIsReady THEN walletBalance ELSE 0

\* The remove page works its tokens out again when its market is saved.
LpTokens(percent) ==
  IF tokenBalances.of # None THEN (LpShare * percent) \div 100 ELSE Null

\* What the API knows of a token: whether it has a market, and which.
getToken(token) ==
  [token |-> [token |-> token, market |-> market[token] # NoMarket, full |-> TRUE,
              balance |-> BalanceShown],
   lp_info |-> IF market[token] # NoMarket THEN [token |-> token, trades |-> market[token]]
                                           ELSE NoLP]

\* joinTradeFeed, of the swap page that had asked; leaveTradeFeed, of the swap
\* page that is left.
TradeFeed(p, goto, token) ==
  IF p.at = "swap" THEN token
  ELSE IF goto # "stay" /\ Page.at = "swap" THEN None
  ELSE tradeFeed

\* The answer to refreshTokenInfo: the token is saved, then its market, then
\* the swap page joins the feed of the token it had asked for.
refreshTokenInfo(k) ==
  LET ask    == asked[k]
      p      == pages[ask.by]
      res    == getToken(ask.token)
      goto   == Redirect(p, res.token)
      rest   == RemoveAt(asked, k)
  IN /\ ~ask.timer
     /\ saveSelectedToken(ask.by, res.token, res.lp_info, rest, goto)
     /\ tradeFeed' = TradeFeed(p, goto, ask.token)
     /\ late' = (late \/ (p.at = "swap" /\ ask.by # Live))
     /\ IF Mounts(goto)
        THEN Mounted(ask.token)
        ELSE UNCHANGED <<pageVars, costKnown, chosen, contested, failed>>
     /\ UNCHANGED <<market, settings, failures>>

\* No answer, or none such token.
refreshTokenInfoFails(k) ==
  /\ ~asked[k].timer /\ failures < MaxFailures
  /\ failures' = failures + 1
  /\ asked' = RemoveAt(asked, k)
  /\ failed' = (failed \/ asked[k].by = Live)
  /\ UNCHANGED <<market, pages, pageVars, costKnown, settings, tradeFeed, chosen, contested, late>>

\* Two seconds after a trade the page asks for the token it was told to.
resetPageTimer(k) ==
  /\ asked[k].timer
  /\ asked' = [asked EXCEPT ![k].timer = FALSE]
  /\ UNCHANGED <<market, pages, pageVars, costKnown, settings, tradeFeed, failures, ghosts>>

-----------------------------------------------------------------------------
(* The user.                                                                *)

\* The amount on the other side, on the page at hand.
OtherAmount(lp, amount, paysCurrency) ==
  IF Page.at = "swap" THEN Counterpart(lp, amount, paysCurrency)
                      ELSE calcTokenValue(Quoted(lp, paysCurrency), amount)

DeterminesValues == Page.at # "create"

TypeCurrency(amount) ==
  LET fills == amount # Null /\ Page.sel # NoToken /\ Page.lp # NoLP /\ DeterminesValues IN
  /\ Page.at # "remove"
  /\ amounts' = [amounts EXCEPT
                   !.currency = amount,
                   !.token = IF fills THEN OtherAmount(Page.lp, amount, TRUE) ELSE @]
  /\ checkCurrencyAmountForStamps(amount)
  /\ UNCHANGED <<market, pages, asked, buy, confirming, costKnown, settings, tradeFeed, failures, ghosts>>

\* The currency that goes with a token amount, from the market at hand.
CurrencyFor(amount) ==
  IF Present(amount) /\ Page.lp # NoLP /\ DeterminesValues
  THEN OtherAmount(Page.lp, amount, FALSE) ELSE amounts.currency

TypeToken(amount) ==
  /\ Page.at # "remove" /\ Page.sel # NoToken
  /\ amounts' = [amounts EXCEPT !.token = amount, !.currency = CurrencyFor(amount)]
  /\ checkCurrencyAmountForStamps(CurrencyFor(amount))
  /\ UNCHANGED <<market, pages, asked, buy, confirming, costKnown, settings, tradeFeed, failures, ghosts>>

\* All the wallet has, less the stamps, and nothing if they are not covered or
\* not known; or all the tokens.
handleMaxInput ==
  \/ TypeCurrency(IF costKnown /\ walletBalance > StampCost THEN walletBalance - StampCost ELSE 0)
  \/ tokenBalances.of # None /\ TypeToken(walletBalance)

\* The lists have the tokens with a market, or those without when the list was
\* read; balances are added for a wallet that is ready.
getTokenList == {t \in Tokens : market[t] \in {NoMarket, 0}}
getMarketList == {t \in Tokens : market[t] # NoMarket}

createTokenList ==
  IF Page.at = "create"
  THEN {[token |-> t, market |-> FALSE, full |-> FALSE, balance |-> BalanceShown] :
          t \in getTokenList}
  ELSE {[token |-> t, market |-> TRUE, full |-> TRUE,
         balance |-> IF walletIsReady THEN walletBalance ELSE Null] : t \in getMarketList}

\* The token is saved first, so the currency amount is worked out for it from
\* the market of the one before.
handleTokenSelect(record) ==
  /\ Page.at # "remove"
  /\ amounts' = [amounts EXCEPT !.currency = CurrencyFor(amounts.token)]
  /\ checkCurrencyAmountForStamps(CurrencyFor(amounts.token))
  /\ saveSelectedToken(Live, record, Page.lp, asked, "stay")
  /\ chosen' = record.token
  /\ contested' = (contested \/ \E k \in DOMAIN asked :
                              asked[k].by = Live /\ asked[k].token # record.token)
  /\ UNCHANGED <<market, buy, confirming, costKnown, settings, tradeFeed, failures, failed, late>>

\* The two inputs change places and are built again.  What is left of the old ones,
\* subscriptions that may set txOkay from the amount they had last, is left out.
swapSlots ==
  /\ Page.at = "swap"
  /\ buy' = ~buy
  /\ costKnown' = (walletAddress # None)
  /\ txOkay' = (amounts.currency = Null \/ ~costKnown' \/ amounts.currency + StampCost <= walletBalance)
  /\ UNCHANGED <<market, pages, asked, amounts, confirming, settings, tradeFeed, failures, ghosts>>

setSlippageTolerance(percent) ==
  /\ Page.at = "swap" /\ percent # settings.tolerance
  /\ settings' = [settings EXCEPT !.tolerance = percent]
  /\ UNCHANGED <<market, pages, asked, pageVars, costKnown, tradeFeed, failures, ghosts>>

\* The input on the paying side hears of it and sends its amount again.
setPayInRswp ==
  LET pays == ~settings.payInRswp
      r    == Quoted(Page.lp, buy)
      other == IF pays THEN Purchased(r, Paid) ELSE PurchasedLessFee(r, Paid, ammFuelTank # None)
  IN /\ Page.at = "swap"
     /\ settings' = [settings EXCEPT !.payInRswp = pays]
     /\ IF Present(Paid) /\ Page.lp # NoLP /\ Page.sel # NoToken
        THEN /\ amounts' = IF buy THEN [amounts EXCEPT !.token = other]
                                  ELSE [amounts EXCEPT !.currency = other]
             /\ checkCurrencyAmountForStamps(amounts'.currency)
        ELSE UNCHANGED <<amounts, txOkay>>
     /\ UNCHANGED <<market, pages, asked, buy, confirming, costKnown, tradeFeed, failures, ghosts>>

handleLpTokensChange(percent) ==
  /\ Page.at = "remove" /\ Page.sel # NoToken
  /\ amounts' = [amounts EXCEPT !.lp = LpTokens(percent)]
  /\ UNCHANGED <<market, pages, asked, buy, confirming, txOkay, costKnown, settings,
                 tradeFeed, failures, ghosts>>

openConfirm ==
  /\ Enabled /\ ~confirming
  /\ confirming' = TRUE
  /\ UNCHANGED <<market, pages, asked, amounts, buy, txOkay, costKnown, settings,
                 tradeFeed, failures, ghosts>>

\* Which token the page goes back to: the swap page to the one it trades, the
\* others to the one they were opened at, whatever was chosen since.
ResetTo == IF Page.at = "swap" THEN Page.sel.token ELSE Page.contract

\* A trade that the network accepted.  A swap the market pays too little for is
\* refused there, and the dialog stays as it is.
Succeeds ==
  /\ confirming /\ Page.sel # NoToken
  /\ Page.at \in {"swap", "add", "remove"} => market[Page.sel.token] # NoMarket
  /\ Page.at = "create" => market[Page.sel.token] = NoMarket
  /\ Page.at = "swap" =>
       /\ Present(Paid) /\ Page.lp # NoLP
       /\ minimumReceived <=
            Pays(Quoted([token |-> Page.sel.token, trades |-> market[Page.sel.token]], buy),
                 Paid, ammFuelTank # None)
  /\ market[Page.sel.token] < MaxTrades
  /\ ResetTo # None => Len(asked) < MaxAsked
  /\ market' = [market EXCEPT ![Page.sel.token] = @ + 1]
  /\ amounts' = [currency |-> Null, token |-> Null, lp |-> Null]
  /\ txOkay' = TRUE
  /\ confirming' = FALSE
  /\ asked' = IF ResetTo = None THEN asked
              ELSE Append(asked, [Ask(Live, ResetTo) EXCEPT !.timer = TRUE])
  /\ contested' = (contested \/ (Page.at # "swap" /\ Page.contract \notin {None, Page.sel.token})
                         \/ \E k \in DOMAIN asked : asked[k].by = Live /\ asked[k].token # Page.sel.token)
  /\ UNCHANGED <<pages, buy, costKnown, settings, tradeFeed, failures, chosen, failed, late>>

closeConfirm ==
  /\ confirming
  /\ confirming' = FALSE
  /\ UNCHANGED <<market, pages, asked, amounts, buy, txOkay, costKnown, settings,
                 tradeFeed, failures, ghosts>>

\* Somebody else creates the market, or trades in it.
Traded(token) ==
  /\ market[token] < MaxTrades
  /\ market' = [market EXCEPT ![token] = @ + 1]
  /\ UNCHANGED <<pages, asked, pageVars, costKnown, settings, tradeFeed, failures, ghosts>>

-----------------------------------------------------------------------------
FormInit ==
  /\ market \in [Tokens -> {NoMarket, 1}]
  /\ \E contract \in Tokens \union {None}, at \in {"swap", "add", "create", "remove"} :
       /\ at = "remove" => contract # None
       /\ pages = <<[at |-> at, contract |-> contract, sel |-> NoToken, lp |-> NoLP]>>
       /\ asked = IF contract = None THEN <<>> ELSE <<Ask(1, contract)>>
       /\ chosen = contract
  /\ amounts = [currency |-> Null, token |-> Null, lp |-> Null]
  /\ buy = TRUE /\ confirming = FALSE /\ txOkay = TRUE /\ costKnown = (walletAddress # None)
  /\ settings \in [tolerance : Tolerances, payInRswp : {FALSE}]
  /\ tradeFeed = None /\ failures = 0
  /\ contested = FALSE /\ failed = FALSE /\ late = FALSE

\* What the user does, and what happens meanwhile.
FormUser ==
  \/ \E at \in {"swap", "add", "create", "remove"}, c \in Tokens \union {None} : OpenPage(at, c)
  \/ \E a \in Amounts \union {Null} : TypeCurrency(a) \/ TypeToken(a)
  \/ handleMaxInput
  \/ \E record \in createTokenList : handleTokenSelect(record)
  \/ swapSlots
  \/ \E t \in Tolerances : setSlippageTolerance(t)
  \/ setPayInRswp
  \/ \E percent \in {50, 100} : handleLpTokensChange(percent)
  \/ openConfirm \/ closeConfirm

FormWorld ==
  \/ \E k \in DOMAIN asked :
       refreshTokenInfo(k) \/ refreshTokenInfoFails(k) \/ resetPageTimer(k)
  \/ Succeeds

FormOthers == \E t \in Tokens : Traded(t)

-----------------------------------------------------------------------------
(* Properties.                                                              *)

AtRest == asked = <<>>

\* The page shows the token that was last chosen for it, or none yet: the answers
\* about tokens it showed before do not bring them back, unless one was due when
\* the choice was made.
SelectionStands ==
  ~contested /\ chosen # None /\ Page.sel # NoToken => Page.sel.token = chosen

\* Once every answer is in, and none was missing, the market the page quotes
\* from is that of the token it shows, and the swap page listens to its trades,
\* unless a swap page that was left got its answer late.
QuoteOfItsToken ==
  AtRest /\ ~failed /\ Page.sel # NoToken =>
    /\ Page.lp.token = (IF Page.sel.market THEN Page.sel.token ELSE None)
    /\ Page.at = "swap" /\ ~late => tradeFeed = Page.sel.token

\* A swap whose button is enabled asks for no more than its market pays as long
\* as nobody trades first: the price impact the button allows is within the
\* tolerance the minimum is worked out with.  What roundings may add is three
\* units of the last decimal, and three of the price's for each unit that is paid.
\* Fees paid in RSWP are left out: the minimum then ignores a fee the swap will be
\* charged.
QuoteFits ==
  /\ Page.at = "swap" /\ Enabled /\ Page.lp # NoLP /\ ~settings.payInRswp
  => LET pays == Pays(Quoted(Page.lp, buy), Paid, ammFuelTank # None)
     IN One * (minimumReceived - pays - 3) <= 3 * Paid

===============================================================================
