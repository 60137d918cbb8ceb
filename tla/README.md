# RocketSwap in TLA+

RocketSwap is a token exchange on the Lamden chain.  Its own code has three
layers: Python contracts that run on the chain (a first AMM, two staking
contracts, tokens, a wallet of several signers, names), a TypeScript API that
reads the chain block by block into a database and serves it over REST and web
sockets, and a Svelte client with its wallets and trading forms.  These modules
model the logic of all three; TLC checks them on small instances and TLAPS proves
the central ones for every instance.

## 1. Inventory

| Part | State | Operations | Interacts with |
|---|---|---|---|
| Yield farm `contracts/yield_farming/con_staking.py` | settings, `Deposits`, `Withdrawals`, `Epochs`, `StakedBalance` | stake, harvest, exit, nine calls of the owner | two token contracts; the block time |
| Simple staking `contracts/simple_staking/con_staking_simple.py` | the same, an emission rate in each epoch | the same, an emergency exit | the same |
| Token `contracts/con_basic_token.py` | balances, allowances, custody flags, metadata | transfers, approvals, custody, metadata | staking and AMM contracts, users |
| First AMM `contracts/amm_legacy/dex_pairs.py`, `dex.py` | reserves, recorded totals, LP shares, `kLast`, `fee_to` | create, mint, burn, swap, transfer of shares, fee switch | token contracts, by what they hold for it |
| Wallet of several signers `contracts/multisig.py` | signers, proposals, votes, finished list | propose (five kinds), vote, determine | `currency` |
| Rocket ids `contracts/trollbox_contract/con_ipseity.py` | two tables, name to key and back | setName, auth | the API's sign-on |
| Block grabber `api/src/blockgrabber.ts` | loops and timers, current block, batch, saved blocks | poll, fetch, hand over, save, wipe | masternode, parser, watchdog |
| Parser and queue `api/src/parser.provider.ts` | `action_que`, flag, time of the last sign of life | choose handlers, run them one by one, restart a silent grabber | grabber, handlers |
| Market index `api/src/entities/*` (token, balance, pair, price, trade-history, lp-points) | one table each | one handler each | the queue, clients |
| Staking index (staking-meta, staking-epoch, user-staking, `socket.service.ts`) | three tables, list of listening clients | one handler, jobs that work out yields, joins and leaves | the queue, the gateway's timers |
| Gateway `api/src/app.gateway.ts` | rooms | join, leave, updates, two-second timers | clients, staking index |
| Sign-on `api/src/authentication` | names | a token for a secret | ids, clients |
| Transactions `ui/src/services/wallet.service.ts`, `ws.service.ts`, dialogs | promises under way, callbacks by uid, what each dialog waits for | nine operations with their approvals, two wallets | proxy of the API, explorer, chain |
| Session, the same files and `wallet-connections` | accounts, keystore, feeds, balances, name, token | log in two ways, log out, reload, feeds, names, sign-on | gateway, sign-on, storage of the browser |
| Connection and live rows `ws.service.ts`, `app.gateway.ts`, `store.ts` | listeners, rooms, shown prices, metrics and trades | join and leave feeds, take what is told, connect again | the rows the handlers save, pages |
| Chat `api/src/authentication`, `troll-box.svelte` | tokens, history, list, id of the connection | sign on, refresh, send, join | sign-on, connection |
| Timers `volume.service.ts`, `marketcap.service.ts` | a summary per market, a supply per token | a round over all markets | trades and balances, AMM settings |
| Pages that trade `ui/src/pages`, `components`, `utils.ts` | token, market and amounts of the page, settings, button | open, choose, type, swap sides, confirm, reset | REST, trade feed, session |
| Registry, presentation, website, proxy, `amm_legacy/References` | section 7 | | |

What is hard in this code:

* **Long sequences of legal calls.** The staking contracts keep three accounts
  of the same tokens by hand and compute yield in one loop over epochs, long
  after the fact, from settings that may have changed.  Correct means: the
  accounts agree, the principal is there, nothing is paid twice, nothing earned
  is lost.  The wallet of several signers counts votes of people who come and go.
* **Inference from balances.** The AMM takes what a token contract holds for it
  beyond what it recorded as paid in.  Correct means: counted once, shares
  worth no less after anybody's deposit or withdrawal, the fee within the growth.
* **Everything between two awaits.** A grabber is a loop of timers and requests;
  a watchdog starts another one and cannot stop the first.  The parser's queue
  serialises handlers, except for those that are not awaited, and except for
  the jobs that read and write users' rows beside it.  Correct means: polling
  never ends, every block is applied, the tables end up as the chain is.
* **Restarts and replays.** The queue is in memory; blocks are saved when they
  are queued.  A restart replays all saved blocks, with or without wiping.
* **Answers that come late, or never.** The client chains promises whose
  callbacks cross the API and come back by uid; answers name no account and no
  page, and subscriptions outlive the page.  Correct means: what the user is told
  is what the chain did, a page settles on the token chosen for it and the
  market of that token, nobody is shown another account's balances, what a page
  lists it lists once and in order, and a token ends when its time is over.

`PROJECT.json` lists the main hazards line by line, with the properties that cover
each.

## 2. Modules and the code they model

| Module | Models | State and actions |
|---|---|---|
| `Tally` | - | `Total(f)`, the sum of a function over a finite set |
| `Ledger` | the assertions and assignments of a token's `transfer` and `transfer_from` | operators, used by both staking modules, `Multisig` and `DexPairs` |
| `StakeVault` | what a staking contract promises about principal (abstract) | `PutIn`, `TakeAll` |
| `YieldFarm` | `con_staking.py` | one action per exported call, named as in the code, and `NextBlock` |
| `YieldFarmTape` | the documented meaning of the yield, hour by hour | a history variable beside `YieldFarm` |
| `SimpleStaking`, `SimpleStakingTape` | `con_staking_simple.py` and its meaning, tick by tick | as above, with the emergency exit |
| `BasicToken` | `con_basic_token.py` | one action per exported call |
| `Multisig` | `multisig.py` | one action per exported call, the day, and the contract's cache going away |
| `DexPairs` | `dex_pairs.py`, `create_pair` and `fee_to` of `dex.py` | one action per exported call, token deposits |
| `ActionQueue` | `addToActionQue`, `executeActionQue` | operators and variables that `BlockGrabber` extends |
| `BlockGrabber` | `blockgrabber.ts` with the watchdog | one step per stretch between two awaits; faults, lag, restart |
| `MarketIndex` | the parser's handlers and six tables | one action per handler, or per await where something else runs beside it |
| `StakingIndex` | the staking tables, `socket.service.ts`, the gateway's timers | the handler in four steps, each job from await to await, joins and leaves |
| `TxFlow` | `wallet.service.ts` from the press of a button to the answer, `ws.service.ts`' callbacks, the confirmation dialogs, the proxy | promises, transactions and the wallets' steps; faults |
| `ClientStore` | `store.ts`: account and balance shown | variables and operators `Session` and `TradeForm` share |
| `Session` | log-in, log-out, feeds, name, sign-on | one action per handler, and per answer |
| `Quotes` | `quoteCalculator` of `utils.ts` | operators on whole numbers of the last decimal |
| `TradeForm` | the four pages that trade, their inputs, button and dialog | one action per input and per answer |
| `Client` | `Session` and `TradeForm` in one page | the composition: accounts, balances and the discount go from one to the other |
| `Socket` | the connection of a page with the gateway | a queue each way, `connected`; rooms that forward |
| `Feeds` | the price, the metrics, the staking contracts and the trades a page shows | rows at the API and at the page; one action per join, answer and update |
| `Chat` | signing on, tokens and their refresh, messages and the list | one action per handler, and the days |
| `Live` | `Feeds` and `Chat` on one connection, which may break | the composition: `handleConnect`, and the end of a connection for both |
| `Metrics` | `volume.service.ts`, `marketcap.service.ts` | a round, read by read, beside the queue's writes |
| `MCContracts`, `MCLive` | - | `BasicToken`, `Multisig` or `DexPairs`; `Live` or a round of `Metrics`: chosen initially |
| `MCYieldFarm`, `MCYieldFarmTape`, `MCStakingIndex`, `MCTxFlow`, `MCClient` | - | instances for TLC |
| `TallyTheorems` | - | sums over sets and ranges: the lemmas the accounts rest on |
| `YieldFarmProofs`, `SimpleStakingProofs`, `ContractsProofs`, `BlockGrabberProofs`, `IndexProofs`, `ClientProofs`, `LiveProofs` | - | theorems and proofs; `IndexProofs` has both indexes, `ContractsProofs` has the token, the wallet of several signers and the AMM |

Conventions.  A contract call is one step and a failed assertion is a guard: the
chain reverts the whole transaction, the calls it made included.  Python
decimals become integers in the smallest unit; the farm counts shares in units
of `1/Precision` and rounds down as the contract's decimals do, and time is in
hours (farm) or ticks (simple staking).  The first AMM keeps all digits of
products and cuts off quotients; the client's `Quotes` round half up to the last
decimal, as `toBigNumberPrecision` does.  In the API and the client one step is
one stretch of code between two awaits at which other code may run.  `ActionQueue`
lets a block stand for the handlers of its transactions; `MarketIndex` and
`StakingIndex` open that up and take one queue as given, which `OneAtATime` of
`BlockGrabber` justifies.

Abstractions worth knowing.  `StakingIndex` keeps of a row which event wrote its
deposits and withdrawals, and of a yield what it was worked out from.  `TxFlow`
counts allowances in operations and chooses freely whether the stamps suffice.
`TradeForm` keeps of a market the number of trades it has seen, from which
`Reserves` gives its reserves.  `Session` joins the feeds of balances and of
liquidity points into one.

An operator commented "Slip", with a name such as `Watchdog_onlyWarns` or
`TimersOfEpochs`, is a plausible mistake in the definition it precedes.
Replacing the definition by the slip makes TLC report the property it is paired
with in `PROJECT.json`.

## 3. Runs

| Run | Instance | What it shows |
|---|---|---|
| `farm_quiet` | 2 users, rate 1, range of 2 of 4 hours, amounts 0-2, 3 epochs, the owner may set only what keeps the seed's promises | the books agree (`StakeAccounted`), the loop equals the hour-by-hour tape (`AccruedAsEarned`), paid and owed stay within the emission (`WithinEmission`), a pool that was given the emission never blocks an exit (`ExitFunded`) |
| `farm_owner` | 2 users, every setter with a value that changes something | shares of an epoch add up to at most 1, and the farm implements `StakeVault` |
| `farm_retroactive` | as `farm_owner`, the rate drops to 0 | **violation**, section 6 |
| `simple` | 1 user, rates 0-2, 3 ticks, range moved, both exits | the loop equals the tick-by-tick tape across changes of rate, nothing is paid twice, the emergency exit always has its stake |
| `grab_faults` | 2 blocks, 3 grabbers, 3 runs at once, 2 faults, 1 restart, wipe or not | one handler at a time, a saved block was handed to the parser, the database settles in chain order |
| `grab_lag` | 2 grabbers, 1 fault, 1 answer behind the chain, fairness | the polling is brought back and every block arrives, whatever hangs or throws |
| `contracts` | token: 2 callers and a holder, supply 3; wallet: 2 signers and one more, 2 proposals of any kind, 2 votes on each, 2 days; AMM: two markets with one asset in common, deposits of 17, fees on and off | coins are conserved, who can overdraw whom; what passed is paid once and what cannot be paid stays open, and what passes has its share of the signers; shares are not diluted, the fee is within a sixth of the growth, a coin is claimed once |
| `index` | 4 transactions of 7 kinds on an old and a new market, by a user and a contract, 1 replay or restart | tables, history and clients settle on the chain's state |
| `staking` | 2 users and clients, both kinds of contract, 2 events with the queue 1 behind, 2 jobs at once | rows follow the contract unless a job wrote older ones back; yields settle; what can cut a job short |
| `wallet` | 2 operations at once of any kind, allowances 0 or 1, keystore or extension, 1 fault; with both, one operation of any kind or two sales and removals of the pages | success and error are what the chain did, an operation is short of an allowance only when overtaken, every dialog is answered or was silenced by a named fault (liveness) |
| `client` | 2 markets, 2 accounts; forms alone, session alone, both; 3, 4 or 1 + 2 actions of the user, 3 questions open, 1 failure, 2 pages, the first the swap page or one that sends the user on | the page settles on the token chosen and that token's market, what the button sends can be met, balances and tokens are the account's |
| `live` | five scenes of one page with 2 markets (rows; trades; a market chosen again; a break; the chat over 3 days, with an account of the extension or of a keystore), histories of 1 trade and 2 messages, and apart from them the two timers' rounds: 4 trades over 3 hours, 2 transfers | trades are shown once, rows settle on the API's, the chat lists each message once and in order, a sign-on of the extension's account gets its token, tokens end; summaries reach every market they can, supplies are what is held |

Deadlock is checked except where the system stops by its bounds: `index` and
`staking` (the chain ends after `MaxTxs`, `MaxEvents`), `contracts` (after the
last proposal and day), `wallet`, `client` and `live` (after the user's last action).

**Bounds.**  Two users are the least that share a stake; two deposits of one
user, an epoch between them and one after them need the three epochs of the
farm.  The farm's range begins after and ends before the clock's, so that all
cases of `fitTimeToRange` occur.  Three grabbers are the least at which a grabber
that was given up wakes between two others; two blocks are the least that can
change places; a batch of two has a first and a last block.  The AMM's deposit
of 17 with a swap of 15 is the smallest at which `mint_fee` is above 0 after
rounding; the user starts with coins for one market or some for both.  In `index`
four transactions reach submit, create, trade and one more on the same market; a
replay starts at any of them, a restart happens between any two steps.  In
`staking` two events and two jobs are the least at which a job reads a row
before an event and saves it after, and a second job settles or spoils the
yield; the tables start empty or with a stake of everybody.  Two operations share
a dialog, an allowance or a uid; more of them only repeat that.  In `client`
three actions reach a choice, an amount and a confirmation while an answer is
due; one failure stands for the explorer or the API; the tolerances are the
least a user sets and the highest the page takes, and 70 of the 80 an account holds
is a swap whose impact only the latter covers.  Two proposals may be about
the same address, and two votes may be the same signer's.  Bounds appear as
guards, and their names begin with `Max` (`Budgets` in `Client` and `Live`).  In `live`
the scenes share a connection but not their actions: what one scene does is not
read by another, except that all end together when the connection breaks, so each
has a break or none as its properties call for.  Two trades, or two messages, are
the least that can change places, and a history of one trade, or of two of the
three messages, leaves some out; a round of summaries needs a market whose
trades are too new between two rounds and one behind it.

**Conditions in properties.** Some properties hold only where the code promises
them, and say so. `SettlesInChainOrder` is about blocks from `StartBlock` on that
were neither dropped nor skipped, and about an environment (`Replayed`) in which the
masternode is never behind and every restart wipes or reloads; the tables settle for markets on which users trade (a trade
by a contract throws at `pair.entity.ts:79`). The staking and client modules
keep ghost variables for the cases that section 6 lists: a row written over by a
job (`lost`), a client passed over (`late`), a press silenced by a fault
(`hushed`) or sharing a uid (`crossed`), a token chosen while another's answer
was due (`contested`), an account or a token that came in past the log-in (`moved`), a
token chosen again while its trades are listened to (`again`), trades and
messages told on one side of the reading of a history and inserted on the other,
or too old for the fifty it takes (`blurred`, `mixed`), and what a broken connection lost (`cut`, `missed`,
`unheard`). A property excepts these and nothing else, and each slip breaks it
outside of them.

## 4. Fairness

`grab_lag` assumes weak fairness of timers that are due, of the continuation
after each answered await, of saves and queued actions, and of the watchdog's
`setInterval`.  That is what the event loop gives: a callback that is ready is
run.  Nothing is assumed of requests that hang (`slow`), of faults, of the chain
or of a lagging masternode; that polling goes on is due to the watchdog, and its
slip `Watchdog_onlyWarns` breaks it.  Answers behind the chain and faults are
finite in number by their bounds.

`wallet` assumes weak fairness of each operation's next promise (`Step`) and of
its transactions on their way (`Travel`): promises settle, the chain executes
what it is given and the proxy answers.  It assumes nothing of the user or of the
faults; a fault that swallows an answer marks the press as silenced.

The other runs check safety, or what holds once everything that was due has
happened.

## 5. Proofs

All theorems hold for every value of the constants that satisfies the modules'
named assumptions: finite sets of accounts and markets, `None` no account, users that are not the
contract, a deployer among the admins, divisors above 0, bounds in `Nat`.
Arguments of calls are integers of any size and sign.  The index takes `Rswp` for one of
the tokens and `None` for no number and no row (`IndexAssumption`); the market caps take
finitely many wallets, of which the developer, the staking contracts and the holders are
different ones, a supply and a length of a day in `Nat`, prices above 0, which
`calculateMetrics` takes for none, and `Unset` for no
balance and no summary (`MetricsAssumption`).  The gateway's histories are of any
length above 0 (50 in the code).  The farms' range does not
start after its end (`Start0 <= End0`), which is the one assumption about a value
that `seed` does not assert; the tapes need it, since hours are counted from
where the clock enters the range.

| Property of a run | Theorem | Inductive invariant |
|---|---|---|
| `StakeAccounted`, `SharesWithinEpoch`, `KeepsStakes` (farm) | `YieldFarmProofs`: `StakeIsAccounted`, `SharesFit`, `KeepsTheStakes` | `IInv` |
| `WithinEmission`, `ExitFunded` | `StaysWithinEmission`, `ExitsAreFunded` | `QuietInv`, `EmissionInv` |
| `AccruedAsEarned` (farm) | `AccruesAsEarned` | `TapeInv` |
| `StakeReturnable`, `AccruedAsEarned`, `PaidWithinPromise` (simple) | `SimpleStakingProofs`: `StakeIsReturnable`, `AccruesAsEarned`, `PaysWithinPromise` | `IInv`, `TapeInv` |
| `OverdrawnOnlyByBoth`, `SupplyConserved` | `ContractsProofs`: `WhoOverdraws`, `SupplyIsConserved` | `TypeOK`; the sum itself |
| `PaidOrOpen`, `ApprovedByShare` | `TransfersArePaidOnce`, `SharesAreReal` | `WalletIInv` |
| `ReservesCovered`, `FeeWithinGrowth`, `SharesNotDiluted` | `ReservesAreThere`, `FeeStaysWithinGrowth`, `SharesKeepTheirWorth` | `DexIInv` |
| `OneAtATime`, `SavedIsHanded`, `SettlesInChainOrder` | `BlockGrabberProofs`: `ActionsTakeTurns`, `SavesWhatIsHanded`, `DatabaseSettles` | `IInv`, `OrderInv` |
| `RowsAsChain`, `CutOnlyByFlightOrEpoch`, `YieldsSettle` | `IndexProofs`: `RowsAreAsChain`, `CutsOnlyByFlightOrEpoch`, `YieldsSettleAtRest` | `IInv`, `YieldInv` |
| `MarketsSettle`, `ClientsSettle`, `TradesKept` | `MarketsSettleAtRest`, `ClientsAreTold`, `TradesAreKept` | `MarketInv` |
| `AnswerIsReal`, `ShortOnlyIfOvertaken` | `ClientProofs`: `AnswersAreReal`, `ShortMeansOvertaken` | `IInv` |
| `SessionOfUser` | `SessionIsOfUser` | `SessionInv` |
| `SelectionStands`, `QuoteOfItsToken`, `QuoteFits` | `ChoiceStands`, `QuotesItsToken`, `QuotesFit` | `FormInv`, `AmountsTyped` |
| `RowsSettle`, `TradesShownOnce`, `SignOnAnswered`, `SpeaksWithin` | `LiveProofs`: `RowsAreSettled`, `TradesAreShownOnce`, `SignOnsAreAnswered`, `TokensEndInTime` | `IInv` |
| `ListedOnceInOrder` | `MessagesAreListed` | `IInv`, `ListInv` |
| `CirculatingIsHeld` | `CirculatingIsWhatIsHeld` | `CapsInv` |
| `SummariesReach` | `SummariesReachMarkets` | `VolumesInv` |

`PROJECT.json` lists the type theorems and the others as well.

**Yield farm.**

    IInv     == TypeOK /\ StakeAccounted /\ SharesWithinEpoch /\ VaultCoversStake
    QuietInv == IInv /\ SettingsOfSeed /\ WithdrawnWithinAccrued
    TapeInv  == IInv /\ SettingsOfSeed /\ AccruedAsEarned

No part of `IInv` is inductive alone.  That `StakedBalance` stays a natural
number after an exit needs `StakeAccounted` (it is a sum of which the exit takes
one term); that the contract can pay the exit needs `VaultCoversStake`; that yields
have no divisor 0 and are numbers at all needs `SharesWithinEpoch`, and an entry
keeps the latter because the new epoch records the total that `StakeAccounted`
ties to the deposits.  The claims about yield have hypotheses on the constants, which
say what the owner may do: `SettingsLeftAlone` (setters only with the values
of `seed`), `PoolLeftAlone` (no `recoverYieldToken`) and `PoolFunded` (the pool was
given rate times range).  `farm_retroactive` shows that the first is needed, and
`farm_quiet` is an instance that meets all three.  `EmissionInv` says that what
was paid and the sum of what is owed is at most the emission so far; a step of
the clock adds at most one hour's emission to that sum because the shares of
the current epoch add up to at most 1 (`SharesWithinEpoch`), entry by entry
with rounding down.  For the tape, the clock adds to each deposit's loop exactly the hour
the tape adds, since only the last epoch's end moves.

**Simple staking.**  `IInv == TypeOK /\ StakeAccounted /\ VaultHolds`, with the
farm's argument.  The rate is kept in each epoch, so its tape needs no hypothesis
on the owner's rates: `TapeInv` ties the current rate to the last epoch
(`CurrentRate`) and, as long as the range was left alone, accrued to earned,
withdrawn to accrued, and paid plus owed to promised.

**Sums.**  The accounting rests on `TallyTheorems!TotalUpdate`: changing one entry
changes the total by the difference.  `Total` is the number of coins, a
cardinality, so that the library's facts about finite sets apply.  Sums over
deposit lists and epochs (`SumRange`) get their recursion and bounds in the same
module, by an induction principle for sets of numbers that is proved there from the
well-foundedness of `<`.  Balances may be negative: `Net` is the difference of
the totals of what is above and below 0, and `MapThenSumSet`, which the
properties use, is shown to equal it by the uniqueness of the solution of its
recursion.

**Token.**  Each call of a transfer moves an amount between two entries, which
`Net` does not see, also when the two are one.

**Wallet of several signers.**

    WalletIInv == WalletTyped /\ Finished /\ Counted /\ Settled /\ ApprovedByShare

`Settled` is the account: the wallet's coins are its funds less the `Net` of the
passed transfers; a passing transfer adds its term because `Finished` says that it
was not among them.  `Counted` is what makes a share of `number_of_sig` a
share of the signers.  The proof found a corner in which the first coding of the ghost
`passed` was wrong (no signers left and 0 % required: a recorded "0 of 0" looked
like no record), and the ghost got a field of its own for that.

**First AMM.**  `DexIInv == DexTypeOK /\ Created /\ ReservesCovered /\ SupplyIsHeld`.
A market's reserve is within what the contract recorded of the asset, since the
reserves of all markets with it add up to that (`ReservesCovered`); so a swap or a
removal leaves natural numbers.  `SupplyIsHeld` makes a burn of an account's shares
leave a natural supply.  `FeeFacts` and `SharesKeepTheirWorth` are arithmetic: the square
root is between its square and the next, the fee is at most a sixth of the
growth, and each quotient is cut off on the side of those who stay.

**Block grabber and queue.**  `IInv == GrabInv /\ QueueInv /\ SavedIsHanded`, for any
number of grabbers and runs at once.  `QueueInv` says that the flag is up exactly
when an action is outstanding, and one at most executes; a batch goes to the
queue in the step in which its save begins, and actions leave the queue only as
applied or dropped.

    OrderInv == ... /\ Distinct /\ (lags = 0 => Loops) /\ (Replayed => Ordered)

is for `SettlesInChainOrder`.  `Ordered` says of every block from `StartBlock` on
that it is `Fresh` (the last time it was handed over no earlier block followed,
among what was applied and what waits), or `Near` (a timer or a run will come to
it again), or known to be missing, or that nothing was begun at all.  A block
that is handed over spoils the order of the later ones only, and to those the
grabber that did so is `Near`: by its run within the batch and by its timer after
it.  That needs `Loops`, one timer or one run for each grabber and a batch that
ends where its grabber's batch does, which an answer behind the chain would break.
`TurnKeeps` says once what a grabber's turn leaves to the others, and each action
is an instance of it.

**Staking index.**  `IInv == Types /\ CopyIsFresh /\ RowsFollow /\ FalseIsFlight`.
`RowsFollow` is a simulation: for each user whose row no job spoiled there is a
history of deposits and withdrawals, one entry per event that waits, from the
row to the contract's state.  An event of the chain extends it at the end,
the handler's save takes its first step off; that needs `CopyIsFresh`, that the copy
the handler writes is the row's.  `FalseIsFlight` traces the `False` of an
emergency return through events, rows and copies.

    YieldInv == EpochsInOrder /\ TimersFollow /\ RowsDated /\ Distinct /\ YieldsFollow

is for `YieldsSettle`, beside `IInv`.  A client is `Pending` while its row is not
settled or a job is about to write an unsettled copy over the row it has read.  `YieldsFollow`
says that a pending client which no job has passed over is `Covered`: by an event that waits, since
every event sets a timer when it is saved (`TimersFollow`), by a timer, or by a job
that knows the latest epoch and has the client before it, works it out, or writes
it.  That the job's epoch stays the latest needs `EpochsInOrder`: an epoch is recorded, or
announced by an event, before it counts.  `RowsDated` ties what a job writes to what it has
read.  A client that leaves moves the others up in the list, which is where a job passes
one over; `Distinct` keeps this from happening twice to one.

**Market index.**

    MarketInv == ChainTypes /\ JobTypes /\ TableTypes
              /\ MarketsMade /\ LastIsKept /\ TradesMove
              /\ QueueFollows /\ RowsFirst /\ Progress
              /\ AccountsFollow /\ MarketsFollow /\ MarketsFill
              /\ TradesFollow /\ QueueInOrder /\ TradesOnce /\ ReservesInOrder

for any tokens, accounts, transactions, replays and restarts.  `AccountsFollow`
and `MarketsFollow` are a simulation column by column: a column is empty, or has what the
chain has, or a transaction that sets it is still to be handed over or waits in the
queue; for a market's clients likewise.  A handler that writes the column ends its
transaction's claim.  What it wrote is what the chain has unless a later transaction
sets the column too (`LastIsKept`), and that one is behind it in the queue, also
where transactions were given again (`QueueFollows`: behind each queued action
there is, for every later transaction, one to come).  The handlers find their
rows because the submission of a token and the making of a market
come before all else about them (`RowsFirst`, `MarketsMade`); `Progress` is
what `processAmmBlock` has done with the transaction at hand.  `MarketsFill` and
`TradesFollow` are the same idea for whole rows and for the history.  The amount of
a trade is worked out from the reserve in the table, so it is right only where
nothing was given again (`GivenOnce`): then the queue has the chain's order, the
table has the reserve of the last transaction saved (`ReservesInOrder`), and that is the one
the trade followed on the chain (`TradesMove`).  `TradesOnce` keeps a second row of a
transaction out.

**Transactions.**

    IInv == Typed /\ Marks /\ Staged /\ Single /\ ToldTrue /\ Covered /\ Overtaken

Each action is first reduced to a summary of what it does to one operation, to
the transactions and to the allowances; the conjuncts are then kept by
every step that fits a summary.  `Single` (one transaction per operation, unless both
wallets are there) makes an error final; with both, `ToldTrue` keeps that an error
was told because one of the two was refused.  `Covered` says that an allowance which was
seen is there or spent by an operation that ran, which is `Overtaken` once a
transaction is found short.

**Session and pages.**  `SessionInv` gives each answer on its way an owner: unless
another account came in past the log-in (`moved`), the feeds that are joined and
the keystore that is open are the connected account's, and balances and token
are of an account whose feeds are joined.

    FormInv == FormTyped /\ ChoiceHolds /\ QuoteComes

`ChoiceHolds` says that the page at hand is about the token that was chosen and so
is every question it has out; that is what the answers preserve in any order,
since a page asks again only for the token it was told.  A page that was left may
still send the user on: to a page that comes up empty, or, where the page at
hand is of that kind, to another address of it (`SavedReaddresses`).  `QuoteComes` is
`QuoteOfItsToken` with the questions: the page quotes from its token's market or has
asked.  `QuotesFit` is arithmetic (`MinimumFits`).  Let the reserves be `F` and `T`,
and `N` be `F` with what is paid.  The market pays `T/N` for each unit; the price is
`T/F` before and `FT/NN` after, so an impact within the tolerance `t` means
`NN <= (1 + t) FF`.  With `(1 - t)(1 + t) <= 1` that gives `(1 - t) NN <= FF <= FN`,
so the price less the tolerance, `(1 - t) T/F`, is at most `T/N`.  Each rounding on the
way is carried along (`Rounded`), and their sum is what `QuoteFits` allows.  It
needs a tolerance of at most 49, which the page enforces, `One` of at least 100, and
reserves above 0 (`FormAssumption`, `QuoteAssumption`).

**Connection, rows, trades and chat.**

    IInv == Carried /\ RowsInv /\ TradesInv /\ ChatInv

for any number of markets, trades, messages, days and broken connections.  The
idea of each part is that what is on its way makes up the difference between
the two ends.  `RowsInv`: the last word about a row that is under way is the
table's, and where none is, the page has it.  `TradesInv`: until the gateway has
read a joined market's history, exactly the trades told early follow; after
that, exactly those the history lacks (`Once`).  Trades are numbered, and come and
are listed in that order, so what follows is listed once.  `ChatInv`: secrets
of the first connection are its id; a page of the extension's account that is
logged in has its token or it comes; every token ends within its lifetime of the last sign-on, refresh tokens
earlier than the access tokens they can still make.  The parts share a queue, so
a step of one moves the others' events by a place at most (`Moved`), which is
shown once (`RowsStand`, `TradesStand`, `ChatStands`) and cited by every action
of the others.

**Messages.**

    ListInv == ListTypes /\ AskedOnce /\ MessagesComing /\ HistoryComing /\ HistoryThere

says of every message where it is.  Before the history is read nothing is claimed.  The
history is asked for once, by the first connection and ahead of all else it asks
for (`AskedOnce`), so one history comes at most, and to a page that waits for
it.  While it is on its way (`HistoryComing`), what is listed and what comes ahead of
it is around the reading, what comes behind it is newer than all it has, and every other
message is in it or comes behind it.  Once it is there (`HistoryThere`), what
is listed is in order and older than what comes, and no message is in neither of
them except those around the reading and those told while the page was not
connected, and those too old for the history.  That the history has the latest of the
inserted messages, the older ones first, is
`AscendingFacts`: finitely many numbers can be put in order, and a list of as many
different ones has them all.

**Market caps.**  `CapsInv == BalancesTyped /\ TransferRows /\ Conserved /\ RoundTyped /\ RoundStands`.
The handler of a transfer writes two rows, one at a time, and a round may read in
between.  `Conserved`: the wallets hold the whole supply of a token except the unit of a
transfer whose second row is not written.  `RoundStands`: as long as no balance changed during the round,
what it has read is what the table has, and what it wrote is the `Net` of the other
wallets: the supply less what the developer and, for the AMM's token, the staking
contracts hold is what the others hold.

**Summaries.**  `VolumesInv == VolumesTyped /\ SummariesFollow`.  The markets a round
has yet to come to are the end of their list, and those it has passed have this hour's
summary, its last price between its extremes; a round that ended early did so
at a market without a trade older than a day, and that market has none now, since a
trade that is added is of this hour.  The rest is about the values: finitely many prices have a
highest, a lowest and a latest one (`HighestExists`, `ExtremesOf`, `LatestOf`), so that a
summary exists wherever the round comes to one.

**Only model-checked.**  Liveness (`EveryBlockArrives`, `Answered`) and everything
with `ENABLED` is out of the prover's reach.  `WithdrawnWithinAccrued` without its
hypothesis is false, and `farm_retroactive` finds it so.  All other properties of
the runs have a theorem.

## 6. Findings

`farm_retroactive`: `calculateYield` prices all past epochs at today's
`EmissionRatePerHour`.  When the owner lowers it, what the deposits earned falls
below what was withdrawn; the comment at `con_staking.py:151` says "this should
never be negative".

Other things the code does that a reader may not expect.  The models have them,
and the properties except them by name.

*First AMM.*  `mint_fee` returns a pair, and its callers test the pair for truth,
so `kLast` is set with fees off as well (`dex_pairs.py:273`, 303), although line
158 resets it: growth from before is charged when fees are switched on.

*Wallet of several signers.*  A signer who votes twice is in the list of voters
twice and counts twice; a vote may precede its proposal; only the first voter is
certain to be stored, since later ones are appended to a list that the Hash
returned (`CacheDropped`).  Two proposals about one address move
`number_of_sig` twice; at zero no result can be determined, nor can that of a
proposal nobody voted on.

*Market index.*  `saveTokenUpdate` hands an async function to `forEach`
(`token.entity.ts:136`) and returns before anything is saved; the queue, there
to prevent such a race (`parser.provider.ts:153`), goes on, and an older symbol may
be saved last.

*Staking index.*  A job that read a user's row before a deposit writes the old
deposits back.  After `emergencyReturnStake` the row holds `False` for deposits,
and that user's error ends the loop for everybody behind.  `leave_room` splices
the list the loop goes through.  `afterInit` and `updateEpochIndex` of
`socket.service.ts` are never called, so no cached yield is ever taken.

*Transactions.*  With a keystore and the extension both there, each operation is
sent twice.  A locked keystore keeps the extension from sending.  Nobody is told
when an approval's stamps are short, a nonce is refused or the explorer is down.  A success
that comes after the user closed a panel's dialog opens it again.

*Session.*  An account switched in the extension joins its feeds without leaving
those of the one before.  An answer to a sign-on that comes after the log-out takes
over the token of the account the extension is set to, approved or not, and the
account that logs in next keeps it.  `handleAuthResponse`
looks at the extension's account, so users of a keystore sign on again for every
message.  A sign-on handled before the queued `setName` gets a token for nobody.

*Pages.*  A choice made while another token's answer is due can be undone by that
answer, and two such answers can take turns for ever; the timer of `resetPage`
brings the old token back two seconds later; the pool pages reset to the token
of their address.  A page that was left takes the trade feed on a late answer.
While the market of a new token is under way, amounts are worked out from the
old one's reserves, and stay so if the request fails.  With fees paid in RSWP
the minimum ignores the fee although `token_fees: false` is sent.  Prices are
rounded to the last decimal, so where a token costs a few units of it the minimum
may exceed what the market pays by more than the tolerance covers: the button is
enabled and the swap fails (`QuoteFits` counts it: three units of the price's last
decimal for each unit paid).  Where the price after a swap rounds to nothing and the
one before does too, the impact is `NaN`, which no tolerance stops.

*Connection, feeds and chat.*  A page that shows the same token's trades again
listens twice and shows each of them twice.  A connection made again joins no
room.  The gateway emits to everybody, whatever they joined, and the page listens
still, so it is told what comes later; but what was told during the break is
lost, and so are the answers to joins that were under way.  The secret of a sign-on
is still the id of the connection before: its token is sent to nobody.  A sign-on before
that id has come is not answered either.  With a keystore the answer comes, but the
page takes no token over, although its box is open (see *Session*).  Messages that come ahead of the history
are listed above it, and those told before they are inserted can be missing or
twice.  `ws.service.ts:105` announces changes of staking contracts on
`staking_panel_update`, an event the gateway never sends.

*Block grabber.*  After an answer with an older block, `wipeDB` and
`checkForBlocks` both arm a timer (`blockgrabber.ts:275`) and the grabber polls in two
loops that share `currBatchMax`, so a batch of old blocks may be handed over after newer
ones and stay so.  The same comes of a restart without `RE_LOAD_API` and `WIPE`
after a grabber that was given up has handed old blocks over again: the new process
goes on from the highest block saved.

*Timers.*  A market with no trade older than a day throws in `updateDailyVolumes`,
so the markets behind it get no new summary until it has one.  The supplies
are not worked out before the AMM's settings are known, nor as long as a staking
contract has no balance.

## 7. Not modelled

* The registry, which nothing reads; of the AMM's settings all but the token, which
  are only served; market values, a supply times a price.
* REST reads, except the answers the forms wait for; helpers that parse keys and
  format values; what the pages display (fee in RSWP, charts, search, toasts).
* `updateROI` and the yields' values in the API: `user-staking.entity.ts` repeats
  the contracts' loop in floating point; the contracts' own loops are in
  `YieldFarm` and `SimpleStaking`.
* In `TradeForm`, what is left of inputs that are gone: when the two change sides,
  or the page is left, `input-currency.svelte` and `input-token.svelte` keep their
  subscriptions, which may set `txOkay` once more from the amount they had last.
  No property depends on `txOkay` being right.
* In `BlockGrabber`, the Subblocks collections and the order of transactions
  within a block; in `DexPairs`, `add_liquidity` of `dex.py`, which calls a
  function it does not define; in `Multisig`, votes on finished proposals, which
  nothing reads.
* The proxy's routes, the website, third-party sources, and the closed AMM
  contract the client and the API are configured for, whose source is not in the
  repository: `MarketIndex` models its calls from the state changes that the
  handlers read, and `Quotes` has what it pays from the client's formula.

## 8. What is left to prove

`Metrics` and `Live` are checked in one run but proved apart; the prices a round of
summaries reads are those of `Feeds` only by the trade history that
`MarketIndex` keeps (`TradesKept`).
