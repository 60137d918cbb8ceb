---------------------------- MODULE BlockGrabber ----------------------------
(***************************************************************************)
(* From the masternode to the API's database: blockgrabber.ts polls for    *)
(* the latest block, fetches the missing ones in batches, hands them to    *)
(* the parser and saves them; a watchdog in parser.provider.ts starts a    *)
(* second grabber when the first has been silent for two minutes.          *)
(*                                                                         *)
(* A grabber is one call of databaseLoader: its local variables, and any   *)
(* number of loops, each an armed timer or a run of checkForBlocks.  A     *)
(* grabber that was given up is never stopped.  One step is what happens   *)
(* between two awaits.  A block stands for the actions parseBlock queues   *)
(* for its transactions: they are queued in one go, before anything else   *)
(* of the program runs.  Blocks have the same content wherever they come   *)
(* from.  Time is left out: a timer may fire once armed, a request that    *)
(* takes longer than the watchdog waits is Slow.                           *)
(***************************************************************************)
EXTENDS ActionQueue, FiniteSets, FiniteSetsExt

CONSTANTS
  MaxHeight,     \* bound on the chain
  BatchAmount,   \* batchAmount
  StartBlock,    \* where a wiped grabber begins (process.env.currBlockNum or 7000)
  Height0,       \* the chain when the API starts for the first time
  MaxGrabbers,   \* bound on the grabbers of one process
  MaxRuns,       \* bound on runs of checkForBlocks at once
  MaxFaults,     \* bound on failures: requests, connections, actions
  MaxLags,       \* bound on answers behind the chain
  MaxCrashes,    \* bound on restarts of the process
  WipeChoices,   \* process.env.WIPE === "yes"
  ReloadChoices  \* process.env.RE_LOAD_API === "yes"

ASSUME BoundsAssumption ==
  /\ {MaxHeight, StartBlock, Height0, MaxFaults, MaxLags, MaxCrashes} \subseteq Nat
  /\ {BatchAmount, MaxGrabbers, MaxRuns} \subseteq Nat \ {0}
  /\ Height0 <= MaxHeight
  /\ WipeChoices \subseteq BOOLEAN /\ ReloadChoices \subseteq BOOLEAN

VARIABLES
  height,         \* the masternode's latest block
  Blocks,         \* block numbers in the Blocks collection
  saves,          \* block.save() calls under way
  wipeOnStartup, reloadAPI,
  grabbers,       \* databaseLoader calls, oldest first
  runs,           \* runs of checkForBlocks that await something
  skipped,        \* blocks passed over the last time it was their turn
  faults, lags, crashes

grabVars == <<height, Blocks, saves, wipeOnStartup, reloadAPI, grabbers, runs,
              skipped, faults, lags, crashes>>
vars == <<grabVars, queueVars>>

Numbers == 0 .. MaxHeight

\* startBlockgrabber, until the connection is there.
NewGrabber(bypass) ==
  [bypass_wipe |-> bypass, connected |-> FALSE, currBlockNum |-> 1,
   currBatchMax |-> 0, timers |-> 0]

Init ==
  /\ height = Height0
  /\ Blocks = {}
  /\ saves = {}
  /\ wipeOnStartup \in WipeChoices
  /\ reloadAPI \in ReloadChoices
  /\ grabbers = <<NewGrabber(FALSE)>>
  /\ runs = <<>>
  /\ skipped = {}
  /\ faults = 0 /\ lags = 0 /\ crashes = 0
  /\ QueueInit

Fault == faults < MaxFaults /\ faults' = faults + 1

\* The chain grows.
Grow ==
  /\ height < MaxHeight
  /\ height' = height + 1
  /\ UNCHANGED <<Blocks, saves, wipeOnStartup, reloadAPI, grabbers, runs,
                 skipped, faults, lags, crashes, queueVars>>

Highest(S) == IF S = {} THEN 0 ELSE Max(S)

\* The grabber with one more timer armed.
Armed(g) == [g EXCEPT !.timers = @ + 1]

\* Slip: the block after the highest one saved is passed over.
Connect_oneTooFar(i) ==
  /\ ~grabbers[i].connected
  /\ grabbers' = [grabbers EXCEPT
       ![i] = Armed([@ EXCEPT !.connected = TRUE, !.currBlockNum = Highest(Blocks) + 1])]
  /\ UNCHANGED <<height, Blocks, saves, wipeOnStartup, reloadAPI, runs,
                 skipped, faults, lags, crashes, queueVars>>

\* models.Blocks.findOne().sort(...), and the first timer.
Connect(i) ==
  /\ ~grabbers[i].connected
  /\ grabbers' = [grabbers EXCEPT
       ![i] = Armed([@ EXCEPT !.connected = TRUE, !.currBlockNum = Highest(Blocks)])]
  /\ UNCHANGED <<height, Blocks, saves, wipeOnStartup, reloadAPI, runs,
                 skipped, faults, lags, crashes, queueVars>>

\* db.connect reports an error: the grabber is never heard of again.
ConnectFails(i) ==
  /\ ~grabbers[i].connected
  /\ Fault
  /\ grabbers' = [grabbers EXCEPT ![i].connected = TRUE]
  /\ UNCHANGED <<height, Blocks, saves, wipeOnStartup, reloadAPI, runs,
                 skipped, lags, crashes, queueVars>>

\* A run of checkForBlocks: what it awaits, for which grabber, the block its
\* batch starts after, and the outcomes of the fetches so far.
NewRun(i) == [of |-> i, at |-> "latest", slow |-> FALSE, after |-> 0, fetched |-> <<>>]

Grabber(r) == grabbers[runs[r].of]

\* A timer fires: checkForBlocks up to its first await.
FireTimer(i) ==
  /\ grabbers[i].timers > 0
  /\ Len(runs) < MaxRuns
  /\ grabbers' = [grabbers EXCEPT ![i].timers = @ - 1]
  /\ runs' = Append(runs, NewRun(i))
  /\ UNCHANGED <<height, Blocks, saves, wipeOnStartup, reloadAPI,
                 skipped, faults, lags, crashes, queueVars>>

\* The run is over; its grabber becomes g.
EndRun(r, g) ==
  /\ runs' = RemoveAt(runs, r)
  /\ grabbers' = [grabbers EXCEPT ![runs[r].of] = g]

\* Could not contact the masternode: again in ten seconds.
LatestFails(r) ==
  /\ runs[r].at = "latest"
  /\ Fault
  /\ EndRun(r, Armed(Grabber(r)))
  /\ UNCHANGED <<height, Blocks, saves, wipeOnStartup, reloadAPI,
                 skipped, lags, crashes, queueVars>>

MayWipe(g) == ~g.bypass_wipe

\* A batch ends at the latest block at most.
BatchEnd(g, n) == Min({g.currBlockNum + BatchAmount, n})

\* The masternode answers n, which may be behind the chain: the branches of
\* checkForBlocks, up to their next await.
LatestIs(r, n) ==
  LET g == Grabber(r) IN
  \/ /\ n < g.currBlockNum \/ (MayWipe(g) /\ (wipeOnStartup \/ reloadAPI))
     /\ runs' = [runs EXCEPT ![r].at = "wiping"]
     /\ UNCHANGED grabbers
  \/ /\ n = g.currBlockNum
     /\ ~(MayWipe(g) /\ (wipeOnStartup \/ reloadAPI))
     /\ EndRun(r, Armed(g))
  \/ /\ n > g.currBlockNum
     /\ ~(MayWipe(g) /\ (wipeOnStartup \/ reloadAPI))
     /\ runs' = [runs EXCEPT ![r].at = "fetching", ![r].slow = FALSE,
                                ![r].after = g.currBlockNum]
     /\ grabbers' = [grabbers EXCEPT ![runs[r].of].currBatchMax =
                       BatchEnd(g, n)]

Latest(r) ==
  /\ runs[r].at = "latest"
  /\ \/ LatestIs(r, height) /\ UNCHANGED lags
     \/ /\ lags < MaxLags
        /\ \E n \in 0 .. height - 1 : LatestIs(r, n)
        /\ lags' = lags + 1
  /\ UNCHANGED <<height, Blocks, saves, wipeOnStartup, reloadAPI,
                 skipped, faults, crashes, queueVars>>

\* wipeDB, its first await: the Blocks collection is emptied only when asked.
WipeBlocks(r) ==
  /\ runs[r].at = "wiping"
  /\ Blocks' = IF wipeOnStartup \/ ~MayWipe(Grabber(r)) THEN {} ELSE Blocks
  /\ runs' = [runs EXCEPT ![r].at = "wiped"]
  /\ UNCHANGED <<height, saves, wipeOnStartup, reloadAPI, grabbers,
                 skipped, faults, lags, crashes, queueVars>>

\* The rest of wipeDB, and of its caller: a forced wipe arms two timers.
WipeRest(r) ==
  LET restarted == Armed([Grabber(r) EXCEPT !.currBlockNum = StartBlock]) IN
  /\ runs[r].at = "wiped"
  /\ IF MayWipe(Grabber(r))
       THEN /\ EndRun(r, restarted)
            /\ wipeOnStartup' = FALSE
            /\ reloadAPI' = FALSE
       ELSE /\ EndRun(r, Armed(restarted))
            /\ UNCHANGED <<wipeOnStartup, reloadAPI>>
  /\ UNCHANGED <<height, Blocks, saves, skipped, faults, lags, crashes, queueVars>>

NextToFetch(r) == runs[r].after + Len(runs[r].fetched) + 1
AllRequested(r) == NextToFetch(r) > Grabber(r).currBatchMax

\* One turn of the loop over the batch: the block comes from the collection,
\* or it is requested; the answer, an error, or nothing for a long time.
FetchBlock(r) ==
  /\ runs[r].at = "fetching"
  /\ ~AllRequested(r)
  /\ \/ /\ runs' = [runs EXCEPT ![r].fetched = Append(@, "block")]
        /\ UNCHANGED faults
     \/ /\ NextToFetch(r) \notin Blocks
        /\ Fault
        /\ \E outcome \in {"error", "slow"} :
             runs' = [runs EXCEPT ![r].fetched = Append(@, outcome)]
  /\ UNCHANGED <<height, Blocks, saves, wipeOnStartup, reloadAPI, grabbers,
                 skipped, lags, crashes, queueVars>>

WaitsForBlock(r) == "slow" \in Range(runs[r].fetched)

\* await Promise.all(to_fetch)
Fetched(r) ==
  /\ runs[r].at = "fetching"
  /\ AllRequested(r)
  /\ ~WaitsForBlock(r)
  /\ IF runs[r].fetched = <<>>
       THEN EndRun(r, Grabber(r))
       ELSE runs' = [runs EXCEPT ![r].at = "processing"] /\ UNCHANGED grabbers
  /\ UNCHANGED <<height, Blocks, saves, wipeOnStartup, reloadAPI,
                 skipped, faults, lags, crashes, queueVars>>

\* A request takes longer than the watchdog waits, and may be answered yet.
LatestSlow(r) ==
  /\ runs[r].at = "latest" /\ ~runs[r].slow
  /\ Fault
  /\ runs' = [runs EXCEPT ![r].slow = TRUE]
  /\ UNCHANGED <<height, Blocks, saves, wipeOnStartup, reloadAPI, grabbers,
                 skipped, lags, crashes, queueVars>>

BlockAtLast(r) ==
  /\ \E k \in DOMAIN runs[r].fetched, outcome \in {"block", "error"} :
       /\ runs[r].fetched[k] = "slow"
       /\ runs' = [runs EXCEPT ![r].fetched[k] = outcome]
  /\ UNCHANGED <<height, Blocks, saves, wipeOnStartup, reloadAPI, grabbers,
                 skipped, faults, lags, crashes, queueVars>>

\* The grabber and the run after block b of the batch is done with.
NextInBatch(r, g) ==
  IF Len(runs[r].fetched) = 1
    THEN EndRun(r, g)
    ELSE /\ runs' = [runs EXCEPT ![r].fetched = Tail(@), ![r].after = @ + 1]
         /\ grabbers' = [grabbers EXCEPT ![runs[r].of] = g]

\* processBlock after its findOne: the transactions go to the parser, the
\* save is not awaited, and the last block of the batch rearms the timer.
HandOver(r) ==
  LET b == runs[r].after + 1
      g == Grabber(r)
  IN  /\ addToActionQue(b)
      /\ saves' = saves \union {b}
      /\ NextInBatch(r, IF b = g.currBatchMax
                          THEN Armed([g EXCEPT !.currBlockNum = b]) ELSE g)
      /\ skipped' = skipped \ {b}

\* processBlock of an error object returns at once.
SkipBlock(r) ==
  /\ skipped' = skipped \union {runs[r].after + 1}
  /\ NextInBatch(r, Grabber(r))
  /\ UNCHANGED <<saves, queueVars>>

processBlock(r) ==
  /\ runs[r].at = "processing"
  /\ IF Head(runs[r].fetched) = "block" THEN HandOver(r) ELSE SkipBlock(r)
  /\ UNCHANGED <<height, Blocks, wipeOnStartup, reloadAPI, faults, lags, crashes>>

\* A save lands in the collection; they may land in any order.
Saved(b) ==
  /\ saves' = saves \ {b}
  /\ Blocks' = Blocks \union {b}
  /\ UNCHANGED <<height, wipeOnStartup, reloadAPI, grabbers, runs,
                 skipped, faults, lags, crashes, queueVars>>

\* The parser awaits an action.
ActionDone(k) == Finish(k) /\ UNCHANGED grabVars

ActionFails(k) ==
  /\ Reject(k)
  /\ Fault
  /\ UNCHANGED <<height, Blocks, saves, wipeOnStartup, reloadAPI, grabbers, runs,
                 skipped, lags, crashes>>

\* Two minutes without updateLastChecked: no timer is armed, nothing is
\* being saved, and whoever runs waits for a slow request.
Silent ==
  /\ saves = {}
  /\ \A i \in DOMAIN grabbers : grabbers[i].connected /\ grabbers[i].timers = 0
  /\ \A r \in DOMAIN runs :
       \/ runs[r].at = "latest" /\ runs[r].slow
       \/ runs[r].at = "fetching" /\ AllRequested(r) /\ WaitsForBlock(r)

\* Slip: the watchdog logs and does not restart.
Watchdog_onlyWarns == Silent /\ UNCHANGED vars

\* The watchdog of onModuleInit.
Watchdog ==
  /\ Silent
  /\ Len(grabbers) < MaxGrabbers
  /\ grabbers' = Append(grabbers, NewGrabber(TRUE))
  /\ UNCHANGED <<height, Blocks, saves, wipeOnStartup, reloadAPI, runs,
                 skipped, faults, lags, crashes, queueVars>>

\* The process dies and is started again, with the same environment.
Crash ==
  /\ crashes < MaxCrashes
  /\ crashes' = crashes + 1
  /\ saves' = {}
  /\ wipeOnStartup' \in WipeChoices
  /\ reloadAPI' \in ReloadChoices
  /\ grabbers' = <<NewGrabber(FALSE)>>
  /\ runs' = <<>>
  /\ QueueLost
  /\ UNCHANGED <<height, Blocks, skipped, faults, lags>>

Next ==
  \/ Grow
  \/ \E i \in DOMAIN grabbers : Connect(i) \/ ConnectFails(i) \/ FireTimer(i)
  \/ \E r \in DOMAIN runs :
       \/ LatestFails(r) \/ LatestSlow(r) \/ Latest(r)
       \/ WipeBlocks(r) \/ WipeRest(r)
       \/ FetchBlock(r) \/ BlockAtLast(r) \/ Fetched(r) \/ processBlock(r)
  \/ \E b \in saves : Saved(b)
  \/ \E k \in DOMAIN executing : ActionDone(k) \/ ActionFails(k)
  \/ Watchdog
  \/ Crash

Spec == Init /\ [][Next]_vars

\* The event loop gets round to everything that is due: timers, answers of
\* requests that are not slow, saves, actions, the watchdog's interval.
Fairness ==
  /\ \A i \in 1 .. MaxGrabbers :
       WF_vars(i \in DOMAIN grabbers /\ (Connect(i) \/ FireTimer(i)))
  /\ \A r \in 1 .. MaxRuns :
       WF_vars(/\ r \in DOMAIN runs
               /\ \/ ~runs[r].slow /\ Latest(r)
                  \/ WipeBlocks(r) \/ WipeRest(r) \/ FetchBlock(r)
                  \/ Fetched(r) \/ processBlock(r))
  /\ \A b \in Numbers : WF_vars(b \in saves /\ Saved(b))
  /\ WF_vars(\E k \in DOMAIN executing : ActionDone(k))
  /\ WF_vars(Watchdog)

FairSpec == Spec /\ Fairness

RunType ==
  [of : 1 .. MaxGrabbers, at : {"latest", "wiping", "wiped", "fetching", "processing"},
   slow : BOOLEAN, after : Numbers, fetched : SeqOf({"block", "error", "slow"}, MaxHeight)]

TypeOK ==
  /\ height \in Numbers
  /\ Blocks \subseteq 1 .. height /\ saves \subseteq 1 .. height
  /\ skipped \subseteq 1 .. height /\ dropped \subseteq 1 .. height
  /\ \A i \in DOMAIN grabbers :
       grabbers[i] \in [bypass_wipe : BOOLEAN, connected : BOOLEAN, currBlockNum : Nat,
                       currBatchMax : Numbers, timers : Nat]
  /\ \A r \in DOMAIN runs : runs[r] \in RunType

Handed == Range(applied) \union Range(action_que)

\* A block that is in the collection, from where the next process goes on,
\* has been given to the parser: it was applied, it waits, or it is known to
\* have been dropped.
SavedIsHanded == Blocks \union saves \subseteq Handed \union dropped

\* Every grabber that polls has caught up and nothing is under way.
AtRest ==
  /\ runs = <<>> /\ saves = {} /\ action_que = <<>>
  /\ ~wipeOnStartup /\ ~reloadAPI
  /\ \E i \in DOMAIN grabbers : grabbers[i].timers > 0
  /\ \A i \in DOMAIN grabbers :
       /\ grabbers[i].connected
       /\ grabbers[i].timers > 0 => grabbers[i].currBlockNum = height

\* Every start wipes the collection or hands over again what is in it, and the
\* masternode is never behind.  Otherwise old blocks that were handed over after
\* newer ones may stay so: a process that goes on from the highest block saved
\* does not know, and the two loops that a wipe behind the chain leaves to a
\* grabber take each other's end of the batch.
Replayed == lags = 0 /\ (crashes = 0 \/ FALSE \notin WipeChoices \intersect ReloadChoices)

\* Grabbers that were given up may wake and hand old blocks over again, after
\* newer ones.  Once all is quiet the database still has what the chain has:
\* from StartBlock on every block was applied, and the last time after all
\* earlier blocks, unless one was passed over or dropped and not made good since.
SettlesInChainOrder ==
  AtRest /\ skipped \union dropped = {} /\ Replayed =>
    /\ \A j, k \in DOMAIN applied :
         j < k /\ applied[j] > StartBlock => applied[j] < applied[k]
    /\ StartBlock + 1 .. height \subseteq Range(applied)

\* From some time on every block has been applied, passed over or dropped:
\* whatever request fails or hangs, the watchdog brings the polling back, and an
\* action that throws does not stop the queue.
EveryBlockArrives ==
  <>[](StartBlock + 1 .. height \subseteq Range(applied) \union skipped \union dropped)
=============================================================================
