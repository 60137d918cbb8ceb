----------------------------- MODULE StakingIndex -----------------------------
(***************************************************************************)
(* The API's copy of a staking contract and the yields it works out for    *)
(* the clients of its staking panel: staking-meta.entity.ts,               *)
(* staking-epoch.entity.ts, user-staking.entity.ts, socket.service.ts and  *)
(* the rooms and timers of app.gateway.ts that call it.  The handler runs  *)
(* on the action queue, one event at a time; the jobs that work out yields *)
(* run beside it, started by timers and by clients that join.  All of them *)
(* read a user's row, await something, and write the whole row back.       *)
(*                                                                         *)
(* Deposits and withdrawals are abstracted to the number of the event that *)
(* wrote them, a yield to what it was worked out from.  The timers' two    *)
(* seconds are taken to outlast the handler's own awaits.                  *)
(***************************************************************************)
EXTENDS Integers, Sequences, FiniteSets, SequencesExt

CONSTANTS Users,     \* accounts with stakes and clients
          Nobody,    \* no account
          Jobs,      \* bound: jobs that may be under way at once
          MaxEvents, \* bound: blocks with a transaction of the contract
          MaxQueue   \* bound: of these, the ones the queue may be behind

ASSUME BoundsAssumption ==
  /\ MaxEvents \in Nat \ {0} /\ MaxQueue \in Nat \ {0}
  /\ Nobody \notin Users

Empty == 0    \* deposits: []
False == -1   \* deposits: the False the contract leaves behind
NoInfo == [deposits |-> -2, withdrawals |-> -2, epoch |-> -2]
NoRow  == [exists |-> FALSE, deposits |-> Empty, withdrawals |-> 0, info |-> NoInfo]
Free   == [pc |-> "free", i |-> 0, known |-> -1, user |-> Nobody, read |-> NoRow,
           copy |-> NoRow, solo |-> FALSE]

VARIABLES chain,    \* the contract: its kind, deposits, withdrawals, current epoch, events
          queue,    \* state changes the action queue holds
          handler,  \* where the handler of the first one is, and the row it read
          epochs,   \* StakingEpochEntity: indices recorded
          meta,     \* StakingMetaEntity: Epoch.index
          row,      \* UserStakingEntity of the user
          timers,   \* timers of the gateway that will start a job
          clients,  \* staking_panel_clients
          jobs,     \* getClientYieldList and sendClientStakingUpdates under way
          fled,     \* ghost: users whose last call was emergencyReturnStake
          lost,     \* ghost: rows overwritten with older deposits or withdrawals
          late      \* ghost: clients a job has passed over, or whose newer yield it replaced
vars == <<chain, queue, handler, epochs, meta, row, timers, clients, jobs, fled, lost, late>>

\* The API starts on tables that earlier blocks have filled: with a stake of
\* every user, or with none.
Init ==
  /\ \E before \in {0, 1} :
       /\ \E simple \in BOOLEAN : chain =
            [simple |-> simple, deposits |-> [u \in Users |-> before],
             withdrawals |-> [u \in Users |-> 0], epoch |-> before, events |-> before]
       /\ epochs = 0..before /\ meta = before
       /\ row = [u \in Users |-> [NoRow EXCEPT !.exists = before = 1, !.deposits = before]]
  /\ queue = <<>> /\ handler = [pc |-> "epoch", copy |-> NoRow]
  /\ timers = 0 /\ clients = <<>>
  /\ jobs = [j \in Jobs |-> Free]
  /\ fled = {} /\ lost = {} /\ late = {}

Index == <<queue, handler, epochs, meta, timers>>
Ghosts == <<fled, lost, late>>

(***************************************************************************)
(* The contract, as the blocks show it.                                    *)
(***************************************************************************)
Staked(u) == chain.deposits[u] > 0

\* A call of the contract, and the event that reaches the queue: what the call
\* leaves of its user's deposits and withdrawals, and whether it opens an epoch.
Call(u, fn, deposits, withdrawals, opens) ==
  /\ chain.events < MaxEvents /\ Len(queue) < MaxQueue
  /\ LET epoch == IF opens THEN chain.epoch + 1 ELSE chain.epoch
     IN /\ chain' = [chain EXCEPT
             !.deposits = [v \in Users |-> IF v = u THEN deposits ELSE @[v]],
             !.withdrawals = [v \in Users |-> IF v = u THEN withdrawals ELSE @[v]],
             !.epoch = epoch, !.events = @ + 1]
        /\ queue' = Append(queue, [fn |-> fn, user |-> u, deposits |-> deposits,
                                   withdrawals |-> withdrawals, opens |-> opens, epoch |-> epoch])
  /\ fled' = IF fn = "emergencyReturnStake" THEN fled \cup {u} ELSE fled
  /\ UNCHANGED <<handler, epochs, meta, row, timers, clients, jobs, lost, late>>

\* The farm opens an epoch whenever the stake changes, the simple contract
\* whenever its owner changes the emission rate.
addStakingTokens(u) ==
  Call(u, "addStakingTokens", chain.events + 1, chain.withdrawals[u], ~chain.simple)
withdrawYield(u) ==
  Staked(u) /\ Call(u, "withdrawYield", chain.deposits[u], chain.events + 1, FALSE)
withdrawTokensAndYield(u) ==
  Staked(u) /\ Call(u, "withdrawTokensAndYield", False, 0, ~chain.simple)
emergencyReturnStake(u) ==
  chain.simple /\ Staked(u) /\ Call(u, "emergencyReturnStake", False, 0, FALSE)
changeEmissionRate ==
  chain.simple /\ Call(Nobody, "changeEmissionRate", Empty, 0, TRUE)

(***************************************************************************)
(* The handler, on the action queue.                                       *)
(***************************************************************************)
At(pc) == queue # <<>> /\ handler.pc = pc
Goto(pc) == handler' = [handler EXCEPT !.pc = pc]

updateEpoch ==
  /\ At("epoch") /\ Goto("meta")
  /\ epochs' = IF Head(queue).opens THEN epochs \cup {Head(queue).epoch} ELSE epochs
  /\ UNCHANGED <<chain, queue, meta, row, timers, clients, jobs>> /\ UNCHANGED Ghosts

\* The clients are told of the user's row, and of an epoch: a timer each.
\* Slip: only an epoch sets a timer.
TimersOfEpochs(e) == IF e.opens THEN 1 ELSE 0
TimersOf(e) == (IF e.opens THEN 1 ELSE 0) + (IF e.user = Nobody THEN 0 ELSE 1)

\* Done with the first event: its timers are set.
Done(e) ==
  /\ queue' = Tail(queue) /\ handler' = [pc |-> "epoch", copy |-> NoRow]
  /\ timers' = timers + TimersOf(e)

saveMeta ==
  /\ At("meta")
  /\ meta' = Head(queue).epoch
  /\ IF Head(queue).user = Nobody THEN Done(Head(queue))
     ELSE Goto("find") /\ UNCHANGED <<queue, timers>>
  /\ UNCHANGED <<chain, epochs, row, clients, jobs>> /\ UNCHANGED Ghosts

findUserRow ==
  /\ At("find")
  /\ handler' = [pc |-> "save", copy |-> [row[Head(queue).user] EXCEPT !.exists = TRUE]]
  /\ UNCHANGED <<chain, queue, epochs, meta, row, timers, clients, jobs>> /\ UNCHANGED Ghosts

\* The row as the state changes leave it; a full exit resets it, an emergency
\* return leaves the contract's False where a list should be.
\* Slip: an exit is not told apart.
UpdatedAlways(e, copy) ==
  [copy EXCEPT !.deposits = IF e.fn = "withdrawYield" THEN @ ELSE e.deposits,
               !.withdrawals = IF e.fn = "addStakingTokens" THEN @ ELSE e.withdrawals]
Updated(e, copy) ==
  IF e.fn = "withdrawTokensAndYield"
  THEN [copy EXCEPT !.deposits = Empty, !.withdrawals = 0, !.info = NoInfo]
  ELSE [copy EXCEPT !.deposits = IF e.fn = "withdrawYield" THEN @ ELSE e.deposits,
                    !.withdrawals = IF e.fn = "addStakingTokens" THEN @ ELSE e.withdrawals]

\* Slip: what was withdrawn is looked at only beside deposits.
updateUserStakingDeposits ==
  /\ At("save")
  /\ row' = [row EXCEPT ![Head(queue).user] =
       IF Head(queue).fn = "withdrawYield" THEN @ ELSE Updated(Head(queue), handler.copy)]
  /\ Done(Head(queue))
  /\ UNCHANGED <<chain, epochs, meta, clients, jobs>> /\ UNCHANGED Ghosts

updateUserStakingInfo ==
  /\ At("save")
  /\ row' = [row EXCEPT ![Head(queue).user] = Updated(Head(queue), handler.copy)]
  /\ Done(Head(queue))
  /\ UNCHANGED <<chain, epochs, meta, clients, jobs>> /\ UNCHANGED Ghosts

(***************************************************************************)
(* The clients of the panel.                                               *)
(***************************************************************************)
Clients == Range(clients)
NewestEpoch == CHOOSE e \in epochs : \A d \in epochs : d <= e

\* The cached yield is never taken: staking_epochs, which it is compared with,
\* stays empty.  A user without deposits, or with False for deposits, is sent
\* the row as it is.
handleJoinUserYieldFeed(u, j) ==
  /\ jobs[j] = Free
  /\ clients' = IF u \in Clients THEN clients ELSE Append(clients, u)
  /\ jobs' = IF row[u].exists /\ row[u].deposits > 0
             THEN [jobs EXCEPT ![j] = [Free EXCEPT !.pc = "compute", !.known = NewestEpoch,
                                         !.user = u, !.read = row[u], !.copy = row[u], !.solo = TRUE]]
             ELSE jobs
  /\ UNCHANGED <<chain, row>> /\ UNCHANGED Index /\ UNCHANGED Ghosts

\* The loop of a job goes by position: who moves up into a position it has
\* passed is passed over.
handleLeaveRoom(u) ==
  /\ u \in Clients
  /\ LET k == CHOOSE n \in 1..Len(clients) : clients[n] = u
     IN /\ clients' = RemoveAt(clients, k)
        /\ late' = late \cup {clients[jobs[j].i + 1] :
             j \in {j \in Jobs : /\ jobs[j].pc # "free" /\ ~jobs[j].solo
                                 /\ k <= jobs[j].i /\ jobs[j].i < Len(clients)}}
  /\ UNCHANGED <<chain, row, jobs, fled, lost>> /\ UNCHANGED Index

(***************************************************************************)
(* A job: sendClientStakingUpdates for all clients, or getClientYieldList  *)
(* for the one who joined.                                                 *)
(***************************************************************************)
sendClientStakingUpdates(j) ==
  /\ timers > 0 /\ jobs[j] = Free
  /\ timers' = timers - 1
  /\ jobs' = [jobs EXCEPT ![j] = [Free EXCEPT !.pc = "next", !.known = NewestEpoch]]
  /\ UNCHANGED <<chain, queue, handler, epochs, meta, row, clients>> /\ UNCHANGED Ghosts

NextClient(j) ==
  /\ jobs[j].pc = "next"
  /\ LET i == jobs[j].i + 1
     IN jobs' = [jobs EXCEPT ![j] =
          IF i > Len(clients) THEN Free
          ELSE IF row[clients[i]].exists
          THEN [@ EXCEPT !.pc = "compute", !.i = i, !.user = clients[i],
                         !.read = row[clients[i]], !.copy = row[clients[i]]]
          ELSE [@ EXCEPT !.i = i]]
  /\ UNCHANGED <<chain, row, clients>> /\ UNCHANGED Index /\ UNCHANGED Ghosts

\* An epoch recorded since the job read them is past the end of its list, and
\* deposits that are no list cannot be gone through.
calculateYieldThrows(copy, known) == copy.deposits > 0 /\ meta > known
getUserYieldThrows(copy, known) == copy.deposits = False \/ calculateYieldThrows(copy, known)

\* An error of one client's yield ends the loop for all that come after.
updateClientStakingMetrics(j) ==
  /\ jobs[j].pc = "compute"
  /\ LET job == jobs[j]
     IN IF getUserYieldThrows(job.copy, job.known)
        THEN /\ jobs' = [jobs EXCEPT ![j] = Free]
             /\ late' = late \cup (IF job.solo THEN {job.user}
                                   ELSE {clients[n] : n \in job.i..Len(clients)})
        ELSE /\ jobs' = [jobs EXCEPT ![j].pc = "save", ![j].copy.info =
                  [deposits |-> job.copy.deposits, withdrawals |-> job.copy.withdrawals,
                   epoch |-> meta]]
             /\ late' = IF row[job.user] = job.read THEN late \ {job.user} ELSE late
  /\ UNCHANGED <<chain, row, clients, fled, lost>> /\ UNCHANGED Index

\* The row is written twice, as it was read but for the yield.
Overwrites(j, u) ==
  /\ row' = [row EXCEPT ![u] = jobs[j].copy]
  /\ lost' = IF row[u].deposits = jobs[j].copy.deposits /\ row[u].withdrawals = jobs[j].copy.withdrawals
             THEN lost ELSE lost \cup {u}
  /\ late' = IF row[u] = jobs[j].read THEN late ELSE late \cup {u}
  /\ UNCHANGED fled /\ UNCHANGED <<chain, clients>> /\ UNCHANGED Index

SaveYield(j) ==
  /\ jobs[j].pc = "save"
  /\ Overwrites(j, jobs[j].user)
  /\ jobs' = [jobs EXCEPT ![j].pc = "again", ![j].read = jobs[j].copy]

SaveYieldAgain(j) ==
  /\ jobs[j].pc = "again"
  /\ Overwrites(j, jobs[j].user)
  /\ jobs' = [jobs EXCEPT ![j] = IF jobs[j].solo THEN Free
                                 ELSE [Free EXCEPT !.pc = "next", !.i = jobs[j].i, !.known = jobs[j].known]]

Next ==
  \/ \E u \in Users : \/ addStakingTokens(u) \/ withdrawYield(u)
                      \/ withdrawTokensAndYield(u) \/ emergencyReturnStake(u)
                      \/ handleLeaveRoom(u) \/ \E j \in Jobs : handleJoinUserYieldFeed(u, j)
  \/ changeEmissionRate
  \/ updateEpoch \/ saveMeta \/ findUserRow \/ updateUserStakingInfo
  \/ \E j \in Jobs : \/ sendClientStakingUpdates(j) \/ NextClient(j)
                     \/ updateClientStakingMetrics(j) \/ SaveYield(j) \/ SaveYieldAgain(j)

Spec == Init /\ [][Next]_vars

(***************************************************************************)
(* Properties.                                                             *)
(***************************************************************************)
Versions == -2..MaxEvents
Info == [deposits : Versions, withdrawals : Versions, epoch : Versions]
Rows == [exists : BOOLEAN, deposits : Versions, withdrawals : Versions, info : Info]
TypeOK ==
  /\ row \in [Users -> Rows] /\ handler.copy \in Rows
  /\ handler.pc \in {"epoch", "meta", "find", "save"}
  /\ epochs \subseteq Nat /\ meta \in Nat /\ timers \in Nat
  /\ Clients \subseteq Users /\ Len(clients) = Cardinality(Clients)
  /\ \A j \in Jobs : jobs[j].pc \in {"free", "next", "compute", "save", "again"}
  /\ fled \subseteq Users /\ lost \subseteq Users /\ late \subseteq Users

\* When the queue has caught up, a user's row holds the deposits and the
\* withdrawals of the contract, unless a job that had read it before wrote the
\* older ones back.
RowsAsChain ==
  queue = <<>> => \A u \in Users \ lost :
    /\ row[u].withdrawals = chain.withdrawals[u]
    /\ row[u].deposits = chain.deposits[u] \/ (row[u].deposits <= 0 /\ chain.deposits[u] <= 0)

\* When everything has come to rest, a client of the panel with a stake has the
\* yield of the latest epoch, from the deposits and withdrawals of the row, unless
\* the last job passed the client over or another wrote an older row after it.
AtRest == queue = <<>> /\ timers = 0 /\ \A j \in Jobs : jobs[j] = Free
YieldsSettle ==
  AtRest => \A u \in Clients \ late : row[u].deposits > 0 =>
    row[u].info = [deposits |-> row[u].deposits, withdrawals |-> row[u].withdrawals, epoch |-> meta]

\* A job ends before its last client only because of a user who took the stake
\* back without the yield, or of an epoch recorded after it had read them.
CutOnlyByFlightOrEpoch ==
  [][\A j \in Jobs : jobs[j].pc = "compute" /\ jobs'[j].pc = "free" =>
       jobs[j].user \in fled \/ meta > jobs[j].known]_vars
===============================================================================
