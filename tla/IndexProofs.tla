---------------------------- MODULE IndexProofs ----------------------------
(***************************************************************************)
(* Proofs about the API's copies of the chain.  StakingIndex, for any      *)
(* users, any number of jobs under way at once and a queue of any length:  *)
(* the rows follow the contract, what can end a job early, and that the    *)
(* yields settle.  MarketIndex, for any tokens and accounts, any amounts   *)
(* and any number of transactions, replays and crashes: the tables and     *)
(* what the clients were told settle where the chain is, and no trade of a *)
(* market that was seen from its beginning is missed.                      *)
(***************************************************************************)
EXTENDS StakingIndex, MarketIndex, SequenceTheorems, WellFoundedInduction, TLAPS

-----------------------------------------------------------------------------
(* The rows and the queue *)

Fns == {"addStakingTokens", "withdrawYield", "withdrawTokensAndYield",
        "emergencyReturnStake", "changeEmissionRate"}

Events ==
  [fn : Fns, user : Users \union {Nobody}, deposits : Int, withdrawals : Int,
   opens : BOOLEAN, epoch : Int]

\* The row and the contract may write "no deposits" each in its own way.
SameDeposits(d, e) == d = e \/ (d <= 0 /\ e <= 0)

\* Event e takes a user from one state of the contract to the next.
Leads(e, u, before, after) ==
  IF e.user # u THEN after = before
  ELSE /\ after = [deposits |-> e.deposits, withdrawals |-> e.withdrawals]
       /\ e.fn = "withdrawYield" => after.deposits = before.deposits
       /\ e.fn = "addStakingTokens" => after.withdrawals = before.withdrawals
       /\ e.fn = "withdrawTokensAndYield" => after.deposits <= 0 /\ after.withdrawals = 0

Histories == [0 .. Len(queue) -> [deposits : Int, withdrawals : Int]]

\* h[n]: the user's deposits and withdrawals after n events of the queue.  The
\* row is where the history starts, the contract where it ends.
HistoryOf(u, h) ==
  /\ h \in Histories
  /\ SameDeposits(row[u].deposits, h[0].deposits)
  /\ row[u].withdrawals = h[0].withdrawals
  /\ \A n \in 1 .. Len(queue) : Leads(queue[n], u, h[n - 1], h[n])
  /\ h[Len(queue)] = [deposits |-> chain.deposits[u], withdrawals |-> chain.withdrawals[u]]

IntRows == [exists : BOOLEAN, deposits : Int, withdrawals : Int,
            info : [deposits : Int, withdrawals : Int, epoch : Int]]

IntJobs == [pc : {"free", "next", "compute", "save", "again"}, i : Nat, known : Int,
            user : Users \union {Nobody}, read : IntRows, copy : IntRows, solo : BOOLEAN]

Types ==
  /\ queue \in Seq(Events)
  /\ row \in [Users -> IntRows]
  /\ handler \in [pc : {"epoch", "meta", "find", "save"}, copy : IntRows]
  /\ handler.pc \in {"find", "save"} => queue # <<>> /\ Head(queue).user \in Users
  /\ chain \in [simple : BOOLEAN, deposits : [Users -> Int], withdrawals : [Users -> Int],
                epoch : Nat, events : Nat]
  /\ \A n \in DOMAIN queue : queue[n].epoch \in 0 .. chain.epoch
  /\ epochs \subseteq 0 .. chain.epoch /\ epochs # {} /\ meta \in Nat
  /\ jobs \in [Jobs -> IntJobs] /\ clients \in Seq(Users)
  /\ \A j \in Jobs : jobs[j].pc \in {"compute", "save", "again"} => jobs[j].user \in Users

\* What the handler writes back is what it read: between its find and its save
\* only a job can change the row.
CopyIsFresh ==
  handler.pc = "save" /\ Head(queue).user \notin lost =>
    /\ handler.copy.deposits = row[Head(queue).user].deposits
    /\ handler.copy.withdrawals = row[Head(queue).user].withdrawals

RowsFollow == \A u \in Users \ lost : \E h : HistoryOf(u, h)

\* The contract's False comes from an emergency return only, wherever it has got.
FalseIsFlight ==
  /\ \A u \in Users : row[u].deposits = False => u \in fled
  /\ handler.pc = "save" /\ handler.copy.deposits = False => Head(queue).user \in fled
  /\ \A n \in DOMAIN queue :
       queue[n].deposits = False /\ queue[n].fn \notin {"withdrawYield", "withdrawTokensAndYield"}
         => queue[n].user \in fled
  /\ \A j \in Jobs : jobs[j].copy.deposits = False => jobs[j].user \in fled

IInv == Types /\ CopyIsFresh /\ RowsFollow /\ FalseIsFlight

\* The constant records are of the types of rows and jobs.
LEMMA Constants ==
  /\ NoInfo \in [deposits : Int, withdrawals : Int, epoch : Int]
  /\ NoRow \in IntRows /\ NoRow.deposits = 0 /\ NoRow.withdrawals = 0
  /\ Free \in IntJobs /\ Free.pc = "free" /\ Free.copy = NoRow
  /\ False = -1 /\ Empty = 0
  BY DEF NoInfo, NoRow, IntRows, Free, IntJobs, False, Empty

\* The invariant holds at the start.
LEMMA InitIInv == Init => IInv
  <1> SUFFICES ASSUME Init PROVE IInv
    OBVIOUS
  <1>1. PICK before \in {0, 1} : \E simple \in BOOLEAN :
          /\ chain = [simple |-> simple, deposits |-> [u \in Users |-> before],
                      withdrawals |-> [u \in Users |-> 0], epoch |-> before, events |-> before]
          /\ epochs = 0 .. before /\ meta = before
          /\ row = [u \in Users |-> [NoRow EXCEPT !.exists = before = 1, !.deposits = before]]
    BY DEF Init
  <1>2. /\ queue = <<>> /\ handler = [pc |-> "epoch", copy |-> NoRow] /\ clients = <<>>
        /\ jobs = [j \in Jobs |-> Free] /\ lost = {}
    BY DEF Init
  <1>3. \A S : <<>> \in Seq(S) /\ Len(<<>>) = 0 /\ DOMAIN <<>> = {}
    OBVIOUS
  <1>4. \A u \in Users : /\ row[u] \in IntRows /\ row[u].deposits = before
                         /\ row[u].withdrawals = 0
    <2>1. PICK there \in BOOLEAN : there = (before = 1)
      OBVIOUS
    <2>2. row = [u \in Users |-> [NoRow EXCEPT !.exists = there, !.deposits = before]]
      BY <1>1, <2>1, Zenon
    <2>3. PICK r \in IntRows : r = NoRow /\ r.withdrawals = 0
      BY Constants
    <2>4. before \in Int
      BY <1>1
    <2>5. PICK q : q = [r EXCEPT !.exists = there, !.deposits = before]
      OBVIOUS
    <2>6. q.deposits = before /\ q.withdrawals = 0
      BY <2>3, <2>5 DEF IntRows
    <2>7. q \in IntRows
      BY <2>1, <2>3, <2>4, <2>5 DEF IntRows
    <2> QED  BY <2>2, <2>3, <2>5, <2>6, <2>7
  <1>5. Types
    <2>1. /\ row \in [Users -> IntRows]
      BY <1>1, <1>4
    <2>2. handler \in [pc : {"epoch", "meta", "find", "save"}, copy : IntRows]
          /\ jobs \in [Jobs -> IntJobs]
      BY <1>2, Constants
    <2>3. /\ chain \in [simple : BOOLEAN, deposits : [Users -> Int],
                        withdrawals : [Users -> Int], epoch : Nat, events : Nat]
          /\ epochs \subseteq 0 .. chain.epoch /\ epochs # {} /\ meta \in Nat
      BY <1>1
    <2> QED  BY <1>2, <1>3, <2>1, <2>2, <2>3, Constants DEF Types
  <1>6. ASSUME NEW u \in Users PROVE \E h : HistoryOf(u, h)
    <2> DEFINE h == [n \in {0} |-> [deposits |-> before, withdrawals |-> 0]]
    <2>1. 0 .. Len(queue) = {0} /\ 1 .. Len(queue) = {} /\ Len(queue) = 0
      BY <1>2, <1>3
    <2>2. HistoryOf(u, h)
      BY <1>1, <1>4, <2>1 DEF HistoryOf, Histories, SameDeposits
    <2> QED  BY <2>2
  <1>7. CopyIsFresh
    BY <1>2 DEF CopyIsFresh
  <1>8. FalseIsFlight
    BY <1>2, <1>3, <1>4, Constants DEF FalseIsFlight
  <1> QED  BY <1>5, <1>6, <1>7, <1>8 DEF IInv, RowsFollow

\* A call of the contract makes every user's history longer.
LEMMA CallKeeps ==
  ASSUME IInv, NEW u \in Users \union {Nobody}, NEW fn \in Fns, NEW d \in Int, NEW w \in Int,
         NEW opens \in BOOLEAN, Call(u, fn, d, w, opens),
         u \in Users => /\ fn = "withdrawYield" => d = chain.deposits[u]
                        /\ fn = "addStakingTokens" => w = chain.withdrawals[u]
                        /\ fn = "withdrawTokensAndYield" => d <= 0 /\ w = 0,
         d = False => fn \in {"withdrawYield", "withdrawTokensAndYield", "emergencyReturnStake"}
  PROVE  IInv'
  <1> DEFINE epoch == IF opens THEN chain.epoch + 1 ELSE chain.epoch
             e == [fn |-> fn, user |-> u, deposits |-> d, withdrawals |-> w,
                   opens |-> opens, epoch |-> epoch]
  <1>1. /\ Types /\ CopyIsFresh /\ RowsFollow /\ FalseIsFlight
        /\ chain \in [simple : BOOLEAN, deposits : [Users -> Int], withdrawals : [Users -> Int],
                      epoch : Nat, events : Nat]
        /\ queue \in Seq(Events)
    BY DEF IInv, Types
  <1>2. /\ queue' = Append(queue, e)
        /\ UNCHANGED <<handler, epochs, meta, row, timers, clients, jobs, lost, late>>
        /\ fled' = IF fn = "emergencyReturnStake" THEN fled \union {u} ELSE fled
    BY DEF Call
  <1>3. chain' = [chain EXCEPT
             !.deposits = [v \in Users |-> IF v = u THEN d ELSE @[v]],
             !.withdrawals = [v \in Users |-> IF v = u THEN w ELSE @[v]],
             !.epoch = epoch, !.events = @ + 1]
    BY DEF Call
  <1>4. /\ epoch \in Nat /\ chain.epoch <= epoch
        /\ e \in Events
    BY <1>1 DEF Events
  <1>5. /\ e.fn = fn /\ e.user = u /\ e.deposits = d /\ e.withdrawals = w /\ e.epoch = epoch
    OBVIOUS
  <1> HIDE DEF e, epoch
  <1>6. /\ chain' \in [simple : BOOLEAN, deposits : [Users -> Int],
                       withdrawals : [Users -> Int], epoch : Nat, events : Nat]
        /\ \A v \in Users : /\ chain'.deposits[v] = IF v = u THEN d ELSE chain.deposits[v]
                            /\ chain'.withdrawals[v] = IF v = u THEN w ELSE chain.withdrawals[v]
        /\ chain'.epoch = epoch
    <2>1. PICK ds : ds = [v \in Users |-> IF v = u THEN d ELSE chain.deposits[v]]
      OBVIOUS
    <2>2. PICK ws : ws = [v \in Users |-> IF v = u THEN w ELSE chain.withdrawals[v]]
      OBVIOUS
    <2>3. ds \in [Users -> Int] /\ ws \in [Users -> Int]
      BY <1>1, <2>1, <2>2
    <2>4. chain' = [chain EXCEPT !.deposits = ds, !.withdrawals = ws, !.epoch = epoch,
                                 !.events = @ + 1]
      BY <1>3, <2>1, <2>2, Zenon
    <2>5. chain.events + 1 \in Nat
      BY <1>1
    <2>6. /\ chain' \in [simple : BOOLEAN, deposits : [Users -> Int],
                         withdrawals : [Users -> Int], epoch : Nat, events : Nat]
          /\ chain'.deposits = ds /\ chain'.withdrawals = ws /\ chain'.epoch = epoch
      BY <1>1, <1>4, <2>3, <2>4, <2>5
    <2> QED  BY <2>1, <2>2, <2>6
  <1>7. /\ Len(queue) \in Nat /\ DOMAIN queue = 1 .. Len(queue)
        /\ queue' \in Seq(Events) /\ Len(queue') = Len(queue) + 1 /\ queue' # <<>>
        /\ \A n \in 1 .. Len(queue) : queue'[n] = queue[n]
        /\ queue'[Len(queue) + 1] = e
        /\ queue # <<>> => Head(queue') = Head(queue)
    BY <1>1, <1>2, <1>4, AppendProperties, LenProperties, HeadTailAppend
  <1>8. DOMAIN queue' = 1 .. Len(queue) + 1
    BY <1>7, LenProperties
  <1>9. handler.pc \in {"find", "save"} => queue # <<>> /\ Head(queue).user \in Users
    BY <1>1 DEF Types
  <1>10. Types'
    <2>1. \A n \in DOMAIN queue' : queue'[n].epoch \in 0 .. chain'.epoch
      <3>1. \A n \in 1 .. Len(queue) : queue[n].epoch \in 0 .. chain.epoch
        BY <1>1, <1>7 DEF Types
      <3> QED  BY <1>1, <1>4, <1>5, <1>6, <1>7, <1>8, <3>1
    <2>2. epochs \subseteq 0 .. chain'.epoch
      BY <1>1, <1>4, <1>6 DEF Types
    <2> QED  BY <1>1, <1>2, <1>6, <1>7, <1>9, <2>1, <2>2 DEF Types
  <1>11. CopyIsFresh'
    BY <1>1, <1>2, <1>7, <1>9 DEF CopyIsFresh
  <1>12. ASSUME NEW v \in Users \ lost PROVE \E h : HistoryOf(v, h)'
    <2>1. PICK h : HistoryOf(v, h)
      BY <1>1 DEF RowsFollow
    <2>2. PICK last : last = [deposits |-> chain'.deposits[v],
                              withdrawals |-> chain'.withdrawals[v]]
      OBVIOUS
    <2>3. PICK m \in Nat : m = Len(queue)
      BY <1>7
    <2>4. PICK g : g = [n \in 0 .. m + 1 |-> IF n <= m THEN h[n] ELSE last]
      OBVIOUS
    <2>5. last \in [deposits : Int, withdrawals : Int]
      BY <1>6, <2>2
    <2>6. /\ h \in [0 .. m -> [deposits : Int, withdrawals : Int]]
          /\ SameDeposits(row[v].deposits, h[0].deposits)
          /\ row[v].withdrawals = h[0].withdrawals
          /\ \A n \in 1 .. m : Leads(queue[n], v, h[n - 1], h[n])
          /\ h[m] = [deposits |-> chain.deposits[v], withdrawals |-> chain.withdrawals[v]]
      BY <2>1, <2>3 DEF HistoryOf, Histories
    <2>7. g \in [0 .. m + 1 -> [deposits : Int, withdrawals : Int]]
      BY <2>4, <2>5, <2>6
    <2>8. g[0] = h[0] /\ g[m + 1] = last /\ \A n \in 0 .. m : g[n] = h[n]
      BY <2>4
    <2>9. Leads(e, v, h[m], last)
      <3>1. h[m].deposits = chain.deposits[v] /\ h[m].withdrawals = chain.withdrawals[v]
        BY <2>6
      <3>2. last.deposits = chain'.deposits[v] /\ last.withdrawals = chain'.withdrawals[v]
        BY <2>2
      <3>3. CASE v = u
        BY <1>5, <1>6, <2>2, <3>1, <3>2, <3>3 DEF Leads
      <3>4. CASE v # u
        BY <1>5, <1>6, <2>2, <2>6, <3>4 DEF Leads
      <3> QED  BY <3>3, <3>4
    <2>10. ASSUME NEW n \in 1 .. m + 1 PROVE Leads(queue'[n], v, g[n - 1], g[n])
      <3>1. CASE n \in 1 .. m
        <4>1. n - 1 \in 0 .. m /\ n \in 0 .. m
          BY <3>1
        <4>2. g[n - 1] = h[n - 1] /\ g[n] = h[n] /\ queue'[n] = queue[n]
          BY <1>7, <2>3, <2>8, <3>1, <4>1
        <4> QED  BY <2>6, <3>1, <4>2
      <3>2. CASE n = m + 1
        <4>1. n - 1 = m /\ m \in 0 .. m
          BY <3>2
        <4> QED  BY <1>7, <2>3, <2>8, <2>9, <3>2, <4>1
      <3> QED  BY <3>1, <3>2
    <2>11. HistoryOf(v, g)'
      BY <1>2, <1>7, <2>2, <2>3, <2>6, <2>7, <2>8, <2>10 DEF HistoryOf, Histories
    <2> QED  BY <2>11
  <1>13. FalseIsFlight'
    <2>1. fled \subseteq fled' /\ (fn = "emergencyReturnStake" => u \in fled')
      BY <1>2
    <2>2. ASSUME NEW n \in DOMAIN queue', queue'[n].deposits = False,
                 queue'[n].fn \notin {"withdrawYield", "withdrawTokensAndYield"}
          PROVE  queue'[n].user \in fled'
      <3>1. CASE n \in 1 .. Len(queue)
        BY <1>1, <1>7, <2>1, <2>2, <3>1 DEF FalseIsFlight
      <3>2. CASE n = Len(queue) + 1
        BY <1>5, <1>7, <2>1, <2>2, <3>2
      <3> QED  BY <1>7, <1>8, <3>1, <3>2
    <2>3. handler.pc = "save" /\ handler.copy.deposits = False => Head(queue').user \in fled'
      BY <1>1, <1>7, <1>9, <2>1 DEF FalseIsFlight
    <2> QED  BY <1>1, <1>2, <2>1, <2>2, <2>3 DEF FalseIsFlight
  <1> QED  BY <1>2, <1>10, <1>11, <1>12, <1>13 DEF IInv, RowsFollow

\* The handler is done with the first event: every history begins one event later.
LEMMA DoneKeeps ==
  ASSUME IInv, queue # <<>>, Done(Head(queue)),
         UNCHANGED <<chain, epochs, clients, jobs, fled, lost>>, meta' \in Nat,
         row' \in [Users -> IntRows],
         \A u \in Users :
           /\ u # Head(queue).user => row'[u] = row[u]
           /\ u = Head(queue).user =>
                /\ \A h : HistoryOf(u, h) /\ u \notin lost =>
                     /\ SameDeposits(row'[u].deposits, h[1].deposits)
                     /\ row'[u].withdrawals = h[1].withdrawals
                /\ row'[u].deposits = False => u \in fled
  PROVE  IInv'
  <1>1. /\ Types /\ RowsFollow /\ FalseIsFlight /\ queue \in Seq(Events)
        /\ chain \in [simple : BOOLEAN, deposits : [Users -> Int], withdrawals : [Users -> Int],
                      epoch : Nat, events : Nat]
    BY Zenon DEF IInv, Types
  <1>2. queue' = Tail(queue) /\ handler' = [pc |-> "epoch", copy |-> NoRow]
    BY DEF Done
  <1>3. PICK m \in Nat : m + 1 = Len(queue) /\ DOMAIN queue = 1 .. m + 1
    <2>1. Len(queue) \in Nat \ {0} /\ DOMAIN queue = 1 .. Len(queue)
      BY <1>1, EmptySeq, LenProperties
    <2>2. Len(queue) - 1 \in Nat /\ Len(queue) - 1 + 1 = Len(queue)
      BY <2>1
    <2> QED  BY <2>1, <2>2, Zenon
  <1>4. /\ Head(queue) = queue[1] /\ queue' \in Seq(Events) /\ Len(queue') = m
        /\ \A n \in 1 .. m : queue'[n] = queue[n + 1]
    BY <1>1, <1>2, <1>3, HeadTailProperties
  <1>5. DOMAIN queue' = 1 .. m
    BY <1>4, LenProperties
  <1>6. \A n \in DOMAIN queue' : n + 1 \in DOMAIN queue /\ queue'[n] = queue[n + 1]
    BY <1>3, <1>4, <1>5
  <1>7. Types'
    <2>1. handler' \in [pc : {"epoch", "meta", "find", "save"}, copy : IntRows]
          /\ handler'.pc = "epoch"
      BY <1>2, Constants
    <2> QED  BY <1>1, <1>4, <1>6, <2>1 DEF Types
  <1>8. CopyIsFresh'
    BY <1>2 DEF CopyIsFresh
  <1>9. ASSUME NEW v \in Users \ lost PROVE \E h : HistoryOf(v, h)'
    <2>1. PICK h : HistoryOf(v, h)
      BY <1>1 DEF RowsFollow
    <2>2. PICK g : g = [n \in 0 .. m |-> h[n + 1]]
      OBVIOUS
    <2>3. /\ h \in [0 .. m + 1 -> [deposits : Int, withdrawals : Int]]
          /\ SameDeposits(row[v].deposits, h[0].deposits)
          /\ row[v].withdrawals = h[0].withdrawals
          /\ \A n \in 1 .. m + 1 : Leads(queue[n], v, h[n - 1], h[n])
          /\ h[m + 1] = [deposits |-> chain.deposits[v], withdrawals |-> chain.withdrawals[v]]
      BY <1>3, <2>1 DEF HistoryOf, Histories
    <2>4. /\ g \in [0 .. m -> [deposits : Int, withdrawals : Int]]
          /\ \A n \in 0 .. m : g[n] = h[n + 1]
      BY <2>2, <2>3
    <2>5. g[0] = h[1] /\ g[m] = h[m + 1]
      BY <2>4
    <2>6. /\ SameDeposits(row'[v].deposits, h[1].deposits)
          /\ row'[v].withdrawals = h[1].withdrawals
      <3>1. CASE v = Head(queue).user
        BY <2>1, <3>1
      <3>2. CASE v # Head(queue).user
        <4>1. Leads(queue[1], v, h[1 - 1], h[1])
          BY <2>3
        <4>2. h[1] = h[0]
          BY <1>4, <3>2, <4>1 DEF Leads
        <4> QED  BY <2>3, <3>2, <4>2
      <3> QED  BY <3>1, <3>2
    <2>7. ASSUME NEW n \in 1 .. m PROVE Leads(queue'[n], v, g[n - 1], g[n])
      <3>1. n + 1 \in 1 .. m + 1 /\ n + 1 - 1 = n /\ n - 1 + 1 = n
            /\ n - 1 \in 0 .. m /\ n \in 0 .. m
        OBVIOUS
      <3>2. Leads(queue[n + 1], v, h[n], h[n + 1])
        BY <2>3, <3>1
      <3> QED  BY <1>4, <2>4, <3>1, <3>2
    <2>8. HistoryOf(v, g)'
      BY <1>4, <2>3, <2>4, <2>5, <2>6, <2>7 DEF HistoryOf, Histories
    <2> QED  BY <2>8
  <1>10. FalseIsFlight'
    <2>1. ASSUME NEW u \in Users, row'[u].deposits = False PROVE u \in fled
      BY <1>1, <2>1 DEF FalseIsFlight
    <2>2. handler'.pc # "save"
      BY <1>2
    <2>3. ASSUME NEW n \in DOMAIN queue', queue'[n].deposits = False,
                 queue'[n].fn \notin {"withdrawYield", "withdrawTokensAndYield"}
          PROVE  queue'[n].user \in fled
      BY <1>1, <1>6, <2>3 DEF FalseIsFlight
    <2>4. \A j \in Jobs : jobs[j].copy.deposits = False => jobs[j].user \in fled
      BY <1>1 DEF FalseIsFlight
    <2> QED  BY <2>1, <2>2, <2>3, <2>4 DEF FalseIsFlight
  <1> QED  BY <1>7, <1>8, <1>9, <1>10 DEF IInv, RowsFollow

\* What the handler saves is the state that its event leads to.
LEMMA SavesTheEvent ==
  ASSUME IInv, updateUserStakingInfo
  PROVE  IInv'
  <1> DEFINE e == Head(queue)
             v == Head(queue).user
             saved == Updated(e, handler.copy)
  <1>1. /\ Types /\ CopyIsFresh /\ FalseIsFlight /\ queue # <<>> /\ handler.pc = "save"
        /\ v \in Users /\ queue \in Seq(Events) /\ row \in [Users -> IntRows]
        /\ handler.copy \in IntRows
    BY DEF IInv, Types, updateUserStakingInfo, At
  <1>2. /\ Done(e) /\ row' = [row EXCEPT ![v] = saved]
        /\ UNCHANGED <<chain, epochs, meta, clients, jobs, fled, lost>>
    BY DEF updateUserStakingInfo, Ghosts
  <1>3. /\ e \in Events /\ 1 \in DOMAIN queue /\ e = queue[1]
        /\ Len(queue) \in Nat \ {0} /\ 1 \in 1 .. Len(queue)
    BY <1>1, HeadTailProperties, LenProperties, EmptySeq
  <1>4. /\ saved \in IntRows
        /\ e.fn = "withdrawTokensAndYield" => saved.deposits = 0 /\ saved.withdrawals = 0
        /\ e.fn # "withdrawTokensAndYield" =>
             /\ saved.deposits = IF e.fn = "withdrawYield" THEN handler.copy.deposits
                                 ELSE e.deposits
             /\ saved.withdrawals = IF e.fn = "addStakingTokens" THEN handler.copy.withdrawals
                                    ELSE e.withdrawals
    <2>1. PICK c \in IntRows : c = handler.copy
      BY <1>1
    <2>2. e.deposits \in Int /\ e.withdrawals \in Int
      BY <1>3 DEF Events
    <2>3. CASE e.fn = "withdrawTokensAndYield"
      <3>1. saved = [c EXCEPT !.deposits = 0, !.withdrawals = 0, !.info = NoInfo]
        BY <2>1, <2>3, Constants DEF Updated
      <3> HIDE DEF saved
      <3> QED  BY <2>3, <3>1, Constants DEF IntRows
    <2>4. CASE e.fn # "withdrawTokensAndYield"
      <3>1. PICK d \in Int : d = IF e.fn = "withdrawYield" THEN c.deposits ELSE e.deposits
        BY <2>2 DEF IntRows
      <3>2. PICK w \in Int : w = IF e.fn = "addStakingTokens" THEN c.withdrawals
                                 ELSE e.withdrawals
        BY <2>2 DEF IntRows
      <3>3. saved = [c EXCEPT !.deposits = d, !.withdrawals = w]
        BY <2>1, <2>4, <3>1, <3>2 DEF Updated
      <3> HIDE DEF saved
      <3> QED  BY <2>1, <2>4, <3>1, <3>2, <3>3 DEF IntRows
    <2> QED  BY <2>3, <2>4
  <1> HIDE DEF saved
  <1>5. /\ row' \in [Users -> IntRows] /\ row'[v] = saved
        /\ \A u \in Users : u # v => row'[u] = row[u]
    BY <1>1, <1>2, <1>4
  <1>6. ASSUME NEW h, HistoryOf(v, h), v \notin lost
        PROVE  /\ SameDeposits(saved.deposits, h[1].deposits)
               /\ saved.withdrawals = h[1].withdrawals
    <2>1. /\ SameDeposits(row[v].deposits, h[0].deposits)
          /\ row[v].withdrawals = h[0].withdrawals
          /\ Leads(e, v, h[1 - 1], h[1])
      BY <1>3, <1>6 DEF HistoryOf
    <2>2. /\ h[1] = [deposits |-> e.deposits, withdrawals |-> e.withdrawals]
          /\ e.fn = "withdrawYield" => h[1].deposits = h[0].deposits
          /\ e.fn = "addStakingTokens" => h[1].withdrawals = h[0].withdrawals
          /\ e.fn = "withdrawTokensAndYield" => h[1].deposits <= 0 /\ h[1].withdrawals = 0
      BY <2>1 DEF Leads
    <2>3. handler.copy.deposits = row[v].deposits /\ handler.copy.withdrawals = row[v].withdrawals
      BY <1>1, <1>6 DEF CopyIsFresh
    <2> HIDE DEF v, e
    <2> QED  BY <1>4, <2>1, <2>2, <2>3 DEF SameDeposits
  <1>7. saved.deposits = False => v \in fled
    <2>1. e.deposits = False /\ e.fn \notin {"withdrawYield", "withdrawTokensAndYield"}
            => v \in fled
      BY <1>1, <1>3 DEF FalseIsFlight
    <2>2. handler.copy.deposits = False => v \in fled
      BY <1>1 DEF FalseIsFlight
    <2> QED  BY <1>4, <2>1, <2>2, Constants
  <1>8. \A u \in Users :
          /\ u # v => row'[u] = row[u]
          /\ u = v =>
               /\ \A h : HistoryOf(u, h) /\ u \notin lost =>
                    /\ SameDeposits(row'[u].deposits, h[1].deposits)
                    /\ row'[u].withdrawals = h[1].withdrawals
               /\ row'[u].deposits = False => u \in fled
    BY <1>5, <1>6, <1>7
  <1>9. meta' \in Nat
    BY <1>1, <1>2 DEF Types
  <1> QED  BY <1>1, <1>2, <1>5, <1>8, <1>9, DoneKeeps

\* The steps of the handler on the queue keep the invariant.
LEMMA HandlerKeeps ==
  ASSUME IInv, updateEpoch \/ saveMeta \/ findUserRow \/ updateUserStakingInfo
  PROVE  IInv'
  <1>1. /\ Types /\ CopyIsFresh /\ RowsFollow /\ FalseIsFlight
        /\ handler \in [pc : {"epoch", "meta", "find", "save"}, copy : IntRows]
    BY DEF IInv, Types
  <1>2. ASSUME queue # <<>>
        PROVE  /\ Head(queue).epoch \in 0 .. chain.epoch /\ chain.epoch \in Nat
               /\ Head(queue).user \in Users \union {Nobody}
    <2>1. queue \in Seq(Events) /\ chain.epoch \in Nat
          /\ \A n \in DOMAIN queue : queue[n].epoch \in 0 .. chain.epoch
      BY <1>1 DEF Types
    <2>2. Head(queue) \in Events /\ Head(queue) = queue[1] /\ 1 \in DOMAIN queue
      BY <1>2, <2>1, HeadTailProperties, LenProperties, EmptySeq
    <2> QED  BY <2>1, <2>2 DEF Events
  <1>3. CASE updateEpoch
    <2>1. /\ queue # <<>> /\ handler' = [handler EXCEPT !.pc = "meta"]
          /\ epochs' = IF Head(queue).opens THEN epochs \union {Head(queue).epoch} ELSE epochs
          /\ UNCHANGED <<chain, queue, meta, row, timers, clients, jobs, fled, lost, late>>
      BY <1>3 DEF updateEpoch, At, Goto, Ghosts
    <2>2. handler' \in [pc : {"epoch", "meta", "find", "save"}, copy : IntRows]
          /\ handler'.pc = "meta"
      BY <1>1, <2>1
    <2>3. Types'
      BY <1>1, <1>2, <2>1, <2>2 DEF Types
    <2> QED  BY <1>1, <2>1, <2>2, <2>3
             DEF IInv, CopyIsFresh, RowsFollow, FalseIsFlight, HistoryOf, Histories
  <1>4. CASE saveMeta
    <2>1. /\ queue # <<>> /\ meta' = Head(queue).epoch
          /\ UNCHANGED <<chain, epochs, row, clients, jobs, fled, lost, late>>
      BY <1>4 DEF saveMeta, At, Ghosts
    <2>2. meta' \in Nat /\ row' \in [Users -> IntRows]
      BY <1>1, <1>2, <2>1 DEF Types
    <2>3. CASE Head(queue).user = Nobody
      <3>1. Done(Head(queue)) /\ Nobody \notin Users
        BY <1>4, <2>3, BoundsAssumption DEF saveMeta
      <3>2. \A u \in Users : u # Head(queue).user
        BY <2>3, <3>1
      <3> QED  BY <2>1, <2>2, <3>1, <3>2, DoneKeeps
    <2>4. CASE Head(queue).user # Nobody
      <3>1. UNCHANGED <<queue, timers>> /\ handler' = [handler EXCEPT !.pc = "find"]
        BY <1>4, <2>4 DEF saveMeta, Goto
      <3>2. handler' \in [pc : {"epoch", "meta", "find", "save"}, copy : IntRows]
            /\ handler'.pc = "find"
        BY <1>1, <3>1
      <3>3. Types'
        BY <1>1, <1>2, <2>1, <2>2, <2>4, <3>1, <3>2 DEF Types
      <3> QED  BY <1>1, <2>1, <3>1, <3>2, <3>3
               DEF IInv, CopyIsFresh, RowsFollow, FalseIsFlight, HistoryOf, Histories
    <2> QED  BY <2>3, <2>4
  <1>5. CASE findUserRow
    <2> DEFINE v == Head(queue).user
    <2>1. /\ queue # <<>> /\ v \in Users
          /\ handler' = [pc |-> "save", copy |-> [row[v] EXCEPT !.exists = TRUE]]
          /\ UNCHANGED <<chain, queue, epochs, meta, row, timers, clients, jobs, fled, lost, late>>
      BY <1>1, <1>5 DEF findUserRow, At, Ghosts, Types
    <2>2. PICK c \in IntRows : c = row[v]
      BY <1>1, <2>1 DEF Types
    <2>3. PICK d : d = [c EXCEPT !.exists = TRUE]
      OBVIOUS
    <2>4. d \in IntRows /\ d.deposits = c.deposits /\ d.withdrawals = c.withdrawals
      BY <2>3 DEF IntRows
    <2>5. handler' = [pc |-> "save", copy |-> d]
      BY <2>1, <2>2, <2>3
    <2>9. /\ handler' \in [pc : {"epoch", "meta", "find", "save"}, copy : IntRows]
          /\ handler'.pc = "save" /\ handler'.copy = d /\ Head(queue') = Head(queue)
      <3>1. queue' = queue
        BY <2>1
      <3>2. Head(queue') = Head(queue)
        BY <3>1
      <3> QED  BY <2>4, <2>5, <3>2
    <2>6. Types'
      <3>1. queue' # <<>> /\ Head(queue').user \in Users
        BY <2>1
      <3> HIDE DEF v
      <3>2. UNCHANGED <<chain, queue, epochs, meta, row, timers, clients, jobs>>
        BY <2>1
      <3> QED  BY <1>1, <2>9, <3>1, <3>2 DEF Types
    <2>7. CopyIsFresh'
      BY <2>1, <2>2, <2>4, <2>9 DEF CopyIsFresh
    <2>8. FalseIsFlight'
      <3>1. d.deposits = False => v \in fled
        BY <1>1, <2>1, <2>2, <2>4 DEF FalseIsFlight
      <3> QED  BY <1>1, <2>1, <2>9, <3>1 DEF FalseIsFlight
    <2> QED  BY <1>1, <2>1, <2>6, <2>7, <2>8 DEF IInv, RowsFollow, HistoryOf, Histories
  <1>6. CASE updateUserStakingInfo
    BY <1>6, SavesTheEvent
  <1> QED  BY <1>3, <1>4, <1>5, <1>6

-----------------------------------------------------------------------------
(* Clients and jobs *)

\* The newest epoch is the last of those recorded.
LEMMA NewestIsInt ==
  ASSUME Types
  PROVE  NewestEpoch \in Int /\ \A e \in epochs : e <= NewestEpoch
  <1>1. PICK m \in Nat : m = chain.epoch
    BY DEF Types
  <1>2. epochs \in SUBSET (0 .. m) /\ epochs # {}
    BY <1>1 DEF Types
  <1> DEFINE T == {n \in Nat : \A e \in epochs : e <= n}
  <1>3. m \in T
    BY <1>2
  <1>4. PICK x \in T : \A y \in T : x <= y
    <2>1. T \in SUBSET Nat /\ T # {}
      BY <1>3
    <2> HIDE DEF T
    <2>2. PICK x \in T : \A y \in T : ~ (<<y, x>> \in OpToRel(<, Nat))
      BY <2>1, NatLessThanWellFounded, WFMin
    <2>3. \A y \in T : ~ (y < x)
      BY <2>1, <2>2 DEF OpToRel
    <2> QED  BY <2>1, <2>3
  <1>5. x \in epochs
    <2>1. SUFFICES ASSUME x \notin epochs PROVE FALSE
      OBVIOUS
    <2>2. x \in Nat /\ \A e \in epochs : e <= x /\ e # x /\ e \in Nat
      BY <1>2, <1>4, <2>1
    <2>3. PICK e \in epochs : TRUE
      BY <1>2
    <2>4. x - 1 \in Nat /\ \A d \in epochs : d <= x - 1
      <3>1. e \in Nat /\ e <= x /\ e # x
        BY <2>2, <2>3
      <3>2. x - 1 \in Nat
        BY <2>2, <3>1
      <3> HIDE DEF T
      <3> QED  BY <2>2, <3>2
    <2>5. x <= x - 1
      BY <1>4, <2>4
    <2> QED  BY <2>2, <2>5
  <1>6. \E e \in epochs : \A d \in epochs : d <= e
    BY <1>4, <1>5
  <1> HIDE DEF T
  <1>7. NewestEpoch \in epochs /\ \A e \in epochs : e <= NewestEpoch
    BY <1>6 DEF NewestEpoch
  <1>8. epochs \subseteq Int
    BY <1>2
  <1> QED  BY <1>7, <1>8

\* Beside the handler the rows may change, but for the users counted as lost
\* only in their yields.
LEMMA SideKeeps ==
  ASSUME IInv, UNCHANGED <<chain, queue, handler, epochs, meta, fled>>,
         jobs' \in [Jobs -> IntJobs], clients' \in Seq(Users), row' \in [Users -> IntRows],
         \A j \in Jobs :
           /\ jobs'[j].pc \in {"compute", "save", "again"} => jobs'[j].user \in Users
           /\ jobs'[j].copy.deposits = False => jobs'[j].user \in fled,
         lost \subseteq lost',
         \A u \in Users :
           /\ u \notin lost' => /\ row'[u].deposits = row[u].deposits
                                /\ row'[u].withdrawals = row[u].withdrawals
           /\ row'[u].deposits = False => u \in fled
  PROVE  IInv'
  <1>1. /\ Types /\ CopyIsFresh /\ RowsFollow /\ FalseIsFlight
        /\ UNCHANGED <<chain, queue, handler, epochs, meta, fled>>
    BY DEF IInv
  <1>2. Types'
    BY <1>1 DEF Types
  <1>3. CopyIsFresh'
    <2>1. handler.pc = "save" => Head(queue).user \in Users
      BY <1>1 DEF Types
    <2> QED  BY <1>1, <2>1 DEF CopyIsFresh
  <1>4. RowsFollow'
    <2>1. ASSUME NEW u \in Users \ lost' PROVE \E h : HistoryOf(u, h)'
      <3>1. PICK h : HistoryOf(u, h)
        BY <1>1, <2>1 DEF RowsFollow
      <3>2. row'[u].deposits = row[u].deposits /\ row'[u].withdrawals = row[u].withdrawals
        BY <2>1
      <3>3. HistoryOf(u, h)'
        BY <1>1, <3>1, <3>2 DEF HistoryOf, Histories
      <3> QED  BY <3>3
    <2> QED  BY <2>1 DEF RowsFollow
  <1>5. FalseIsFlight'
    <2>1. ASSUME NEW u \in Users, row'[u].deposits = False PROVE u \in fled
      BY <2>1
    <2>2. ASSUME NEW j \in Jobs, jobs'[j].copy.deposits = False PROVE jobs'[j].user \in fled
      BY <2>2
    <2> QED  BY <1>1, <2>1, <2>2 DEF FalseIsFlight
  <1> QED  BY <1>2, <1>3, <1>4, <1>5 DEF IInv

\* One job changes, to x, and no row does.
LEMMA JobKeeps ==
  ASSUME IInv, UNCHANGED <<chain, queue, handler, epochs, meta, fled, row, lost>>,
         clients' \in Seq(Users),
         NEW j \in Jobs, NEW x \in IntJobs, jobs' = [jobs EXCEPT ![j] = x],
         x.pc \in {"compute", "save", "again"} => x.user \in Users,
         x.copy.deposits = False => x.user \in fled
  PROVE  IInv'
  <1>1. /\ Types /\ FalseIsFlight /\ jobs \in [Jobs -> IntJobs] /\ row \in [Users -> IntRows]
        /\ UNCHANGED <<chain, queue, handler, epochs, meta, fled, row, lost>>
    BY DEF IInv, Types
  <1>2. /\ jobs' \in [Jobs -> IntJobs] /\ jobs'[j] = x
        /\ \A i \in Jobs : i # j => jobs'[i] = jobs[i]
    BY <1>1
  <1>3. ASSUME NEW i \in Jobs
        PROVE  /\ jobs'[i].pc \in {"compute", "save", "again"} => jobs'[i].user \in Users
               /\ jobs'[i].copy.deposits = False => jobs'[i].user \in fled
    BY <1>1, <1>2 DEF Types, FalseIsFlight
  <1>4. \A u \in Users : row'[u].deposits = False => u \in fled
    BY <1>1 DEF FalseIsFlight
  <1> QED  BY <1>1, <1>2, <1>3, <1>4, SideKeeps

\* A client who leaves is taken out of the list.
LEMMA RemovesClient ==
  ASSUME NEW s \in Seq(Users), NEW k \in 1 .. Len(s)
  PROVE  RemoveAt(s, k) \in Seq(Users)
  <1>1. Len(s) \in Nat /\ \A i \in 1 .. Len(s) : s[i] \in Users
    BY LenProperties, ElementOfSeq
  <1>2. SubSeq(s, 1, k - 1) \in Seq(Users)
    <2>1. 1 \in Int /\ k - 1 \in Int /\ \A i \in 1 .. k - 1 : s[i] \in Users
      BY <1>1
    <2> QED  BY <2>1, SubSeqProperties
  <1>3. SubSeq(s, k + 1, Len(s)) \in Seq(Users)
    <2>1. k + 1 \in Int /\ Len(s) \in Int /\ \A i \in k + 1 .. Len(s) : s[i] \in Users
      BY <1>1
    <2> QED  BY <2>1, SubSeqProperties
  <1> QED  BY <1>2, <1>3, ConcatProperties DEF RemoveAt

\* Clients who come and go keep the invariant.
LEMMA ClientsKeep ==
  ASSUME IInv, NEW u \in Users,
         handleLeaveRoom(u) \/ \E j \in Jobs : handleJoinUserYieldFeed(u, j)
  PROVE  IInv'
  <1>1. /\ Types /\ FalseIsFlight /\ row[u] \in IntRows /\ clients \in Seq(Users)
        /\ row \in [Users -> IntRows] /\ jobs \in [Jobs -> IntJobs]
    BY DEF IInv, Types
  <1>2. CASE handleLeaveRoom(u)
    <2>1. /\ UNCHANGED <<chain, queue, handler, epochs, meta, fled, row, lost, jobs>>
          /\ u \in Clients
          /\ clients' = RemoveAt(clients, CHOOSE n \in 1 .. Len(clients) : clients[n] = u)
      BY <1>2 DEF handleLeaveRoom, Index
    <2>2. \E n \in 1 .. Len(clients) : clients[n] = u
      BY <1>1, <2>1, LenProperties DEF Clients, Range
    <2>3. clients' \in Seq(Users)
      BY <1>1, <2>1, <2>2, RemovesClient
    <2>4. \A j \in Jobs :
           /\ jobs'[j].pc \in {"compute", "save", "again"} => jobs'[j].user \in Users
           /\ jobs'[j].copy.deposits = False => jobs'[j].user \in fled
      BY <1>1, <2>1 DEF Types, FalseIsFlight
    <2>5. \A v \in Users : row'[v].deposits = False => v \in fled
      BY <1>1, <2>1 DEF FalseIsFlight
    <2> QED  BY <1>1, <2>1, <2>3, <2>4, <2>5, SideKeeps
  <1>3. ASSUME NEW j \in Jobs, handleJoinUserYieldFeed(u, j) PROVE IInv'
    <2>1. /\ UNCHANGED <<chain, queue, handler, epochs, meta, fled, row, lost>>
          /\ jobs[j] = Free
          /\ clients' = IF u \in Clients THEN clients ELSE Append(clients, u)
      BY <1>3 DEF handleJoinUserYieldFeed, Index, Ghosts
    <2>2. clients' \in Seq(Users)
      BY <1>1, <2>1, AppendProperties
    <2> DEFINE x == [Free EXCEPT !.pc = "compute", !.known = NewestEpoch,
                                 !.user = u, !.read = row[u], !.copy = row[u], !.solo = TRUE]
    <2>3. CASE jobs' = [jobs EXCEPT ![j] = x]
      <3>1. x \in IntJobs /\ x.user = u /\ x.copy = row[u]
        BY <1>1, NewestIsInt, Constants DEF IntJobs
      <3>2. row[u].deposits = False => u \in fled
        BY <1>1 DEF FalseIsFlight
      <3> HIDE DEF x
      <3> QED  BY <2>1, <2>2, <2>3, <3>1, <3>2, JobKeeps
    <2>4. CASE jobs' = jobs
      <3>1. jobs' = [jobs EXCEPT ![j] = Free]
        BY <1>1, <2>1, <2>4
      <3>2. Free.copy.deposits # False
        BY Constants
      <3>3. Free.pc \notin {"compute", "save", "again"}
        BY Constants
      <3> QED  BY <2>1, <2>2, <3>1, <3>2, <3>3, Constants, JobKeeps
    <2> QED  BY <1>3, <2>3, <2>4 DEF handleJoinUserYieldFeed
  <1> QED  BY <1>2, <1>3

\* A job that is free holds no row.
LEMMA FreeJob ==
  /\ Free \in IntJobs /\ Free.copy.deposits # False
  /\ Free.pc \notin {"compute", "save", "again"}
  BY Constants

\* The steps of a job keep the invariant.
LEMMA WorkKeeps ==
  ASSUME IInv, NEW j \in Jobs,
         sendClientStakingUpdates(j) \/ NextClient(j) \/ updateClientStakingMetrics(j)
  PROVE  IInv'
  <1>1. /\ Types /\ FalseIsFlight /\ clients \in Seq(Users)
        /\ row \in [Users -> IntRows] /\ jobs \in [Jobs -> IntJobs] /\ jobs[j] \in IntJobs
        /\ UNCHANGED <<chain, queue, handler, epochs, meta, fled, row, lost, clients>>
    BY DEF IInv, Types, sendClientStakingUpdates, NextClient, updateClientStakingMetrics,
           Index, Ghosts
  <1>2. CASE sendClientStakingUpdates(j)
    <2> DEFINE x == [Free EXCEPT !.pc = "next", !.known = NewestEpoch]
    <2>1. x \in IntJobs /\ x.copy = Free.copy /\ x.pc = "next"
      BY <1>1, NewestIsInt, Constants DEF IntJobs
    <2>2. jobs' = [jobs EXCEPT ![j] = x]
      BY <1>2 DEF sendClientStakingUpdates
    <2> HIDE DEF x
    <2> QED  BY <1>1, <2>1, <2>2, FreeJob, JobKeeps
  <1>3. CASE NextClient(j)
    <2>1. PICK i \in Nat : i = jobs[j].i + 1
      BY <1>1 DEF IntJobs
    <2>2. jobs' = [jobs EXCEPT ![j] =
            IF i > Len(clients) THEN Free
            ELSE IF row[clients[i]].exists
            THEN [@ EXCEPT !.pc = "compute", !.i = i, !.user = clients[i],
                           !.read = row[clients[i]], !.copy = row[clients[i]]]
            ELSE [@ EXCEPT !.i = i]]
          /\ jobs[j].pc = "next"
      BY <1>3, <2>1 DEF NextClient
    <2>3. CASE i > Len(clients)
      <3>1. jobs' = [jobs EXCEPT ![j] = Free]
        BY <2>2, <2>3
      <3> QED  BY <1>1, <3>1, FreeJob, JobKeeps
    <2>4. CASE i <= Len(clients)
      <3>1. i \in 1 .. Len(clients) /\ ~(i > Len(clients))
        BY <1>1, <2>1, <2>4, LenProperties DEF IntJobs
      <3>2. clients[i] \in Users
        BY <1>1, <3>1, ElementOfSeq
      <3> DEFINE x == [jobs[j] EXCEPT !.pc = "compute", !.i = i, !.user = clients[i],
                         !.read = row[clients[i]], !.copy = row[clients[i]]]
                 y == [jobs[j] EXCEPT !.i = i]
      <3>3. /\ x \in IntJobs /\ x.user = clients[i] /\ x.copy = row[clients[i]]
            /\ row[clients[i]].deposits = False => clients[i] \in fled
        <4>1. PICK c \in IntRows : c = row[clients[i]]
          BY <1>1, <3>2
        <4>2. x = [jobs[j] EXCEPT !.pc = "compute", !.i = i, !.user = clients[i],
                                  !.read = c, !.copy = c]
          BY <4>1
        <4> HIDE DEF x
        <4>3. x \in IntJobs /\ x.user = clients[i] /\ x.copy = row[clients[i]]
          BY <1>1, <2>1, <3>2, <4>1, <4>2 DEF IntJobs
        <4> QED  BY <1>1, <3>2, <4>3 DEF FalseIsFlight
      <3>4. /\ y \in IntJobs /\ y.user = jobs[j].user /\ y.copy = jobs[j].copy /\ y.pc = "next"
            /\ jobs[j].copy.deposits = False => jobs[j].user \in fled
        BY <1>1, <2>1, <2>2 DEF IntJobs, FalseIsFlight
      <3>5. jobs' = [jobs EXCEPT ![j] = x] \/ jobs' = [jobs EXCEPT ![j] = y]
        BY <2>2, <3>1
      <3> HIDE DEF x, y
      <3>6. CASE jobs' = [jobs EXCEPT ![j] = x]
        BY <1>1, <3>2, <3>3, <3>6, JobKeeps
      <3>7. CASE jobs' = [jobs EXCEPT ![j] = y]
        BY <1>1, <3>4, <3>7, JobKeeps
      <3> QED  BY <3>5, <3>6, <3>7
    <2> QED  BY <1>1, <2>1, <2>3, <2>4, LenProperties
  <1>4. CASE updateClientStakingMetrics(j)
    <2>1. jobs[j].pc = "compute" /\ jobs[j].user \in Users
      BY <1>1, <1>4 DEF updateClientStakingMetrics, Types
    <2>2. CASE jobs' = [jobs EXCEPT ![j] = Free]
      BY <1>1, <2>2, FreeJob, JobKeeps
    <2>3. CASE jobs' = [jobs EXCEPT ![j].pc = "save", ![j].copy.info =
                  [deposits |-> jobs[j].copy.deposits, withdrawals |-> jobs[j].copy.withdrawals,
                   epoch |-> meta]]
      <3>1. PICK c \in IntRows : c = jobs[j].copy
        BY <1>1 DEF IntJobs
      <3>2. PICK t : t = [deposits |-> c.deposits, withdrawals |-> c.withdrawals, epoch |-> meta]
        OBVIOUS
      <3>3. t \in [deposits : Int, withdrawals : Int, epoch : Int]
        BY <1>1, <3>1, <3>2 DEF IntRows, Types
      <3>4. PICK d : d = [c EXCEPT !.info = t]
        OBVIOUS
      <3>5. d \in IntRows /\ d.deposits = c.deposits
        BY <3>1, <3>3, <3>4 DEF IntRows
      <3>6. PICK x : x = [jobs[j] EXCEPT !.pc = "save", !.copy = d]
        OBVIOUS
      <3>7. x \in IntJobs /\ x.user = jobs[j].user /\ x.copy = d
        BY <1>1, <3>5, <3>6 DEF IntJobs
      <3>8. jobs' = [jobs EXCEPT ![j] = x]
        BY <2>3, <3>1, <3>2, <3>4, <3>6
      <3>9. jobs[j].copy.deposits = False => jobs[j].user \in fled
        BY <1>1 DEF FalseIsFlight
      <3> QED  BY <1>1, <2>1, <3>1, <3>5, <3>7, <3>8, <3>9, JobKeeps
    <2> QED  BY <1>4, <2>2, <2>3 DEF updateClientStakingMetrics
  <1> QED  BY <1>2, <1>3, <1>4

\* A job writes a row back as it read it: older deposits or withdrawals are
\* counted as lost.
LEMMA OverwritesKeep ==
  ASSUME IInv, NEW j \in Jobs, SaveYield(j) \/ SaveYieldAgain(j)
  PROVE  IInv'
  <1> DEFINE u == jobs[j].user
             c == jobs[j].copy
  <1>1. /\ Types /\ FalseIsFlight /\ clients \in Seq(Users)
        /\ row \in [Users -> IntRows] /\ jobs \in [Jobs -> IntJobs] /\ jobs[j] \in IntJobs
        /\ UNCHANGED <<chain, queue, handler, epochs, meta, fled, clients>>
        /\ jobs[j].pc \in {"save", "again"} /\ Overwrites(j, u)
    BY DEF IInv, Types, SaveYield, SaveYieldAgain, Overwrites, Index
  <1>2. u \in Users /\ c \in IntRows /\ (c.deposits = False => u \in fled)
    BY <1>1 DEF Types, IntJobs, FalseIsFlight
  <1>3. /\ row' = [row EXCEPT ![u] = c]
        /\ lost' = IF row[u].deposits = c.deposits /\ row[u].withdrawals = c.withdrawals
                   THEN lost ELSE lost \union {u}
    BY <1>1 DEF Overwrites
  <1>4. PICK x \in IntJobs :
          /\ jobs' = [jobs EXCEPT ![j] = x]
          /\ x.pc \in {"compute", "save", "again"} => x.user = u
          /\ x.copy.deposits = False => x.user = u /\ x.copy = c
    <2>1. CASE SaveYield(j)
      <3> DEFINE x == [jobs[j] EXCEPT !.pc = "again", !.read = c]
      <3>1. x \in IntJobs /\ x.user = u /\ x.copy = c
        BY <1>1, <1>2 DEF IntJobs
      <3>2. jobs' = [jobs EXCEPT ![j] = x]
        BY <2>1 DEF SaveYield
      <3> QED  BY <3>1, <3>2
    <2>2. CASE SaveYieldAgain(j)
      <3> DEFINE y == [Free EXCEPT !.pc = "next", !.i = jobs[j].i, !.known = jobs[j].known]
      <3>1. y \in IntJobs /\ y.copy = Free.copy /\ y.pc = "next"
        BY <1>1, Constants DEF IntJobs
      <3>2. jobs' = [jobs EXCEPT ![j] = Free] \/ jobs' = [jobs EXCEPT ![j] = y]
        BY <2>2 DEF SaveYieldAgain
      <3> HIDE DEF y
      <3>3. y.pc \notin {"compute", "save", "again"} /\ y.copy.deposits # False
        BY <3>1, FreeJob
      <3>4. CASE jobs' = [jobs EXCEPT ![j] = Free]
        BY <3>4, FreeJob
      <3>5. CASE jobs' = [jobs EXCEPT ![j] = y]
        BY <3>1, <3>3, <3>5
      <3> QED  BY <3>2, <3>4, <3>5
    <2> QED  BY <2>1, <2>2
  <1> HIDE DEF u, c
  <1>5. /\ row' \in [Users -> IntRows] /\ row'[u] = c /\ lost \subseteq lost'
        /\ \A v \in Users : v # u => row'[v] = row[v]
        /\ jobs' \in [Jobs -> IntJobs] /\ jobs'[j] = x
        /\ \A i \in Jobs : i # j => jobs'[i] = jobs[i]
    BY <1>1, <1>2, <1>3, <1>4
  <1>6. ASSUME NEW i \in Jobs
        PROVE  /\ jobs'[i].pc \in {"compute", "save", "again"} => jobs'[i].user \in Users
               /\ jobs'[i].copy.deposits = False => jobs'[i].user \in fled
    <2>1. CASE i = j
      BY <1>2, <1>4, <1>5, <2>1
    <2>2. CASE i # j
      BY <1>1, <1>5, <2>2 DEF Types, FalseIsFlight
    <2> QED  BY <2>1, <2>2
  <1>7. ASSUME NEW v \in Users
        PROVE  /\ v \notin lost' => /\ row'[v].deposits = row[v].deposits
                                    /\ row'[v].withdrawals = row[v].withdrawals
               /\ row'[v].deposits = False => v \in fled
    <2>1. CASE v = u
      BY <1>2, <1>3, <1>5, <2>1
    <2>2. CASE v # u
      BY <1>1, <1>5, <2>2 DEF FalseIsFlight
    <2> QED  BY <2>1, <2>2
  <1>8. clients' \in Seq(Users)
    BY <1>1
  <1> QED  BY <1>1, <1>5, <1>6, <1>7, <1>8, SideKeeps

-----------------------------------------------------------------------------

\* Every step keeps the invariant.
LEMMA NextIInv == IInv /\ [Next]_vars => IInv'
  <1> SUFFICES ASSUME IInv, [Next]_vars PROVE IInv'
    OBVIOUS
  <1>1. Types
    BY DEF IInv
  <1>2. chain.events + 1 \in Nat \ {0} /\ False = -1 /\ Empty = 0
        /\ chain.deposits \in [Users -> Int] /\ chain.withdrawals \in [Users -> Int]
        /\ {~chain.simple, TRUE, FALSE} \subseteq BOOLEAN
    BY <1>1, Constants DEF Types
  <1>3. CASE UNCHANGED vars
    BY <1>3 DEF vars, IInv, Types, CopyIsFresh, RowsFollow, FalseIsFlight, HistoryOf, Histories
  <1>4. ASSUME NEW u \in Users, addStakingTokens(u) PROVE IInv'
    <2>1. PICK d \in Int : d = chain.events + 1 /\ d # False
      BY <1>2
    <2>2. PICK w \in Int : w = chain.withdrawals[u]
      BY <1>2
    <2>3. PICK opens \in BOOLEAN : Call(u, "addStakingTokens", d, w, opens)
      BY <1>2, <1>4, <2>1, <2>2 DEF addStakingTokens
    <2> QED  BY <2>1, <2>2, <2>3, CallKeeps DEF Fns
  <1>5. ASSUME NEW u \in Users, withdrawYield(u) PROVE IInv'
    <2>1. PICK d \in Int : d = chain.deposits[u]
      BY <1>2
    <2>2. PICK w \in Int : w = chain.events + 1
      BY <1>2
    <2>3. Call(u, "withdrawYield", d, w, FALSE)
      BY <1>5, <2>1, <2>2 DEF withdrawYield
    <2> QED  BY <2>1, <2>3, CallKeeps DEF Fns
  <1>6. ASSUME NEW u \in Users, withdrawTokensAndYield(u) PROVE IInv'
    <2>1. PICK opens \in BOOLEAN : Call(u, "withdrawTokensAndYield", False, 0, opens)
      BY <1>2, <1>6 DEF withdrawTokensAndYield
    <2>2. False \in Int /\ 0 \in Int /\ False <= 0
      BY <1>2
    <2> QED  BY <2>1, <2>2, CallKeeps DEF Fns
  <1>7. ASSUME NEW u \in Users, emergencyReturnStake(u) PROVE IInv'
    <2>1. Call(u, "emergencyReturnStake", False, 0, FALSE)
      BY <1>7 DEF emergencyReturnStake
    <2>2. False \in Int /\ 0 \in Int
      BY <1>2
    <2> QED  BY <2>1, <2>2, CallKeeps DEF Fns
  <1>8. CASE changeEmissionRate
    <2>1. Call(Nobody, "changeEmissionRate", Empty, 0, TRUE)
      BY <1>8 DEF changeEmissionRate
    <2>2. Empty \in Int /\ 0 \in Int /\ Empty # False /\ Nobody \notin Users
      BY <1>2, BoundsAssumption
    <2> QED  BY <2>1, <2>2, CallKeeps DEF Fns
  <1> QED  BY <1>3, <1>4, <1>5, <1>6, <1>7, <1>8, HandlerKeeps, ClientsKeep, WorkKeeps,
              OverwritesKeep DEF Next

\* The inductive invariant of the rows, the handler on the queue and the jobs.
THEOREM Inductive == Spec => []IInv
  BY InitIInv, NextIInv, PTL DEF Spec

\* When the queue has caught up, the API's copy of a user's stake is what the
\* contract has: no order of entries, harvests, exits and emergency returns, and
\* no job that works out yields beside the handler, makes the two part, unless a
\* job wrote older deposits or withdrawals back.
THEOREM RowsAreAsChain == Spec => []RowsAsChain
  <1>1. ASSUME IInv PROVE RowsAsChain
    <2>1. ASSUME queue = <<>>, NEW u \in Users \ lost
          PROVE  /\ row[u].withdrawals = chain.withdrawals[u]
                 /\ row[u].deposits = chain.deposits[u]
                    \/ (row[u].deposits <= 0 /\ chain.deposits[u] <= 0)
      <3>1. PICK h : HistoryOf(u, h)
        BY <1>1, <2>1 DEF IInv, RowsFollow
      <3>2. Len(queue) = 0
        BY <2>1
      <3>3. /\ SameDeposits(row[u].deposits, h[0].deposits)
            /\ row[u].withdrawals = h[0].withdrawals
            /\ h[0] = [deposits |-> chain.deposits[u], withdrawals |-> chain.withdrawals[u]]
        BY <3>1, <3>2 DEF HistoryOf
      <3>4. h[0].deposits = chain.deposits[u] /\ h[0].withdrawals = chain.withdrawals[u]
        BY <3>3
      <3> QED  BY <3>3, <3>4 DEF SameDeposits
    <2> QED  BY <2>1 DEF RowsAsChain
  <1> QED  BY <1>1, Inductive, PTL

\* A job that stops before its last client was cut short by a user who had taken
\* the stake back without the yield, or by an epoch recorded after it had read
\* them: nothing else makes getUserYield throw.
THEOREM CutsOnlyByFlightOrEpoch == Spec => CutOnlyByFlightOrEpoch
  <1> DEFINE Cut == \A j \in Jobs : jobs[j].pc = "compute" /\ jobs'[j].pc = "free" =>
                      jobs[j].user \in fled \/ meta > jobs[j].known
  <1>1. ASSUME IInv, [Next]_vars PROVE [Cut]_vars
    <2>1. SUFFICES ASSUME Next, NEW j \in Jobs, jobs[j].pc = "compute", jobs'[j].pc = "free"
                   PROVE  jobs[j].user \in fled \/ meta > jobs[j].known
      BY <1>1
    <2>2. jobs \in [Jobs -> IntJobs] /\ FalseIsFlight
      BY <1>1 DEF IInv, Types
    <2>3. jobs' # jobs
      BY <2>1
    <2>4. ASSUME NEW i \in Jobs, i # j, NEW x, jobs' = [jobs EXCEPT ![i] = x] PROVE FALSE
      BY <2>1, <2>2, <2>4
    <2>5. ASSUME NEW i \in Jobs,
                 \/ sendClientStakingUpdates(i) \/ NextClient(i) \/ SaveYield(i)
                 \/ SaveYieldAgain(i) \/ \E u \in Users : handleJoinUserYieldFeed(u, i)
          PROVE  FALSE
      <3>1. jobs[i].pc # "compute"
        BY <2>5, Constants DEF sendClientStakingUpdates, NextClient, SaveYield, SaveYieldAgain,
                                handleJoinUserYieldFeed
      <3>2. i # j
        BY <2>1, <3>1
      <3>3. jobs'[j] = jobs[j]
        BY <2>2, <2>5, <3>2 DEF sendClientStakingUpdates, NextClient, SaveYield, SaveYieldAgain,
                                handleJoinUserYieldFeed
      <3> QED  BY <2>1, <3>3
    <2>6. ASSUME NEW i \in Jobs, updateClientStakingMetrics(i)
          PROVE  jobs[j].user \in fled \/ meta > jobs[j].known
      <3>1. i = j
        <4>1. i # j => jobs'[j] = jobs[j]
          BY <2>2, <2>6 DEF updateClientStakingMetrics
        <4> QED  BY <2>1, <4>1
      <3>2. CASE getUserYieldThrows(jobs[j].copy, jobs[j].known)
        <4>1. jobs[j].copy.deposits = False \/ meta > jobs[j].known
          BY <3>2 DEF getUserYieldThrows, calculateYieldThrows
        <4> QED  BY <2>2, <4>1 DEF FalseIsFlight
      <3>3. CASE ~ getUserYieldThrows(jobs[j].copy, jobs[j].known)
        <4>1. jobs' = [jobs EXCEPT ![j].pc = "save", ![j].copy.info =
                  [deposits |-> jobs[j].copy.deposits, withdrawals |-> jobs[j].copy.withdrawals,
                   epoch |-> meta]]
          BY <2>6, <3>1, <3>3 DEF updateClientStakingMetrics
        <4>2. jobs'[j].pc = "save"
          BY <2>2, <4>1 DEF IntJobs
        <4> QED  BY <2>1, <4>2
      <3> QED  BY <3>2, <3>3
    <2>7. CASE \/ \E u \in Users : \/ addStakingTokens(u) \/ withdrawYield(u)
                                   \/ withdrawTokensAndYield(u) \/ emergencyReturnStake(u)
                                   \/ handleLeaveRoom(u)
               \/ changeEmissionRate
               \/ updateEpoch \/ saveMeta \/ findUserRow \/ updateUserStakingInfo
      <3>1. jobs' = jobs
        BY <2>7 DEF addStakingTokens, withdrawYield, withdrawTokensAndYield,
                    emergencyReturnStake, changeEmissionRate, Call, handleLeaveRoom,
                    updateEpoch, saveMeta, findUserRow, updateUserStakingInfo
      <3> QED  BY <2>3, <3>1
    <2> QED  BY <2>1, <2>5, <2>6, <2>7 DEF Next
  <1>2. Spec => [][Cut]_vars
    BY <1>1, Inductive, PTL DEF Spec
  <1> QED  BY <1>2 DEF CutOnlyByFlightOrEpoch

-----------------------------------------------------------------------------
(* Clients wait for a yield until one of the latest epoch is written *)

Recorded(x) == \E e \in epochs : x <= e

\* Epoch x is recorded, or will be with one of the first n events.
Announced(x, n) == Recorded(x) \/ \E m \in 1 .. n : queue[m].opens /\ x <= queue[m].epoch

\* Epochs are recorded before they count, and count in their order.
EpochsInOrder ==
  /\ meta \in Nat /\ Recorded(meta) /\ meta <= chain.epoch
  /\ Announced(chain.epoch, Len(queue))
  /\ \A n \in 1 .. Len(queue) :
       /\ meta <= queue[n].epoch /\ Announced(queue[n].epoch, n)
       /\ \A m \in 1 .. n : queue[m].epoch <= queue[n].epoch
  /\ handler.pc # "epoch" => queue # <<>> /\ Recorded(Head(queue).epoch)

\* Every event of the contract sets a timer.
TimersFollow ==
  /\ timers \in Nat
  /\ \A n \in 1 .. Len(queue) : queue[n].opens \/ queue[n].user # Nobody

\* A row is of an epoch that counted, and a stake has a row.
Dated(r) == r.info.epoch <= meta /\ (r.deposits > 0 => r.exists)

\* The yield of copy was worked out from read.
WorkedOut(read, copy) ==
  /\ copy.info = [deposits |-> copy.deposits, withdrawals |-> copy.withdrawals, epoch |-> copy.info.epoch]
  /\ read.deposits = copy.deposits /\ read.info.epoch <= copy.info.epoch

RowsDated ==
  /\ \A u \in Users : Dated(row[u])
  /\ Dated(handler.copy) /\ (handler.pc = "save" => handler.copy.exists)
  /\ \A j \in Jobs :
       /\ Dated(jobs[j].copy) /\ Dated(jobs[j].read)
       /\ jobs[j].pc = "compute" => jobs[j].read = jobs[j].copy
       /\ jobs[j].pc \in {"save", "again"} => WorkedOut(jobs[j].read, jobs[j].copy)

Distinct == \A m, n \in 1 .. Len(clients) : clients[m] = clients[n] => m = n

\* The row's yield is not of the latest epoch, or not of its deposits and withdrawals.
Unsettled(r) ==
  /\ r.deposits > 0
  /\ r.info # [deposits |-> r.deposits, withdrawals |-> r.withdrawals, epoch |-> meta]

\* A job that knows the latest epoch has the client still before it.
Comes(j, u) ==
  /\ jobs[j].pc # "free" /\ ~jobs[j].solo /\ meta <= jobs[j].known
  /\ \E n \in 1 .. Len(clients) : jobs[j].i < n /\ clients[n] = u

\* It is working out the client's yield.
Computes(j, u) ==
  jobs[j].pc = "compute" /\ jobs[j].user = u /\ meta <= jobs[j].known /\ jobs[j].copy.deposits # False

\* It will write the yield of the latest epoch.
Saves(j, u) == jobs[j].pc = "save" /\ jobs[j].user = u /\ ~Unsettled(jobs[j].copy)

\* The job sees to the client.
Covers(j, u) == Comes(j, u) \/ Computes(j, u) \/ Saves(j, u)

Covered(u) == queue # <<>> \/ timers > 0 \/ \E j \in Jobs : Covers(j, u)

\* The job will write an older yield over the row it has read.
Reverts(j, u) ==
  /\ jobs[j].pc \in {"save", "again"} /\ jobs[j].user = u /\ jobs[j].read = row[u]
  /\ Unsettled(jobs[j].copy)

\* The client's yield is not settled, or will not stay so.
Pending(u) == Unsettled(row[u]) \/ \E j \in Jobs : Reverts(j, u)

\* A pending client that no job has passed over is seen to.
YieldsFollow == \A u \in Clients \ late : Pending(u) => Covered(u)

\* The invariant of the yields, on top of the one of the rows.
YieldInv == EpochsInOrder /\ TimersFollow /\ RowsDated /\ Distinct /\ YieldsFollow

\* The yields' invariant holds at the start.
LEMMA InitYieldInv == Init => YieldInv
  <1> SUFFICES ASSUME Init PROVE YieldInv
    OBVIOUS
  <1>1. PICK before \in {0, 1} :
          /\ chain.epoch = before /\ epochs = 0 .. before /\ meta = before
          /\ row = [u \in Users |-> [NoRow EXCEPT !.exists = before = 1, !.deposits = before]]
    <2>1. PICK before \in {0, 1} :
            /\ \E simple \in BOOLEAN : chain =
                 [simple |-> simple, deposits |-> [u \in Users |-> before],
                  withdrawals |-> [u \in Users |-> 0], epoch |-> before, events |-> before]
            /\ epochs = 0 .. before /\ meta = before
            /\ row = [u \in Users |-> [NoRow EXCEPT !.exists = before = 1, !.deposits = before]]
      BY DEF Init
    <2>2. chain.epoch = before
      BY <2>1
    <2> QED  BY <2>1, <2>2
  <1>2. /\ queue = <<>> /\ handler = [pc |-> "epoch", copy |-> NoRow] /\ clients = <<>>
        /\ jobs = [j \in Jobs |-> Free] /\ timers = 0
        /\ Len(queue) = 0 /\ Len(clients) = 0
    BY DEF Init
  <1>3. EpochsInOrder
    BY <1>1, <1>2 DEF EpochsInOrder, Recorded, Announced
  <1>4. TimersFollow /\ Distinct /\ YieldsFollow
    BY <1>2 DEF TimersFollow, Distinct, YieldsFollow, Clients, Range
  <1>5. Dated(NoRow) /\ Free.pc = "free" /\ Free.copy = NoRow /\ Free.read = NoRow
    BY <1>1 DEF Dated, NoRow, NoInfo, Free, Empty
  <1>6. ASSUME NEW u \in Users PROVE Dated(row[u])
    <2>1. PICK there \in BOOLEAN : there = (before = 1)
      OBVIOUS
    <2>2. row[u] = [NoRow EXCEPT !.exists = there, !.deposits = before]
      BY <1>1, <2>1, Zenon
    <2>3. row[u].info = NoInfo /\ row[u].deposits = before /\ row[u].exists = there
      BY <2>2 DEF NoRow
    <2>4. NoInfo.epoch <= meta
      BY <1>1 DEF NoInfo
    <2>5. before > 0 => there
      <3>1. before > 0 => before = 1
        BY <1>1
      <3>2. before = 1 => there
        BY <2>1, Zenon
      <3> QED  BY <3>1, <3>2
    <2> QED  BY <2>3, <2>4, <2>5 DEF Dated
  <1>7. RowsDated
    BY <1>2, <1>5, <1>6 DEF RowsDated
  <1> QED  BY <1>3, <1>4, <1>7 DEF YieldInv

-----------------------------------------------------------------------------
(* The contract and the handler: a client who waits has an event or a timer *)

\* With an event or a timer to come, every client is seen to.
LEMMA EventsCover ==
  ASSUME queue # <<>> \/ timers > 0
  PROVE  YieldsFollow
  BY DEF YieldsFollow, Covered

\* A call of the contract announces its epoch, and sets a timer when it is handled.
LEMMA CallAnnounces ==
  ASSUME IInv, YieldInv, NEW u \in Users \union {Nobody}, NEW fn \in Fns, NEW d \in Int, NEW w \in Int,
         NEW opens \in BOOLEAN, Call(u, fn, d, w, opens), opens \/ u # Nobody
  PROVE  YieldInv'
  <1>1. /\ queue \in Seq(Events) /\ chain \in [simple : BOOLEAN, deposits : [Users -> Int],
              withdrawals : [Users -> Int], epoch : Nat, events : Nat]
        /\ EpochsInOrder /\ TimersFollow /\ RowsDated /\ Distinct
    BY DEF IInv, Types, YieldInv
  <1>2. PICK epoch \in Nat : epoch = IF opens THEN chain.epoch + 1 ELSE chain.epoch
    BY <1>1
  <1>3. PICK e : e = [fn |-> fn, user |-> u, deposits |-> d, withdrawals |-> w,
                      opens |-> opens, epoch |-> epoch]
    OBVIOUS
  <1>15. e \in Events /\ e.user = u /\ e.opens = opens /\ e.epoch = epoch
    <2>1. e.user = u /\ e.opens = opens /\ e.epoch = epoch
      BY <1>3
    <2>2. e \in Events
      BY <1>2, <1>3 DEF Events
    <2> QED  BY <2>1, <2>2
  <1>4. /\ queue' = Append(queue, e)
        /\ UNCHANGED <<handler, epochs, meta, row, timers, clients, jobs, lost, late>>
    BY <1>2, <1>3 DEF Call
  <1>5. chain'.epoch = epoch /\ chain.epoch <= epoch /\ (~opens => epoch = chain.epoch)
    <2>1. PICK ds : ds = [v \in Users |-> IF v = u THEN d ELSE chain.deposits[v]]
      OBVIOUS
    <2>2. PICK ws : ws = [v \in Users |-> IF v = u THEN w ELSE chain.withdrawals[v]]
      OBVIOUS
    <2>3. chain' = [chain EXCEPT !.deposits = ds, !.withdrawals = ws, !.epoch = epoch,
                                 !.events = @ + 1]
      BY <1>2, <2>1, <2>2, Zenon DEF Call
    <2>4. chain'.epoch = epoch
      BY <1>1, <2>3
    <2> QED  BY <1>1, <1>2, <2>4
  <1>6. PICK m \in Nat : m = Len(queue) /\ DOMAIN queue = 1 .. m
    BY <1>1, LenProperties
  <1>7. /\ queue' # <<>> /\ Len(queue') = m + 1 /\ queue'[m + 1] = e
        /\ \A n \in 1 .. m : queue'[n] = queue[n]
        /\ queue # <<>> => Head(queue') = Head(queue)
    BY <1>1, <1>4, <1>6, <1>15, AppendProperties, HeadTailAppend
  <1>8. /\ meta \in Nat /\ Recorded(meta) /\ meta <= chain.epoch
        /\ Announced(chain.epoch, m)
        /\ \A n \in 1 .. m : /\ meta <= queue[n].epoch /\ Announced(queue[n].epoch, n)
                             /\ queue[n].epoch \in Nat /\ queue[n].epoch <= chain.epoch
        /\ \A n \in 1 .. m : \A l \in 1 .. n : queue[l].epoch <= queue[n].epoch
    <2>1. \A n \in 1 .. m : queue[n].epoch \in 0 .. chain.epoch
      BY <1>6 DEF IInv, Types
    <2>2. \A n \in 1 .. m : queue[n].epoch \in Nat /\ queue[n].epoch <= chain.epoch
      BY <1>1, <2>1
    <2> QED  BY <1>1, <1>6, <2>2 DEF EpochsInOrder
  <1>9. Announced(epoch, m + 1)'
    <2>1. CASE opens
      <3>1. m + 1 \in 1 .. m + 1 /\ queue'[m + 1].opens /\ epoch <= queue'[m + 1].epoch
        BY <1>7, <1>15, <2>1
      <3> QED  BY <3>1 DEF Announced
    <2>2. CASE ~opens
      <3>1. Recorded(epoch) \/ \E k \in 1 .. m : queue[k].opens /\ epoch <= queue[k].epoch
        BY <1>5, <1>8, <2>2 DEF Announced
      <3> QED  BY <1>4, <1>7, <3>1, <1>6 DEF Announced, Recorded
    <2> QED  BY <2>1, <2>2
  <1>10. ASSUME NEW n \in 1 .. m + 1
         PROVE  /\ meta <= queue'[n].epoch /\ Announced(queue[n].epoch, n)'
                /\ \A l \in 1 .. n : queue'[l].epoch <= queue'[n].epoch
    <2>1. CASE n \in 1 .. m
      <3>1. PICK x : x = queue[n].epoch
        OBVIOUS
      <3>2. Recorded(x) \/ \E k \in 1 .. n : queue[k].opens /\ x <= queue[k].epoch
        BY <1>8, <2>1, <3>1 DEF Announced
      <3>3. Announced(x, n)'
        BY <1>4, <1>6, <1>7, <2>1, <3>2 DEF Announced, Recorded
      <3>4. x = queue'[n].epoch
        BY <1>7, <2>1, <3>1
      <3> QED  BY <1>6, <1>7, <1>8, <2>1, <3>1, <3>3, <3>4
    <2>2. CASE n = m + 1
      <3>1. queue'[n].epoch = epoch
        BY <1>7, <1>15, <2>2
      <3>2. \A l \in 1 .. n : l \in 1 .. m \/ l = n
        BY <1>6, <2>2
      <3>3. \A l \in 1 .. m : queue'[l].epoch <= epoch
        BY <1>1, <1>5, <1>7, <1>8
      <3>4. meta <= epoch
        BY <1>1, <1>5, <1>8
      <3>5. Announced(queue[n].epoch, n)'
        BY <1>9, <2>2, <3>1
      <3> QED  BY <3>1, <3>2, <3>3, <3>4, <3>5
    <2> QED  BY <1>6, <2>1, <2>2
  <1>11. EpochsInOrder'
    <2>1. handler.pc # "epoch" => queue # <<>> /\ Recorded(Head(queue).epoch)
      BY <1>1 DEF EpochsInOrder
    <2>2. /\ Recorded(meta)' /\ (handler'.pc # "epoch" => queue' # <<>> /\ Recorded(Head(queue).epoch)')
      BY <1>4, <1>7, <1>8, <2>1 DEF Recorded
    <2>3. Announced(chain.epoch, Len(queue))'
      BY <1>5, <1>7, <1>9
    <2>4. meta' \in Nat /\ meta' <= chain'.epoch
      BY <1>1, <1>4, <1>5, <1>8
    <2> QED  BY <1>4, <1>7, <1>10, <2>2, <2>3, <2>4 DEF EpochsInOrder
  <1>12. TimersFollow'
    BY <1>1, <1>4, <1>6, <1>7, <1>15 DEF TimersFollow
  <1>13. RowsDated'
    BY <1>1, <1>4 DEF RowsDated, Dated, WorkedOut
  <1>14. Distinct' /\ YieldsFollow'
    <2>1. Distinct'
      BY <1>1, <1>4 DEF Distinct
    <2>2. \A y : Covered(y)'
      BY <1>7 DEF Covered
    <2> QED  BY <2>1, <2>2 DEF YieldsFollow
  <1> QED  BY <1>11, <1>12, <1>13, <1>14 DEF YieldInv

\* The first event of the queue, and what is known of its epoch.
LEMMA FirstEvent ==
  ASSUME IInv, YieldInv, queue # <<>>
  PROVE  \E m \in Nat :
           /\ m + 1 = Len(queue) /\ Head(queue) = queue[1] /\ Head(queue) \in Events
           /\ meta <= Head(queue).epoch /\ Head(queue).epoch <= chain.epoch
           /\ Head(queue).epoch \in Nat
           /\ Announced(Head(queue).epoch, 1)
           /\ Head(queue).opens \/ Head(queue).user # Nobody
  <1>1. queue \in Seq(Events) /\ EpochsInOrder /\ TimersFollow
        /\ chain.epoch \in Nat /\ \A n \in DOMAIN queue : queue[n].epoch \in 0 .. chain.epoch
    BY DEF IInv, Types, YieldInv
  <1>2. Len(queue) \in Nat \ {0} /\ DOMAIN queue = 1 .. Len(queue)
        /\ Head(queue) = queue[1] /\ Head(queue) \in Events
    <2>1. Head(queue) = queue[1] /\ Head(queue) \in Events
      BY <1>1, HeadTailProperties
    <2>2. Len(queue) \in Nat /\ DOMAIN queue = 1 .. Len(queue)
      BY <1>1, LenProperties
    <2>3. Len(queue) # 0
      BY <1>1, EmptySeq, Zenon
    <2> QED  BY <2>1, <2>2, <2>3
  <1>3. PICK m \in Nat : m + 1 = Len(queue)
    <2>1. Len(queue) - 1 \in Nat /\ Len(queue) - 1 + 1 = Len(queue)
      BY <1>2
    <2> QED  BY <2>1
  <1>4. 1 \in 1 .. Len(queue)
    BY <1>2
  <1>5. meta <= queue[1].epoch /\ Announced(queue[1].epoch, 1)
        /\ (queue[1].opens \/ queue[1].user # Nobody)
    BY <1>1, <1>4 DEF EpochsInOrder, TimersFollow
  <1>6. queue[1].epoch \in Nat /\ queue[1].epoch <= chain.epoch
    BY <1>1, <1>2, <1>4
  <1> QED  BY <1>2, <1>3, <1>5, <1>6, Zenon

\* Once the first event's epoch is recorded and counts, the rest of the queue is in order.
LEMMA DoneInOrder ==
  ASSUME IInv, YieldInv, queue # <<>>, Done(Head(queue)), UNCHANGED <<chain, epochs>>,
         Recorded(Head(queue).epoch), meta' = Head(queue).epoch \/ meta' = meta
  PROVE  EpochsInOrder' /\ TimersFollow' /\ timers' > 0
  <1>1. queue \in Seq(Events) /\ EpochsInOrder /\ TimersFollow
        /\ chain.epoch \in Nat /\ epochs \subseteq 0 .. chain.epoch
        /\ \A n \in DOMAIN queue : queue[n].epoch \in 0 .. chain.epoch
    BY DEF IInv, Types, YieldInv
  <1>2. PICK m \in Nat :
           /\ m + 1 = Len(queue) /\ Head(queue) = queue[1] /\ Head(queue) \in Events
           /\ meta <= Head(queue).epoch /\ Head(queue).epoch <= chain.epoch
           /\ Head(queue).epoch \in Nat
           /\ Head(queue).opens \/ Head(queue).user # Nobody
    BY FirstEvent
  <1>3. PICK e : e = Head(queue)
    OBVIOUS
  <1>4. /\ queue' = Tail(queue) /\ handler'.pc = "epoch"
        /\ timers' = timers + TimersOf(e)
    BY <1>3 DEF Done
  <1>5. /\ Len(queue') = m /\ \A n \in 1 .. m : queue'[n] = queue[n + 1]
    BY <1>1, <1>2, <1>4, HeadTailProperties
  <1>6. PICK b \in Nat : b \in epochs /\ e.epoch <= b
    BY <1>1, <1>3 DEF Recorded
  <1>7. /\ \A n \in 1 .. m + 1 : queue[n].epoch \in Nat /\ queue[n].epoch <= chain.epoch
        /\ \A n \in 1 .. m + 1 : \A l \in 1 .. n : queue[l].epoch <= queue[n].epoch
        /\ \A n \in 1 .. m + 1 : queue[n].opens \/ queue[n].user # Nobody
        /\ timers \in Nat /\ meta \in Nat /\ Recorded(meta)
    <2>1. DOMAIN queue = 1 .. m + 1
      BY <1>1, <1>2, LenProperties
    <2>2. \A n \in 1 .. m + 1 : queue[n].epoch \in Nat /\ queue[n].epoch <= chain.epoch
      BY <1>1, <2>1
    <2> QED  BY <1>1, <1>2, <2>2 DEF EpochsInOrder, TimersFollow
  <1>8. ASSUME NEW n \in 1 .. m + 1, NEW x \in Nat,
               Recorded(x) \/ \E k \in 1 .. n : queue[k].opens /\ x <= queue[k].epoch
        PROVE  Recorded(x) \/ \E k \in 1 .. n - 1 : queue'[k].opens /\ x <= queue'[k].epoch
    <2>1. SUFFICES ASSUME NEW k \in 1 .. n, queue[k].opens, x <= queue[k].epoch
                   PROVE  Recorded(x) \/ \E l \in 1 .. n - 1 : queue'[l].opens /\ x <= queue'[l].epoch
      BY <1>8
    <2>2. CASE k = 1
      <3>1. x <= e.epoch
        BY <1>2, <1>3, <2>1, <2>2
      <3>2. x <= b
        BY <1>2, <1>3, <1>6, <3>1
      <3> QED  BY <1>6, <3>2 DEF Recorded
    <2>3. CASE k # 1
      <3>1. k - 1 \in 1 .. n - 1 /\ k - 1 \in 1 .. m /\ k - 1 + 1 = k
        BY <2>3
      <3>2. queue'[k - 1] = queue[k]
        BY <1>5, <3>1
      <3> QED  BY <2>1, <3>1, <3>2
    <2> QED  BY <2>2, <2>3
  <1>9. Announced(chain.epoch, Len(queue))'
    <2>1. PICK x \in Nat : x = chain.epoch
      BY <1>1
    <2>2. m + 1 \in 1 .. m + 1 /\ m + 1 - 1 = m
      OBVIOUS
    <2>3. Recorded(x) \/ \E k \in 1 .. m + 1 : queue[k].opens /\ x <= queue[k].epoch
      BY <1>1, <1>2, <2>1 DEF EpochsInOrder, Announced
    <2>4. Recorded(x) \/ \E k \in 1 .. m : queue'[k].opens /\ x <= queue'[k].epoch
      BY <1>8, <2>2, <2>3
    <2>5. Recorded(x)' \/ \E k \in 1 .. m : queue'[k].opens /\ x <= queue'[k].epoch
      BY <2>4 DEF Recorded
    <2>6. chain'.epoch = x /\ Len(queue') = m
      BY <1>5, <2>1
    <2> QED  BY <2>5, <2>6 DEF Announced
  <1>10. meta' \in Nat /\ meta' <= chain'.epoch /\ Recorded(meta)' /\ meta' <= e.epoch
    <2>1. meta <= chain.epoch
      BY <1>1 DEF EpochsInOrder
    <2>2. Recorded(meta)'
      BY <1>7 DEF Recorded
    <2> QED  BY <1>2, <1>3, <1>7, <2>1, <2>2
  <1>11. ASSUME NEW n \in 1 .. m
         PROVE  /\ meta' <= queue'[n].epoch /\ Announced(queue[n].epoch, n)'
                /\ \A l \in 1 .. n : queue'[l].epoch <= queue'[n].epoch
    <2>1. n + 1 \in 1 .. m + 1 /\ queue'[n] = queue[n + 1] /\ 1 \in 1 .. n + 1
          /\ n + 1 - 1 = n
      BY <1>5
    <2>2. PICK x \in Nat : x = queue[n + 1].epoch
      BY <1>7, <2>1
    <2>3. \A l \in 1 .. n : l + 1 \in 1 .. n + 1 /\ queue'[l] = queue[l + 1]
      BY <1>5
    <2>4. meta' <= x
      <3>1. e.epoch <= x
        BY <1>2, <1>3, <1>7, <2>1, <2>2
      <3> QED  BY <1>2, <1>3, <1>10, <3>1
    <2>5. Recorded(x) \/ \E k \in 1 .. n + 1 : queue[k].opens /\ x <= queue[k].epoch
      BY <1>1, <1>2, <2>1, <2>2 DEF EpochsInOrder, Announced
    <2>6. Recorded(x) \/ \E k \in 1 .. n : queue'[k].opens /\ x <= queue'[k].epoch
      BY <1>8, <2>1, <2>5
    <2>7. Announced(queue[n].epoch, n)'
      <3>1. Recorded(x)' \/ \E k \in 1 .. n : queue'[k].opens /\ x <= queue'[k].epoch
        BY <2>6 DEF Recorded
      <3>2. queue'[n].epoch = x
        BY <2>1, <2>2
      <3> QED  BY <3>1, <3>2 DEF Announced
    <2>8. \A l \in 1 .. n : queue'[l].epoch <= queue'[n].epoch
      BY <1>7, <2>1, <2>3
    <2> QED  BY <2>1, <2>2, <2>4, <2>7, <2>8
  <1>12. EpochsInOrder'
    BY <1>4, <1>5, <1>9, <1>10, <1>11 DEF EpochsInOrder
  <1>13. TimersOf(e) \in Nat \ {0}
    <2>1. e.opens \/ e.user # Nobody
      BY <1>2, <1>3
    <2> QED  BY <2>1 DEF TimersOf
  <1>14. timers' \in Nat /\ timers' > 0
    BY <1>4, <1>7, <1>13
  <1>15. TimersFollow'
    <2>1. \A n \in 1 .. m : n + 1 \in 1 .. m + 1 /\ queue'[n] = queue[n + 1]
      BY <1>5
    <2> QED  BY <1>5, <1>7, <1>14, <2>1 DEF TimersFollow
  <1> QED  BY <1>12, <1>14, <1>15

\* A row is of an epoch that counts also when more epochs do.
LEMMA DatedLater ==
  ASSUME IInv, meta' \in Nat, meta <= meta', UNCHANGED <<row, jobs>>, RowsDated
  PROVE  /\ \A u \in Users : Dated(row[u])'
         /\ \A j \in Jobs :
              /\ Dated(jobs[j].copy)' /\ Dated(jobs[j].read)'
              /\ jobs'[j].pc = "compute" => jobs'[j].read = jobs'[j].copy
              /\ jobs'[j].pc \in {"save", "again"} => WorkedOut(jobs'[j].read, jobs'[j].copy)
  <1>1. meta \in Nat /\ row \in [Users -> IntRows] /\ jobs \in [Jobs -> IntJobs]
    BY DEF IInv, Types
  <1>2. ASSUME NEW r \in IntRows, Dated(r)
        PROVE  Dated(r)'
    BY <1>1, <1>2 DEF Dated, IntRows
  <1>3. ASSUME NEW u \in Users PROVE Dated(row[u])'
    <2>1. PICK r \in IntRows : r = row[u]
      BY <1>1
    <2>2. Dated(r)'
      BY <1>2, <2>1 DEF RowsDated
    <2> QED  BY <2>1, <2>2 DEF Dated
  <1>4. ASSUME NEW j \in Jobs PROVE Dated(jobs[j].copy)' /\ Dated(jobs[j].read)'
    <2>1. PICK c \in IntRows : c = jobs[j].copy
      BY <1>1 DEF IntJobs
    <2>2. PICK r \in IntRows : r = jobs[j].read
      BY <1>1 DEF IntJobs
    <2>3. Dated(c)' /\ Dated(r)'
      BY <1>2, <2>1, <2>2 DEF RowsDated
    <2> QED  BY <2>1, <2>2, <2>3 DEF Dated
  <1> QED  BY <1>3, <1>4 DEF RowsDated

\* The constant row is of no epoch.
LEMMA NoRowDated ==
  ASSUME meta \in Nat
  PROVE  Dated(NoRow)
  BY DEF Dated, NoRow, NoInfo, Empty

\* An epoch is recorded, and then it counts.
LEMMA EpochsYields ==
  ASSUME IInv, YieldInv, updateEpoch \/ saveMeta
  PROVE  YieldInv'
  <1>1. /\ EpochsInOrder /\ TimersFollow /\ RowsDated /\ Distinct /\ meta \in Nat
        /\ handler \in [pc : {"epoch", "meta", "find", "save"}, copy : IntRows]
        /\ queue # <<>> /\ UNCHANGED <<chain, row, clients, jobs, late>>
    BY DEF IInv, Types, YieldInv, updateEpoch, saveMeta, At, Ghosts
  <1>2. PICK e : e = Head(queue)
    OBVIOUS
  <1>3. /\ e = queue[1] /\ meta <= e.epoch /\ e.epoch <= chain.epoch /\ e.epoch \in Nat
        /\ Announced(e.epoch, 1) /\ 1 \in 1 .. Len(queue)
    BY <1>1, <1>2, FirstEvent
  <1>4. Distinct'
    BY <1>1 DEF Distinct
  <1>5. CASE updateEpoch
    <2>1. /\ handler' = [handler EXCEPT !.pc = "meta"] /\ UNCHANGED <<queue, meta, timers>>
          /\ epochs' = IF e.opens THEN epochs \union {e.epoch} ELSE epochs
      BY <1>2, <1>5 DEF updateEpoch, Goto
    <2>2. handler'.pc = "meta" /\ handler'.copy = handler.copy
      BY <1>1, <2>1
    <2>3. ASSUME NEW x, Recorded(x) PROVE Recorded(x)'
      BY <2>1, <2>3 DEF Recorded
    <2>4. ASSUME NEW x, NEW n, Announced(x, n) PROVE Announced(x, n)'
      BY <2>1, <2>4 DEF Announced, Recorded
    <2>5. Recorded(Head(queue).epoch)'
      <3>1. Recorded(e.epoch) \/ e.opens
        BY <1>3 DEF Announced
      <3>2. e.opens => e.epoch \in epochs'
        BY <2>1
      <3>3. (\E d \in epochs : e.epoch <= d) => \E d \in epochs' : e.epoch <= d
        BY <2>1
      <3>4. \E d \in epochs' : e.epoch <= d
        BY <1>3, <3>1, <3>2, <3>3 DEF Recorded
      <3> QED  BY <1>2, <2>1, <3>4 DEF Recorded
    <2>6. EpochsInOrder'
      <3>1. PICK m : m = Len(queue)
        OBVIOUS
      <3>2. /\ Recorded(meta) /\ meta <= chain.epoch /\ Announced(chain.epoch, m)
            /\ \A n \in 1 .. m : meta <= queue[n].epoch /\ Announced(queue[n].epoch, n)
            /\ \A n \in 1 .. m : \A l \in 1 .. n : queue[l].epoch <= queue[n].epoch
        BY <1>1, <3>1 DEF EpochsInOrder
      <3>3. Recorded(meta)'
        <4>1. PICK x : x = meta
          OBVIOUS
        <4>2. Recorded(x)'
          BY <2>3, <3>2, <4>1
        <4> QED  BY <2>1, <4>1, <4>2 DEF Recorded
      <3>4. Announced(chain.epoch, Len(queue))'
        <4>1. PICK x : x = chain.epoch
          OBVIOUS
        <4>2. Announced(x, m)'
          BY <2>4, <3>2, <4>1
        <4> QED  BY <1>1, <2>1, <3>1, <4>1, <4>2 DEF Announced, Recorded
      <3>5. ASSUME NEW n \in 1 .. m PROVE Announced(queue[n].epoch, n)'
        <4>1. PICK x : x = queue[n].epoch
          OBVIOUS
        <4>2. Announced(x, n)'
          BY <2>4, <3>2, <4>1
        <4> QED  BY <2>1, <4>1, <4>2 DEF Announced, Recorded
      <3>6. Len(queue') = m /\ \A n \in 1 .. m : queue'[n] = queue[n]
        BY <2>1, <3>1
      <3> QED  BY <1>1, <2>1, <2>5, <3>2, <3>3, <3>4, <3>5, <3>6 DEF EpochsInOrder
    <2>7. TimersFollow'
      BY <1>1, <2>1 DEF TimersFollow
    <2>8. RowsDated'
      <3>1. Dated(handler.copy)'
        BY <1>1, <2>1, <2>2 DEF RowsDated, Dated
      <3> QED  BY <1>1, <2>1, <2>2, <3>1 DEF RowsDated, Dated, WorkedOut
    <2>9. YieldsFollow'
      BY <1>1, <2>1 DEF YieldsFollow, Covered
    <2> QED  BY <1>4, <2>6, <2>7, <2>8, <2>9 DEF YieldInv
  <1>6. CASE saveMeta
    <2>1. /\ handler.pc = "meta" /\ meta' = e.epoch /\ UNCHANGED epochs
      BY <1>2, <1>6 DEF saveMeta, At
    <2>2. Recorded(e.epoch)
      BY <1>1, <1>2, <2>1 DEF EpochsInOrder
    <2>3. Dated(handler.copy)
      BY <1>1 DEF RowsDated
    <2>4. ASSUME Dated(handler'.copy), handler'.copy \in IntRows, handler'.pc # "save"
          PROVE  RowsDated'
      <3>1. Dated(handler.copy)'
        <4>1. PICK c \in IntRows : c = handler'.copy
          BY <2>4
        <4>2. Dated(c)
          BY <2>4, <4>1
        <4>3. Dated(c)'
          BY <1>1, <1>3, <2>1, <4>2 DEF Dated, IntRows
        <4> QED  BY <4>1, <4>3 DEF Dated
      <3>2. meta' \in Nat /\ meta <= meta' /\ UNCHANGED <<row, jobs>>
        BY <1>1, <1>3, <2>1
      <3> QED  BY <1>1, <2>4, <3>1, <3>2, DatedLater DEF RowsDated
    <2>5. CASE Head(queue).user = Nobody
      <3>1. Done(Head(queue))
        BY <1>6, <2>5 DEF saveMeta
      <3>2. EpochsInOrder' /\ TimersFollow' /\ timers' > 0
        BY <1>1, <1>2, <2>1, <2>2, <3>1, DoneInOrder
      <3>3. handler'.copy = NoRow /\ handler'.pc = "epoch"
        BY <3>1 DEF Done
      <3>4. RowsDated'
        BY <1>1, <2>4, <3>3, NoRowDated, Constants
      <3>5. YieldsFollow'
        BY <3>2 DEF YieldsFollow, Covered
      <3> QED  BY <1>4, <3>2, <3>4, <3>5 DEF YieldInv
    <2>6. CASE Head(queue).user # Nobody
      <3>1. UNCHANGED <<queue, timers>> /\ handler' = [handler EXCEPT !.pc = "find"]
        BY <1>6, <2>6 DEF saveMeta, Goto
      <3>2. handler'.pc = "find" /\ handler'.copy = handler.copy
        BY <1>1, <3>1
      <3>3. RowsDated'
        <4>1. Dated(handler'.copy) /\ handler'.copy \in IntRows
          BY <1>1, <2>3, <3>2
        <4> QED  BY <2>4, <3>2, <4>1
      <3>4. EpochsInOrder'
        <4>1. PICK m : m = Len(queue)
          OBVIOUS
        <4>2. /\ Announced(chain.epoch, m)
              /\ \A n \in 1 .. m : meta <= queue[n].epoch /\ Announced(queue[n].epoch, n)
              /\ \A n \in 1 .. m : \A l \in 1 .. n : queue[l].epoch <= queue[n].epoch
          BY <1>1, <4>1 DEF EpochsInOrder
        <4>3. Len(queue') = m /\ \A n \in 1 .. m : queue'[n] = queue[n]
          BY <3>1, <4>1
        <4>4. Announced(chain.epoch, Len(queue))'
          BY <1>1, <2>1, <3>1, <4>1, <4>2 DEF Announced, Recorded
        <4>5. ASSUME NEW n \in 1 .. m
              PROVE  /\ meta' <= queue'[n].epoch /\ Announced(queue[n].epoch, n)'
                     /\ \A l \in 1 .. n : queue'[l].epoch <= queue'[n].epoch
          <5>1. Announced(queue[n].epoch, n)'
            BY <2>1, <3>1, <4>2 DEF Announced, Recorded
          <5>2. 1 \in 1 .. n
            OBVIOUS
          <5> QED  BY <1>2, <1>3, <2>1, <4>2, <4>3, <5>1, <5>2
        <4>6. Recorded(meta)' /\ queue' # <<>> /\ Recorded(Head(queue).epoch)'
          BY <1>1, <1>2, <2>1, <2>2, <3>1 DEF Recorded
        <4>7. meta' \in Nat /\ meta' <= chain'.epoch
          BY <1>1, <1>3, <2>1
        <4> QED  BY <4>3, <4>4, <4>5, <4>6, <4>7 DEF EpochsInOrder
      <3>5. TimersFollow'
        BY <1>1, <3>1 DEF TimersFollow
      <3>6. YieldsFollow'
        BY <1>1, <3>1 DEF YieldsFollow, Covered
      <3> QED  BY <1>4, <3>3, <3>4, <3>5, <3>6 DEF YieldInv
    <2> QED  BY <2>5, <2>6
  <1> QED  BY <1>5, <1>6

\* The row is read and written back: it stays of an epoch that counts.
LEMMA RowsYields ==
  ASSUME IInv, YieldInv, findUserRow \/ updateUserStakingInfo
  PROVE  YieldInv'
  <1> DEFINE v == Head(queue).user
  <1>1. /\ EpochsInOrder /\ TimersFollow /\ RowsDated /\ Distinct /\ meta \in Nat
        /\ handler \in [pc : {"epoch", "meta", "find", "save"}, copy : IntRows]
        /\ row \in [Users -> IntRows]
        /\ queue # <<>> /\ v \in Users /\ queue \in Seq(Events)
        /\ UNCHANGED <<chain, epochs, meta, clients, jobs, late>>
    BY DEF IInv, Types, YieldInv, findUserRow, updateUserStakingInfo, At, Ghosts
  <1>2. Distinct'
    BY <1>1 DEF Distinct
  <1>3. ASSUME NEW r, Dated(r) PROVE Dated(r)'
    BY <1>1, <1>3 DEF Dated
  <1>4. /\ \A j \in Jobs :
             /\ Dated(jobs[j].copy)' /\ Dated(jobs[j].read)'
             /\ jobs'[j].pc = "compute" => jobs'[j].read = jobs'[j].copy
             /\ jobs'[j].pc \in {"save", "again"} => WorkedOut(jobs'[j].read, jobs'[j].copy)
    BY <1>1 DEF RowsDated, Dated
  <1>5. CASE findUserRow
    <2>1. /\ handler' = [pc |-> "save", copy |-> [row[v] EXCEPT !.exists = TRUE]]
          /\ UNCHANGED <<queue, row, timers>> /\ handler.pc = "find"
      BY <1>5 DEF findUserRow, At
    <2>2. PICK c \in IntRows : c = row[v]
      BY <1>1
    <2>3. PICK d : d = [c EXCEPT !.exists = TRUE]
      OBVIOUS
    <2>4. d.info = c.info /\ d.exists /\ d.deposits = c.deposits
      BY <2>3 DEF IntRows
    <2>5. handler'.pc = "save" /\ handler'.copy = d
      BY <2>1, <2>2, <2>3
    <2>6. Dated(d)
      <3>1. Dated(c)
        BY <1>1, <2>2 DEF RowsDated
      <3> QED  BY <2>4, <3>1 DEF Dated
    <2>7. RowsDated'
      <3>1. Dated(handler.copy)' /\ (handler'.pc = "save" => handler'.copy.exists)
        BY <1>1, <2>4, <2>5, <2>6 DEF Dated
      <3>2. \A u \in Users : Dated(row[u])'
        BY <1>1, <2>1 DEF RowsDated, Dated
      <3> QED  BY <1>4, <3>1, <3>2 DEF RowsDated
    <2>8. EpochsInOrder'
      <3>1. Recorded(Head(queue).epoch)
        BY <1>1, <2>1 DEF EpochsInOrder
      <3>2. queue' # <<>> /\ Recorded(Head(queue).epoch)'
        BY <1>1, <2>1, <3>1 DEF Recorded
      <3> HIDE DEF v
      <3> QED  BY <1>1, <2>1, <3>2 DEF EpochsInOrder, Announced, Recorded
    <2>9. TimersFollow' /\ YieldsFollow'
      BY <1>1, <2>1 DEF TimersFollow, YieldsFollow, Covered
    <2> QED  BY <1>2, <2>7, <2>8, <2>9 DEF YieldInv
  <1>6. CASE updateUserStakingInfo
    <2> DEFINE saved == Updated(Head(queue), handler.copy)
    <2>1. /\ handler.pc = "save" /\ Done(Head(queue)) /\ row' = [row EXCEPT ![v] = saved]
      BY <1>6 DEF updateUserStakingInfo, At
    <2>2. Dated(saved)
      <3>1. PICK c \in IntRows : c = handler.copy /\ c.exists /\ Dated(c)
        BY <1>1, <2>1 DEF RowsDated
      <3>2. PICK e \in Events : e = Head(queue)
        BY <1>1, HeadTailProperties
      <3>3. CASE e.fn = "withdrawTokensAndYield"
        <4>1. saved = [c EXCEPT !.deposits = 0, !.withdrawals = 0, !.info = NoInfo]
          BY <3>1, <3>2, <3>3, Constants DEF Updated
        <4> HIDE DEF saved
        <4>2. saved.info = NoInfo /\ saved.exists
          BY <3>1, <4>1 DEF IntRows
        <4> QED  BY <1>1, <4>2 DEF Dated, NoInfo
      <3>4. CASE e.fn # "withdrawTokensAndYield"
        <4>1. PICK d : d = IF e.fn = "withdrawYield" THEN c.deposits ELSE e.deposits
          OBVIOUS
        <4>2. PICK w : w = IF e.fn = "addStakingTokens" THEN c.withdrawals ELSE e.withdrawals
          OBVIOUS
        <4>3. saved = [c EXCEPT !.deposits = d, !.withdrawals = w]
          BY <3>1, <3>2, <3>4, <4>1, <4>2 DEF Updated
        <4> HIDE DEF saved
        <4>4. saved.info = c.info /\ saved.exists
          BY <3>1, <4>3 DEF IntRows
        <4> QED  BY <3>1, <4>4 DEF Dated
      <3> QED  BY <3>3, <3>4
    <2> HIDE DEF saved
    <2>3. EpochsInOrder' /\ TimersFollow' /\ timers' > 0
      <3>1. Recorded(Head(queue).epoch)
        BY <1>1, <2>1 DEF EpochsInOrder
      <3> HIDE DEF v
      <3>2. UNCHANGED <<chain, epochs>> /\ meta' = meta
        BY <1>1
      <3> QED  BY <1>1, <2>1, <3>1, <3>2, DoneInOrder
    <2>4. RowsDated'
      <3>1. handler'.copy = NoRow /\ handler'.pc = "epoch"
        BY <2>1 DEF Done
      <3>2. Dated(handler.copy)'
        BY <1>1, <3>1, NoRowDated DEF Dated
      <3>3. ASSUME NEW u \in Users PROVE Dated(row[u])'
        <4>1. PICK r : r = row'[u]
          OBVIOUS
        <4>2. r = row[u] \/ r = saved
          BY <1>1, <2>1, <4>1
        <4>3. Dated(r)
          BY <1>1, <2>2, <4>2 DEF RowsDated
        <4> QED  BY <1>1, <4>1, <4>3 DEF Dated
      <3> QED  BY <1>4, <3>1, <3>2, <3>3 DEF RowsDated
    <2>5. YieldsFollow'
      BY <2>3 DEF YieldsFollow, Covered
    <2> QED  BY <1>2, <2>3, <2>4, <2>5 DEF YieldInv
  <1> QED  BY <1>5, <1>6

-----------------------------------------------------------------------------
(* The clients and the jobs: who waits for a yield is seen to *)

\* Who waits has a row, with a stake.
LEMMA PendingHasRow ==
  ASSUME IInv, YieldInv, NEW u \in Users, Pending(u)
  PROVE  row[u].deposits > 0 /\ row[u].exists
  <1>1. RowsDated
    BY DEF YieldInv
  <1>2. row[u].deposits > 0
    <2>1. CASE Unsettled(row[u])
      BY <2>1 DEF Unsettled
    <2>2. ASSUME NEW j \in Jobs, Reverts(j, u) PROVE row[u].deposits > 0
      <3>1. WorkedOut(jobs[j].read, jobs[j].copy)
        BY <1>1, <2>2 DEF RowsDated, Reverts
      <3> QED  BY <2>2, <3>1 DEF Reverts, WorkedOut, Unsettled
    <2> QED  BY <2>1, <2>2 DEF Pending
  <1> QED  BY <1>1, <1>2 DEF RowsDated, Dated

\* A job that is left alone still sees to whom it saw to.
LEMMA CoversStays ==
  ASSUME NEW i \in Jobs, NEW u, Covers(i, u), jobs'[i] = jobs[i], meta' = meta,
         Len(clients) \in Nat, Len(clients') \in Nat,
         \A n \in 1 .. Len(clients) : n \in 1 .. Len(clients') /\ clients'[n] = clients[n]
  PROVE  Covers(i, u)'
  <1>1. CASE Comes(i, u)
    <2>1. PICK n \in 1 .. Len(clients) : jobs[i].i < n /\ clients[n] = u
      BY <1>1 DEF Comes
    <2>2. n \in 1 .. Len(clients') /\ jobs'[i].i < n /\ clients'[n] = u
      BY <2>1
    <2> QED  BY <1>1, <2>2 DEF Covers, Comes
  <1>2. CASE Computes(i, u) \/ Saves(i, u)
    BY <1>2 DEF Covers, Computes, Saves, Unsettled
  <1> QED  BY <1>1, <1>2 DEF Covers

\* What the queue and the timers keep while only the panel and its jobs move.
LEMMA IndexStays ==
  ASSUME YieldInv, UNCHANGED <<chain, queue, handler, epochs, meta, timers>>
  PROVE  EpochsInOrder' /\ TimersFollow'
  BY DEF YieldInv, EpochsInOrder, TimersFollow, Announced, Recorded

\* The rows stay dated when one job, j, changes to x, and a row to one that is dated.
LEMMA DatedStays ==
  ASSUME IInv, YieldInv, UNCHANGED <<handler, meta>>,
         NEW w, NEW r, Dated(r), row' = row \/ row' = [row EXCEPT ![w] = r],
         NEW j \in Jobs, NEW x, jobs' = [jobs EXCEPT ![j] = x],
         Dated(x.copy), Dated(x.read), x.pc = "compute" => x.read = x.copy,
         x.pc \in {"save", "again"} => WorkedOut(x.read, x.copy)
  PROVE  RowsDated'
  <1>1. RowsDated /\ row \in [Users -> IntRows] /\ jobs \in [Jobs -> IntJobs]
    BY DEF YieldInv, IInv, Types
  <1>2. ASSUME NEW u \in Users PROVE Dated(row[u])'
    <2>1. PICK q : q = row'[u]
      OBVIOUS
    <2>2. q = row[u] \/ q = r
      BY <1>1, <2>1
    <2>3. Dated(q)
      BY <1>1, <2>2 DEF RowsDated
    <2> QED  BY <2>1, <2>3 DEF Dated
  <1>3. ASSUME NEW i \in Jobs
        PROVE  /\ Dated(jobs[i].copy)' /\ Dated(jobs[i].read)'
               /\ jobs'[i].pc = "compute" => jobs'[i].read = jobs'[i].copy
               /\ jobs'[i].pc \in {"save", "again"} => WorkedOut(jobs'[i].read, jobs'[i].copy)
    <2>1. CASE i = j
      <3>1. jobs'[i] = x
        BY <1>1, <2>1
      <3> QED  BY <3>1 DEF Dated
    <2>2. CASE i # j
      <3>1. jobs'[i] = jobs[i]
        BY <1>1, <2>2
      <3> QED  BY <1>1, <3>1 DEF Dated, RowsDated
    <2> QED  BY <2>1, <2>2
  <1>4. Dated(handler.copy)' /\ (handler'.pc = "save" => handler'.copy.exists)
    BY <1>1 DEF RowsDated, Dated
  <1> QED  BY <1>2, <1>3, <1>4 DEF RowsDated

\* A free job has read nothing.
LEMMA FreeDated ==
  ASSUME meta \in Nat
  PROVE  /\ Dated(Free.copy) /\ Dated(Free.read) /\ Free.pc = "free" /\ ~Free.solo
         /\ Free.i = 0 /\ Free \in IntJobs
  BY NoRowDated, Constants DEF Free

\* A timer starts a job that has every client before it.
LEMMA StartYields ==
  ASSUME IInv, YieldInv, NEW j \in Jobs, sendClientStakingUpdates(j)
  PROVE  YieldInv'
  <1> DEFINE x == [Free EXCEPT !.pc = "next", !.known = NewestEpoch]
  <1>1. /\ Types /\ meta \in Nat /\ jobs \in [Jobs -> IntJobs] /\ clients \in Seq(Users)
        /\ timers \in Nat /\ EpochsInOrder /\ Distinct /\ RowsDated /\ TimersFollow
        /\ epochs \subseteq 0 .. chain.epoch /\ chain.epoch \in Nat
    BY DEF IInv, Types, YieldInv, TimersFollow
  <1>2. /\ timers > 0 /\ timers' = timers - 1 /\ jobs' = [jobs EXCEPT ![j] = x]
        /\ UNCHANGED <<chain, queue, handler, epochs, meta, row, clients, late>>
    BY DEF sendClientStakingUpdates, Ghosts
  <1>3. NewestEpoch \in Int /\ meta <= NewestEpoch
    <2>1. NewestEpoch \in Int /\ \A e \in epochs : e <= NewestEpoch
      BY <1>1, NewestIsInt
    <2>2. PICK e \in epochs : meta <= e
      BY <1>1 DEF EpochsInOrder, Recorded
    <2>3. e \in Nat
      BY <1>1
    <2> QED  BY <1>1, <2>1, <2>2, <2>3
  <1>4. /\ x.pc = "next" /\ x.i = 0 /\ x.known = NewestEpoch /\ ~x.solo
        /\ x.copy = Free.copy /\ x.read = Free.read
    BY <1>1, FreeDated DEF IntJobs
  <1> HIDE DEF x
  <1>5. jobs'[j] = x
    BY <1>1, <1>2
  <1>6. RowsDated'
    <2>1. Dated(x.copy) /\ Dated(x.read) /\ Dated(NoRow)
      BY <1>1, <1>4, FreeDated, NoRowDated
    <2> QED  BY <1>2, <1>4, <2>1, DatedStays
  <1>7. EpochsInOrder'
    BY <1>1, <1>2 DEF EpochsInOrder, Announced, Recorded
  <1>8. TimersFollow' /\ Distinct'
    <2>1. timers' \in Nat
      BY <1>1, <1>2
    <2> QED  BY <1>1, <1>2, <2>1 DEF TimersFollow, Distinct
  <1>9. YieldsFollow'
    <2>1. ASSUME NEW u \in Clients' PROVE Covers(j, u)'
      <3>1. PICK n \in 1 .. Len(clients') : clients'[n] = u
        BY <1>1, <1>2, LenProperties DEF Clients, Range
      <3>2. jobs'[j].i < n
        BY <1>1, <1>2, <1>4, <1>5, LenProperties
      <3> QED  BY <1>2, <1>3, <1>4, <1>5, <3>1, <3>2 DEF Covers, Comes
    <2> QED  BY <2>1 DEF YieldsFollow, Covered
  <1> QED  BY <1>6, <1>7, <1>8, <1>9 DEF YieldInv

\* A job goes on to the client after the one it has done.
LEMMA NextYields ==
  ASSUME IInv, YieldInv, NEW j \in Jobs, NextClient(j)
  PROVE  YieldInv'
  <1>1. /\ Types /\ meta \in Nat /\ jobs \in [Jobs -> IntJobs] /\ clients \in Seq(Users)
        /\ row \in [Users -> IntRows] /\ jobs[j] \in IntJobs
        /\ Distinct /\ RowsDated /\ YieldsFollow
        /\ Len(clients) \in Nat
    BY LenProperties DEF IInv, Types, YieldInv
  <1>2. /\ jobs[j].pc = "next"
        /\ UNCHANGED <<chain, queue, handler, epochs, meta, timers, row, clients, late>>
    BY DEF NextClient, Index, Ghosts
  <1>3. PICK i \in Nat : i = jobs[j].i + 1
    BY <1>1 DEF IntJobs
  <1>4. jobs' = [jobs EXCEPT ![j] =
            IF i > Len(clients) THEN Free
            ELSE IF row[clients[i]].exists
            THEN [@ EXCEPT !.pc = "compute", !.i = i, !.user = clients[i],
                           !.read = row[clients[i]], !.copy = row[clients[i]]]
            ELSE [@ EXCEPT !.i = i]]
    BY <1>3 DEF NextClient
  <1>5. PICK x :
          /\ jobs' = [jobs EXCEPT ![j] = x]
          /\ x.pc \in {"free", "next", "compute"}
          /\ Dated(x.copy) /\ Dated(x.read) /\ (x.pc = "compute" => x.read = x.copy)
          /\ i <= Len(clients) =>
               /\ x.i = i /\ x.known = jobs[j].known /\ x.solo = jobs[j].solo /\ x.pc # "free"
               /\ row[clients[i]].exists =>
                    x.pc = "compute" /\ x.user = clients[i] /\ x.copy = row[clients[i]]
    <2>1. CASE i > Len(clients)
      <3>1. jobs' = [jobs EXCEPT ![j] = Free]
        BY <1>4, <2>1
      <3>2. ~(i <= Len(clients))
        BY <1>1, <2>1
      <3> QED  BY <1>1, <3>1, <3>2, FreeDated
    <2>2. CASE i <= Len(clients)
      <3>1. ~(i > Len(clients)) /\ i \in 1 .. Len(clients)
        BY <1>1, <1>3, <2>2 DEF IntJobs
      <3>2. clients[i] \in Users
        BY <1>1, <3>1, ElementOfSeq
      <3>3. PICK c \in IntRows : c = row[clients[i]] /\ Dated(c)
        BY <1>1, <3>2 DEF RowsDated
      <3>4. CASE c.exists
        <4>1. PICK x : x = [jobs[j] EXCEPT !.pc = "compute", !.i = i, !.user = clients[i],
                                           !.read = c, !.copy = c]
          OBVIOUS
        <4>2. jobs' = [jobs EXCEPT ![j] = x]
          BY <1>4, <3>1, <3>3, <3>4, <4>1
        <4>3. /\ x.pc = "compute" /\ x.i = i /\ x.user = clients[i] /\ x.read = c /\ x.copy = c
              /\ x.known = jobs[j].known /\ x.solo = jobs[j].solo
          BY <1>1, <4>1 DEF IntJobs
        <4> QED  BY <3>3, <4>2, <4>3
      <3>5. CASE ~c.exists
        <4>1. PICK x : x = [jobs[j] EXCEPT !.i = i]
          OBVIOUS
        <4>2. jobs' = [jobs EXCEPT ![j] = x]
          BY <1>4, <3>1, <3>3, <3>5, <4>1
        <4>3. /\ x.pc = "next" /\ x.i = i /\ x.read = jobs[j].read /\ x.copy = jobs[j].copy
              /\ x.known = jobs[j].known /\ x.solo = jobs[j].solo
          BY <1>1, <1>2, <4>1 DEF IntJobs
        <4>4. Dated(x.copy) /\ Dated(x.read)
          BY <1>1, <4>3 DEF RowsDated
        <4> QED  BY <3>3, <3>5, <4>2, <4>3, <4>4
      <3> QED  BY <3>4, <3>5
    <2> QED  BY <1>1, <2>1, <2>2
  <1>6. jobs'[j] = x /\ \A k \in Jobs : k # j => jobs'[k] = jobs[k]
    BY <1>1, <1>5
  <1>7. RowsDated'
    <2>1. Dated(NoRow) /\ x.pc \notin {"save", "again"}
      BY <1>1, <1>5, NoRowDated
    <2> QED  BY <1>2, <1>5, <2>1, DatedStays
  <1>8. ASSUME NEW u \in Clients \ late, Pending(u)' PROVE Covered(u)'
    <2>1. u \in Users
      BY <1>1, <1>8, ElementOfSeq, LenProperties DEF Clients, Range
    <2>2. Pending(u)
      <3>1. ~Reverts(j, u)'
        BY <1>5, <1>6 DEF Reverts
      <3>2. ASSUME NEW k \in Jobs, Reverts(k, u)' PROVE Reverts(k, u)
        BY <1>2, <1>6, <3>1, <3>2 DEF Reverts, Unsettled
      <3>3. Unsettled(row[u])' => Unsettled(row[u])
        BY <1>2 DEF Unsettled
      <3> QED  BY <1>8, <3>2, <3>3 DEF Pending
    <2>3. row[u].deposits > 0 /\ row[u].exists
      BY <2>1, <2>2, PendingHasRow
    <2>4. SUFFICES ASSUME NEW k \in Jobs, Covers(k, u) PROVE \E l \in Jobs : Covers(l, u)'
      <3>1. Covered(u)
        BY <1>1, <1>8, <2>2 DEF YieldsFollow
      <3>2. CASE queue # <<>> \/ timers > 0
        BY <1>2, <3>2 DEF Covered
      <3>3. CASE \E k \in Jobs : Covers(k, u)
        BY <2>4, <3>3 DEF Covered
      <3> QED  BY <3>1, <3>2, <3>3 DEF Covered
    <2>5. CASE k # j
      <3>1. Covers(k, u)'
        BY <1>1, <1>2, <1>6, <2>4, <2>5, CoversStays
      <3> QED  BY <3>1
    <2>6. CASE k = j
      <3>1. Comes(j, u)
        BY <1>2, <2>4, <2>6 DEF Covers, Computes, Saves
      <3>2. PICK n \in 1 .. Len(clients) : jobs[j].i < n /\ clients[n] = u
        BY <3>1 DEF Comes
      <3>3. i <= n /\ i <= Len(clients) /\ n \in Nat
        BY <1>1, <1>3, <3>2 DEF IntJobs
      <3>4. ~jobs[j].solo /\ meta <= jobs[j].known
        BY <3>1 DEF Comes
      <3>5. /\ x.i = i /\ x.known = jobs[j].known /\ ~x.solo /\ x.pc # "free"
        BY <1>5, <3>3, <3>4
      <3>6. CASE i < n
        BY <1>2, <1>6, <3>2, <3>4, <3>5, <3>6 DEF Covers, Comes
      <3>7. CASE i = n
        <4>1. x.pc = "compute" /\ x.user = u /\ x.copy = row[u]
          BY <1>5, <2>3, <3>2, <3>3, <3>7
        <4>2. x.copy.deposits # False
          BY <2>3, <4>1, Constants
        <4> QED  BY <1>2, <1>6, <3>4, <3>5, <4>1, <4>2 DEF Covers, Computes
      <3> QED  BY <1>3, <3>3, <3>6, <3>7
    <2> QED  BY <2>5, <2>6
  <1>9. YieldsFollow'
    BY <1>2, <1>8 DEF YieldsFollow, Clients
  <1>10. Distinct'
    BY <1>1, <1>2 DEF Distinct
  <1> QED  BY <1>2, <1>7, <1>9, <1>10, IndexStays DEF YieldInv

\* The clients after the one who leaves move up by one.
LEMMA RemovesUp ==
  ASSUME NEW s \in Seq(Users), NEW k \in 1 .. Len(s)
  PROVE  /\ Len(RemoveAt(s, k)) = Len(s) - 1
         /\ \A n \in 1 .. Len(s) - 1 : RemoveAt(s, k)[n] = IF n < k THEN s[n] ELSE s[n + 1]
  <1>1. PICK m \in Nat : m = Len(s)
    BY LenProperties
  <1>2. k \in Int /\ 1 <= k /\ k <= m /\ \A i \in 1 .. m : s[i] \in Users
    BY <1>1, LenProperties, ElementOfSeq
  <1>3. PICK a : a = SubSeq(s, 1, k - 1)
    OBVIOUS
  <1>4. PICK b : b = SubSeq(s, k + 1, m)
    OBVIOUS
  <1>5. a \in Seq(Users) /\ Len(a) = k - 1 /\ \A i \in 1 .. k - 1 : a[i] = s[i]
    <2>1. 1 \in Int /\ k - 1 \in Int /\ \A i \in 1 .. k - 1 : s[i] \in Users
      BY <1>2
    <2>2. /\ a \in Seq(Users) /\ Len(a) = IF 1 <= k - 1 THEN k - 1 - 1 + 1 ELSE 0
          /\ \A i \in 1 .. k - 1 - 1 + 1 : a[i] = s[1 + i - 1]
      BY <1>3, <2>1, SubSeqProperties
    <2>3. \A i \in 1 .. k - 1 : i \in 1 .. k - 1 - 1 + 1 /\ 1 + i - 1 = i
      BY <1>2
    <2> QED  BY <1>2, <2>2, <2>3
  <1>6. b \in Seq(Users) /\ Len(b) = m - k /\ \A i \in 1 .. m - k : b[i] = s[k + i]
    <2>1. k + 1 \in Int /\ m \in Int /\ \A i \in k + 1 .. m : s[i] \in Users
      BY <1>2
    <2>2. /\ b \in Seq(Users) /\ Len(b) = IF k + 1 <= m THEN m - (k + 1) + 1 ELSE 0
          /\ \A i \in 1 .. m - (k + 1) + 1 : b[i] = s[k + 1 + i - 1]
      BY <1>4, <2>1, SubSeqProperties
    <2>3. \A i \in 1 .. m - k : i \in 1 .. m - (k + 1) + 1 /\ k + 1 + i - 1 = k + i
      BY <1>2
    <2> QED  BY <1>2, <2>2, <2>3
  <1>7. PICK c : c = a \o b
    OBVIOUS
  <1>8. /\ Len(c) = k - 1 + (m - k)
        /\ \A i \in 1 .. k - 1 + (m - k) : c[i] = IF i <= k - 1 THEN a[i] ELSE b[i - (k - 1)]
    <2>1. a \in Seq(Users) /\ b \in Seq(Users)
      BY <1>5, <1>6
    <2>2. /\ Len(c) = Len(a) + Len(b)
          /\ \A i \in 1 .. Len(a) + Len(b) : c[i] = IF i <= Len(a) THEN a[i] ELSE b[i - Len(a)]
      BY <1>7, <2>1, ConcatProperties
    <2> QED  BY <1>5, <1>6, <2>2
  <1>9. c = RemoveAt(s, k)
    BY <1>1, <1>3, <1>4, <1>7 DEF RemoveAt
  <1>10. ASSUME NEW n \in 1 .. m - 1 PROVE c[n] = IF n < k THEN s[n] ELSE s[n + 1]
    <2>1. n \in 1 .. k - 1 + (m - k)
      BY <1>2
    <2>2. CASE n < k
      BY <1>2, <1>5, <1>8, <2>1, <2>2
    <2>3. CASE ~(n < k)
      <3>1. n - (k - 1) \in 1 .. m - k /\ k + (n - (k - 1)) = n + 1
        BY <1>2, <2>3
      <3>2. ~(n <= k - 1)
        BY <1>2, <2>3
      <3>3. c[n] = b[n - (k - 1)] /\ b[n - (k - 1)] = s[n + 1]
        BY <1>6, <1>8, <2>1, <3>1, <3>2
      <3> QED  BY <2>3, <3>3
    <2> QED  BY <2>2, <2>3
  <1>11. k - 1 + (m - k) = m - 1
    BY <1>2
  <1> QED  BY <1>1, <1>8, <1>9, <1>10, <1>11

\* Who leaves takes nobody out of sight but those a job is said to pass over.
LEMMA LeaveYields ==
  ASSUME IInv, YieldInv, NEW v \in Users, handleLeaveRoom(v)
  PROVE  YieldInv'
  <1>1. /\ clients \in Seq(Users) /\ jobs \in [Jobs -> IntJobs]
        /\ Distinct /\ RowsDated /\ YieldsFollow
    BY DEF IInv, Types, YieldInv
  <1>2. PICK k \in 1 .. Len(clients) :
          /\ clients[k] = v /\ clients' = RemoveAt(clients, k)
          /\ late' = late \union {clients[jobs[j].i + 1] :
               j \in {j \in Jobs : /\ jobs[j].pc # "free" /\ ~jobs[j].solo
                                   /\ k <= jobs[j].i /\ jobs[j].i < Len(clients)}}
    <2>1. v \in Clients
      BY DEF handleLeaveRoom
    <2>2. \E n \in 1 .. Len(clients) : clients[n] = v
      BY <1>1, <2>1, LenProperties DEF Clients, Range
    <2>3. PICK k : k = CHOOSE n \in 1 .. Len(clients) : clients[n] = v
      OBVIOUS
    <2>4. k \in 1 .. Len(clients) /\ clients[k] = v
      BY <2>2, <2>3
    <2>5. /\ clients' = RemoveAt(clients, k)
          /\ late' = late \union {clients[jobs[j].i + 1] :
               j \in {j \in Jobs : /\ jobs[j].pc # "free" /\ ~jobs[j].solo
                                   /\ k <= jobs[j].i /\ jobs[j].i < Len(clients)}}
      BY <2>3 DEF handleLeaveRoom
    <2> QED  BY <2>4, <2>5
  <1>3. UNCHANGED <<chain, queue, handler, epochs, meta, timers, row, jobs>>
    BY DEF handleLeaveRoom, Index
  <1>4. PICK m \in Nat : m = Len(clients) /\ Len(clients') = m - 1 /\ k \in 1 .. m
    BY <1>1, <1>2, RemovesUp, LenProperties
  <1>5. \A n \in 1 .. m - 1 : clients'[n] = IF n < k THEN clients[n] ELSE clients[n + 1]
    BY <1>1, <1>2, <1>4, RemovesUp
  <1>6. clients' \in Seq(Users) /\ DOMAIN clients' = 1 .. m - 1 /\ m - 1 \in Nat
    BY <1>1, <1>2, <1>4, RemovesClient, LenProperties
  <1>7. ASSUME NEW n \in 1 .. m - 1
        PROVE  \E l \in 1 .. m : l # k /\ clients'[n] = clients[l]
                                 /\ l = IF n < k THEN n ELSE n + 1
    <2>1. CASE n < k
      BY <1>4, <1>5, <2>1
    <2>2. CASE ~(n < k)
      <3>1. n + 1 \in 1 .. m /\ n + 1 # k
        BY <1>4, <2>2
      <3> QED  BY <1>5, <2>2, <3>1
    <2> QED  BY <2>1, <2>2
  <1>8. Distinct'
    <2>1. ASSUME NEW a \in 1 .. m - 1, NEW b \in 1 .. m - 1, clients'[a] = clients'[b]
          PROVE  a = b
      <3>1. PICK c \in 1 .. m : clients'[a] = clients[c] /\ c = IF a < k THEN a ELSE a + 1
        BY <1>7
      <3>2. PICK d \in 1 .. m : clients'[b] = clients[d] /\ d = IF b < k THEN b ELSE b + 1
        BY <1>7
      <3>3. c = d
        BY <1>1, <1>4, <2>1, <3>1, <3>2 DEF Distinct
      <3> QED  BY <1>4, <3>1, <3>2, <3>3
    <2> QED  BY <1>4, <2>1 DEF Distinct
  <1>9. ASSUME NEW u \in Clients' \ late', Pending(u)' PROVE Covered(u)'
    <2>1. PICK p \in 1 .. m : p # k /\ clients[p] = u
      <3>1. PICK n \in 1 .. m - 1 : clients'[n] = u
        BY <1>6, <1>9 DEF Clients, Range
      <3> QED  BY <1>7, <3>1
    <2>2. u \in Clients \ late
      <3>1. u \in Clients
        BY <1>1, <1>4, <2>1, LenProperties DEF Clients, Range
      <3> QED  BY <1>2, <1>9, <3>1
    <2>3. Pending(u)
      BY <1>3, <1>9 DEF Pending, Unsettled, Reverts
    <2>4. SUFFICES ASSUME NEW j \in Jobs, Covers(j, u) PROVE \E l \in Jobs : Covers(l, u)'
      <3>1. Covered(u)
        BY <1>1, <2>2, <2>3 DEF YieldsFollow
      <3>2. CASE queue # <<>> \/ timers > 0
        BY <1>3, <3>2 DEF Covered
      <3>3. CASE \E l \in Jobs : Covers(l, u)
        BY <2>4, <3>3 DEF Covered
      <3> QED  BY <3>1, <3>2, <3>3 DEF Covered
    <2>5. CASE Computes(j, u) \/ Saves(j, u)
      BY <1>3, <2>5 DEF Covers, Computes, Saves, Unsettled
    <2>6. CASE Comes(j, u)
      <3>1. PICK n \in 1 .. m : jobs[j].i < n /\ clients[n] = u
        BY <1>4, <2>6 DEF Comes
      <3>2. n = p /\ n # k /\ jobs[j].i \in Nat
        BY <1>1, <1>4, <2>1, <3>1 DEF Distinct, IntJobs
      <3>3. jobs[j].pc # "free" /\ ~jobs[j].solo /\ meta <= jobs[j].known
        BY <2>6 DEF Comes
      <3>4. CASE n < k
        <4>1. n \in 1 .. m - 1 /\ clients'[n] = u
          BY <1>4, <1>5, <3>1, <3>4
        <4> QED  BY <1>3, <1>4, <3>1, <3>3, <4>1 DEF Covers, Comes
      <3>5. CASE k < n
        <4>1. n - 1 \in 1 .. m - 1 /\ ~(n - 1 < k) /\ n - 1 + 1 = n
          BY <1>4, <3>5
        <4>2. clients'[n - 1] = u
          BY <1>5, <3>1, <4>1
        <4>3. jobs[j].i < n - 1
          <5>1. SUFFICES ASSUME ~(jobs[j].i < n - 1) PROVE FALSE
            OBVIOUS
          <5>2. n = jobs[j].i + 1 /\ k <= jobs[j].i /\ jobs[j].i < m
            BY <1>4, <3>1, <3>2, <3>5, <5>1
          <5>3. clients[jobs[j].i + 1] \in late'
            BY <1>2, <1>4, <3>3, <5>2
          <5> QED  BY <1>9, <3>1, <5>2, <5>3
        <4> QED  BY <1>3, <1>4, <3>3, <4>1, <4>2, <4>3 DEF Covers, Comes
      <3> QED  BY <1>4, <3>2, <3>4, <3>5
    <2> QED  BY <2>4, <2>5, <2>6 DEF Covers
  <1>10. YieldsFollow'
    BY <1>9 DEF YieldsFollow
  <1>11. RowsDated'
    BY <1>1, <1>3 DEF RowsDated, Dated
  <1> QED  BY <1>3, <1>8, <1>10, <1>11, IndexStays DEF YieldInv

\* Who joins is worked out at once, or has nothing to be worked out.
LEMMA JoinYields ==
  ASSUME IInv, YieldInv, NEW v \in Users, NEW j \in Jobs, handleJoinUserYieldFeed(v, j)
  PROVE  YieldInv'
  <1>1. /\ Types /\ meta \in Nat /\ clients \in Seq(Users) /\ jobs \in [Jobs -> IntJobs]
        /\ row \in [Users -> IntRows] /\ EpochsInOrder
        /\ epochs \subseteq 0 .. chain.epoch /\ chain.epoch \in Nat
        /\ Distinct /\ RowsDated /\ YieldsFollow
    BY DEF IInv, Types, YieldInv
  <1>2. /\ jobs[j] = Free /\ UNCHANGED <<chain, queue, handler, epochs, meta, timers, row, late>>
        /\ clients' = IF v \in Clients THEN clients ELSE Append(clients, v)
    BY DEF handleJoinUserYieldFeed, Index, Ghosts
  <1>3. NewestEpoch \in Int /\ meta <= NewestEpoch
    <2>1. NewestEpoch \in Int /\ \A e \in epochs : e <= NewestEpoch
      BY <1>1, NewestIsInt
    <2>2. PICK e \in epochs : meta <= e
      BY <1>1 DEF EpochsInOrder, Recorded
    <2>3. e \in Nat
      BY <1>1
    <2> QED  BY <1>1, <2>1, <2>2, <2>3
  <1>4. PICK x :
          /\ jobs' = [jobs EXCEPT ![j] = x] /\ x.pc \in {"free", "compute"}
          /\ Dated(x.copy) /\ Dated(x.read) /\ (x.pc = "compute" => x.read = x.copy)
          /\ row[v].exists /\ row[v].deposits > 0 =>
               /\ x.pc = "compute" /\ x.user = v /\ x.known = NewestEpoch /\ x.copy = row[v]
    <2>1. CASE row[v].exists /\ row[v].deposits > 0
      <3>1. PICK c \in IntRows : c = row[v] /\ Dated(c)
        BY <1>1 DEF RowsDated
      <3>2. PICK x : x = [Free EXCEPT !.pc = "compute", !.known = NewestEpoch,
                            !.user = v, !.read = c, !.copy = c, !.solo = TRUE]
        OBVIOUS
      <3>3. jobs' = [jobs EXCEPT ![j] = x]
        BY <2>1, <3>1, <3>2 DEF handleJoinUserYieldFeed
      <3>4. /\ x.pc = "compute" /\ x.user = v /\ x.known = NewestEpoch /\ x.copy = c
            /\ x.read = c
        BY <3>2, Constants DEF IntJobs
      <3> QED  BY <3>1, <3>3, <3>4
    <2>2. CASE ~(row[v].exists /\ row[v].deposits > 0)
      <3>1. jobs' = jobs
        BY <2>2 DEF handleJoinUserYieldFeed
      <3>2. jobs' = [jobs EXCEPT ![j] = Free]
        BY <1>1, <1>2, <3>1
      <3> QED  BY <1>1, <2>2, <3>2, FreeDated
    <2> QED  BY <2>1, <2>2
  <1>5. jobs'[j] = x /\ \A k \in Jobs : k # j => jobs'[k] = jobs[k]
    BY <1>1, <1>4
  <1>6. PICK m \in Nat : m = Len(clients) /\ DOMAIN clients = 1 .. m
    BY <1>1, LenProperties
  <1>12. PICK cs : cs = clients'
    OBVIOUS
  <1>7. PICK p \in Nat :
          /\ p = Len(cs) /\ m <= p /\ DOMAIN cs = 1 .. p
          /\ \A n \in 1 .. m : n \in 1 .. p /\ cs[n] = clients[n]
          /\ v \notin Clients => p = m + 1 /\ cs[m + 1] = v
          /\ v \in Clients => p = m
    <2>1. CASE v \in Clients
      <3>1. cs = clients
        BY <1>2, <1>12, <2>1
      <3> QED  BY <1>6, <2>1, <3>1
    <2>2. CASE v \notin Clients
      <3>1. cs = Append(clients, v)
        BY <1>2, <1>12, <2>2
      <3>2. Len(cs) = m + 1 /\ cs[m + 1] = v /\ \A n \in 1 .. m : cs[n] = clients[n]
        BY <1>1, <1>6, <3>1, AppendProperties
      <3>3. DOMAIN cs = 1 .. m + 1
        BY <1>1, <3>1, <3>2, AppendProperties, LenProperties
      <3> QED  BY <1>6, <2>2, <3>2, <3>3
    <2> QED  BY <2>1, <2>2
  <1>8. Distinct'
    <2> SUFFICES ASSUME NEW a \in 1 .. p, NEW b \in 1 .. p, cs[a] = cs[b]
                 PROVE  a = b
      BY <1>7, <1>12 DEF Distinct
    <2>1. \A c, d \in 1 .. m : clients[c] = clients[d] => c = d
      BY <1>1, <1>6 DEF Distinct
    <2>2. CASE a \in 1 .. m /\ b \in 1 .. m
      BY <1>7, <2>1, <2>2
    <2>3. CASE ~(a \in 1 .. m /\ b \in 1 .. m)
      <3>1. p # m
        BY <2>3
      <3>2. v \notin Clients /\ p = m + 1 /\ cs[m + 1] = v
        BY <1>7, <3>1
      <3>3. \A n \in 1 .. m : cs[n] # v
        BY <1>6, <1>7, <3>2 DEF Clients, Range
      <3>4. (a \in 1 .. m \/ a = m + 1) /\ (b \in 1 .. m \/ b = m + 1)
        BY <1>6, <3>2
      <3> QED  BY <2>3, <3>2, <3>3, <3>4
    <2> QED  BY <2>2, <2>3
  <1>9. RowsDated'
    <2>1. Dated(NoRow) /\ x.pc \notin {"save", "again"}
      BY <1>1, <1>4, NoRowDated
    <2> QED  BY <1>1, <1>2, <1>4, <2>1, DatedStays
  <1>10. ASSUME NEW u \in Clients' \ late, Pending(u)' PROVE Covered(u)'
    <2>1. u \in Clients \/ (u = v /\ v \notin Clients)
      <3>1. PICK n \in 1 .. p : cs[n] = u
        BY <1>7, <1>10, <1>12 DEF Clients, Range
      <3>2. CASE n \in 1 .. m
        BY <1>6, <1>7, <3>1, <3>2 DEF Clients, Range
      <3>3. CASE n \notin 1 .. m
        <4>1. p # m
          BY <3>3
        <4>2. v \notin Clients /\ p = m + 1 /\ cs[m + 1] = v
          BY <1>7, <4>1
        <4>3. n = m + 1
          BY <1>6, <3>3, <4>2
        <4> QED  BY <3>1, <4>2, <4>3
      <3> QED  BY <3>2, <3>3
    <2>2. u \in Users
      BY <1>1, <2>1, ElementOfSeq, LenProperties DEF Clients, Range
    <2>3. Pending(u)
      <3>1. ~Reverts(j, u)'
        BY <1>4, <1>5 DEF Reverts
      <3>2. ASSUME NEW k \in Jobs, Reverts(k, u)' PROVE Reverts(k, u)
        BY <1>2, <1>5, <3>1, <3>2 DEF Reverts, Unsettled
      <3>3. Unsettled(row[u])' => Unsettled(row[u])
        BY <1>2 DEF Unsettled
      <3> QED  BY <1>10, <3>2, <3>3 DEF Pending
    <2>4. row[u].deposits > 0 /\ row[u].exists
      BY <2>2, <2>3, PendingHasRow
    <2>5. CASE u \in Clients
      <3>1. SUFFICES ASSUME NEW k \in Jobs, Covers(k, u) PROVE \E l \in Jobs : Covers(l, u)'
        <4>1. Covered(u)
          BY <1>1, <1>10, <2>3, <2>5 DEF YieldsFollow
        <4>2. CASE queue # <<>> \/ timers > 0
          BY <1>2, <4>2 DEF Covered
        <4>3. CASE \E l \in Jobs : Covers(l, u)
          BY <3>1, <4>3 DEF Covered
        <4> QED  BY <4>1, <4>2, <4>3 DEF Covered
      <3>2. k # j
        BY <1>1, <1>2, <3>1, FreeDated DEF Covers, Comes, Computes, Saves
      <3>3. /\ Len(clients) = m /\ Len(clients') = p
            /\ \A n \in 1 .. m : n \in 1 .. p /\ clients'[n] = clients[n]
        BY <1>6, <1>7, <1>12
      <3>4. jobs'[k] = jobs[k] /\ meta' = meta
        BY <1>2, <1>5, <3>2
      <3>5. Covers(k, u)'
        BY <3>1, <3>3, <3>4, CoversStays
      <3> QED  BY <3>5
    <2>6. CASE u = v
      <3>1. x.pc = "compute" /\ x.user = u /\ x.known = NewestEpoch /\ x.copy.deposits # False
        BY <1>4, <2>4, <2>6, Constants
      <3>2. Computes(j, u)'
        BY <1>2, <1>3, <1>5, <3>1 DEF Computes
      <3> QED  BY <3>2 DEF Covered, Covers
    <2> QED  BY <2>1, <2>5, <2>6
  <1>11. YieldsFollow'
    BY <1>2, <1>10 DEF YieldsFollow
  <1> QED  BY <1>2, <1>8, <1>9, <1>11, IndexStays DEF YieldInv

\* A yield is worked out of the latest epoch, or the clients left are passed over.
LEMMA ComputeYields ==
  ASSUME IInv, YieldInv, NEW j \in Jobs, updateClientStakingMetrics(j)
  PROVE  YieldInv'
  <1>1. /\ Types /\ meta \in Nat /\ jobs \in [Jobs -> IntJobs] /\ clients \in Seq(Users)
        /\ row \in [Users -> IntRows] /\ jobs[j] \in IntJobs
        /\ Distinct /\ RowsDated /\ YieldsFollow
        /\ Len(clients) \in Nat /\ DOMAIN clients = 1 .. Len(clients)
    BY LenProperties DEF IInv, Types, YieldInv
  <1>2. /\ jobs[j].pc = "compute"
        /\ UNCHANGED <<chain, queue, handler, epochs, meta, timers, row, clients>>
    BY DEF updateClientStakingMetrics, Index
  <1>3. Distinct'
    BY <1>1, <1>2 DEF Distinct
  <1>4. ASSUME NEW x, jobs' = [jobs EXCEPT ![j] = x], x.pc \in {"free", "save"},
               Dated(x.copy), Dated(x.read), x.pc = "save" => WorkedOut(x.read, x.copy),
               NEW u \in Clients \ late', Pending(u)',
               x.pc = "save" => ~Unsettled(x.copy),
               (x.pc = "save" /\ x.user = u) \/ u \notin late,
               Covers(j, u) => Covers(j, u)' \/ (x.pc = "save" /\ x.user = u)
        PROVE  Covered(u)'
    <2>1. jobs'[j] = x /\ \A k \in Jobs : k # j => jobs'[k] = jobs[k]
      BY <1>1, <1>4
    <2>2. CASE x.pc = "save" /\ x.user = u
      BY <1>2, <1>4, <2>1, <2>2 DEF Covered, Covers, Saves, Unsettled
    <2>3. CASE ~(x.pc = "save" /\ x.user = u)
      <3>1. Pending(u)
        <4>1. ~Reverts(j, u)'
          BY <1>4, <2>1, <2>3 DEF Reverts
        <4>2. ASSUME NEW k \in Jobs, Reverts(k, u)' PROVE Reverts(k, u)
          BY <1>2, <2>1, <4>1, <4>2 DEF Reverts, Unsettled
        <4>3. Unsettled(row[u])' => Unsettled(row[u])
          BY <1>2 DEF Unsettled
        <4> QED  BY <1>4, <4>2, <4>3 DEF Pending
      <3>2. SUFFICES ASSUME NEW k \in Jobs, Covers(k, u) PROVE \E l \in Jobs : Covers(l, u)'
        <4>1. Covered(u)
          BY <1>1, <1>4, <2>3, <3>1 DEF YieldsFollow
        <4>2. CASE queue # <<>> \/ timers > 0
          BY <1>2, <4>2 DEF Covered
        <4>3. CASE \E l \in Jobs : Covers(l, u)
          BY <3>2, <4>3 DEF Covered
        <4> QED  BY <4>1, <4>2, <4>3 DEF Covered
      <3>3. CASE k = j
        BY <1>4, <2>3, <3>2, <3>3
      <3>4. CASE k # j
        <4>1. Covers(k, u)'
          BY <1>1, <1>2, <2>1, <3>2, <3>4, CoversStays
        <4> QED  BY <4>1
      <3> QED  BY <3>3, <3>4
    <2> QED  BY <2>2, <2>3
  <1>5. CASE getUserYieldThrows(jobs[j].copy, jobs[j].known)
    <2>1. /\ jobs' = [jobs EXCEPT ![j] = Free]
          /\ late' = late \union (IF jobs[j].solo THEN {jobs[j].user}
                                  ELSE {clients[n] : n \in jobs[j].i .. Len(clients)})
      BY <1>5 DEF updateClientStakingMetrics
    <2>2. RowsDated'
      BY <1>1, <1>2, <2>1, NoRowDated, FreeDated, DatedStays
    <2>3. ASSUME NEW u \in Clients \ late' PROVE ~Covers(j, u)
      <3>1. ASSUME Comes(j, u) PROVE FALSE
        <4>1. PICK n \in 1 .. Len(clients) : jobs[j].i < n /\ clients[n] = u
          BY <3>1 DEF Comes
        <4>2. ~jobs[j].solo /\ jobs[j].i \in Nat
          BY <1>1, <3>1 DEF Comes, IntJobs
        <4>3. n \in jobs[j].i .. Len(clients)
          BY <1>1, <4>1, <4>2
        <4>4. clients[n] \in late'
          BY <2>1, <4>2, <4>3
        <4> QED  BY <2>3, <4>1, <4>4
      <3>2. ~Computes(j, u)
        <4>1. jobs[j].copy.deposits = False \/ meta > jobs[j].known
          BY <1>5 DEF getUserYieldThrows, calculateYieldThrows
        <4>2. jobs[j].known \in Int
          BY <1>1 DEF IntJobs
        <4> QED  BY <1>1, <4>1, <4>2 DEF Computes
      <3> QED  BY <1>2, <3>1, <3>2 DEF Covers, Saves
    <2>4. ASSUME NEW u \in Clients \ late', Pending(u)' PROVE Covered(u)'
      <3>1. u \notin late /\ ~Covers(j, u)
        BY <2>1, <2>3, <2>4
      <3>2. Dated(Free.copy) /\ Dated(Free.read) /\ Free.pc = "free"
        BY <1>1, FreeDated
      <3> QED  BY <1>4, <2>1, <2>4, <3>1, <3>2
    <2>5. YieldsFollow'
      BY <1>2, <2>4 DEF YieldsFollow, Clients
    <2> QED  BY <1>2, <1>3, <2>2, <2>5, IndexStays DEF YieldInv
  <1>6. CASE ~getUserYieldThrows(jobs[j].copy, jobs[j].known)
    <2>1. /\ jobs' = [jobs EXCEPT ![j].pc = "save", ![j].copy.info =
                  [deposits |-> jobs[j].copy.deposits, withdrawals |-> jobs[j].copy.withdrawals,
                   epoch |-> meta]]
          /\ late' = IF row[jobs[j].user] = jobs[j].read THEN late \ {jobs[j].user} ELSE late
      BY <1>6 DEF updateClientStakingMetrics
    <2>2. PICK c \in IntRows : c = jobs[j].copy
      BY <1>1 DEF IntJobs
    <2>3. PICK t : t = [deposits |-> c.deposits, withdrawals |-> c.withdrawals, epoch |-> meta]
      OBVIOUS
    <2>4. PICK d : d = [c EXCEPT !.info = t]
      OBVIOUS
    <2>5. /\ d.info = t /\ d.deposits = c.deposits /\ d.withdrawals = c.withdrawals
          /\ d.exists = c.exists /\ t.epoch = meta
      BY <2>2, <2>3, <2>4 DEF IntRows
    <2>6. PICK x : x = [jobs[j] EXCEPT !.pc = "save", !.copy = d]
      OBVIOUS
    <2>7. /\ x.pc = "save" /\ x.copy = d /\ x.read = jobs[j].read /\ x.user = jobs[j].user
          /\ x.i = jobs[j].i /\ x.known = jobs[j].known /\ x.solo = jobs[j].solo
      BY <1>1, <2>6 DEF IntJobs
    <2>8. jobs' = [jobs EXCEPT ![j] = x]
      BY <2>1, <2>2, <2>3, <2>4, <2>6
    <2>9. jobs[j].read = c /\ Dated(c)
      BY <1>1, <1>2, <2>2 DEF RowsDated
    <2>10. Dated(d) /\ ~Unsettled(d) /\ WorkedOut(c, d)
      <3>1. meta <= meta /\ c.info.epoch <= meta
        BY <1>1, <2>9 DEF Dated
      <3> QED  BY <2>3, <2>5, <2>9, <3>1 DEF Dated, Unsettled, WorkedOut
    <2>11. RowsDated'
      <3>1. /\ Dated(x.copy) /\ Dated(x.read) /\ (x.pc = "compute" => x.read = x.copy)
            /\ WorkedOut(x.read, x.copy) /\ Dated(NoRow)
        BY <1>1, <2>7, <2>9, <2>10, NoRowDated
      <3> QED  BY <1>2, <2>8, <3>1, DatedStays
    <2>12. ASSUME NEW u \in Clients \ late', Pending(u)' PROVE Covered(u)'
      <3>1. x.user = u \/ u \notin late
        BY <2>1, <2>7, <2>12
      <3>2. jobs'[j] = x
        BY <1>1, <2>8
      <3>3. Covers(j, u) => Covers(j, u)' \/ x.user = u
        <4>1. Comes(j, u) => Comes(j, u)'
          BY <1>2, <2>7, <3>2 DEF Comes
        <4>2. Computes(j, u) => x.user = u
          BY <2>7 DEF Computes
        <4> QED  BY <1>2, <4>1, <4>2 DEF Covers, Saves
      <3>4. Dated(x.copy) /\ Dated(x.read) /\ WorkedOut(x.read, x.copy) /\ ~Unsettled(x.copy)
        BY <2>7, <2>9, <2>10
      <3> QED  BY <1>4, <2>7, <2>8, <2>12, <3>1, <3>3, <3>4
    <2>13. YieldsFollow'
      BY <1>2, <2>12 DEF YieldsFollow, Clients
    <2> QED  BY <1>2, <1>3, <2>11, <2>13, IndexStays DEF YieldInv
  <1> QED  BY <1>5, <1>6

\* A row is written back over the one that was read: settled, or with another
\* job to come.
LEMMA OverwritesYields ==
  ASSUME IInv, YieldInv, NEW j \in Jobs, SaveYield(j) \/ SaveYieldAgain(j)
  PROVE  YieldInv'
  <1>1. /\ Types /\ meta \in Nat /\ jobs \in [Jobs -> IntJobs] /\ clients \in Seq(Users)
        /\ row \in [Users -> IntRows] /\ jobs[j] \in IntJobs
        /\ Distinct /\ RowsDated /\ YieldsFollow /\ Len(clients) \in Nat
    BY LenProperties DEF IInv, Types, YieldInv
  <1>2. PICK w : w = jobs[j].user
    OBVIOUS
  <1>3. PICK c \in IntRows : c = jobs[j].copy
    BY <1>1 DEF IntJobs
  <1>4. PICK r \in IntRows : r = jobs[j].read
    BY <1>1 DEF IntJobs
  <1>5. /\ row' = [row EXCEPT ![w] = c] /\ late' = IF row[w] = r THEN late ELSE late \union {w}
        /\ UNCHANGED <<chain, queue, handler, epochs, meta, timers, clients>>
        /\ jobs[j].pc \in {"save", "again"} /\ w \in Users
    BY <1>1, <1>2, <1>3, <1>4 DEF SaveYield, SaveYieldAgain, Overwrites, Index, Types
  <1>6. Distinct'
    BY <1>1, <1>5 DEF Distinct
  <1>7. Dated(c) /\ WorkedOut(r, c)
    BY <1>1, <1>3, <1>4, <1>5 DEF RowsDated
  <1>8. PICK x :
          /\ jobs' = [jobs EXCEPT ![j] = x] /\ x.pc \in {"free", "next", "again"}
          /\ Dated(x.copy) /\ Dated(x.read) /\ (x.pc = "again" => WorkedOut(x.read, x.copy))
          /\ x.pc = "again" => x.copy = c /\ x.user = w
          /\ ~jobs[j].solo => /\ x.pc # "free" /\ ~x.solo /\ x.i = jobs[j].i
                              /\ x.known = jobs[j].known
    <2>1. CASE SaveYield(j)
      <3>1. PICK x : x = [jobs[j] EXCEPT !.pc = "again", !.read = c]
        OBVIOUS
      <3>2. jobs' = [jobs EXCEPT ![j] = x]
        BY <1>3, <2>1, <3>1 DEF SaveYield
      <3>3. /\ x.pc = "again" /\ x.read = c /\ x.copy = c /\ x.user = w /\ x.i = jobs[j].i
            /\ x.known = jobs[j].known /\ x.solo = jobs[j].solo
        BY <1>1, <1>2, <1>3, <3>1 DEF IntJobs
      <3>4. WorkedOut(c, c)
        <4>1. c.info.epoch <= c.info.epoch
          BY DEF IntRows
        <4> QED  BY <1>7, <4>1 DEF WorkedOut
      <3> QED  BY <1>7, <3>2, <3>3, <3>4
    <2>2. CASE SaveYieldAgain(j)
      <3>1. CASE jobs[j].solo
        <4>1. jobs' = [jobs EXCEPT ![j] = Free]
          BY <2>2, <3>1 DEF SaveYieldAgain
        <4> QED  BY <1>1, <3>1, <4>1, FreeDated
      <3>2. CASE ~jobs[j].solo
        <4>1. PICK x : x = [Free EXCEPT !.pc = "next", !.i = jobs[j].i, !.known = jobs[j].known]
          OBVIOUS
        <4>2. jobs' = [jobs EXCEPT ![j] = x]
          BY <2>2, <3>2, <4>1 DEF SaveYieldAgain
        <4>3. /\ x.pc = "next" /\ x.i = jobs[j].i /\ x.known = jobs[j].known /\ x.solo = Free.solo
              /\ x.copy = Free.copy /\ x.read = Free.read
          BY <4>1, Constants DEF IntJobs
        <4> QED  BY <1>1, <4>2, <4>3, FreeDated
      <3> QED  BY <3>1, <3>2
    <2> QED  BY <2>1, <2>2
  <1>9. jobs'[j] = x /\ \A k \in Jobs : k # j => jobs'[k] = jobs[k]
    BY <1>1, <1>8
  <1>10. row'[w] = c /\ \A u \in Users : u # w => row'[u] = row[u]
    BY <1>1, <1>5
  <1>11. RowsDated'
    BY <1>5, <1>7, <1>8, DatedStays
  <1>12. ASSUME NEW u \in Clients \ late, Pending(u), ~Saves(j, u)
         PROVE  Covered(u)'
    <2>1. SUFFICES ASSUME NEW k \in Jobs, Covers(k, u) PROVE \E l \in Jobs : Covers(l, u)'
      <3>1. Covered(u)
        BY <1>1, <1>12 DEF YieldsFollow
      <3>2. CASE queue # <<>> \/ timers > 0
        BY <1>5, <3>2 DEF Covered
      <3>3. CASE \E l \in Jobs : Covers(l, u)
        BY <2>1, <3>3 DEF Covered
      <3> QED  BY <3>1, <3>2, <3>3 DEF Covered
    <2>2. CASE k = j
      <3>1. Comes(j, u)
        BY <1>5, <1>12, <2>1, <2>2 DEF Covers, Computes
      <3>2. Comes(j, u)'
        BY <1>5, <1>8, <1>9, <3>1 DEF Comes
      <3> QED  BY <3>2 DEF Covers
    <2>3. CASE k # j
      <3>1. Covers(k, u)'
        BY <1>1, <1>5, <1>9, <2>1, <2>3, CoversStays
      <3> QED  BY <3>1
    <2> QED  BY <2>2, <2>3
  <1>13. ASSUME NEW u \in Clients \ late', Pending(u)' PROVE Covered(u)'
    <2>1. u \in Users /\ u \in Clients \ late
      BY <1>1, <1>5, <1>13, ElementOfSeq, LenProperties DEF Clients, Range
    <2>2. CASE u # w
      <3>1. Pending(u)
        <4>1. row'[u] = row[u]
          BY <1>10, <2>1, <2>2
        <4>2. ~Reverts(j, u)'
          BY <1>8, <1>9, <2>2 DEF Reverts
        <4>3. ASSUME NEW k \in Jobs, Reverts(k, u)' PROVE Reverts(k, u)
          BY <1>5, <1>9, <4>1, <4>2, <4>3 DEF Reverts, Unsettled
        <4>4. Unsettled(row[u])' => Unsettled(row[u])
          BY <1>5, <4>1 DEF Unsettled
        <4> QED  BY <1>13, <4>3, <4>4 DEF Pending
      <3>2. ~Saves(j, u)
        BY <1>2, <2>2 DEF Saves
      <3> QED  BY <1>12, <2>1, <3>1, <3>2
    <2>3. CASE u = w /\ Unsettled(c)
      <3>1. row[u] = r
        BY <1>5, <1>13, <2>3
      <3>2. Reverts(j, u)
        BY <1>2, <1>3, <1>4, <1>5, <2>3, <3>1 DEF Reverts
      <3>3. ~Saves(j, u)
        BY <1>3, <2>3 DEF Saves
      <3> QED  BY <1>12, <2>1, <3>2, <3>3 DEF Pending
    <2>4. CASE u = w /\ ~Unsettled(c)
      <3>1. ~Unsettled(row[u])'
        BY <1>5, <1>10, <2>4 DEF Unsettled
      <3>2. PICK k \in Jobs : Reverts(k, u)'
        BY <1>13, <3>1 DEF Pending
      <3>3. k # j
        <4>1. Unsettled(jobs[k].copy)'
          BY <3>2 DEF Reverts
        <4>2. x.pc = "again" => ~Unsettled(jobs[j].copy)'
          BY <1>5, <1>8, <1>9, <2>4 DEF Unsettled
        <4> QED  BY <1>8, <1>9, <3>2, <4>1, <4>2 DEF Reverts
      <3>4. PICK d \in IntRows : d = jobs[k].copy
        BY <1>1 DEF IntJobs
      <3>5. /\ jobs[k].pc \in {"save", "again"} /\ jobs[k].read = c /\ Unsettled(d)
        <4>1. jobs'[k] = jobs[k]
          BY <1>9, <3>3
        <4> QED  BY <1>5, <1>10, <2>4, <3>2, <3>4, <4>1 DEF Reverts, Unsettled
      <3>6. WorkedOut(c, d) /\ Dated(d)
        BY <1>1, <3>4, <3>5 DEF RowsDated
      <3>7. c.deposits > 0 /\ c.info.epoch = meta
        <4>1. c.deposits > 0
          BY <3>5, <3>6 DEF WorkedOut, Unsettled
        <4>2. c.info = [deposits |-> c.deposits, withdrawals |-> c.withdrawals, epoch |-> meta]
          BY <2>4, <4>1 DEF Unsettled
        <4> QED  BY <4>1, <4>2
      <3>8. d.info.epoch = meta
        <4>1. meta <= d.info.epoch /\ d.info.epoch <= meta /\ d.info.epoch \in Int
          BY <3>6, <3>7 DEF WorkedOut, Dated, IntRows
        <4> QED  BY <1>1, <4>1
      <3>9. FALSE
        <4>1. d.info = [deposits |-> d.deposits, withdrawals |-> d.withdrawals,
                        epoch |-> d.info.epoch]
          BY <3>6 DEF WorkedOut
        <4> QED  BY <3>5, <3>8, <4>1 DEF Unsettled
      <3> QED  BY <3>9
    <2> QED  BY <2>2, <2>3, <2>4
  <1>14. YieldsFollow'
    BY <1>5, <1>13 DEF YieldsFollow, Clients
  <1> QED  BY <1>5, <1>6, <1>11, <1>14, IndexStays DEF YieldInv

-----------------------------------------------------------------------------

\* Every step keeps the yields' invariant.
LEMMA NextYieldInv == IInv /\ YieldInv /\ [Next]_vars => YieldInv'
  <1> SUFFICES ASSUME IInv, YieldInv, [Next]_vars PROVE YieldInv'
    OBVIOUS
  <1>1. chain.events + 1 \in Int /\ chain.deposits \in [Users -> Int] /\ False \in Int
        /\ chain.withdrawals \in [Users -> Int] /\ Empty \in Int /\ 0 \in Int
        /\ {~chain.simple, TRUE, FALSE} \subseteq BOOLEAN /\ Nobody \notin Users
    BY Constants, BoundsAssumption DEF IInv, Types
  <1>2. CASE UNCHANGED vars
    <2>1. /\ UNCHANGED <<chain, queue, handler, epochs, meta, timers>>
          /\ UNCHANGED <<row, clients, jobs, late>>
      BY <1>2 DEF vars
    <2>2. RowsDated' /\ Distinct' /\ YieldsFollow'
      BY <2>1 DEF YieldInv, RowsDated, Dated, Distinct, YieldsFollow, Clients, Pending, Covered,
                  Covers, Comes, Computes, Saves, Reverts, Unsettled
    <2> QED  BY <2>1, <2>2, IndexStays DEF YieldInv
  <1>3. ASSUME NEW u \in Users, \/ addStakingTokens(u) \/ withdrawYield(u)
                                \/ withdrawTokensAndYield(u) \/ emergencyReturnStake(u)
        PROVE  YieldInv'
    <2>1. PICK fn \in Fns, d \in Int, w \in Int, opens \in BOOLEAN : Call(u, fn, d, w, opens)
      <3>1. PICK dd \in Int : dd = chain.deposits[u]
        BY <1>1
      <3>2. PICK ww \in Int : ww = chain.withdrawals[u]
        BY <1>1
      <3> QED  BY <1>1, <1>3, <3>1, <3>2 DEF addStakingTokens, withdrawYield,
                                    withdrawTokensAndYield, emergencyReturnStake, Fns
    <2>2. u # Nobody
      BY <1>1
    <2> QED  BY <2>1, <2>2, CallAnnounces
  <1>4. CASE changeEmissionRate
    <2>1. Call(Nobody, "changeEmissionRate", Empty, 0, TRUE)
      BY <1>4 DEF changeEmissionRate
    <2> QED  BY <1>1, <2>1, CallAnnounces DEF Fns
  <1> QED  BY <1>2, <1>3, <1>4, EpochsYields, RowsYields, LeaveYields, JoinYields, StartYields,
              NextYields, ComputeYields, OverwritesYields DEF Next

\* The yields' invariant is inductive, on top of the one of the rows.
THEOREM YieldsInductive == Spec => []YieldInv
  BY Inductive, InitYieldInv, NextYieldInv, PTL DEF Spec

\* Whatever order epochs, stakes, timers, joins and leaves come in, and however many
\* jobs run at once: once nothing is under way, a client of the panel with a stake
\* has the yield of the latest epoch from what the row holds, unless a job has
\* passed the client over or replaced the newer yield.
THEOREM YieldsSettleAtRest == Spec => []YieldsSettle
  <1>1. ASSUME IInv, YieldInv PROVE YieldsSettle
    <2>1. SUFFICES ASSUME AtRest, NEW u \in Clients \ late, row[u].deposits > 0, Unsettled(row[u])
                   PROVE  FALSE
      BY DEF YieldsSettle, Unsettled
    <2>2. Covered(u)
      BY <1>1, <2>1 DEF YieldInv, YieldsFollow, Pending
    <2>3. queue = <<>> /\ ~(timers > 0) /\ \A j \in Jobs : jobs[j].pc = "free"
      BY <2>1, Constants DEF AtRest
    <2> QED  BY <2>2, <2>3 DEF Covered, Covers, Comes, Computes, Saves
  <1> QED  BY <1>1, Inductive, YieldsInductive, PTL

-----------------------------------------------------------------------------
(* MarketIndex *)

(* The chain: what each transaction says is what it did *)

Amm(e) == e.fn \in {"create_market", "add_liquidity", "buy", "sell"}

Kinds == {"submit", "change_metadata", "create_market", "add_liquidity", "buy", "sell"}

TxRecords ==
  [fn : Kinds,
   token : Tokens, by : Accounts, pairs : BOOLEAN, reserve : Column, price : Column,
   lp : Column, points : Column, balance : Column, rswp : Column,
   symbol : Nat \union {None}, moved : Int]

WellFormed(e) ==
  /\ Amm(e) <=> e.reserve # None
  /\ e.pairs <=> e.fn = "create_market"
  /\ e.pairs => e.by \in KeyHolders /\ e.price # None /\ e.lp # None
  /\ e.fn \in {"buy", "sell"} => e.price # None
  /\ ~Amm(e) => /\ e.price = None /\ e.lp = None /\ e.points = None /\ e.rswp = None
                /\ e.symbol # None
  /\ e.rswp # None => e.token # Rswp

\* What the transaction sets of a market, a balance and a position, None for nothing.
ReserveSet(e, t) == IF e.token = t THEN e.reserve ELSE IF t = Rswp THEN e.rswp ELSE None
PriceSet(e, t) == IF e.token = t THEN e.price ELSE None
LpSet(e, t) == IF e.token = t THEN e.lp ELSE None
BalanceSet(e, a, t) == IF e.by = a /\ e.token = t THEN e.balance ELSE None
PointsSet(e, a, t) == IF e.by = a /\ e.token = t THEN e.points ELSE None

Finds == [token : Tokens, entity : Nat, at : {"find"}, columns : {{}}]
TradeRows == [hash : Nat, token : Tokens, type : {"buy", "sell"}, vk : Accounts,
              amount : Column, price : Column, token_symbol : Column]
Actions == {"saveTransfer", "saveToken", "saveTokenUpdate", "processAmmBlock"}

ChainTypes ==
  /\ log \in Seq(TxRecords)
  /\ market \in [Tokens -> [reserve : Column, price : Column, lp : Column]]
  /\ points \in [Accounts -> [Tokens -> Int]] /\ balance \in [Accounts -> [Tokens -> Int]]
  /\ symbol \in [Tokens -> Nat \union {None}]

JobTypes ==
  /\ handed \in 0 .. Len(log)
  /\ action_que \in Seq([do : Actions, tx : Nat])
  /\ at \in {"savePair", "saveHasMarket", "insertPair", "savePairLp", "saveUserLp",
             "saveReserves", "savePrice"}
  /\ entity \in {None} \union MetaSaves
  /\ tokenSaves \in Seq(MetaSaves \union Finds)
  /\ \A k \in DOMAIN tokenSaves :
       tokenSaves[k].at # "find" => TokenEntity[tokenSaves[k].token] # None
  /\ tradeSaves \in Seq(TradeRows)
  /\ replays \in Nat /\ crashes \in Nat

TableTypes ==
  /\ TokenEntity \in [Tokens -> {None} \union TokenRows]
  /\ PairEntity \in [Tokens -> {None} \union PairRows]
  /\ LpPointsEntity \in [Accounts -> [Tokens -> Column]]
  /\ BalanceEntity \in [Accounts -> [Tokens -> Column]]
  /\ TradeHistory \in Seq(TradeRows)
  /\ told \in [Tokens -> {None} \union [reserves : Column, price : Column, lp : Column]]

\* A market is made once, after its token was submitted, and before all its trades.
MarketsMade ==
  /\ \A t \in Tokens : Exists(t) => market[t] \in [reserve : Int, price : Int, lp : Int]
  /\ \A t \in Old : Exists(t)
  /\ \A t \in Tokens \ Old : symbol[t] # None =>
       \E s \in DOMAIN log : log[s].fn = "submit" /\ log[s].token = t
  /\ \A i \in DOMAIN log : WellFormed(log[i]) /\ (Amm(log[i]) => Exists(log[i].token))
  /\ \A c \in DOMAIN log : log[c].pairs =>
       /\ \E s \in DOMAIN log : s < c /\ log[s].fn = "submit" /\ log[s].token = log[c].token
       /\ \A i \in DOMAIN log : Amm(log[i]) /\ log[i].token = log[c].token => c <= i

\* The chain is where the last transactions left it.
LastIsKept ==
  \A i \in DOMAIN log :
    /\ \A t \in Tokens :
         /\ ReserveSet(log[i], t) # None => \/ market[t].reserve = ReserveSet(log[i], t)
                                            \/ \E j \in DOMAIN log : i < j /\ ReserveSet(log[j], t) # None
         /\ PriceSet(log[i], t) # None => \/ market[t].price = PriceSet(log[i], t)
                                          \/ \E j \in DOMAIN log : i < j /\ PriceSet(log[j], t) # None
         /\ LpSet(log[i], t) # None => \/ market[t].lp = LpSet(log[i], t)
                                       \/ \E j \in DOMAIN log : i < j /\ LpSet(log[j], t) # None
    /\ \A a \in Accounts, t \in Tokens :
         /\ BalanceSet(log[i], a, t) # None =>
              \/ balance[a][t] = BalanceSet(log[i], a, t)
              \/ \E j \in DOMAIN log : i < j /\ BalanceSet(log[j], a, t) # None
         /\ PointsSet(log[i], a, t) # None =>
              \/ points[a][t] = PointsSet(log[i], a, t)
              \/ \E j \in DOMAIN log : i < j /\ PointsSet(log[j], a, t) # None

\* p is the last of the transactions before n that set the reserve of t.
LastBefore(txs, p, n, t) ==
  /\ p \in DOMAIN txs /\ p < n /\ ReserveSet(txs[p], t) # None
  /\ \A j \in DOMAIN txs : p < j /\ j < n => ReserveSet(txs[j], t) = None

\* The market was made by one of the transactions; all about it are of key holders.
MadeIn(txs, t) == \E c \in DOMAIN txs : txs[c].token = t /\ txs[c].pairs
KeyedIn(txs, t) == \A i \in DOMAIN txs : txs[i].token = t => txs[i].by \in KeyHolders
IsTrade(e) == e.fn \in {"buy", "sell"}

\* A trade moves what the reserve before it and its own are apart.
TradesMove ==
  /\ \A t \in Tokens : MadeIn(log, t) => \E p \in DOMAIN log : LastBefore(log, p, Len(log) + 1, t)
  /\ \A i \in DOMAIN log : IsTrade(log[i]) /\ MadeIn(log, log[i].token) =>
       \E p \in DOMAIN log :
         /\ LastBefore(log, p, i, log[i].token)
         /\ getAmountExchanged(log[i].fn, ReserveSet(log[p], log[i].token), log[i].reserve) = log[i].moved

(* The queue *)

SecondOf(e) == CASE e.fn = "submit" -> "saveToken"
                 [] e.fn = "change_metadata" -> "saveTokenUpdate"
                 [] OTHER -> "processAmmBlock"

\* The k-th action of a queue is to do this with transaction i.
IsAt(que, k, do, i) == k \in DOMAIN que /\ que[k].do = do /\ que[k].tx = i

\* Something is still to be done with transaction i.
Queued(que, do, i) == \E k \in DOMAIN que : IsAt(que, k, do, i)
Waits(upto, que, do, i) == i > upto \/ Queued(que, do, i)

\* It is after the k-th action that it is done.
After(que, k, do, i) == \E l \in DOMAIN que : k < l /\ IsAt(que, l, do, i)
Before(que, k, do, i) == \E l \in DOMAIN que : l < k /\ IsAt(que, l, do, i)

\* What comes after a transaction on the chain comes after it in the queue as well.
QueueFollows ==
  \A k \in DOMAIN action_que :
    /\ action_que[k].tx \in DOMAIN log
    /\ action_que[k].do \in {"saveTransfer", SecondOf(log[action_que[k].tx])}
    /\ \A j \in DOMAIN log : action_que[k].tx < j =>
         \/ j > handed
         \/ /\ After(action_que, k, "saveTransfer", j)
            /\ After(action_que, k, SecondOf(log[j]), j)

HasSymbol(rec) == rec # None /\ rec.token_symbol # None

\* What is to be done with transaction i comes before all of what comes later on
\* the chain.
ComesFirst(upto, que, do, i) ==
  /\ i <= upto => Queued(que, do, i)
  /\ \A k \in DOMAIN que : i < que[k].tx => Before(que, k, do, i)

\* A token or a market that a transaction is about has its row, or gets it before.
RowsFirst ==
  /\ \A s \in DOMAIN log : log[s].fn = "submit" /\ TokenEntity[log[s].token] = None =>
       ComesFirst(handed, action_que, "saveToken", s)
  /\ \A c \in DOMAIN log : log[c].pairs /\ ~HasSymbol(PairEntity[log[c].token]) =>
       ComesFirst(handed, action_que, "processAmmBlock", c)

\* How far processAmmBlock is with the first action's transaction.
Progress ==
  /\ action_que = <<>> \/ Head(action_que).do # "processAmmBlock" => at = "savePair"
  /\ at \in {"saveHasMarket", "insertPair"} =>
       tx.pairs /\ entity # None /\ TokenEntity[tx.token] # None
  /\ at = "saveHasMarket" => entity.token = tx.token
  /\ at \in {"savePairLp", "saveUserLp", "saveReserves", "savePrice"} /\ tx.pairs =>
       HasSymbol(PairEntity[tx.token])
  /\ at \in {"saveReserves", "savePrice"} /\ tx.points # None =>
       LpPointsEntity[tx.by][tx.token] = tx.points
  /\ at = "savePrice" =>
       /\ tx.by \in KeyHolders /\ PairEntity[tx.token] # None
       /\ PairEntity[tx.token].reserves = tx.reserve
       /\ tx.price # None => PairEntity[tx.token].price = tx.price
       /\ tx.lp # None => PairEntity[tx.token].lp = tx.lp
       /\ tx.rswp # None => PairEntity[Rswp] # None /\ PairEntity[Rswp].reserves = tx.rswp
       /\ told[tx.token] = Metrics(PairEntity[tx.token])

(* The tables are where the chain is, or something to be done will change that *)

AccountsFollow ==
  \A a \in Accounts, t \in Tokens :
    /\ BalanceEntity[a][t] \in {None, balance[a][t]}
       \/ \E j \in DOMAIN log : BalanceSet(log[j], a, t) # None /\ Waits(handed, action_que, "saveTransfer", j)
    /\ LpPointsEntity[a][t] \in {None, points[a][t]}
       \/ \E j \in DOMAIN log : PointsSet(log[j], a, t) # None /\ Waits(handed, action_que, "processAmmBlock", j)

MarketsFollow ==
  \A t \in Tokens : KeyedIn(log, t) /\ PairEntity[t] # None =>
    /\ PairEntity[t].reserves \in {None, market[t].reserve}
       \/ \E j \in DOMAIN log : ReserveSet(log[j], t) # None /\ Waits(handed, action_que, "processAmmBlock", j)
    /\ PairEntity[t].price \in {None, market[t].price}
       \/ \E j \in DOMAIN log : PriceSet(log[j], t) # None /\ Waits(handed, action_que, "processAmmBlock", j)
    /\ PairEntity[t].lp \in {None, market[t].lp}
       \/ \E j \in DOMAIN log : LpSet(log[j], t) # None /\ Waits(handed, action_que, "processAmmBlock", j)
    /\ t # Rswp => told[t] = Metrics(PairEntity[t])
       \/ \E j \in DOMAIN log : Amm(log[j]) /\ log[j].token = t
                                       /\ Waits(handed, action_que, "processAmmBlock", j)

\* Every column of the row has been written.
Full(rec) ==
  HasSymbol(rec) /\ rec.reserves # None /\ rec.price # None /\ rec.lp # None

MarketsFill ==
  \A c \in DOMAIN log : log[c].pairs =>
    Full(PairEntity[log[c].token]) \/ Waits(handed, action_que, "processAmmBlock", c)

(* Trades *)

\* Transaction i, and the reserve it left, are still to be saved.
Unsaved(upto, que, stage, i) ==
  \/ i > upto
  \/ \E k \in DOMAIN que : IsAt(que, k, "processAmmBlock", i) /\ (k = 1 => stage # "savePrice")

Held(saves, history, i) ==
  \/ \E k \in DOMAIN saves : saves[k].hash = i /\ saves[k].token_symbol # None
  \/ \E k \in DOMAIN history : history[k].hash = i

\* Trades of markets that were seen from their beginning, of key holders only.
Followed(txs, i) ==
  i \in DOMAIN txs /\ IsTrade(txs[i]) /\ MadeIn(txs, txs[i].token) /\ KeyedIn(txs, txs[i].token)

TradesFollow ==
  \A i \in DOMAIN log : Followed(log, i) =>
    Unsaved(handed, action_que, at, i) \/ Held(tradeSaves, TradeHistory, i)

GivenOnce == replays + crashes = 0

\* Given once, the queue has the order of the chain.
QueueInOrder ==
  GivenOnce =>
    /\ \A k \in DOMAIN action_que : action_que[k].tx <= handed
    /\ \A k, l \in DOMAIN action_que : k < l =>
         /\ action_que[k].tx <= action_que[l].tx
         /\ action_que[k].do = "processAmmBlock" => action_que[k].tx < action_que[l].tx

\* A row is of a saved trade, and if that is followed, has the amount that it moved.
RowIsRight(txs, upto, que, stage, rec) ==
  /\ rec.hash \in DOMAIN txs /\ IsTrade(txs[rec.hash])
  /\ ~Unsaved(upto, que, stage, rec.hash)
  /\ Followed(txs, rec.hash) => rec.amount = txs[rec.hash].moved

TradesOnce ==
  GivenOnce =>
    /\ \A k \in DOMAIN tradeSaves :
         /\ RowIsRight(log, handed, action_que, at, tradeSaves[k])
         /\ \A l \in DOMAIN tradeSaves : tradeSaves[l].hash = tradeSaves[k].hash => l = k
         /\ \A l \in DOMAIN TradeHistory : TradeHistory[l].hash # tradeSaves[k].hash
    /\ \A k \in DOMAIN TradeHistory :
         /\ RowIsRight(log, handed, action_que, at, TradeHistory[k])
         /\ \A l \in DOMAIN TradeHistory : TradeHistory[l].hash = TradeHistory[k].hash => l = k

\* Transaction p set the reserve of t, is saved, and none later that did so is.
LastSaved(txs, upto, que, stage, p, t) ==
  /\ ReserveSet(txs[p], t) # None /\ ~Unsaved(upto, que, stage, p)
  /\ \A j \in DOMAIN txs : p < j /\ ReserveSet(txs[j], t) # None => Unsaved(upto, que, stage, j)

\* Given once, the table has the reserve that the last saved transaction left.
ReservesInOrder ==
  GivenOnce =>
    \A t \in Tokens, p \in DOMAIN log :
      KeyedIn(log, t) /\ LastSaved(log, handed, action_que, at, p, t) =>
        PairEntity[t] # None /\ PairEntity[t].reserves = ReserveSet(log[p], t)

\* The invariant of the tables, the history and what clients were told.
MarketInv ==
  /\ ChainTypes /\ JobTypes /\ TableTypes
  /\ MarketsMade /\ LastIsKept /\ TradesMove
  /\ QueueFollows /\ RowsFirst /\ Progress
  /\ AccountsFollow /\ MarketsFollow /\ MarketsFill
  /\ TradesFollow /\ QueueInOrder /\ TradesOnce /\ ReservesInOrder

-----------------------------------------------------------------------------
(* The chain's steps *)

\* Transaction e takes the chain to where it says it does.
Takes(e) ==
  /\ \A t \in Tokens :
       /\ ReserveSet(e, t) # None => market'[t].reserve = ReserveSet(e, t)
       /\ ReserveSet(e, t) = None => market'[t].reserve = market[t].reserve
       /\ PriceSet(e, t) # None => market'[t].price = PriceSet(e, t)
       /\ PriceSet(e, t) = None => market'[t].price = market[t].price
       /\ LpSet(e, t) # None => market'[t].lp = LpSet(e, t)
       /\ LpSet(e, t) = None => market'[t].lp = market[t].lp
  /\ \A a \in Accounts, t \in Tokens :
       /\ BalanceSet(e, a, t) # None => balance'[a][t] = BalanceSet(e, a, t)
       /\ BalanceSet(e, a, t) = None => balance'[a][t] = balance[a][t]
       /\ PointsSet(e, a, t) # None => points'[a][t] = PointsSet(e, a, t)
       /\ PointsSet(e, a, t) = None => points'[a][t] = points[a][t]

\* A market is made of a submitted token that has none, and traded on afterwards.
Makes(e) ==
  /\ \A t \in Tokens : Exists(t) => market'[t] # NoMarket
  /\ \A t \in Tokens :
       market'[t] # NoMarket => market'[t] \in [reserve : Int, price : Int, lp : Int]
  /\ Amm(e) => market'[e.token] # NoMarket
  /\ Amm(e) => (Exists(e.token) <=> ~e.pairs)
  /\ e.pairs => symbol[e.token] # None
  /\ \A t \in Tokens :
       symbol'[t] # None => symbol[t] # None \/ (e.fn = "submit" /\ e.token = t)
  /\ e.fn \in {"buy", "sell"} =>
       getAmountExchanged(e.fn, market[e.token].reserve, e.reserve) = e.moved

Appends(e) ==
  /\ e \in TxRecords /\ WellFormed(e) /\ log' = Append(log, e)
  /\ market' \in [Tokens -> [reserve : Column, price : Column, lp : Column]]
  /\ points' \in [Accounts -> [Tokens -> Int]] /\ balance' \in [Accounts -> [Tokens -> Int]]
  /\ symbol' \in [Tokens -> Nat \union {None}]
  /\ Takes(e) /\ Makes(e)

\* What a transaction's record has to begin with.
Plain(r, fn, t, a) ==
  /\ r \in TxRecords /\ r.fn = fn /\ r.token = t /\ r.by = a /\ r.pairs = FALSE
  /\ r.reserve = None /\ r.price = None /\ r.lp = None /\ r.points = None
  /\ r.balance = None /\ r.rswp = None /\ r.symbol = None /\ r.moved = 0

\* Tx makes such a record.
LEMMA TxIsPlain ==
  ASSUME NEW fn \in Kinds, NEW t \in Tokens, NEW a \in Accounts
  PROVE  Plain(Tx(fn, t, a), fn, t, a)
  <1>1. PICK r : r = Tx(fn, t, a)
    OBVIOUS
  <1>2. r = [fn |-> fn, token |-> t, by |-> a, pairs |-> FALSE, reserve |-> None, price |-> None,
             lp |-> None, points |-> None, balance |-> None, rswp |-> None, symbol |-> None,
             moved |-> 0]
    BY <1>1 DEF Tx
  <1>3. None \in Column
    BY DEF Column
  <1> QED  BY <1>1, <1>2, <1>3 DEF TxRecords, Plain

\* A submission and a new symbol touch no market.
LEMMA SubmitAppends ==
  ASSUME ChainTypes, MarketsMade, NEW t \in Tokens, NEW a \in KeyHolders,
         submit(t, a) \/ change_metadata(t, a)
  PROVE  \E e : Appends(e)
  <1>1. /\ a \in Accounts /\ balance[a][t] \in Int /\ symbol \in [Tokens -> Nat \union {None}]
        /\ None \notin Int
    BY IndexAssumption DEF ChainTypes, Accounts
  <1>2. \E e : \E fn \in {"submit", "change_metadata"}, s \in Nat :
          /\ e \in TxRecords /\ e.fn = fn /\ e.token = t /\ e.by = a /\ e.pairs = FALSE
          /\ e.reserve = None /\ e.price = None /\ e.lp = None /\ e.points = None /\ e.rswp = None
          /\ e.symbol = s
          /\ e.balance # None => e.balance = balance[a][t]
          /\ log' = Append(log, e) /\ symbol' = [symbol EXCEPT ![t] = s]
          /\ UNCHANGED <<market, points, balance>>
          /\ symbol[t] # None \/ fn = "submit"
    <2>1. CASE submit(t, a)
      <3>1. PICK b \in Int : b = balance[a][t]
        BY <1>1
      <3>2. PICK r : r = Tx("submit", t, a)
        OBVIOUS
      <3>3. PICK e : e = [r EXCEPT !.symbol = 0, !.balance = b]
        OBVIOUS
      <3>4. /\ log' = Append(log, e)
            /\ symbol' = [symbol EXCEPT ![t] = 0] /\ UNCHANGED <<market, points, balance>>
        BY <2>1, <3>1, <3>2, <3>3 DEF submit, Happens
      <3>5. Plain(r, "submit", t, a)
        <4>1. "submit" \in Kinds
          BY DEF Kinds
        <4> QED  BY <1>1, <3>2, <4>1, TxIsPlain
      <3>6. /\ e \in TxRecords /\ e.fn = "submit" /\ e.token = t /\ e.by = a /\ e.pairs = FALSE
            /\ e.reserve = None /\ e.price = None /\ e.lp = None /\ e.points = None /\ e.rswp = None
            /\ e.symbol = 0 /\ e.balance = b
        <4>1. PICK q : q = [r EXCEPT !.symbol = 0]
          OBVIOUS
        <4>2. /\ q \in TxRecords /\ q.fn = "submit" /\ q.token = t /\ q.by = a /\ q.pairs = FALSE
              /\ q.reserve = None /\ q.price = None /\ q.lp = None /\ q.points = None
              /\ q.rswp = None /\ q.symbol = 0
          BY <3>5, <4>1 DEF TxRecords, Plain
        <4>3. e = [q EXCEPT !.balance = b]
          BY <3>3, <4>1
        <4>4. b \in Column
          BY DEF Column
        <4>5. e \in TxRecords
          BY <4>2, <4>3, <4>4 DEF TxRecords
        <4>6. /\ e.fn = "submit" /\ e.token = t /\ e.by = a /\ e.pairs = FALSE
              /\ e.reserve = None /\ e.price = None /\ e.lp = None /\ e.points = None
              /\ e.rswp = None /\ e.symbol = 0 /\ e.balance = b
          BY <4>2, <4>3 DEF TxRecords
        <4> QED  BY <4>5, <4>6, Zenon
      <3> WITNESS e
      <3> WITNESS "submit" \in {"submit", "change_metadata"}, 0 \in Nat
      <3> QED  BY <3>1, <3>4, <3>6
    <2>2. CASE change_metadata(t, a)
      <3>1. symbol[t] \in Nat /\ symbol[t] # None
        BY <1>1, <2>2 DEF change_metadata
      <3>2. PICK s \in Nat : s = symbol[t] + 1
        BY <3>1
      <3>3. PICK r : r = Tx("change_metadata", t, a)
        OBVIOUS
      <3>4. PICK e : e = [r EXCEPT !.symbol = s]
        OBVIOUS
      <3>5. log' = Append(log, e)
        BY <2>2, <3>2, <3>3, <3>4 DEF change_metadata, Happens
      <3>6. symbol' = [symbol EXCEPT ![t] = s] /\ UNCHANGED <<market, points, balance>>
        BY <1>1, <2>2, <3>2 DEF change_metadata
      <3>7. Plain(r, "change_metadata", t, a)
        <4>1. "change_metadata" \in Kinds
          BY DEF Kinds
        <4> QED  BY <1>1, <3>3, <4>1, TxIsPlain
      <3>8. /\ e \in TxRecords /\ e.fn = "change_metadata" /\ e.token = t /\ e.by = a
            /\ e.pairs = FALSE /\ e.reserve = None /\ e.price = None /\ e.lp = None
            /\ e.points = None /\ e.rswp = None /\ e.symbol = s /\ e.balance = None
        BY <3>4, <3>7 DEF TxRecords, Plain
      <3> QED  BY <3>1, <3>5, <3>6, <3>8
    <2> QED  BY <2>1, <2>2
  <1>a. PICK e : \E fn \in {"submit", "change_metadata"}, s \in Nat :
          /\ e \in TxRecords /\ e.fn = fn /\ e.token = t /\ e.by = a /\ e.pairs = FALSE
          /\ e.reserve = None /\ e.price = None /\ e.lp = None /\ e.points = None /\ e.rswp = None
          /\ e.symbol = s
          /\ e.balance # None => e.balance = balance[a][t]
          /\ log' = Append(log, e) /\ symbol' = [symbol EXCEPT ![t] = s]
          /\ UNCHANGED <<market, points, balance>>
          /\ symbol[t] # None \/ fn = "submit"
    BY <1>2
  <1>3. PICK fn \in {"submit", "change_metadata"}, s \in Nat :
          /\ e \in TxRecords /\ e.fn = fn /\ e.token = t /\ e.by = a /\ e.pairs = FALSE
          /\ e.reserve = None /\ e.price = None /\ e.lp = None /\ e.points = None /\ e.rswp = None
          /\ e.symbol = s
          /\ e.balance # None => e.balance = balance[a][t]
          /\ log' = Append(log, e) /\ symbol' = [symbol EXCEPT ![t] = s]
          /\ UNCHANGED <<market, points, balance>>
          /\ symbol[t] # None \/ fn = "submit"
    BY <1>a
  <1>4. WellFormed(e) /\ ~Amm(e)
    BY <1>1, <1>3 DEF WellFormed, Amm
  <1>5. Takes(e)
    BY <1>3 DEF Takes, ReserveSet, PriceSet, LpSet, BalanceSet, PointsSet
  <1>6. Makes(e)
    BY <1>1, <1>3, <1>4 DEF Makes, Exists, MarketsMade
  <1>7. symbol' \in [Tokens -> Nat \union {None}]
    BY <1>1, <1>3
  <1> QED  BY <1>3, <1>4, <1>5, <1>6, <1>7 DEF Appends, ChainTypes

\* So does a new market,
LEMMA CreateAppends ==
  ASSUME ChainTypes, MarketsMade, NEW t \in Tokens, NEW a \in KeyHolders, create_market(t, a)
  PROVE  \E e : Appends(e)
  <1>1. /\ a \in Accounts /\ balance \in [Accounts -> [Tokens -> Int]]
        /\ points \in [Accounts -> [Tokens -> Int]] /\ None \notin Int
        /\ market \in [Tokens -> [reserve : Column, price : Column, lp : Column]]
        /\ symbol \in [Tokens -> Nat \union {None}]
    BY IndexAssumption DEF ChainTypes, Accounts
  <1>2. PICK b \in Int : b = balance[a][t] - 1
    BY <1>1
  <1>3. PICK r : r = Tx("create_market", t, a)
    OBVIOUS
  <1>4. PICK e : e = [r EXCEPT !.pairs = TRUE, !.reserve = 1, !.price = 1, !.lp = 1, !.points = 1,
                               !.balance = b]
    OBVIOUS
  <1>5. log' = Append(log, e)
    BY <1>2, <1>3, <1>4 DEF create_market, Happens
  <1>6. /\ symbol[t] # None /\ ~Exists(t)
        /\ market' = [market EXCEPT ![t] = [reserve |-> 1, price |-> 1, lp |-> 1]]
        /\ points' = [points EXCEPT ![a][t] = 1]
        /\ balance' = [balance EXCEPT ![a][t] = b]
        /\ symbol' = symbol
    BY <1>1, <1>2 DEF create_market
  <1>7. Plain(r, "create_market", t, a)
    <2>1. "create_market" \in Kinds
      BY DEF Kinds
    <2> QED  BY <1>1, <1>3, <2>1, TxIsPlain
  <1>8. /\ e \in TxRecords /\ e.fn = "create_market" /\ e.token = t /\ e.by = a /\ e.pairs = TRUE
        /\ e.reserve = 1 /\ e.price = 1 /\ e.lp = 1 /\ e.points = 1 /\ e.balance = b
        /\ e.rswp = None
    <2>0. b \in Column /\ 1 \in Column
      BY DEF Column
    <2>1. PICK q : q = [r EXCEPT !.pairs = TRUE]
      OBVIOUS
    <2>2. /\ q \in TxRecords /\ q.fn = "create_market" /\ q.token = t /\ q.by = a /\ q.pairs = TRUE
          /\ q.rswp = None
      BY <1>7, <2>1 DEF Plain, TxRecords
    <2>3. PICK p : p = [q EXCEPT !.reserve = 1]
      OBVIOUS
    <2>4. /\ p \in TxRecords /\ p.fn = "create_market" /\ p.token = t /\ p.by = a /\ p.pairs = TRUE
          /\ p.rswp = None /\ p.reserve = 1
      BY <2>0, <2>2, <2>3 DEF TxRecords
    <2>5. PICK o : o = [p EXCEPT !.price = 1]
      OBVIOUS
    <2>6. /\ o \in TxRecords /\ o.fn = "create_market" /\ o.token = t /\ o.by = a /\ o.pairs = TRUE
          /\ o.rswp = None /\ o.reserve = 1 /\ o.price = 1
      BY <2>0, <2>4, <2>5 DEF TxRecords
    <2>7. PICK n : n = [o EXCEPT !.lp = 1]
      OBVIOUS
    <2>8. /\ n \in TxRecords /\ n.fn = "create_market" /\ n.token = t /\ n.by = a /\ n.pairs = TRUE
          /\ n.rswp = None /\ n.reserve = 1 /\ n.price = 1 /\ n.lp = 1
      BY <2>0, <2>6, <2>7 DEF TxRecords
    <2>9. PICK m : m = [n EXCEPT !.points = 1]
      OBVIOUS
    <2>10. /\ m \in TxRecords /\ m.fn = "create_market" /\ m.token = t /\ m.by = a /\ m.pairs = TRUE
           /\ m.rswp = None /\ m.reserve = 1 /\ m.price = 1 /\ m.lp = 1 /\ m.points = 1
      BY <2>0, <2>8, <2>9 DEF TxRecords
    <2>11. e = [m EXCEPT !.balance = b]
      BY <1>4, <2>1, <2>3, <2>5, <2>7, <2>9
    <2> QED  BY <2>0, <2>10, <2>11 DEF TxRecords
  <1>9. WellFormed(e)
    BY <1>1, <1>8 DEF WellFormed, Amm
  <1>10. market' \in [Tokens -> [reserve : Column, price : Column, lp : Column]]
    BY <1>1, <1>6 DEF Column
  <1>11. points' \in [Accounts -> [Tokens -> Int]] /\ balance' \in [Accounts -> [Tokens -> Int]]
    BY <1>1, <1>6
  <1>12. market'[t] = [reserve |-> 1, price |-> 1, lp |-> 1]
         /\ \A s \in Tokens : s # t => market'[s] = market[s]
    BY <1>1, <1>6
  <1>13. Takes(e)
    <2>1. \A s \in Tokens : /\ ReserveSet(e, s) = IF s = t THEN 1 ELSE None
                            /\ PriceSet(e, s) = IF s = t THEN 1 ELSE None
                            /\ LpSet(e, s) = IF s = t THEN 1 ELSE None
      BY <1>8 DEF ReserveSet, PriceSet, LpSet
    <2>2. \A c \in Accounts, s \in Tokens :
            /\ BalanceSet(e, c, s) = IF c = a /\ s = t THEN b ELSE None
            /\ PointsSet(e, c, s) = IF c = a /\ s = t THEN 1 ELSE None
      BY <1>8 DEF BalanceSet, PointsSet
    <2>3. \A c \in Accounts, s \in Tokens :
            /\ balance'[c][s] = IF c = a /\ s = t THEN b ELSE balance[c][s]
            /\ points'[c][s] = IF c = a /\ s = t THEN 1 ELSE points[c][s]
      BY <1>1, <1>6
    <2>4. \A s \in Tokens :
       /\ ReserveSet(e, s) # None => market'[s].reserve = ReserveSet(e, s)
       /\ ReserveSet(e, s) = None => market'[s].reserve = market[s].reserve
       /\ PriceSet(e, s) # None => market'[s].price = PriceSet(e, s)
       /\ PriceSet(e, s) = None => market'[s].price = market[s].price
       /\ LpSet(e, s) # None => market'[s].lp = LpSet(e, s)
       /\ LpSet(e, s) = None => market'[s].lp = market[s].lp
      BY <1>1, <1>12, <2>1
    <2>5. \A c \in Accounts, s \in Tokens :
       /\ BalanceSet(e, c, s) # None => balance'[c][s] = BalanceSet(e, c, s)
       /\ BalanceSet(e, c, s) = None => balance'[c][s] = balance[c][s]
       /\ PointsSet(e, c, s) # None => points'[c][s] = PointsSet(e, c, s)
       /\ PointsSet(e, c, s) = None => points'[c][s] = points[c][s]
      BY <1>1, <2>2, <2>3
    <2> QED  BY <2>4, <2>5 DEF Takes
  <1>14. Makes(e)
    <2>1. [reserve |-> 1, price |-> 1, lp |-> 1] # NoMarket
      BY <1>1 DEF NoMarket
    <2>2. [reserve |-> 1, price |-> 1, lp |-> 1] \in [reserve : Int, price : Int, lp : Int]
      OBVIOUS
    <2>3. \A s \in Tokens :
            market'[s] # NoMarket => market'[s] \in [reserve : Int, price : Int, lp : Int]
      BY <1>12, <2>1, <2>2 DEF MarketsMade, Exists
    <2> QED  BY <1>6, <1>8, <1>12, <2>1, <2>3 DEF Makes, Exists, Amm
  <1> QED  BY <1>1, <1>5, <1>6, <1>8, <1>9, <1>10, <1>11, <1>13, <1>14 DEF Appends

\* liquidity that is added,
LEMMA AddAppends ==
  ASSUME ChainTypes, MarketsMade, NEW t \in Tokens, NEW a \in KeyHolders, add_liquidity(t, a)
  PROVE  \E e : Appends(e)
  <1>1. /\ a \in Accounts /\ balance \in [Accounts -> [Tokens -> Int]]
        /\ points \in [Accounts -> [Tokens -> Int]] /\ None \notin Int
        /\ market \in [Tokens -> [reserve : Column, price : Column, lp : Column]]
        /\ symbol \in [Tokens -> Nat \union {None}]
    BY IndexAssumption DEF ChainTypes, Accounts
  <1>2. Exists(t) /\ market[t] \in [reserve : Int, price : Int, lp : Int]
    BY DEF add_liquidity, MarketsMade
  <1>3. PICK b \in Int : b = balance[a][t] - 1
    BY <1>1
  <1>4. PICK p \in Int : p = points[a][t] + 1
    BY <1>1
  <1>5. PICK m : m = [market[t] EXCEPT !.reserve = @ + 1, !.lp = @ + 1]
    OBVIOUS
  <1>6. /\ m \in [reserve : Int, price : Int, lp : Int] /\ m.price = market[t].price
        /\ m # NoMarket
    <2>1. PICK k : k = market[t]
      OBVIOUS
    <2>2. k \in [reserve : Int, price : Int, lp : Int]
      BY <1>2, <2>1
    <2>3. PICK x \in Int, l \in Int : x = k.reserve + 1 /\ l = k.lp + 1
      BY <2>2
    <2>4. m = [k EXCEPT !.reserve = x, !.lp = l]
      BY <1>5, <2>1, <2>3
    <2>5. m \in [reserve : Int, price : Int, lp : Int] /\ m.price = k.price
      BY <2>2, <2>4
    <2>6. m.reserve # None
      BY <1>1, <2>5
    <2>7. NoMarket.reserve = None
      BY DEF NoMarket
    <2> QED  BY <2>1, <2>5, <2>6, <2>7
  <1>7. PICK r : r = Tx("add_liquidity", t, a)
    OBVIOUS
  <1>8. PICK e : e = [r EXCEPT !.reserve = m.reserve, !.lp = m.lp, !.points = p, !.balance = b]
    OBVIOUS
  <1>9. log' = Append(log, e)
    BY <1>3, <1>4, <1>5, <1>7, <1>8 DEF add_liquidity, Happens
  <1>10. /\ market' = [market EXCEPT ![t] = m]
         /\ points' = [points EXCEPT ![a][t] = p]
         /\ balance' = [balance EXCEPT ![a][t] = b]
         /\ symbol' = symbol
    BY <1>1, <1>3, <1>4, <1>5 DEF add_liquidity
  <1>11. Plain(r, "add_liquidity", t, a)
    <2>1. "add_liquidity" \in Kinds
      BY DEF Kinds
    <2> QED  BY <1>1, <1>7, <2>1, TxIsPlain
  <1>12. /\ e \in TxRecords /\ e.fn = "add_liquidity" /\ e.token = t /\ e.by = a /\ e.pairs = FALSE
         /\ e.reserve = m.reserve /\ e.price = None /\ e.lp = m.lp /\ e.points = p
         /\ e.balance = b /\ e.rswp = None
    <2>0. b \in Column /\ p \in Column /\ m.reserve \in Column /\ m.lp \in Column
      BY <1>6 DEF Column
    <2>1. PICK q : q = [r EXCEPT !.reserve = m.reserve]
      OBVIOUS
    <2>2. /\ q \in TxRecords /\ q.fn = "add_liquidity" /\ q.token = t /\ q.by = a /\ q.pairs = FALSE
          /\ q.rswp = None /\ q.price = None /\ q.reserve = m.reserve
      BY <1>11, <2>0, <2>1 DEF Plain, TxRecords
    <2>3. PICK o : o = [q EXCEPT !.lp = m.lp]
      OBVIOUS
    <2>4. /\ o \in TxRecords /\ o.fn = "add_liquidity" /\ o.token = t /\ o.by = a /\ o.pairs = FALSE
          /\ o.rswp = None /\ o.price = None /\ o.reserve = m.reserve /\ o.lp = m.lp
      BY <2>0, <2>2, <2>3 DEF TxRecords
    <2>5. PICK n : n = [o EXCEPT !.points = p]
      OBVIOUS
    <2>6. /\ n \in TxRecords /\ n.fn = "add_liquidity" /\ n.token = t /\ n.by = a /\ n.pairs = FALSE
          /\ n.rswp = None /\ n.price = None /\ n.reserve = m.reserve /\ n.lp = m.lp
          /\ n.points = p
      BY <2>0, <2>4, <2>5 DEF TxRecords
    <2>7. e = [n EXCEPT !.balance = b]
      BY <1>8, <2>1, <2>3, <2>5
    <2> QED  BY <2>0, <2>6, <2>7 DEF TxRecords
  <1>13. WellFormed(e)
    <2>1. m.reserve # None
      BY <1>1, <1>6
    <2> QED  BY <1>1, <1>12, <2>1 DEF WellFormed, Amm
  <1>14. market' \in [Tokens -> [reserve : Column, price : Column, lp : Column]]
    <2>1. m \in [reserve : Column, price : Column, lp : Column]
      BY <1>6 DEF Column
    <2> QED  BY <1>1, <1>10, <2>1
  <1>15. points' \in [Accounts -> [Tokens -> Int]] /\ balance' \in [Accounts -> [Tokens -> Int]]
    BY <1>1, <1>10
  <1>16. market'[t] = m /\ \A s \in Tokens : s # t => market'[s] = market[s]
    BY <1>1, <1>10
  <1>17. Takes(e)
    <2>1. \A s \in Tokens : /\ ReserveSet(e, s) = IF s = t THEN m.reserve ELSE None
                            /\ PriceSet(e, s) = None
                            /\ LpSet(e, s) = IF s = t THEN m.lp ELSE None
      BY <1>12 DEF ReserveSet, PriceSet, LpSet
    <2>2. \A c \in Accounts, s \in Tokens :
            /\ BalanceSet(e, c, s) = IF c = a /\ s = t THEN b ELSE None
            /\ PointsSet(e, c, s) = IF c = a /\ s = t THEN p ELSE None
      BY <1>12 DEF BalanceSet, PointsSet
    <2>3. \A c \in Accounts, s \in Tokens :
            /\ balance'[c][s] = IF c = a /\ s = t THEN b ELSE balance[c][s]
            /\ points'[c][s] = IF c = a /\ s = t THEN p ELSE points[c][s]
      BY <1>1, <1>10
    <2>4. \A s \in Tokens :
       /\ ReserveSet(e, s) # None => market'[s].reserve = ReserveSet(e, s)
       /\ ReserveSet(e, s) = None => market'[s].reserve = market[s].reserve
       /\ PriceSet(e, s) # None => market'[s].price = PriceSet(e, s)
       /\ PriceSet(e, s) = None => market'[s].price = market[s].price
       /\ LpSet(e, s) # None => market'[s].lp = LpSet(e, s)
       /\ LpSet(e, s) = None => market'[s].lp = market[s].lp
      BY <1>1, <1>6, <1>16, <2>1
    <2>5. \A c \in Accounts, s \in Tokens :
       /\ BalanceSet(e, c, s) # None => balance'[c][s] = BalanceSet(e, c, s)
       /\ BalanceSet(e, c, s) = None => balance'[c][s] = balance[c][s]
       /\ PointsSet(e, c, s) # None => points'[c][s] = PointsSet(e, c, s)
       /\ PointsSet(e, c, s) = None => points'[c][s] = points[c][s]
      BY <1>1, <2>2, <2>3
    <2> QED  BY <2>4, <2>5 DEF Takes
  <1>18. Makes(e)
    <2>1. \A s \in Tokens :
            market'[s] # NoMarket => market'[s] \in [reserve : Int, price : Int, lp : Int]
      BY <1>6, <1>16 DEF MarketsMade, Exists
    <2> QED  BY <1>2, <1>6, <1>10, <1>12, <1>16, <2>1 DEF Makes, Exists, Amm
  <1> QED  BY <1>1, <1>9, <1>10, <1>12, <1>13, <1>14, <1>15, <1>17, <1>18 DEF Appends

\* and a trade.
LEMMA TradeAppends ==
  ASSUME ChainTypes, MarketsMade, NEW fn \in {"buy", "sell"}, NEW t \in Tokens, NEW a \in Accounts,
         NEW amount \in Int, fn = "buy" => amount >= 0, fn = "sell" => amount <= 0,
         NEW inRswp \in BOOLEAN, trade(fn, t, a, amount, inRswp)
  PROVE  \E e : Appends(e)
  <1>1. /\ balance \in [Accounts -> [Tokens -> Int]]
        /\ points \in [Accounts -> [Tokens -> Int]] /\ None \notin Int /\ Rswp \in Tokens
        /\ market \in [Tokens -> [reserve : Column, price : Column, lp : Column]]
        /\ symbol \in [Tokens -> Nat \union {None}]
    BY IndexAssumption DEF ChainTypes, Accounts
  <1>2. /\ Exists(t) /\ market[t] \in [reserve : Int, price : Int, lp : Int]
        /\ inRswp => Exists(Rswp) /\ market[Rswp] \in [reserve : Int, price : Int, lp : Int]
    BY <1>1 DEF trade, MarketsMade
  <1>3. PICK b \in Int : b = balance[a][t] + amount
    BY <1>1
  <1>4. PICK x \in Int : x = market[t].reserve - amount
    BY <1>2
  <1>5. PICK f : f = market[Rswp].reserve + 1
    OBVIOUS
  <1>6. PICK w : w = IF inRswp THEN f ELSE None
    OBVIOUS
  <1>7. PICK v \in Int : v = IF amount > 0 THEN amount ELSE -amount
    OBVIOUS
  <1>8. /\ inRswp => t # Rswp /\ w = f /\ f \in Int /\ w # None
        /\ ~inRswp => w = None
        /\ w \in Column
    BY <1>1, <1>2, <1>5, <1>6 DEF trade, Column
  <1>9. PICK r : r = Tx(fn, t, a)
    OBVIOUS
  <1>10. PICK e : e = [r EXCEPT !.reserve = x, !.price = x, !.balance = b, !.rswp = w, !.moved = v]
    OBVIOUS
  <1>11. log' = Append(log, e)
    BY <1>3, <1>4, <1>5, <1>6, <1>7, <1>9, <1>10 DEF trade, Happens
  <1>12. /\ market' = [s \in Tokens |->
               IF s = t THEN [market[t] EXCEPT !.reserve = x, !.price = x]
               ELSE IF inRswp /\ s = Rswp THEN [market[s] EXCEPT !.reserve = f]
               ELSE market[s]]
         /\ points' = points /\ symbol' = symbol
         /\ balance' = [balance EXCEPT ![a][t] = b]
    BY <1>1, <1>3, <1>4, <1>5 DEF trade
  <1>13. Plain(r, fn, t, a)
    <2>1. fn \in Kinds
      BY DEF Kinds
    <2> QED  BY <1>9, <2>1, TxIsPlain
  <1>14. /\ e \in TxRecords /\ e.fn = fn /\ e.token = t /\ e.by = a /\ e.pairs = FALSE
         /\ e.reserve = x /\ e.price = x /\ e.lp = None /\ e.points = None
         /\ e.balance = b /\ e.rswp = w /\ e.moved = v
    <2>0. b \in Column /\ x \in Column
      BY DEF Column
    <2>1. PICK q : q = [r EXCEPT !.reserve = x]
      OBVIOUS
    <2>2. /\ q \in TxRecords /\ q.fn = fn /\ q.token = t /\ q.by = a /\ q.pairs = FALSE
          /\ q.lp = None /\ q.points = None /\ q.reserve = x
      BY <1>13, <2>0, <2>1 DEF Plain, TxRecords
    <2>3. PICK p : p = [q EXCEPT !.price = x]
      OBVIOUS
    <2>4. /\ p \in TxRecords /\ p.fn = fn /\ p.token = t /\ p.by = a /\ p.pairs = FALSE
          /\ p.lp = None /\ p.points = None /\ p.reserve = x /\ p.price = x
      BY <2>0, <2>2, <2>3 DEF TxRecords
    <2>5. PICK o : o = [p EXCEPT !.balance = b]
      OBVIOUS
    <2>6. /\ o \in TxRecords /\ o.fn = fn /\ o.token = t /\ o.by = a /\ o.pairs = FALSE
          /\ o.lp = None /\ o.points = None /\ o.reserve = x /\ o.price = x /\ o.balance = b
      BY <2>0, <2>4, <2>5 DEF TxRecords
    <2>7. PICK n : n = [o EXCEPT !.rswp = w]
      OBVIOUS
    <2>8. /\ n \in TxRecords /\ n.fn = fn /\ n.token = t /\ n.by = a /\ n.pairs = FALSE
          /\ n.lp = None /\ n.points = None /\ n.reserve = x /\ n.price = x /\ n.balance = b
          /\ n.rswp = w
      BY <1>8, <2>6, <2>7 DEF TxRecords
    <2>9. e = [n EXCEPT !.moved = v]
      BY <1>10, <2>1, <2>3, <2>5, <2>7
    <2> QED  BY <2>8, <2>9 DEF TxRecords
  <1>15. WellFormed(e)
    BY <1>1, <1>8, <1>14 DEF WellFormed, Amm
  <1>16. PICK m : m = [market[t] EXCEPT !.reserve = x, !.price = x]
    OBVIOUS
  <1>17. /\ m \in [reserve : Int, price : Int, lp : Int] /\ m.reserve = x /\ m.price = x
         /\ m.lp = market[t].lp /\ m # NoMarket
    BY <1>1, <1>2, <1>16 DEF NoMarket
  <1>18. PICK g : g = [market[Rswp] EXCEPT !.reserve = f]
    OBVIOUS
  <1>19. inRswp => /\ g \in [reserve : Int, price : Int, lp : Int] /\ g.reserve = f
                   /\ g.price = market[Rswp].price /\ g.lp = market[Rswp].lp /\ g # NoMarket
    BY <1>1, <1>2, <1>8, <1>18 DEF NoMarket
  <1>20. /\ market'[t] = m
         /\ inRswp => market'[Rswp] = g
         /\ \A s \in Tokens : s # t /\ ~(inRswp /\ s = Rswp) => market'[s] = market[s]
    BY <1>1, <1>8, <1>12, <1>16, <1>18
  <1>21. market' \in [Tokens -> [reserve : Column, price : Column, lp : Column]]
    <2>1. /\ m \in [reserve : Column, price : Column, lp : Column]
          /\ inRswp => g \in [reserve : Column, price : Column, lp : Column]
      BY <1>17, <1>19 DEF Column
    <2>2. market' = [s \in Tokens |-> market'[s]]
      BY <1>12
    <2>3. \A s \in Tokens : market'[s] \in [reserve : Column, price : Column, lp : Column]
      BY <1>1, <1>20, <2>1
    <2> QED  BY <2>2, <2>3
  <1>22. points' \in [Accounts -> [Tokens -> Int]] /\ balance' \in [Accounts -> [Tokens -> Int]]
    BY <1>1, <1>12
  <1>23. Takes(e)
    <2>1. \A s \in Tokens :
            /\ s = t => ReserveSet(e, s) = x /\ PriceSet(e, s) = x
            /\ s # t => ReserveSet(e, s) = (IF inRswp /\ s = Rswp THEN f ELSE None)
                        /\ PriceSet(e, s) = None
            /\ LpSet(e, s) = None
      BY <1>1, <1>8, <1>14 DEF ReserveSet, PriceSet, LpSet
    <2>2. \A c \in Accounts, s \in Tokens :
            /\ BalanceSet(e, c, s) = IF c = a /\ s = t THEN b ELSE None
            /\ PointsSet(e, c, s) = None
      BY <1>14 DEF BalanceSet, PointsSet
    <2>3. \A c \in Accounts, s \in Tokens :
            /\ balance'[c][s] = IF c = a /\ s = t THEN b ELSE balance[c][s]
            /\ points'[c][s] = points[c][s]
      BY <1>1, <1>12
    <2>4. \A s \in Tokens :
       /\ ReserveSet(e, s) # None => market'[s].reserve = ReserveSet(e, s)
       /\ ReserveSet(e, s) = None => market'[s].reserve = market[s].reserve
       /\ PriceSet(e, s) # None => market'[s].price = PriceSet(e, s)
       /\ PriceSet(e, s) = None => market'[s].price = market[s].price
       /\ LpSet(e, s) # None => market'[s].lp = LpSet(e, s)
       /\ LpSet(e, s) = None => market'[s].lp = market[s].lp
      BY <1>1, <1>8, <1>17, <1>19, <1>20, <2>1
    <2>5. \A c \in Accounts, s \in Tokens :
       /\ BalanceSet(e, c, s) # None => balance'[c][s] = BalanceSet(e, c, s)
       /\ BalanceSet(e, c, s) = None => balance'[c][s] = balance[c][s]
       /\ PointsSet(e, c, s) # None => points'[c][s] = PointsSet(e, c, s)
       /\ PointsSet(e, c, s) = None => points'[c][s] = points[c][s]
      BY <1>1, <2>2, <2>3
    <2> QED  BY <2>4, <2>5 DEF Takes
  <1>24. Makes(e)
    <2>1. \A s \in Tokens :
            market'[s] # NoMarket => market'[s] \in [reserve : Int, price : Int, lp : Int]
      BY <1>17, <1>19, <1>20 DEF MarketsMade, Exists
    <2>2. getAmountExchanged(e.fn, market[e.token].reserve, e.reserve) = e.moved
      <3>1. market[t].reserve \in Int /\ market[t].reserve # None
        BY <1>1, <1>2
      <3>2. fn = "buy" => market[t].reserve - x = v
        BY <1>4, <1>7, <3>1
      <3>3. fn = "sell" => x - market[t].reserve = v
        BY <1>4, <1>7, <3>1
      <3> QED  BY <1>14, <3>1, <3>2, <3>3 DEF getAmountExchanged
    <2>3. \A s \in Tokens : Exists(s) => market'[s] # NoMarket
      BY <1>17, <1>19, <1>20 DEF Exists
    <2> QED  BY <1>2, <1>12, <1>14, <1>17, <1>20, <2>1, <2>2, <2>3 DEF Makes, Exists, Amm
  <1> QED  BY <1>1, <1>11, <1>12, <1>14, <1>15, <1>21, <1>22, <1>23, <1>24 DEF Appends

\* Every step of the chain appends such a transaction.
LEMMA ChainAppends ==
  ASSUME ChainTypes, MarketsMade, ChainStep
  PROVE  \E e : Appends(e)
  <1>1. PICK t \in Tokens :
          \/ \E a \in KeyHolders : submit(t, a) \/ change_metadata(t, a)
          \/ \E a \in KeyHolders : create_market(t, a)
          \/ \E a \in KeyHolders : add_liquidity(t, a)
          \/ \E a \in Accounts, n \in Amounts :
               trade("buy", t, a, n, FALSE) \/ trade("buy", t, a, n, TRUE)
          \/ \E a \in Accounts, n \in Amounts : trade("sell", t, a, -n, FALSE)
    BY DEF ChainStep
  <1>2. CASE \E a \in KeyHolders : submit(t, a) \/ change_metadata(t, a)
    BY <1>2, SubmitAppends
  <1>3. CASE \E a \in KeyHolders : create_market(t, a)
    BY <1>3, CreateAppends
  <1>4. CASE \E a \in KeyHolders : add_liquidity(t, a)
    BY <1>4, AddAppends
  <1>5. CASE \E a \in Accounts, n \in Amounts :
               trade("buy", t, a, n, FALSE) \/ trade("buy", t, a, n, TRUE)
    <2>1. PICK a \in Accounts, n \in Amounts, r \in BOOLEAN : trade("buy", t, a, n, r)
      BY <1>5
    <2>2. n \in Int /\ n >= 0
      BY IndexAssumption
    <2>3. \E fn \in {"buy", "sell"} : /\ fn = "buy" => n >= 0
                                      /\ fn = "sell" => n <= 0
                                      /\ trade(fn, t, a, n, r)
      BY <2>1, <2>2
    <2> QED  BY <2>2, <2>3, TradeAppends
  <1>6. CASE \E a \in Accounts, n \in Amounts : trade("sell", t, a, -n, FALSE)
    <2>1. PICK a \in Accounts, n \in Amounts : trade("sell", t, a, -n, FALSE)
      BY <1>6
    <2>2. n \in Int /\ n >= 0
      BY IndexAssumption
    <2>3. PICK m \in Int : m = -n
      BY <2>2
    <2>4. trade("sell", t, a, m, FALSE) /\ m <= 0
      <3>1. trade("sell", t, a, m, FALSE)
        BY <2>1, <2>3, Zenon
      <3>2. m <= 0
        BY <2>2, <2>3
      <3> QED  BY <3>1, <3>2
    <2>5. \E fn \in {"buy", "sell"}, r \in BOOLEAN : /\ fn = "buy" => m >= 0
                                                     /\ fn = "sell" => m <= 0
                                                     /\ trade(fn, t, a, m, r)
      BY <2>4, Zenon
    <2> QED  BY <2>5, TradeAppends
  <1> QED  BY <1>1, <1>2, <1>3, <1>4, <1>5, <1>6

-----------------------------------------------------------------------------
(* What a step of the chain leaves true *)

\* The chain has a transaction more, and nothing else has changed.
Grows(n, e) ==
  /\ n \in Nat /\ Len(log) = n /\ DOMAIN log = 1 .. n
  /\ Len(log') = n + 1 /\ DOMAIN log' = 1 .. (n + 1)
  /\ \A i \in 1 .. n : log'[i] = log[i]
  /\ log'[n + 1] = e
  /\ Appends(e)
  /\ UNCHANGED <<jobVars, tradeSaves, TokenEntity, TradeHistory, rows>>

\* A step of the chain is such a step.
LEMMA ChainGrows ==
  ASSUME ChainTypes, MarketsMade, ChainStep
  PROVE  \E n, e : Grows(n, e)
  <1>1. PICK e : Appends(e)
    BY ChainAppends
  <1>2. PICK n \in Nat : n = Len(log) /\ DOMAIN log = 1 .. n
    <2>1. Len(log) \in Nat /\ DOMAIN log = 1 .. Len(log)
      BY DEF ChainTypes
    <2> QED  BY <2>1
  <1>3. log \in Seq(TxRecords) /\ e \in TxRecords /\ log' = Append(log, e)
    BY <1>1 DEF ChainTypes, Appends
  <1>4. /\ Len(log') = n + 1 /\ DOMAIN log' = 1 .. (n + 1)
        /\ \A i \in 1 .. n : log'[i] = log[i]
        /\ log'[n + 1] = e
    BY <1>2, <1>3
  <1>5. UNCHANGED <<jobVars, tradeSaves, TokenEntity, TradeHistory, rows>>
    <2>1. PICK x : Happens(x)
      <3>1. \A t, a : submit(t, a) => \E x : Happens(x)
        BY Zenon DEF submit
      <3>2. \A t, a : change_metadata(t, a) => \E x : Happens(x)
        BY Zenon DEF change_metadata
      <3>3. \A t, a : create_market(t, a) => \E x : Happens(x)
        BY Zenon DEF create_market
      <3>4. \A t, a : add_liquidity(t, a) => \E x : Happens(x)
        BY Zenon DEF add_liquidity
      <3>5. \A fn, t, a, amount, inRswp : trade(fn, t, a, amount, inRswp) => \E x : Happens(x)
        <4> SUFFICES ASSUME NEW fn, NEW t, NEW a, NEW amount, NEW inRswp,
                            trade(fn, t, a, amount, inRswp)
                     PROVE  \E x : Happens(x)
          OBVIOUS
        <4>1. PICK x : x = [Tx(fn, t, a) EXCEPT !.reserve = market[t].reserve - amount,
                    !.price = market[t].reserve - amount,
                    !.balance = balance[a][t] + amount,
                    !.rswp = IF inRswp THEN market[Rswp].reserve + 1 ELSE None,
                    !.moved = IF amount > 0 THEN amount ELSE -amount]
          OBVIOUS
        <4>2. Happens(x)
          BY <4>1 DEF trade
        <4> QED  BY <4>2
      <3> QED  BY <3>1, <3>2, <3>3, <3>4, <3>5, Zenon DEF ChainStep
    <2> QED  BY <2>1 DEF Happens
  <1>6. Grows(n, e)
    BY <1>1, <1>2, <1>4, <1>5 DEF Grows
  <1> QED  BY <1>6

\* The types,
LEMMA GrowsTypes ==
  ASSUME ChainTypes, JobTypes, TableTypes, NEW n, NEW e, Grows(n, e)
  PROVE  ChainTypes' /\ JobTypes' /\ TableTypes'
  <1>1. ChainTypes'
    <2>1. log' \in Seq(TxRecords)
      BY DEF ChainTypes, Grows, Appends
    <2> QED  BY <2>1 DEF ChainTypes, Grows, Appends
  <1>2. JobTypes'
    <2>1. n \in Nat /\ Len(log) = n /\ Len(log') = n + 1
      BY DEF Grows
    <2>2. /\ handed' = handed /\ action_que' = action_que /\ at' = at /\ entity' = entity
          /\ tokenSaves' = tokenSaves /\ tradeSaves' = tradeSaves /\ TokenEntity' = TokenEntity
          /\ replays' = replays /\ crashes' = crashes
      BY DEF Grows, jobVars
    <2>3. handed' \in 0 .. Len(log')
      BY <2>1, <2>2 DEF JobTypes
    <2> QED  BY <2>2, <2>3 DEF JobTypes
  <1>3. TableTypes'
    BY DEF TableTypes, Grows, rows
  <1> QED  BY <1>1, <1>2, <1>3

\* the order in which markets are made,
LEMMA GrowsMade ==
  ASSUME ChainTypes, MarketsMade, NEW n, NEW e, Grows(n, e)
  PROVE  MarketsMade'
  <1>1. /\ n \in Nat /\ DOMAIN log = 1 .. n /\ DOMAIN log' = 1 .. (n + 1)
        /\ \A i \in 1 .. n : log'[i] = log[i]
        /\ log'[n + 1] = e
        /\ e \in TxRecords /\ WellFormed(e) /\ Makes(e)
    BY DEF Grows, Appends
  <1>2. /\ \A i \in 1 .. n : WellFormed(log[i]) /\ (Amm(log[i]) => Exists(log[i].token))
                             /\ log[i].token \in Tokens
        /\ e.token \in Tokens
    <2>1. \A i \in 1 .. n : log[i] \in TxRecords
      BY <1>1 DEF ChainTypes
    <2>2. \A x \in TxRecords : x.token \in Tokens
      BY DEF TxRecords
    <2> QED  BY <1>1, <2>1, <2>2 DEF MarketsMade
  <1>3. \A t \in Tokens : Exists(t)' => market'[t] \in [reserve : Int, price : Int, lp : Int]
    BY <1>1 DEF Makes, Exists
  <1>4. \A t \in Old : Exists(t)'
    BY <1>1, IndexAssumption DEF Makes, Exists, MarketsMade
  <1>5. \A t \in Tokens \ Old : symbol'[t] # None =>
          \E s \in DOMAIN log' : log'[s].fn = "submit" /\ log'[s].token = t
    <2> SUFFICES ASSUME NEW t \in Tokens \ Old, symbol'[t] # None
                 PROVE  \E s \in DOMAIN log' : log'[s].fn = "submit" /\ log'[s].token = t
      OBVIOUS
    <2>1. CASE symbol[t] # None
      <3>1. PICK s \in 1 .. n : log[s].fn = "submit" /\ log[s].token = t
        BY <1>1, <2>1 DEF MarketsMade
      <3> QED  BY <1>1, <3>1
    <2>2. CASE e.fn = "submit" /\ e.token = t
      BY <1>1, <2>2
    <2> QED  BY <1>1, <2>1, <2>2 DEF Makes
  <1>6. \A i \in DOMAIN log' : WellFormed(log'[i]) /\ (Amm(log'[i]) => market'[log'[i].token] # NoMarket)
    <2> SUFFICES ASSUME NEW i \in 1 .. (n + 1)
                 PROVE  WellFormed(log'[i]) /\ (Amm(log'[i]) => market'[log'[i].token] # NoMarket)
      BY <1>1
    <2>1. CASE i \in 1 .. n
      BY <1>1, <1>2, <2>1 DEF Makes, Exists
    <2>2. CASE i = n + 1
      BY <1>1, <2>2 DEF Makes
    <2> QED  BY <1>1, <2>1, <2>2
  <1>7. \A c \in DOMAIN log' : log'[c].pairs =>
          /\ \E s \in DOMAIN log' : s < c /\ log'[s].fn = "submit" /\ log'[s].token = log'[c].token
          /\ \A i \in DOMAIN log' : Amm(log'[i]) /\ log'[i].token = log'[c].token => c <= i
    <2> SUFFICES ASSUME NEW c \in 1 .. (n + 1), log'[c].pairs
                 PROVE  /\ \E s \in 1 .. (n + 1) :
                             s < c /\ log'[s].fn = "submit" /\ log'[s].token = log'[c].token
                        /\ \A i \in 1 .. (n + 1) :
                             Amm(log'[i]) /\ log'[i].token = log'[c].token => c <= i
      BY <1>1
    <2>1. CASE c \in 1 .. n
      <3>1. log[c].pairs /\ log'[c] = log[c]
        BY <1>1, <2>1
      <3>2. PICK s \in 1 .. n : s < c /\ log[s].fn = "submit" /\ log[s].token = log[c].token
        BY <1>1, <2>1, <3>1 DEF MarketsMade
      <3>3. \A i \in 1 .. n : Amm(log[i]) /\ log[i].token = log[c].token => c <= i
        BY <1>1, <2>1, <3>1 DEF MarketsMade
      <3>4. \A i \in 1 .. (n + 1) : Amm(log'[i]) /\ log'[i].token = log'[c].token => c <= i
        <4> SUFFICES ASSUME NEW i \in 1 .. (n + 1), Amm(log'[i]), log'[i].token = log'[c].token
                     PROVE  c <= i
          OBVIOUS
        <4>1. i \in 1 .. n \/ c <= i
          BY <1>1, <2>1
        <4>2. i \in 1 .. n => log'[i] = log[i]
          BY <1>1
        <4> QED  BY <3>1, <3>3, <4>1, <4>2
      <3>5. log'[s] = log[s] /\ s \in 1 .. (n + 1)
        BY <1>1, <3>2
      <3> QED  BY <3>1, <3>2, <3>4, <3>5
    <2>2. CASE c = n + 1
      <3>1. e.pairs /\ log'[c] = e /\ Amm(e)
        BY <1>1, <2>2 DEF WellFormed, Amm
      <3>2. symbol[e.token] # None /\ ~Exists(e.token) /\ e.token \notin Old
        BY <1>1, <3>1 DEF Makes, MarketsMade
      <3>3. PICK s \in 1 .. n : log[s].fn = "submit" /\ log[s].token = e.token
        BY <1>1, <1>2, <3>2 DEF MarketsMade
      <3>4. \A i \in 1 .. n : ~(Amm(log[i]) /\ log[i].token = e.token)
        BY <1>2, <3>2
      <3>5. \A i \in 1 .. (n + 1) : Amm(log'[i]) /\ log'[i].token = log'[c].token => c <= i
        <4> SUFFICES ASSUME NEW i \in 1 .. (n + 1), Amm(log'[i]), log'[i].token = log'[c].token
                     PROVE  c <= i
          OBVIOUS
        <4>1. i \in 1 .. n => log'[i] = log[i]
          BY <1>1
        <4>2. i \notin 1 .. n
          BY <3>1, <3>4, <4>1
        <4> QED  BY <1>1, <2>2, <4>2
      <3>6. log'[s] = log[s] /\ s \in 1 .. (n + 1) /\ s < c
        BY <1>1, <2>2, <3>3
      <3> QED  BY <3>1, <3>3, <3>5, <3>6
    <2> QED  BY <1>1, <2>1, <2>2
  <1> QED  BY <1>3, <1>4, <1>5, <1>6, <1>7 DEF MarketsMade, Exists

\* what the last transactions left,
LEMMA GrowsLast ==
  ASSUME ChainTypes, LastIsKept, NEW n, NEW e, Grows(n, e)
  PROVE  LastIsKept'
  <1>1. /\ n \in Nat /\ DOMAIN log = 1 .. n /\ DOMAIN log' = 1 .. (n + 1)
        /\ \A i \in 1 .. n : log'[i] = log[i]
        /\ log'[n + 1] = e
        /\ Takes(e)
    BY DEF Grows, Appends
  <1>2. \A i \in 1 .. (n + 1) : i \in 1 .. n \/ i = n + 1
    BY <1>1
  <1>3. n + 1 \in 1 .. (n + 1) /\ \A i \in 1 .. n : i < n + 1 /\ i \in 1 .. (n + 1)
    BY <1>1
  <1>4. \A t \in Tokens :
          /\ ReserveSet(e, t) # None => market'[t].reserve = ReserveSet(e, t)
          /\ ReserveSet(e, t) = None => market'[t].reserve = market[t].reserve
          /\ PriceSet(e, t) # None => market'[t].price = PriceSet(e, t)
          /\ PriceSet(e, t) = None => market'[t].price = market[t].price
          /\ LpSet(e, t) # None => market'[t].lp = LpSet(e, t)
          /\ LpSet(e, t) = None => market'[t].lp = market[t].lp
    BY <1>1 DEF Takes
  <1>5. \A a \in Accounts, t \in Tokens :
          /\ BalanceSet(e, a, t) # None => balance'[a][t] = BalanceSet(e, a, t)
          /\ BalanceSet(e, a, t) = None => balance'[a][t] = balance[a][t]
          /\ PointsSet(e, a, t) # None => points'[a][t] = PointsSet(e, a, t)
          /\ PointsSet(e, a, t) = None => points'[a][t] = points[a][t]
    BY <1>1 DEF Takes
  <1>6. \A i \in 1 .. (n + 1), t \in Tokens :
          /\ ReserveSet(log'[i], t) # None =>
               \/ market'[t].reserve = ReserveSet(log'[i], t)
               \/ \E j \in 1 .. (n + 1) : i < j /\ ReserveSet(log'[j], t) # None
          /\ PriceSet(log'[i], t) # None =>
               \/ market'[t].price = PriceSet(log'[i], t)
               \/ \E j \in 1 .. (n + 1) : i < j /\ PriceSet(log'[j], t) # None
          /\ LpSet(log'[i], t) # None =>
               \/ market'[t].lp = LpSet(log'[i], t)
               \/ \E j \in 1 .. (n + 1) : i < j /\ LpSet(log'[j], t) # None
    <2> SUFFICES ASSUME NEW i \in 1 .. (n + 1), NEW t \in Tokens
                 PROVE
          /\ ReserveSet(log'[i], t) # None =>
               \/ market'[t].reserve = ReserveSet(log'[i], t)
               \/ \E j \in 1 .. (n + 1) : i < j /\ ReserveSet(log'[j], t) # None
          /\ PriceSet(log'[i], t) # None =>
               \/ market'[t].price = PriceSet(log'[i], t)
               \/ \E j \in 1 .. (n + 1) : i < j /\ PriceSet(log'[j], t) # None
          /\ LpSet(log'[i], t) # None =>
               \/ market'[t].lp = LpSet(log'[i], t)
               \/ \E j \in 1 .. (n + 1) : i < j /\ LpSet(log'[j], t) # None
      OBVIOUS
    <2>1. CASE i = n + 1
      BY <1>1, <1>4, <2>1
    <2>2. CASE i \in 1 .. n
      <3>1. log'[i] = log[i] /\ i < n + 1
        BY <1>1, <2>2
      <3>2. ReserveSet(log[i], t) # None =>
               \/ market'[t].reserve = ReserveSet(log[i], t)
               \/ \E j \in 1 .. (n + 1) : i < j /\ ReserveSet(log'[j], t) # None
        BY <1>1, <1>3, <1>4, <2>2 DEF LastIsKept
      <3>3. PriceSet(log[i], t) # None =>
               \/ market'[t].price = PriceSet(log[i], t)
               \/ \E j \in 1 .. (n + 1) : i < j /\ PriceSet(log'[j], t) # None
        BY <1>1, <1>3, <1>4, <2>2 DEF LastIsKept
      <3>4. LpSet(log[i], t) # None =>
               \/ market'[t].lp = LpSet(log[i], t)
               \/ \E j \in 1 .. (n + 1) : i < j /\ LpSet(log'[j], t) # None
        BY <1>1, <1>3, <1>4, <2>2 DEF LastIsKept
      <3> QED  BY <3>1, <3>2, <3>3, <3>4
    <2> QED  BY <1>2, <2>1, <2>2
  <1>7. \A i \in 1 .. (n + 1), a \in Accounts, t \in Tokens :
         /\ BalanceSet(log'[i], a, t) # None =>
              \/ balance'[a][t] = BalanceSet(log'[i], a, t)
              \/ \E j \in 1 .. (n + 1) : i < j /\ BalanceSet(log'[j], a, t) # None
         /\ PointsSet(log'[i], a, t) # None =>
              \/ points'[a][t] = PointsSet(log'[i], a, t)
              \/ \E j \in 1 .. (n + 1) : i < j /\ PointsSet(log'[j], a, t) # None
    <2> SUFFICES ASSUME NEW i \in 1 .. (n + 1), NEW a \in Accounts, NEW t \in Tokens
                 PROVE
         /\ BalanceSet(log'[i], a, t) # None =>
              \/ balance'[a][t] = BalanceSet(log'[i], a, t)
              \/ \E j \in 1 .. (n + 1) : i < j /\ BalanceSet(log'[j], a, t) # None
         /\ PointsSet(log'[i], a, t) # None =>
              \/ points'[a][t] = PointsSet(log'[i], a, t)
              \/ \E j \in 1 .. (n + 1) : i < j /\ PointsSet(log'[j], a, t) # None
      OBVIOUS
    <2>1. CASE i = n + 1
      BY <1>1, <1>5, <2>1
    <2>2. CASE i \in 1 .. n
      <3>1. log'[i] = log[i] /\ i < n + 1
        BY <1>1, <2>2
      <3>2. BalanceSet(log[i], a, t) # None =>
              \/ balance'[a][t] = BalanceSet(log[i], a, t)
              \/ \E j \in 1 .. (n + 1) : i < j /\ BalanceSet(log'[j], a, t) # None
        BY <1>1, <1>3, <1>5, <2>2 DEF LastIsKept
      <3>3. PointsSet(log[i], a, t) # None =>
              \/ points'[a][t] = PointsSet(log[i], a, t)
              \/ \E j \in 1 .. (n + 1) : i < j /\ PointsSet(log'[j], a, t) # None
        BY <1>1, <1>3, <1>5, <2>2 DEF LastIsKept
      <3> QED  BY <3>1, <3>2, <3>3
    <2> QED  BY <1>2, <2>1, <2>2
  <1> SUFFICES ASSUME NEW i \in DOMAIN log'
               PROVE
    /\ \A t \in Tokens :
         /\ ReserveSet(log'[i], t) # None =>
              \/ market'[t].reserve = ReserveSet(log'[i], t)
              \/ \E j \in DOMAIN log' : i < j /\ ReserveSet(log'[j], t) # None
         /\ PriceSet(log'[i], t) # None =>
              \/ market'[t].price = PriceSet(log'[i], t)
              \/ \E j \in DOMAIN log' : i < j /\ PriceSet(log'[j], t) # None
         /\ LpSet(log'[i], t) # None =>
              \/ market'[t].lp = LpSet(log'[i], t)
              \/ \E j \in DOMAIN log' : i < j /\ LpSet(log'[j], t) # None
    /\ \A a \in Accounts, t \in Tokens :
         /\ BalanceSet(log'[i], a, t) # None =>
              \/ balance'[a][t] = BalanceSet(log'[i], a, t)
              \/ \E j \in DOMAIN log' : i < j /\ BalanceSet(log'[j], a, t) # None
         /\ PointsSet(log'[i], a, t) # None =>
              \/ points'[a][t] = PointsSet(log'[i], a, t)
              \/ \E j \in DOMAIN log' : i < j /\ PointsSet(log'[j], a, t) # None
    BY Zenon DEF LastIsKept
  <1>8. DOMAIN log' = 1 .. (n + 1) /\ i \in 1 .. (n + 1)
    BY <1>1
  <1>9. \A t \in Tokens :
         /\ ReserveSet(log'[i], t) # None =>
              \/ market'[t].reserve = ReserveSet(log'[i], t)
              \/ \E j \in DOMAIN log' : i < j /\ ReserveSet(log'[j], t) # None
         /\ PriceSet(log'[i], t) # None =>
              \/ market'[t].price = PriceSet(log'[i], t)
              \/ \E j \in DOMAIN log' : i < j /\ PriceSet(log'[j], t) # None
         /\ LpSet(log'[i], t) # None =>
              \/ market'[t].lp = LpSet(log'[i], t)
              \/ \E j \in DOMAIN log' : i < j /\ LpSet(log'[j], t) # None
    BY <1>6, <1>8
  <1>10. \A a \in Accounts, t \in Tokens :
         /\ BalanceSet(log'[i], a, t) # None =>
              \/ balance'[a][t] = BalanceSet(log'[i], a, t)
              \/ \E j \in DOMAIN log' : i < j /\ BalanceSet(log'[j], a, t) # None
         /\ PointsSet(log'[i], a, t) # None =>
              \/ points'[a][t] = PointsSet(log'[i], a, t)
              \/ \E j \in DOMAIN log' : i < j /\ PointsSet(log'[j], a, t) # None
    BY <1>7, <1>8
  <1> QED  BY <1>9, <1>10, Zenon

\* A market that was seen to be made was so before: it has been traded on.
LEMMA GrowsSeen ==
  ASSUME ChainTypes, MarketsMade, NEW n, NEW e, Grows(n, e), NEW t
  PROVE  /\ \A i \in 1 .. n : Amm(log[i]) /\ log[i].token = t =>
              (MadeIn(log', t) => MadeIn(log, t))
         /\ ~e.pairs => (MadeIn(log', t) => MadeIn(log, t))
  <1>1. /\ n \in Nat /\ DOMAIN log = 1 .. n
        /\ \A i \in 1 .. n : log'[i] = log[i]
        /\ log'[n + 1] = e
        /\ WellFormed(e) /\ Makes(e)
    BY DEF Grows, Appends
  <1>2. \A c \in 1 .. (n + 1) : c \in 1 .. n \/ c = n + 1
    BY <1>1
  <1>3. \A c \in 1 .. n : log'[c].token = t /\ log'[c].pairs => MadeIn(log, t)
    BY <1>1 DEF MadeIn
  <1>a. DOMAIN log' = 1 .. (n + 1)
    BY DEF Grows
  <1>b. MadeIn(log', t) => \E c \in 1 .. (n + 1) : log'[c].token = t /\ log'[c].pairs
    BY <1>a DEF MadeIn
  <1>4. \A i \in 1 .. n : Amm(log[i]) => Exists(log[i].token)
    BY <1>1 DEF MarketsMade
  <1>5. e.pairs => Amm(e) /\ ~Exists(e.token)
    BY <1>1 DEF WellFormed, Amm, Makes
  <1> QED  BY <1>1, <1>2, <1>3, <1>4, <1>5, <1>b

\* what trades have moved,
LEMMA GrowsTrades ==
  ASSUME ChainTypes, MarketsMade, LastIsKept, TradesMove, NEW n, NEW e, Grows(n, e)
  PROVE  TradesMove'
  <1>1. /\ n \in Nat /\ DOMAIN log = 1 .. n /\ DOMAIN log' = 1 .. (n + 1) /\ Len(log) = n
        /\ Len(log') = n + 1
        /\ \A i \in 1 .. n : log'[i] = log[i]
        /\ log'[n + 1] = e
        /\ e \in TxRecords /\ WellFormed(e) /\ Makes(e) /\ Takes(e)
    BY DEF Grows, Appends
  <1>2. \A i \in 1 .. (n + 1) : i \in 1 .. n \/ i = n + 1
    BY <1>1
  <1>3. \A p \in 1 .. n, m \in 1 .. (n + 1) : \A t :
          LastBefore(log, p, m, t) => LastBefore(log', p, m, t)
    <2> SUFFICES ASSUME NEW p \in 1 .. n, NEW m \in 1 .. (n + 1), NEW t, LastBefore(log, p, m, t)
                 PROVE  LastBefore(log', p, m, t)
      OBVIOUS
    <2>1. /\ p < m /\ ReserveSet(log[p], t) # None
          /\ \A j \in 1 .. n : p < j /\ j < m => ReserveSet(log[j], t) = None
      BY <1>1 DEF LastBefore
    <2>2. \A j \in 1 .. (n + 1) : p < j /\ j < m => ReserveSet(log'[j], t) = None
      <3> SUFFICES ASSUME NEW j \in 1 .. (n + 1), p < j, j < m
                   PROVE  ReserveSet(log'[j], t) = None
        OBVIOUS
      <3>1. j \in 1 .. n
        BY <1>1
      <3>2. log'[j] = log[j]
        BY <1>1, <3>1
      <3> QED  BY <2>1, <3>1, <3>2
    <2>3. log'[p] = log[p] /\ p \in 1 .. (n + 1)
      BY <1>1
    <2> QED  BY <1>1, <2>1, <2>2, <2>3 DEF LastBefore
  <1>4. \A t \in Tokens : MadeIn(log', t) =>
          \E p \in 1 .. (n + 1) : LastBefore(log', p, n + 2, t)
    <2> SUFFICES ASSUME NEW t \in Tokens, NEW c \in 1 .. (n + 1),
                        log'[c].token = t, log'[c].pairs
                 PROVE  \E p \in 1 .. (n + 1) : LastBefore(log', p, n + 2, t)
      BY <1>1 DEF MadeIn
    <2>1. CASE ReserveSet(e, t) # None
      <3>1. LastBefore(log', n + 1, n + 2, t)
        BY <1>1, <2>1 DEF LastBefore
      <3> QED  BY <1>1, <3>1
    <2>2. CASE ReserveSet(e, t) = None
      <3>1. ~(e.pairs /\ e.token = t)
        BY <1>1, <2>2 DEF WellFormed, Amm, ReserveSet
      <3>2. c \in 1 .. n /\ MadeIn(log, t)
        BY <1>1, <1>2, <3>1 DEF MadeIn
      <3>3. PICK p \in 1 .. n : LastBefore(log, p, n + 1, t)
        BY <1>1, <3>2 DEF TradesMove
      <3>4. /\ p < n + 1 /\ ReserveSet(log[p], t) # None
            /\ \A j \in 1 .. n : p < j /\ j < n + 1 => ReserveSet(log[j], t) = None
        BY <1>1, <3>3 DEF LastBefore
      <3>5. \A j \in 1 .. (n + 1) : p < j /\ j < n + 2 => ReserveSet(log'[j], t) = None
        BY <1>1, <1>2, <2>2, <3>4
      <3>6. p \in 1 .. (n + 1) /\ p < n + 2 /\ log'[p] = log[p]
        BY <1>1
      <3>7. LastBefore(log', p, n + 2, t)
        BY <1>1, <3>4, <3>5, <3>6 DEF LastBefore
      <3> QED  BY <3>6, <3>7
    <2> QED  BY <2>1, <2>2
  <1>5. \A i \in 1 .. (n + 1) :
          /\ IsTrade(log'[i])
          /\ MadeIn(log', log'[i].token)
          => \E p \in 1 .. (n + 1) :
               /\ LastBefore(log', p, i, log'[i].token)
               /\ getAmountExchanged(log'[i].fn, ReserveSet(log'[p], log'[i].token), log'[i].reserve)
                    = log'[i].moved
    <2> SUFFICES ASSUME NEW i \in 1 .. (n + 1), IsTrade(log'[i]),
                        MadeIn(log', log'[i].token)
                 PROVE  \E p \in 1 .. (n + 1) :
                          /\ LastBefore(log', p, i, log'[i].token)
                          /\ getAmountExchanged(log'[i].fn, ReserveSet(log'[p], log'[i].token),
                                                log'[i].reserve) = log'[i].moved
      OBVIOUS
    <2>1. CASE i \in 1 .. n
      <3>1. log'[i] = log[i] /\ Amm(log[i])
        BY <1>1, <2>1 DEF Amm, IsTrade
      <3>2. MadeIn(log, log[i].token)
        BY <2>1, <3>1, GrowsSeen
      <3>3. IsTrade(log[i])
        BY <3>1
      <3>4. PICK p \in 1 .. n :
              /\ LastBefore(log, p, i, log[i].token)
              /\ getAmountExchanged(log[i].fn, ReserveSet(log[p], log[i].token), log[i].reserve)
                   = log[i].moved
        BY <1>1, <2>1, <3>2, <3>3 DEF TradesMove
      <3>5. p \in 1 .. (n + 1) /\ log'[p] = log[p]
        BY <1>1
      <3>6. PICK t : t = log[i].token /\ t = log'[i].token
        BY <3>1
      <3>7. LastBefore(log', p, i, t)
        BY <1>3, <3>4, <3>6
      <3>8. LastBefore(log', p, i, log'[i].token)
        BY <3>6, <3>7
      <3> QED  BY <3>1, <3>4, <3>5, <3>8
    <2>2. CASE i = n + 1
      <3>1. log'[i] = e /\ IsTrade(e) /\ ~e.pairs
        BY <1>1, <2>2 DEF WellFormed, IsTrade
      <3>2. PICK t \in Tokens : t = e.token
        BY <1>1 DEF TxRecords
      <3>3. MadeIn(log, t)
        BY <1>1, <3>1, <3>2, GrowsSeen
      <3>4. PICK p \in 1 .. n : LastBefore(log, p, n + 1, t)
        BY <1>1, <3>3 DEF TradesMove
      <3>5. ReserveSet(log[p], t) # None /\ ~\E j \in DOMAIN log : p < j /\ ReserveSet(log[j], t) # None
        BY <1>1, <3>4 DEF LastBefore
      <3>6. market[t].reserve = ReserveSet(log[p], t)
        BY <1>1, <3>5 DEF LastIsKept
      <3>7. getAmountExchanged(e.fn, market[t].reserve, e.reserve) = e.moved
        BY <1>1, <3>1, <3>2 DEF Makes, IsTrade
      <3>8. LastBefore(log', p, n + 1, t)
        BY <1>1, <1>3, <3>4
      <3>9. LastBefore(log', p, i, log'[i].token)
        BY <2>2, <3>1, <3>2, <3>8
      <3>10. p \in 1 .. (n + 1) /\ log'[p] = log[p]
        BY <1>1
      <3> QED  BY <3>1, <3>2, <3>6, <3>7, <3>9, <3>10
    <2> QED  BY <1>2, <2>1, <2>2
  <1>6. \A t \in Tokens : MadeIn(log', t) => \E p \in DOMAIN log' : LastBefore(log', p, Len(log') + 1, t)
    <2>1. Len(log') + 1 = n + 2
      BY <1>1
    <2> QED  BY <1>1, <1>4, <2>1 DEF MadeIn
  <1>7. \A i \in DOMAIN log' : IsTrade(log'[i]) /\ MadeIn(log', log'[i].token) =>
          \E p \in DOMAIN log' :
            /\ LastBefore(log', p, i, log'[i].token)
            /\ getAmountExchanged(log'[i].fn, ReserveSet(log'[p], log'[i].token), log'[i].reserve)
                 = log'[i].moved
    BY <1>1, <1>5
  <1> QED
    <2>1. \A t \in Tokens : MadeIn(log', t) => \E p \in DOMAIN log' : LastBefore(log', p, Len(log') + 1, t)
      BY <1>6
    <2> QED  BY <1>7, <2>1, Zenon DEF TradesMove

\* A followed trade was followed before.
LEMMA GrowsFollowed ==
  ASSUME ChainTypes, MarketsMade, NEW n, NEW e, Grows(n, e)
  PROVE  /\ \A t : KeyedIn(log', t) => KeyedIn(log, t)
         /\ \A i \in 1 .. n : Followed(log', i) => Followed(log, i)
  <1>1. /\ n \in Nat /\ DOMAIN log = 1 .. n /\ DOMAIN log' = 1 .. (n + 1)
        /\ \A i \in 1 .. n : log'[i] = log[i]
    BY DEF Grows
  <1>2. \A t : KeyedIn(log', t) => KeyedIn(log, t)
    BY <1>1 DEF KeyedIn
  <1>3. ASSUME NEW i \in 1 .. n, Followed(log', i)
        PROVE  Followed(log, i)
    <2>1. log'[i] = log[i] /\ i \in DOMAIN log
      BY <1>1
    <2>2. IsTrade(log[i]) /\ MadeIn(log', log[i].token) /\ KeyedIn(log', log[i].token)
      BY <1>3, <2>1 DEF Followed
    <2>3. Amm(log[i])
      BY <2>2 DEF Amm, IsTrade
    <2>4. MadeIn(log, log[i].token)
      BY <2>2, <2>3, GrowsSeen
    <2> QED  BY <1>2, <2>1, <2>2, <2>4 DEF Followed
  <1> QED  BY <1>2, <1>3

\* what the queue has,
LEMMA GrowsQueue ==
  ASSUME ChainTypes, JobTypes, QueueFollows, RowsFirst, Progress, QueueInOrder,
         NEW n, NEW e, Grows(n, e)
  PROVE  QueueFollows' /\ RowsFirst' /\ Progress' /\ QueueInOrder'
  <1>1. /\ n \in Nat /\ DOMAIN log = 1 .. n /\ DOMAIN log' = 1 .. (n + 1)
        /\ \A i \in 1 .. n : log'[i] = log[i]
    BY DEF Grows
  <1>2. /\ handed' = handed /\ action_que' = action_que /\ at' = at /\ entity' = entity
        /\ replays' = replays /\ crashes' = crashes
        /\ TokenEntity' = TokenEntity /\ PairEntity' = PairEntity
        /\ LpPointsEntity' = LpPointsEntity /\ told' = told
    BY DEF Grows, jobVars, rows
  <1>3. handed \in 0 .. n
    BY <1>1 DEF JobTypes, Grows
  <1>4. \A i \in 1 .. (n + 1) : i \in 1 .. n \/ (i = n + 1 /\ i > handed)
    BY <1>1, <1>3
  <1>5. \A k \in DOMAIN action_que :
          action_que[k].tx \in 1 .. n /\ log'[action_que[k].tx] = log[action_que[k].tx]
    BY <1>1 DEF QueueFollows
  <1>6. QueueFollows'
    <2> SUFFICES ASSUME NEW k \in DOMAIN action_que
                 PROVE
          /\ action_que[k].tx \in 1 .. (n + 1)
          /\ action_que[k].do \in {"saveTransfer", SecondOf(log'[action_que[k].tx])}
          /\ \A j \in 1 .. (n + 1) : action_que[k].tx < j =>
               \/ j > handed
               \/ /\ After(action_que, k, "saveTransfer", j)
                  /\ After(action_que, k, SecondOf(log'[j]), j)
      BY <1>1, <1>2 DEF QueueFollows
    <2>1. action_que[k].tx \in 1 .. (n + 1)
      BY <1>1, <1>5
    <2>2. action_que[k].do \in {"saveTransfer", SecondOf(log'[action_que[k].tx])}
      BY <1>5 DEF QueueFollows
    <2>3. ASSUME NEW j \in 1 .. (n + 1), action_que[k].tx < j
          PROVE  \/ j > handed
                 \/ /\ After(action_que, k, "saveTransfer", j)
                    /\ After(action_que, k, SecondOf(log'[j]), j)
      <3>1. CASE j \in 1 .. n
        BY <1>1, <2>3, <3>1 DEF QueueFollows
      <3> QED  BY <1>4, <3>1
    <2> QED  BY <2>1, <2>2, <2>3
  <1>7. ASSUME NEW s \in 1 .. n PROVE \A do : ComesFirst(handed, action_que, do, s) =>
                                      ComesFirst(handed', action_que', do, s)
    BY <1>2
  <1>8. \A do : ComesFirst(handed', action_que', do, n + 1)
    <2>1. n + 1 > handed /\ \A k \in DOMAIN action_que : ~(n + 1 < action_que[k].tx)
      BY <1>1, <1>3, <1>5
    <2> QED  BY <1>1, <1>2, <1>3, <2>1 DEF ComesFirst
  <1>9. RowsFirst'
    <2>1. ASSUME NEW s \in 1 .. (n + 1), log'[s].fn = "submit", TokenEntity[log'[s].token] = None
          PROVE  ComesFirst(handed', action_que', "saveToken", s)
      BY <1>1, <1>4, <1>7, <1>8, <2>1 DEF RowsFirst
    <2>2. ASSUME NEW c \in 1 .. (n + 1), log'[c].pairs, ~HasSymbol(PairEntity[log'[c].token])
          PROVE  ComesFirst(handed', action_que', "processAmmBlock", c)
      BY <1>1, <1>4, <1>7, <1>8, <2>2 DEF RowsFirst
    <2> QED  BY <1>1, <1>2, <2>1, <2>2 DEF RowsFirst
  <1>10. Progress'
    <2>1. CASE action_que = <<>>
      BY <1>2, <2>1 DEF Progress
    <2>2. CASE action_que # <<>>
      <3>1. 1 \in DOMAIN action_que /\ Head(action_que) = action_que[1]
        BY <2>2 DEF JobTypes
      <3>2. tx' = tx
        BY <1>2, <1>5, <3>1 DEF tx
      <3> QED  BY <1>2, <3>2 DEF Progress, Metrics
    <2> QED  BY <2>1, <2>2
  <1>11. QueueInOrder'
    BY <1>2 DEF QueueInOrder, GivenOnce
  <1> QED  BY <1>6, <1>9, <1>10, <1>11

\* the rows of accounts and markets,
LEMMA GrowsRows ==
  ASSUME ChainTypes, JobTypes, MarketsMade, AccountsFollow, MarketsFollow, MarketsFill,
         NEW n, NEW e, Grows(n, e)
  PROVE  AccountsFollow' /\ MarketsFollow' /\ MarketsFill'
  <1>1. /\ n \in Nat /\ DOMAIN log = 1 .. n /\ DOMAIN log' = 1 .. (n + 1)
        /\ \A i \in 1 .. n : log'[i] = log[i]
        /\ log'[n + 1] = e
        /\ Takes(e)
    BY DEF Grows, Appends
  <1>2. /\ handed' = handed /\ action_que' = action_que
        /\ PairEntity' = PairEntity /\ BalanceEntity' = BalanceEntity
        /\ LpPointsEntity' = LpPointsEntity /\ told' = told
    BY DEF Grows, jobVars, rows
  <1>3. handed \in 0 .. n
    BY <1>1 DEF JobTypes, Grows
  <1>4. /\ n + 1 \in 1 .. (n + 1) /\ \A do : Waits(handed', action_que', do, n + 1)
        /\ \A do, i : Waits(handed, action_que, do, i) => Waits(handed', action_que', do, i)
        /\ \A i \in 1 .. n : i \in 1 .. (n + 1)
    BY <1>1, <1>2, <1>3 DEF Waits
  <1>5. AccountsFollow'
    <2> SUFFICES ASSUME NEW a \in Accounts, NEW t \in Tokens
                 PROVE
         /\ \/ BalanceEntity[a][t] \in {None, balance'[a][t]}
            \/ \E j \in 1 .. (n + 1) :
                 BalanceSet(log'[j], a, t) # None /\ Waits(handed', action_que', "saveTransfer", j)
         /\ \/ LpPointsEntity[a][t] \in {None, points'[a][t]}
            \/ \E j \in 1 .. (n + 1) :
                 PointsSet(log'[j], a, t) # None /\ Waits(handed', action_que', "processAmmBlock", j)
      BY <1>1, <1>2 DEF AccountsFollow
    <2>1. /\ BalanceSet(e, a, t) = None => balance'[a][t] = balance[a][t]
          /\ PointsSet(e, a, t) = None => points'[a][t] = points[a][t]
      BY <1>1 DEF Takes
    <2>2. \/ BalanceEntity[a][t] \in {None, balance[a][t]}
          \/ \E j \in 1 .. n :
               BalanceSet(log[j], a, t) # None /\ Waits(handed, action_que, "saveTransfer", j)
      BY <1>1 DEF AccountsFollow
    <2>3. \/ LpPointsEntity[a][t] \in {None, points[a][t]}
          \/ \E j \in 1 .. n :
               PointsSet(log[j], a, t) # None /\ Waits(handed, action_que, "processAmmBlock", j)
      BY <1>1 DEF AccountsFollow
    <2>4. \/ BalanceEntity[a][t] \in {None, balance'[a][t]}
          \/ \E j \in 1 .. (n + 1) :
               BalanceSet(log'[j], a, t) # None /\ Waits(handed', action_que', "saveTransfer", j)
      BY <1>1, <1>4, <2>1, <2>2
    <2>5. \/ LpPointsEntity[a][t] \in {None, points'[a][t]}
          \/ \E j \in 1 .. (n + 1) :
               PointsSet(log'[j], a, t) # None /\ Waits(handed', action_que', "processAmmBlock", j)
      BY <1>1, <1>4, <2>1, <2>3
    <2> QED  BY <2>4, <2>5
  <1>6. MarketsFollow'
    <2> SUFFICES ASSUME NEW t \in Tokens, KeyedIn(log', t), PairEntity[t] # None
                 PROVE
      /\ \/ PairEntity[t].reserves \in {None, market'[t].reserve}
         \/ \E j \in 1 .. (n + 1) :
              ReserveSet(log'[j], t) # None /\ Waits(handed', action_que', "processAmmBlock", j)
      /\ \/ PairEntity[t].price \in {None, market'[t].price}
         \/ \E j \in 1 .. (n + 1) :
              PriceSet(log'[j], t) # None /\ Waits(handed', action_que', "processAmmBlock", j)
      /\ \/ PairEntity[t].lp \in {None, market'[t].lp}
         \/ \E j \in 1 .. (n + 1) :
              LpSet(log'[j], t) # None /\ Waits(handed', action_que', "processAmmBlock", j)
      /\ t # Rswp =>
           \/ told[t] = Metrics(PairEntity[t])
           \/ \E j \in 1 .. (n + 1) :
                Amm(log'[j]) /\ log'[j].token = t /\ Waits(handed', action_que', "processAmmBlock", j)
      BY <1>1, <1>2 DEF MarketsFollow, Metrics
    <2>0. KeyedIn(log, t)
      BY GrowsFollowed
    <2>1. /\ ReserveSet(e, t) = None => market'[t].reserve = market[t].reserve
          /\ PriceSet(e, t) = None => market'[t].price = market[t].price
          /\ LpSet(e, t) = None => market'[t].lp = market[t].lp
      BY <1>1 DEF Takes
    <2>2. \/ PairEntity[t].reserves \in {None, market[t].reserve}
          \/ \E j \in 1 .. n :
               ReserveSet(log[j], t) # None /\ Waits(handed, action_que, "processAmmBlock", j)
      BY <1>1, <2>0 DEF MarketsFollow
    <2>3. \/ PairEntity[t].price \in {None, market[t].price}
          \/ \E j \in 1 .. n :
               PriceSet(log[j], t) # None /\ Waits(handed, action_que, "processAmmBlock", j)
      BY <1>1, <2>0 DEF MarketsFollow
    <2>4. \/ PairEntity[t].lp \in {None, market[t].lp}
          \/ \E j \in 1 .. n :
               LpSet(log[j], t) # None /\ Waits(handed, action_que, "processAmmBlock", j)
      BY <1>1, <2>0 DEF MarketsFollow
    <2>5. t # Rswp =>
            \/ told[t] = Metrics(PairEntity[t])
            \/ \E j \in 1 .. n :
                 Amm(log[j]) /\ log[j].token = t /\ Waits(handed, action_que, "processAmmBlock", j)
      BY <1>1, <2>0 DEF MarketsFollow
    <2>6. \/ PairEntity[t].reserves \in {None, market'[t].reserve}
          \/ \E j \in 1 .. (n + 1) :
               ReserveSet(log'[j], t) # None /\ Waits(handed', action_que', "processAmmBlock", j)
      BY <1>1, <1>4, <2>1, <2>2
    <2>7. \/ PairEntity[t].price \in {None, market'[t].price}
          \/ \E j \in 1 .. (n + 1) :
               PriceSet(log'[j], t) # None /\ Waits(handed', action_que', "processAmmBlock", j)
      BY <1>1, <1>4, <2>1, <2>3
    <2>8. \/ PairEntity[t].lp \in {None, market'[t].lp}
          \/ \E j \in 1 .. (n + 1) :
               LpSet(log'[j], t) # None /\ Waits(handed', action_que', "processAmmBlock", j)
      BY <1>1, <1>4, <2>1, <2>4
    <2>9. t # Rswp =>
            \/ told[t] = Metrics(PairEntity[t])
            \/ \E j \in 1 .. (n + 1) :
                 Amm(log'[j]) /\ log'[j].token = t /\ Waits(handed', action_que', "processAmmBlock", j)
      BY <1>1, <1>4, <2>5
    <2> QED  BY <2>6, <2>7, <2>8, <2>9
  <1>7. MarketsFill'
    <2> SUFFICES ASSUME NEW c \in 1 .. (n + 1), log'[c].pairs
                 PROVE  \/ Full(PairEntity[log'[c].token])
                        \/ Waits(handed', action_que', "processAmmBlock", c)
      BY <1>1, <1>2 DEF MarketsFill
    <2>1. CASE c = n + 1
      BY <1>4, <2>1
    <2>2. CASE c \in 1 .. n
      BY <1>1, <1>4, <2>2 DEF MarketsFill
    <2> QED  BY <1>1, <2>1, <2>2
  <1> QED  BY <1>5, <1>6, <1>7

\* and the rows of trades.
LEMMA GrowsHistory ==
  ASSUME ChainTypes, JobTypes, MarketsMade, TradesFollow, TradesOnce, ReservesInOrder,
         NEW n, NEW e, Grows(n, e)
  PROVE  TradesFollow' /\ TradesOnce' /\ ReservesInOrder'
  <1>1. /\ n \in Nat /\ DOMAIN log = 1 .. n /\ DOMAIN log' = 1 .. (n + 1)
        /\ \A i \in 1 .. n : log'[i] = log[i]
        /\ log'[n + 1] = e
    BY DEF Grows
  <1>2. /\ handed' = handed /\ action_que' = action_que /\ at' = at
        /\ replays' = replays /\ crashes' = crashes
        /\ PairEntity' = PairEntity /\ tradeSaves' = tradeSaves /\ TradeHistory' = TradeHistory
    BY DEF Grows, jobVars, rows
  <1>3. handed \in 0 .. n
    BY <1>1 DEF JobTypes, Grows
  <1>4. /\ n + 1 \in 1 .. (n + 1) /\ Unsaved(handed, action_que, at, n + 1)
        /\ \A i \in 1 .. (n + 1) : i \in 1 .. n \/ i = n + 1
        /\ \A i \in 1 .. n : i \in 1 .. (n + 1)
    BY <1>1, <1>3 DEF Unsaved
  <1>5. \A i \in 1 .. n : Followed(log', i) => Followed(log, i)
    BY GrowsFollowed
  <1>6. TradesFollow'
    <2> SUFFICES ASSUME NEW i \in 1 .. (n + 1), Followed(log', i)
                 PROVE  \/ Unsaved(handed, action_que, at, i)
                        \/ Held(tradeSaves, TradeHistory, i)
      BY <1>1, <1>2 DEF TradesFollow
    <2> QED  BY <1>1, <1>4, <1>5 DEF TradesFollow
  <1>7. \A rec : RowIsRight(log, handed, action_que, at, rec)
                   => RowIsRight(log', handed', action_que', at', rec)
    BY <1>1, <1>2, <1>4, <1>5 DEF RowIsRight
  <1>8. TradesOnce'
    BY <1>2, <1>7 DEF TradesOnce, GivenOnce
  <1>9. ReservesInOrder'
    <2> SUFFICES ASSUME GivenOnce, NEW t \in Tokens, NEW p \in 1 .. (n + 1), KeyedIn(log', t),
                        LastSaved(log', handed, action_que, at, p, t)
                 PROVE  PairEntity[t] # None /\ PairEntity[t].reserves = ReserveSet(log'[p], t)
      BY <1>1, <1>2 DEF ReservesInOrder, GivenOnce
    <2>1. p \in 1 .. n /\ log'[p] = log[p]
      BY <1>1, <1>4 DEF LastSaved
    <2>2. LastSaved(log, handed, action_que, at, p, t)
      BY <1>1, <1>4, <2>1 DEF LastSaved
    <2>3. KeyedIn(log, t)
      BY GrowsFollowed
    <2> QED  BY <1>1, <2>1, <2>2, <2>3 DEF ReservesInOrder
  <1> QED  BY <1>6, <1>8, <1>9

\* A step of the chain keeps the invariant.
LEMMA ChainKeeps ==
  ASSUME MarketInv, ChainStep
  PROVE  MarketInv'
  <1>1. PICK n, e : Grows(n, e)
    BY ChainGrows DEF MarketInv
  <1>2. ChainTypes' /\ JobTypes' /\ TableTypes'
    BY <1>1, GrowsTypes DEF MarketInv
  <1>3. MarketsMade' /\ LastIsKept' /\ TradesMove'
    BY <1>1, GrowsMade, GrowsLast, GrowsTrades DEF MarketInv
  <1>4. QueueFollows' /\ RowsFirst' /\ Progress' /\ QueueInOrder'
    BY <1>1, GrowsQueue DEF MarketInv
  <1>5. AccountsFollow' /\ MarketsFollow' /\ MarketsFill'
    BY <1>1, GrowsRows DEF MarketInv
  <1>6. TradesFollow' /\ TradesOnce' /\ ReservesInOrder'
    BY <1>1, GrowsHistory DEF MarketInv
  <1> QED  BY <1>2, <1>3, <1>4, <1>5, <1>6 DEF MarketInv

-----------------------------------------------------------------------------
(* What a step of the process leaves true *)

\* The chain is as it was, and so is what was shown of it.
LEMMA ChainStays ==
  ASSUME ChainTypes, MarketsMade, LastIsKept, TradesMove, UNCHANGED chainVars
  PROVE  ChainTypes' /\ MarketsMade' /\ LastIsKept' /\ TradesMove'
  <1>1. log' = log /\ market' = market /\ points' = points /\ balance' = balance /\ symbol' = symbol
    BY DEF chainVars
  <1>2. ChainTypes'
    BY <1>1 DEF ChainTypes
  <1>3. MarketsMade'
    BY <1>1 DEF MarketsMade, Exists
  <1>4. LastIsKept'
    BY <1>1 DEF LastIsKept
  <1>5. TradesMove'
    BY <1>1 DEF TradesMove
  <1> QED  BY <1>2, <1>3, <1>4, <1>5

-----------------------------------------------------------------------------
(* The queue loses its head *)

\* que2 is que without its first action; m is the length of que.
Popped(que, que2, m) ==
  /\ m \in Nat /\ m >= 1 /\ DOMAIN que = 1 .. m /\ DOMAIN que2 = 1 .. (m - 1)
  /\ \A k \in 1 .. (m - 1) : que2[k] = que[k + 1]

\* What is not done by the head stays in the queue, in its place.
LEMMA PoppedKeeps ==
  ASSUME NEW que, NEW que2, NEW m, Popped(que, que2, m)
  PROVE  /\ \A do, i : Queued(que, do, i) /\ ~IsAt(que, 1, do, i) => Queued(que2, do, i)
         /\ \A do, i : Queued(que2, do, i) => Queued(que, do, i)
         /\ \A do, i : After(que, 1, do, i) => Queued(que2, do, i)
         /\ \A k \in 1 .. (m - 1) : \A do, i : After(que, k + 1, do, i) => After(que2, k, do, i)
         /\ \A upto, do, i : ComesFirst(upto, que, do, i) /\ ~IsAt(que, 1, do, i)
                               => ComesFirst(upto, que2, do, i)
         /\ \A upto, do, i : Waits(upto, que, do, i) /\ ~IsAt(que, 1, do, i) => Waits(upto, que2, do, i)
  <1>1. /\ m \in Nat /\ m >= 1 /\ DOMAIN que = 1 .. m /\ DOMAIN que2 = 1 .. (m - 1)
        /\ \A k \in 1 .. (m - 1) : que2[k] = que[k + 1]
    BY DEF Popped
  <1>2. ASSUME NEW l \in 1 .. m, l # 1
        PROVE  l - 1 \in 1 .. (m - 1) /\ \A do, i : IsAt(que, l, do, i) => IsAt(que2, l - 1, do, i)
    <2>1. PICK k \in Nat : k = l - 1
      BY <1>1, <1>2
    <2>2. k \in 1 .. (m - 1) /\ que2[k] = que[l]
      BY <1>1, <1>2, <2>1
    <2>3. \A do, i : IsAt(que, l, do, i) => IsAt(que2, k, do, i)
      BY <1>1, <2>2 DEF IsAt
    <2> QED  BY <2>1, <2>2, <2>3
  <1>3. \A do, i : Queued(que, do, i) /\ ~IsAt(que, 1, do, i) => Queued(que2, do, i)
    <2> SUFFICES ASSUME NEW do, NEW i, NEW l \in 1 .. m, IsAt(que, l, do, i), l # 1
                 PROVE  Queued(que2, do, i)
      BY <1>1 DEF Queued
    <2> QED  BY <1>1, <1>2 DEF Queued
  <1>4. \A do, i : Queued(que2, do, i) => Queued(que, do, i)
    <2> SUFFICES ASSUME NEW do, NEW i, NEW l \in 1 .. (m - 1), IsAt(que2, l, do, i)
                 PROVE  Queued(que, do, i)
      BY <1>1 DEF Queued
    <2>1. PICK k \in 1 .. m : k = l + 1
      BY <1>1
    <2>2. que2[l] = que[k]
      BY <1>1, <2>1
    <2>3. IsAt(que, k, do, i)
      BY <1>1, <2>2 DEF IsAt
    <2> QED  BY <1>1, <2>3 DEF Queued
  <1>5. \A do, i : After(que, 1, do, i) => Queued(que2, do, i)
    <2> SUFFICES ASSUME NEW do, NEW i, NEW l \in 1 .. m, 1 < l, IsAt(que, l, do, i)
                 PROVE  Queued(que2, do, i)
      BY <1>1 DEF After
    <2> QED  BY <1>1, <1>2 DEF Queued
  <1>6. \A k \in 1 .. (m - 1) : \A do, i : After(que, k + 1, do, i) => After(que2, k, do, i)
    <2> SUFFICES ASSUME NEW k \in 1 .. (m - 1), NEW do, NEW i, NEW l \in 1 .. m, k + 1 < l,
                        IsAt(que, l, do, i)
                 PROVE  After(que2, k, do, i)
      BY <1>1 DEF After
    <2>1. PICK j \in 1 .. (m - 1) : j = l - 1
      BY <1>1
    <2>2. k < j /\ IsAt(que2, j, do, i)
      BY <1>1, <1>2, <2>1
    <2> QED  BY <1>1, <2>2 DEF After
  <1>7. \A upto, do, i : ComesFirst(upto, que, do, i) /\ ~IsAt(que, 1, do, i)
                           => ComesFirst(upto, que2, do, i)
    <2> SUFFICES ASSUME NEW upto, NEW do, NEW i, ComesFirst(upto, que, do, i), ~IsAt(que, 1, do, i)
                 PROVE  ComesFirst(upto, que2, do, i)
      OBVIOUS
    <2>1. i <= upto => Queued(que2, do, i)
      BY <1>3 DEF ComesFirst
    <2>2. ASSUME NEW k \in 1 .. (m - 1), i < que2[k].tx
          PROVE  Before(que2, k, do, i)
      <3>1. PICK j \in 1 .. m : j = k + 1
        BY <1>1
      <3>2. i < que[j].tx
        BY <1>1, <2>2, <3>1
      <3>3. PICK l \in 1 .. m : l < j /\ IsAt(que, l, do, i)
        BY <1>1, <3>2 DEF ComesFirst, Before
      <3>4. l # 1
        BY <3>3
      <3>5. PICK o \in 1 .. (m - 1) : o = l - 1
        BY <1>1, <3>4
      <3>6. o < k /\ IsAt(que2, o, do, i)
        BY <1>1, <1>2, <3>1, <3>3, <3>4, <3>5
      <3> QED  BY <1>1, <3>6 DEF Before
    <2> QED  BY <1>1, <2>1, <2>2 DEF ComesFirst
  <1>8. \A upto, do, i : Waits(upto, que, do, i) /\ ~IsAt(que, 1, do, i) => Waits(upto, que2, do, i)
    BY <1>3 DEF Waits
  <1> QED  BY <1>3, <1>4, <1>5, <1>6, <1>7, <1>8

\* What is unsaved stays so, unless the head saves it; nothing else becomes so.
LEMMA PoppedUnsaved ==
  ASSUME NEW que, NEW que2, NEW m, Popped(que, que2, m), NEW upto, NEW stage, NEW i
  PROVE  /\ Unsaved(upto, que, stage, i)
            /\ (stage = "savePrice" \/ ~IsAt(que, 1, "processAmmBlock", i))
              => Unsaved(upto, que2, "savePair", i)
         /\ Unsaved(upto, que2, "savePair", i) => Unsaved(upto, que, stage, i)
  <1>1. /\ m \in Nat /\ m >= 1 /\ DOMAIN que = 1 .. m /\ DOMAIN que2 = 1 .. (m - 1)
        /\ \A k \in 1 .. (m - 1) : que2[k] = que[k + 1]
    BY DEF Popped
  <1>2. ASSUME NEW k \in 1 .. m, IsAt(que, k, "processAmmBlock", i), k # 1
        PROVE  Unsaved(upto, que2, "savePair", i)
    <2>1. PICK j \in 1 .. (m - 1) : j = k - 1
      BY <1>1, <1>2
    <2>2. que2[j] = que[k]
      BY <1>1, <2>1
    <2>3. IsAt(que2, j, "processAmmBlock", i)
      BY <1>1, <1>2, <2>2 DEF IsAt
    <2> QED  BY <1>1, <2>3 DEF Unsaved
  <1>3. ASSUME NEW k \in 1 .. (m - 1), IsAt(que2, k, "processAmmBlock", i)
        PROVE  Unsaved(upto, que, stage, i)
    <2>1. PICK j \in 1 .. m : j = k + 1 /\ j # 1
      BY <1>1
    <2>2. que2[k] = que[j]
      BY <1>1, <2>1
    <2>3. IsAt(que, j, "processAmmBlock", i)
      BY <1>1, <1>3, <2>2 DEF IsAt
    <2> QED  BY <1>1, <2>1, <2>3 DEF Unsaved
  <1>4. Unsaved(upto, que, stage, i)
            /\ (stage = "savePrice" \/ ~IsAt(que, 1, "processAmmBlock", i))
              => Unsaved(upto, que2, "savePair", i)
    <2>1. CASE i > upto
      BY <2>1 DEF Unsaved
    <2>2. ASSUME NEW k \in DOMAIN que, IsAt(que, k, "processAmmBlock", i),
                 k = 1 => stage # "savePrice"
          PROVE  (stage = "savePrice" \/ ~IsAt(que, 1, "processAmmBlock", i))
                   => Unsaved(upto, que2, "savePair", i)
      BY <1>1, <1>2, <2>2
    <2> QED  BY <2>1, <2>2 DEF Unsaved
  <1>5. Unsaved(upto, que2, "savePair", i) => Unsaved(upto, que, stage, i)
    <2>1. CASE i > upto
      BY <2>1 DEF Unsaved
    <2> QED  BY <1>1, <1>3, <2>1 DEF Unsaved
  <1> QED  BY <1>4, <1>5

\* The head's action over, the queue has lost it.
LEMMA DonePops ==
  ASSUME JobTypes, action_que # <<>>, ActionDone
  PROVE  /\ \E m : Popped(action_que, action_que', m)
         /\ 1 \in DOMAIN action_que /\ Head(action_que) = action_que[1]
         /\ action_que' \in Seq([do : Actions, tx : Nat])
  <1>1. action_que \in Seq([do : Actions, tx : Nat]) /\ action_que' = Tail(action_que)
    BY DEF JobTypes, ActionDone
  <1>2. PICK m \in Nat : m = Len(action_que) /\ DOMAIN action_que = 1 .. m
    BY <1>1
  <1>3. m >= 1
    BY <1>1, <1>2
  <1>4. Len(Tail(action_que)) = m - 1 /\ \A k \in 1 .. (m - 1) : Tail(action_que)[k] = action_que[k + 1]
    BY <1>1, <1>2, HeadTailProperties
  <1>5. DOMAIN action_que' = 1 .. (m - 1)
    BY <1>1, <1>2, <1>3, <1>4
  <1>6. Popped(action_que, action_que', m)
    BY <1>1, <1>2, <1>3, <1>4, <1>5 DEF Popped
  <1> QED  BY <1>1, <1>2, <1>3, <1>6

\* The head's transaction is on the chain, and the head is to do one of the two
\* things that are to be done with it.
LEMMA HeadFacts ==
  ASSUME ChainTypes, JobTypes, MarketsMade, QueueFollows, action_que # <<>>
  PROVE  /\ 1 \in DOMAIN action_que /\ Head(action_que) = action_que[1]
         /\ Head(action_que).tx \in DOMAIN log /\ tx = log[Head(action_que).tx]
         /\ tx \in TxRecords /\ WellFormed(tx) /\ Head(action_que).tx \in Nat
         /\ Head(action_que).do \in {"saveTransfer", SecondOf(tx)}
         /\ IsAt(action_que, 1, Head(action_que).do, Head(action_que).tx)
         /\ \A do, i : IsAt(action_que, 1, do, i) <=> do = Head(action_que).do /\ i = Head(action_que).tx
  <1>1. 1 \in DOMAIN action_que /\ Head(action_que) = action_que[1]
    BY DEF JobTypes
  <1>2. PICK h : h = action_que[1]
    OBVIOUS
  <1>3. h.tx \in DOMAIN log /\ h.do \in {"saveTransfer", SecondOf(log[h.tx])}
    BY <1>1, <1>2 DEF QueueFollows
  <1>4. tx = log[h.tx]
    BY <1>1, <1>2 DEF tx
  <1>5. tx \in TxRecords /\ WellFormed(tx) /\ h.tx \in Nat
    BY <1>3, <1>4 DEF ChainTypes, MarketsMade
  <1> QED  BY <1>1, <1>2, <1>3, <1>4, <1>5 DEF IsAt

\* What is done second with a transaction.
LEMMA Seconds ==
  ASSUME NEW e \in TxRecords, WellFormed(e)
  PROVE  /\ SecondOf(e) = "processAmmBlock" <=> Amm(e)
         /\ SecondOf(e) = "saveToken" <=> e.fn = "submit"
         /\ SecondOf(e) = "saveTokenUpdate" <=> e.fn = "change_metadata"
         /\ SecondOf(e) \in {"saveToken", "saveTokenUpdate", "processAmmBlock"}
         /\ e.pairs => Amm(e)
         /\ \A t : ReserveSet(e, t) # None \/ PriceSet(e, t) # None \/ LpSet(e, t) # None => Amm(e)
         /\ \A a, t : PointsSet(e, a, t) # None => Amm(e)
         /\ IsTrade(e) => Amm(e)
         /\ Amm(e) => ReserveSet(e, e.token) # None
  <1>1. e.fn \in Kinds
    BY DEF TxRecords
  <1> QED  BY <1>1 DEF Kinds, SecondOf, Amm, WellFormed, ReserveSet, PriceSet, LpSet, PointsSet, IsTrade

\* What comes later on the chain still waits.
LEMMA LaterWaits ==
  ASSUME ChainTypes, JobTypes, MarketsMade, QueueFollows, action_que # <<>>, ActionDone,
         NEW j \in DOMAIN log, Head(action_que).tx < j
  PROVE  /\ Waits(handed, action_que', "saveTransfer", j)
         /\ Waits(handed, action_que', SecondOf(log[j]), j)
  <1>1. PICK m : Popped(action_que, action_que', m)
    BY DonePops
  <1>2. 1 \in DOMAIN action_que /\ Head(action_que) = action_que[1]
    BY HeadFacts
  <1>3. \/ j > handed
        \/ /\ After(action_que, 1, "saveTransfer", j)
           /\ After(action_que, 1, SecondOf(log[j]), j)
    BY <1>2 DEF QueueFollows
  <1>4. \A do : After(action_que, 1, do, j) => Queued(action_que', do, j)
    BY <1>1, PoppedKeeps
  <1> QED  BY <1>3, <1>4 DEF Waits

\* The order of the queue,
LEMMA DoneQueue ==
  ASSUME ChainTypes, JobTypes, QueueFollows, QueueInOrder, action_que # <<>>, ActionDone, log' = log
  PROVE  QueueFollows' /\ QueueInOrder' /\ Progress'
  <1>1. PICK m : Popped(action_que, action_que', m)
    BY DonePops
  <1>2. /\ m \in Nat /\ m >= 1 /\ DOMAIN action_que = 1 .. m /\ DOMAIN action_que' = 1 .. (m - 1)
        /\ \A k \in 1 .. (m - 1) : action_que'[k] = action_que[k + 1] /\ k + 1 \in 1 .. m
    <2>1. /\ m \in Nat /\ m >= 1 /\ DOMAIN action_que = 1 .. m /\ DOMAIN action_que' = 1 .. (m - 1)
          /\ \A k \in 1 .. (m - 1) : action_que'[k] = action_que[k + 1]
      BY <1>1 DEF Popped
    <2> QED  BY <2>1
  <1>3. handed' = handed /\ replays' = replays /\ crashes' = crashes /\ at' = "savePair"
    BY DEF ActionDone
  <1>4. \A k \in 1 .. (m - 1) : \A do, i : After(action_que, k + 1, do, i) => After(action_que', k, do, i)
    BY <1>1, PoppedKeeps
  <1>5. QueueFollows'
    <2> SUFFICES ASSUME NEW k \in 1 .. (m - 1)
                 PROVE
          /\ action_que'[k].tx \in DOMAIN log
          /\ action_que'[k].do \in {"saveTransfer", SecondOf(log[action_que'[k].tx])}
          /\ \A j \in DOMAIN log : action_que'[k].tx < j =>
               \/ j > handed
               \/ /\ After(action_que', k, "saveTransfer", j)
                  /\ After(action_que', k, SecondOf(log[j]), j)
      BY <1>2, <1>3 DEF QueueFollows
    <2>1. PICK l \in 1 .. m : l = k + 1 /\ action_que'[k] = action_que[l]
      BY <1>2
    <2>2. /\ action_que[l].tx \in DOMAIN log
          /\ action_que[l].do \in {"saveTransfer", SecondOf(log[action_que[l].tx])}
          /\ \A j \in DOMAIN log : action_que[l].tx < j =>
               \/ j > handed
               \/ /\ After(action_que, l, "saveTransfer", j)
                  /\ After(action_que, l, SecondOf(log[j]), j)
      BY <1>2 DEF QueueFollows
    <2>3. \A do, i : After(action_que, l, do, i) => After(action_que', k, do, i)
      BY <1>4, <2>1
    <2> QED  BY <2>1, <2>2, <2>3
  <1>6. QueueInOrder'
    <2> SUFFICES ASSUME GivenOnce
                 PROVE
        /\ \A k \in 1 .. (m - 1) : action_que'[k].tx <= handed
        /\ \A k, l \in 1 .. (m - 1) : k < l =>
             /\ action_que'[k].tx <= action_que'[l].tx
             /\ action_que'[k].do = "processAmmBlock" => action_que'[k].tx < action_que'[l].tx
      BY <1>2, <1>3 DEF QueueInOrder, GivenOnce
    <2>1. \A k \in 1 .. (m - 1) : action_que'[k].tx <= handed
      BY <1>2 DEF QueueInOrder
    <2>2. ASSUME NEW k \in 1 .. (m - 1), NEW l \in 1 .. (m - 1), k < l
          PROVE  /\ action_que'[k].tx <= action_que'[l].tx
                 /\ action_que'[k].do = "processAmmBlock" => action_que'[k].tx < action_que'[l].tx
      <3>1. PICK o \in 1 .. m : o = k + 1 /\ action_que'[k] = action_que[o]
        BY <1>2
      <3>2. PICK p \in 1 .. m : p = l + 1 /\ action_que'[l] = action_que[p]
        BY <1>2
      <3>3. o < p
        BY <2>2, <3>1, <3>2
      <3>4. /\ action_que[o].tx <= action_que[p].tx
            /\ action_que[o].do = "processAmmBlock" => action_que[o].tx < action_que[p].tx
        BY <1>2, <3>3 DEF QueueInOrder
      <3> QED  BY <3>1, <3>2, <3>4
    <2> QED  BY <2>1, <2>2
  <1>7. Progress'
    BY <1>3 DEF Progress
  <1> QED  BY <1>5, <1>6, <1>7

\* the rows that come first,
LEMMA DoneFirst ==
  ASSUME ChainTypes, JobTypes, MarketsMade, QueueFollows, RowsFirst, action_que # <<>>, ActionDone,
         log' = log,
         \A t \in Tokens : TokenEntity[t] # None => TokenEntity'[t] # None,
         \A t \in Tokens : HasSymbol(PairEntity[t]) => HasSymbol(PairEntity'[t]),
         Head(action_que).do = "saveToken" => TokenEntity'[tx.token] # None,
         Head(action_que).do = "processAmmBlock" /\ tx.pairs => HasSymbol(PairEntity'[tx.token])
  PROVE  RowsFirst'
  <1>1. PICK m : Popped(action_que, action_que', m)
    BY DonePops
  <1>2. PICK i : i = Head(action_que).tx
    OBVIOUS
  <1>3. /\ tx = log[i]
        /\ \A do, j : IsAt(action_que, 1, do, j) <=> do = Head(action_que).do /\ j = i
    BY <1>2, HeadFacts
  <1>4. handed' = handed
    BY DEF ActionDone
  <1>5. \A do, j : ComesFirst(handed, action_que, do, j) /\ ~IsAt(action_que, 1, do, j)
                     => ComesFirst(handed, action_que', do, j)
    BY <1>1, PoppedKeeps
  <1>6. \A j \in DOMAIN log : log[j].token \in Tokens
    <2>1. \A x \in TxRecords : x.token \in Tokens
      BY DEF TxRecords
    <2> QED  BY <2>1 DEF ChainTypes
  <1>7. ASSUME NEW s \in DOMAIN log, log[s].fn = "submit", TokenEntity'[log[s].token] = None
        PROVE  ComesFirst(handed, action_que', "saveToken", s)
    <2>1. ComesFirst(handed, action_que, "saveToken", s)
      BY <1>6, <1>7 DEF RowsFirst
    <2>2. ~IsAt(action_que, 1, "saveToken", s)
      BY <1>3, <1>7
    <2> QED  BY <1>5, <2>1, <2>2
  <1>8. ASSUME NEW c \in DOMAIN log, log[c].pairs, ~HasSymbol(PairEntity'[log[c].token])
        PROVE  ComesFirst(handed, action_que', "processAmmBlock", c)
    <2>1. ComesFirst(handed, action_que, "processAmmBlock", c)
      BY <1>6, <1>8 DEF RowsFirst
    <2>2. ~IsAt(action_que, 1, "processAmmBlock", c)
      BY <1>3, <1>8
    <2> QED  BY <1>5, <2>1, <2>2
  <1> QED  BY <1>4, <1>7, <1>8 DEF RowsFirst

\* the rows of accounts,
LEMMA DoneAccounts ==
  ASSUME ChainTypes, JobTypes, MarketsMade, LastIsKept, QueueFollows, AccountsFollow,
         action_que # <<>>, ActionDone, UNCHANGED chainVars,
         \A a \in Accounts, t \in Tokens :
           IF Head(action_que).do = "saveTransfer" /\ BalanceSet(tx, a, t) # None
             THEN BalanceEntity'[a][t] = BalanceSet(tx, a, t)
             ELSE BalanceEntity'[a][t] = BalanceEntity[a][t],
         \A a \in Accounts, t \in Tokens :
           Head(action_que).do = "processAmmBlock" /\ PointsSet(tx, a, t) # None
             => LpPointsEntity[a][t] = PointsSet(tx, a, t),
         LpPointsEntity' = LpPointsEntity
  PROVE  AccountsFollow'
  <1>1. PICK m : Popped(action_que, action_que', m)
    BY DonePops
  <1>2. PICK i : i = Head(action_que).tx
    OBVIOUS
  <1>3. /\ tx = log[i] /\ i \in DOMAIN log
        /\ \A do, j : IsAt(action_que, 1, do, j) <=> do = Head(action_que).do /\ j = i
    BY <1>2, HeadFacts
  <1>4. handed' = handed /\ log' = log /\ balance' = balance /\ points' = points
    BY DEF ActionDone, chainVars
  <1>5. \A do, j : Waits(handed, action_que, do, j) /\ ~IsAt(action_que, 1, do, j)
                     => Waits(handed, action_que', do, j)
    BY <1>1, PoppedKeeps
  <1>6. \A j \in DOMAIN log : i < j => Waits(handed, action_que', "saveTransfer", j)
    BY <1>2, LaterWaits
  <1>7. ASSUME NEW j \in DOMAIN log, i < j, NEW a, NEW t, PointsSet(log[j], a, t) # None
        PROVE  Waits(handed, action_que', "processAmmBlock", j)
    <2>1. log[j] \in TxRecords /\ WellFormed(log[j])
      BY DEF ChainTypes, MarketsMade
    <2>2. SecondOf(log[j]) = "processAmmBlock"
      BY <1>7, <2>1, Seconds
    <2> QED  BY <1>2, <1>7, <2>2, LaterWaits
  <1> SUFFICES ASSUME NEW a \in Accounts, NEW t \in Tokens
               PROVE
    /\ BalanceEntity'[a][t] \in {None, balance[a][t]}
       \/ \E j \in DOMAIN log : BalanceSet(log[j], a, t) # None
                                /\ Waits(handed, action_que', "saveTransfer", j)
    /\ LpPointsEntity[a][t] \in {None, points[a][t]}
       \/ \E j \in DOMAIN log : PointsSet(log[j], a, t) # None
                                /\ Waits(handed, action_que', "processAmmBlock", j)
    BY <1>4 DEF AccountsFollow
  <1>8. BalanceEntity'[a][t] \in {None, balance[a][t]}
        \/ \E j \in DOMAIN log : BalanceSet(log[j], a, t) # None
                                 /\ Waits(handed, action_que', "saveTransfer", j)
    <2>1. CASE Head(action_que).do = "saveTransfer" /\ BalanceSet(tx, a, t) # None
      <3>1. BalanceEntity'[a][t] = BalanceSet(log[i], a, t) /\ BalanceSet(log[i], a, t) # None
        BY <1>3, <2>1
      <3>2. \/ balance[a][t] = BalanceSet(log[i], a, t)
            \/ \E j \in DOMAIN log : i < j /\ BalanceSet(log[j], a, t) # None
        BY <1>3, <3>1 DEF LastIsKept
      <3> QED  BY <1>6, <3>1, <3>2
    <2>2. CASE ~(Head(action_que).do = "saveTransfer" /\ BalanceSet(tx, a, t) # None)
      <3>1. BalanceEntity'[a][t] = BalanceEntity[a][t]
        BY <2>2
      <3>2. \A j : BalanceSet(log[j], a, t) # None => ~IsAt(action_que, 1, "saveTransfer", j)
        BY <1>3, <2>2
      <3> QED  BY <1>5, <3>1, <3>2 DEF AccountsFollow
    <2> QED  BY <2>1, <2>2
  <1>9. LpPointsEntity[a][t] \in {None, points[a][t]}
        \/ \E j \in DOMAIN log : PointsSet(log[j], a, t) # None
                                 /\ Waits(handed, action_que', "processAmmBlock", j)
    <2>1. CASE Head(action_que).do = "processAmmBlock" /\ PointsSet(tx, a, t) # None
      <3>1. LpPointsEntity[a][t] = PointsSet(log[i], a, t) /\ PointsSet(log[i], a, t) # None
        BY <1>3, <2>1
      <3>2. \/ points[a][t] = PointsSet(log[i], a, t)
            \/ \E j \in DOMAIN log : i < j /\ PointsSet(log[j], a, t) # None
        BY <1>3, <3>1 DEF LastIsKept
      <3> QED  BY <1>7, <3>1, <3>2
    <2>2. CASE ~(Head(action_que).do = "processAmmBlock" /\ PointsSet(tx, a, t) # None)
      <3>1. \A j : PointsSet(log[j], a, t) # None => ~IsAt(action_que, 1, "processAmmBlock", j)
        BY <1>3, <2>2
      <3> QED  BY <1>5, <3>1 DEF AccountsFollow
    <2> QED  BY <2>1, <2>2
  <1> QED  BY <1>8, <1>9

\* What the head's last step leaves in the row of t, and what was told of it: the
\* values of the transaction, and otherwise what was there.
Leaves(e, t, proc) ==
  /\ IF proc /\ ReserveSet(e, t) # None THEN PairEntity'[t].reserves = ReserveSet(e, t)
     ELSE \/ PairEntity'[t].reserves = None
          \/ PairEntity[t] # None /\ PairEntity'[t].reserves = PairEntity[t].reserves
  /\ IF proc /\ PriceSet(e, t) # None THEN PairEntity'[t].price = PriceSet(e, t)
     ELSE \/ PairEntity'[t].price = None
          \/ PairEntity[t] # None /\ PairEntity'[t].price = PairEntity[t].price
  /\ IF proc /\ LpSet(e, t) # None THEN PairEntity'[t].lp = LpSet(e, t)
     ELSE \/ PairEntity'[t].lp = None
          \/ PairEntity[t] # None /\ PairEntity'[t].lp = PairEntity[t].lp
  /\ t # Rswp =>
       \/ told'[t] = Metrics(PairEntity'[t])
       \/ ~(proc /\ e.token = t) /\ PairEntity'[t] = PairEntity[t] /\ told'[t] = told[t]

\* the rows of markets,
LEMMA DoneMarkets ==
  ASSUME ChainTypes, JobTypes, MarketsMade, LastIsKept, QueueFollows, MarketsFollow,
         action_que # <<>>, ActionDone, UNCHANGED chainVars,
         \A t \in Tokens : KeyedIn(log, t) /\ PairEntity'[t] # None =>
           Leaves(tx, t, Head(action_que).do = "processAmmBlock")
  PROVE  MarketsFollow'
  <1>1. PICK m : Popped(action_que, action_que', m)
    BY DonePops
  <1>2. PICK i : i = Head(action_que).tx
    OBVIOUS
  <1>3. /\ tx = log[i] /\ i \in DOMAIN log
        /\ \A do, j : IsAt(action_que, 1, do, j) <=> do = Head(action_que).do /\ j = i
    BY <1>2, HeadFacts
  <1>4. handed' = handed /\ log' = log /\ market' = market
    BY DEF ActionDone, chainVars
  <1>5. \A j : Waits(handed, action_que, "processAmmBlock", j) /\ ~IsAt(action_que, 1, "processAmmBlock", j)
                     => Waits(handed, action_que', "processAmmBlock", j)
    BY <1>1, PoppedKeeps
  <1>6. ASSUME NEW j \in DOMAIN log, i < j, Amm(log[j])
        PROVE  Waits(handed, action_que', "processAmmBlock", j)
    <2>1. log[j] \in TxRecords /\ WellFormed(log[j])
      BY DEF ChainTypes, MarketsMade
    <2>2. SecondOf(log[j]) = "processAmmBlock"
      BY <1>6, <2>1, Seconds
    <2> QED  BY <1>2, <1>6, <2>2, LaterWaits
  <1>7. \A j \in DOMAIN log : \A t :
          ReserveSet(log[j], t) # None \/ PriceSet(log[j], t) # None \/ LpSet(log[j], t) # None
            => Amm(log[j])
    <2>1. \A j \in DOMAIN log : log[j] \in TxRecords /\ WellFormed(log[j])
      BY DEF ChainTypes, MarketsMade
    <2> QED  BY <2>1, Seconds
  <1> SUFFICES ASSUME NEW t \in Tokens, KeyedIn(log, t), PairEntity'[t] # None
               PROVE
    /\ PairEntity'[t].reserves \in {None, market[t].reserve}
       \/ \E j \in DOMAIN log : ReserveSet(log[j], t) # None
                                /\ Waits(handed, action_que', "processAmmBlock", j)
    /\ PairEntity'[t].price \in {None, market[t].price}
       \/ \E j \in DOMAIN log : PriceSet(log[j], t) # None
                                /\ Waits(handed, action_que', "processAmmBlock", j)
    /\ PairEntity'[t].lp \in {None, market[t].lp}
       \/ \E j \in DOMAIN log : LpSet(log[j], t) # None
                                /\ Waits(handed, action_que', "processAmmBlock", j)
    /\ t # Rswp => told'[t] = Metrics(PairEntity'[t])
       \/ \E j \in DOMAIN log : Amm(log[j]) /\ log[j].token = t
                                /\ Waits(handed, action_que', "processAmmBlock", j)
    BY <1>4 DEF MarketsFollow, Metrics
  <1>8. PICK proc \in BOOLEAN : proc = (Head(action_que).do = "processAmmBlock")
    BY Zenon
  <1>9. Leaves(log[i], t, proc)
    BY <1>3, <1>8, Zenon
  <1>10. \A j : IsAt(action_que, 1, "processAmmBlock", j) <=> proc /\ j = i
    BY <1>3, <1>8
  <1>11. PairEntity'[t].reserves \in {None, market[t].reserve}
         \/ \E j \in DOMAIN log : ReserveSet(log[j], t) # None
                                  /\ Waits(handed, action_que', "processAmmBlock", j)
    <2>1. CASE proc /\ ReserveSet(log[i], t) # None
      <3>1. PairEntity'[t].reserves = ReserveSet(log[i], t)
        BY <1>9, <2>1 DEF Leaves
      <3>2. \/ market[t].reserve = ReserveSet(log[i], t)
            \/ \E j \in DOMAIN log : i < j /\ ReserveSet(log[j], t) # None
        BY <1>3, <2>1 DEF LastIsKept
      <3> QED  BY <1>6, <1>7, <3>1, <3>2
    <2>2. CASE ~(proc /\ ReserveSet(log[i], t) # None)
      <3>1. \/ PairEntity'[t].reserves = None
            \/ PairEntity[t] # None /\ PairEntity'[t].reserves = PairEntity[t].reserves
        BY <1>9, <2>2 DEF Leaves
      <3>2. \A j : ReserveSet(log[j], t) # None => ~IsAt(action_que, 1, "processAmmBlock", j)
        BY <1>10, <2>2
      <3> QED  BY <1>5, <3>1, <3>2 DEF MarketsFollow
    <2> QED  BY <2>1, <2>2
  <1>12. PairEntity'[t].price \in {None, market[t].price}
         \/ \E j \in DOMAIN log : PriceSet(log[j], t) # None
                                  /\ Waits(handed, action_que', "processAmmBlock", j)
    <2>1. CASE proc /\ PriceSet(log[i], t) # None
      <3>1. PairEntity'[t].price = PriceSet(log[i], t)
        BY <1>9, <2>1 DEF Leaves
      <3>2. \/ market[t].price = PriceSet(log[i], t)
            \/ \E j \in DOMAIN log : i < j /\ PriceSet(log[j], t) # None
        BY <1>3, <2>1 DEF LastIsKept
      <3> QED  BY <1>6, <1>7, <3>1, <3>2
    <2>2. CASE ~(proc /\ PriceSet(log[i], t) # None)
      <3>1. \/ PairEntity'[t].price = None
            \/ PairEntity[t] # None /\ PairEntity'[t].price = PairEntity[t].price
        BY <1>9, <2>2 DEF Leaves
      <3>2. \A j : PriceSet(log[j], t) # None => ~IsAt(action_que, 1, "processAmmBlock", j)
        BY <1>10, <2>2
      <3> QED  BY <1>5, <3>1, <3>2 DEF MarketsFollow
    <2> QED  BY <2>1, <2>2
  <1>13. PairEntity'[t].lp \in {None, market[t].lp}
         \/ \E j \in DOMAIN log : LpSet(log[j], t) # None
                                  /\ Waits(handed, action_que', "processAmmBlock", j)
    <2>1. CASE proc /\ LpSet(log[i], t) # None
      <3>1. PairEntity'[t].lp = LpSet(log[i], t)
        BY <1>9, <2>1 DEF Leaves
      <3>2. \/ market[t].lp = LpSet(log[i], t)
            \/ \E j \in DOMAIN log : i < j /\ LpSet(log[j], t) # None
        BY <1>3, <2>1 DEF LastIsKept
      <3> QED  BY <1>6, <1>7, <3>1, <3>2
    <2>2. CASE ~(proc /\ LpSet(log[i], t) # None)
      <3>1. \/ PairEntity'[t].lp = None
            \/ PairEntity[t] # None /\ PairEntity'[t].lp = PairEntity[t].lp
        BY <1>9, <2>2 DEF Leaves
      <3>2. \A j : LpSet(log[j], t) # None => ~IsAt(action_que, 1, "processAmmBlock", j)
        BY <1>10, <2>2
      <3> QED  BY <1>5, <3>1, <3>2 DEF MarketsFollow
    <2> QED  BY <2>1, <2>2
  <1>14. t # Rswp => told'[t] = Metrics(PairEntity'[t])
         \/ \E j \in DOMAIN log : Amm(log[j]) /\ log[j].token = t
                                  /\ Waits(handed, action_que', "processAmmBlock", j)
    <2> SUFFICES ASSUME t # Rswp, told'[t] # Metrics(PairEntity'[t])
                 PROVE  \E j \in DOMAIN log : Amm(log[j]) /\ log[j].token = t
                                  /\ Waits(handed, action_que', "processAmmBlock", j)
      OBVIOUS
    <2>1. ~(proc /\ log[i].token = t) /\ PairEntity'[t] = PairEntity[t] /\ told'[t] = told[t]
      BY <1>9 DEF Leaves
    <2>2. told[t] # Metrics(PairEntity[t]) /\ PairEntity[t] # None
      BY <2>1
    <2>3. PICK j \in DOMAIN log : Amm(log[j]) /\ log[j].token = t
                                  /\ Waits(handed, action_que, "processAmmBlock", j)
      BY <2>2 DEF MarketsFollow
    <2>4. ~IsAt(action_que, 1, "processAmmBlock", j)
      BY <1>10, <2>1, <2>3
    <2> QED  BY <1>5, <2>3, <2>4
  <1> QED  BY <1>11, <1>12, <1>13, <1>14

\* the rows that are full,
LEMMA DoneFill ==
  ASSUME ChainTypes, JobTypes, MarketsMade, QueueFollows, MarketsFill, action_que # <<>>, ActionDone,
         log' = log,
         \A t \in Tokens : Full(PairEntity[t]) => Full(PairEntity'[t]),
         Head(action_que).do = "processAmmBlock" /\ tx.pairs => Full(PairEntity'[tx.token])
  PROVE  MarketsFill'
  <1>1. PICK m : Popped(action_que, action_que', m)
    BY DonePops
  <1>2. PICK i : i = Head(action_que).tx
    OBVIOUS
  <1>3. /\ tx = log[i]
        /\ \A do, j : IsAt(action_que, 1, do, j) <=> do = Head(action_que).do /\ j = i
    BY <1>2, HeadFacts
  <1>4. handed' = handed
    BY DEF ActionDone
  <1>5. \A j : Waits(handed, action_que, "processAmmBlock", j) /\ ~IsAt(action_que, 1, "processAmmBlock", j)
                     => Waits(handed, action_que', "processAmmBlock", j)
    BY <1>1, PoppedKeeps
  <1>6. \A j \in DOMAIN log : log[j].token \in Tokens
    <2>1. \A x \in TxRecords : x.token \in Tokens
      BY DEF TxRecords
    <2> QED  BY <2>1 DEF ChainTypes
  <1> SUFFICES ASSUME NEW c \in DOMAIN log, log[c].pairs, ~Full(PairEntity'[log[c].token])
               PROVE  Waits(handed, action_que', "processAmmBlock", c)
    BY <1>4 DEF MarketsFill
  <1>7. Waits(handed, action_que, "processAmmBlock", c)
    BY <1>6 DEF MarketsFill
  <1>8. ~IsAt(action_que, 1, "processAmmBlock", c)
    BY <1>3
  <1> QED  BY <1>5, <1>7, <1>8

\* and, when no trade is saved, those of trades.
LEMMA DoneHistory ==
  ASSUME ChainTypes, JobTypes, MarketsMade, QueueFollows, TradesFollow, TradesOnce, ReservesInOrder,
         action_que # <<>>, ActionDone, log' = log,
         at = "savePrice" \/ Head(action_que).do # "processAmmBlock",
         UNCHANGED <<tradeSaves, TradeHistory>>,
         \A t \in Tokens : PairEntity[t] # None =>
           PairEntity'[t] # None /\ PairEntity'[t].reserves = PairEntity[t].reserves
  PROVE  TradesFollow' /\ TradesOnce' /\ ReservesInOrder'
  <1>1. PICK m : Popped(action_que, action_que', m)
    BY DonePops
  <1>2. \A do, j : IsAt(action_que, 1, do, j) => do = Head(action_que).do
    BY HeadFacts
  <1>3. handed' = handed /\ at' = "savePair" /\ replays' = replays /\ crashes' = crashes
        /\ tradeSaves' = tradeSaves /\ TradeHistory' = TradeHistory
    BY DEF ActionDone
  <1>4. \A i : Unsaved(handed, action_que, at, i) <=> Unsaved(handed', action_que', at', i)
    <2>1. at = "savePrice" \/ \A i : ~IsAt(action_que, 1, "processAmmBlock", i)
      BY <1>2
    <2> QED  BY <1>1, <1>3, <2>1, PoppedUnsaved
  <1>5. TradesFollow'
    BY <1>3, <1>4 DEF TradesFollow
  <1>6. \A rec : RowIsRight(log, handed, action_que, at, rec)
                   => RowIsRight(log, handed', action_que', at', rec)
    BY <1>4 DEF RowIsRight
  <1>7. TradesOnce'
    BY <1>3, <1>6 DEF TradesOnce, GivenOnce
  <1>8. ReservesInOrder'
    <2> SUFFICES ASSUME GivenOnce, NEW t \in Tokens, NEW p \in DOMAIN log, KeyedIn(log, t),
                        LastSaved(log, handed', action_que', at', p, t)
                 PROVE  PairEntity'[t] # None /\ PairEntity'[t].reserves = ReserveSet(log[p], t)
      BY <1>3 DEF ReservesInOrder, GivenOnce
    <2>1. LastSaved(log, handed, action_que, at, p, t)
      BY <1>4 DEF LastSaved
    <2> QED  BY <2>1 DEF ReservesInOrder
  <1> QED  BY <1>5, <1>7, <1>8

-----------------------------------------------------------------------------
(* Steps that leave the head where it is *)

\* Rows that stay, and transactions that wait on.
LEMMA RowsStay ==
  ASSUME ChainTypes, MarketsMade, AccountsFollow, MarketsFollow, MarketsFill,
         UNCHANGED chainVars, UNCHANGED rows,
         \A j \in DOMAIN log : Waits(handed, action_que, "saveTransfer", j)
                                 => Waits(handed', action_que', "saveTransfer", j),
         \A j \in DOMAIN log : Amm(log[j]) /\ Waits(handed, action_que, "processAmmBlock", j)
                                 => Waits(handed', action_que', "processAmmBlock", j)
  PROVE  AccountsFollow' /\ MarketsFollow' /\ MarketsFill'
  <1>1. /\ log' = log /\ market' = market /\ points' = points /\ balance' = balance
        /\ PairEntity' = PairEntity /\ LpPointsEntity' = LpPointsEntity
        /\ BalanceEntity' = BalanceEntity /\ told' = told
    BY DEF chainVars, rows
  <1>2. /\ \A j \in DOMAIN log : \A t :
             ReserveSet(log[j], t) # None \/ PriceSet(log[j], t) # None \/ LpSet(log[j], t) # None
               => Amm(log[j])
        /\ \A j \in DOMAIN log : \A a, t : PointsSet(log[j], a, t) # None => Amm(log[j])
        /\ \A j \in DOMAIN log : log[j].pairs => Amm(log[j])
    <2>1. \A j \in DOMAIN log : log[j] \in TxRecords /\ WellFormed(log[j])
      BY DEF ChainTypes, MarketsMade
    <2> QED  BY <2>1, Seconds
  <1>3. AccountsFollow'
    BY <1>1, <1>2 DEF AccountsFollow
  <1>4. MarketsFollow'
    <2> SUFFICES ASSUME NEW t \in Tokens, KeyedIn(log, t), PairEntity[t] # None
                 PROVE
      /\ PairEntity[t].reserves \in {None, market[t].reserve}
         \/ \E j \in DOMAIN log : ReserveSet(log[j], t) # None
                                  /\ Waits(handed', action_que', "processAmmBlock", j)
      /\ PairEntity[t].price \in {None, market[t].price}
         \/ \E j \in DOMAIN log : PriceSet(log[j], t) # None
                                  /\ Waits(handed', action_que', "processAmmBlock", j)
      /\ PairEntity[t].lp \in {None, market[t].lp}
         \/ \E j \in DOMAIN log : LpSet(log[j], t) # None
                                  /\ Waits(handed', action_que', "processAmmBlock", j)
      /\ t # Rswp => told[t] = Metrics(PairEntity[t])
         \/ \E j \in DOMAIN log : Amm(log[j]) /\ log[j].token = t
                                  /\ Waits(handed', action_que', "processAmmBlock", j)
      BY <1>1 DEF MarketsFollow, Metrics
    <2> QED  BY <1>1, <1>2 DEF MarketsFollow
  <1>5. MarketsFill'
    BY <1>1, <1>2 DEF MarketsFill
  <1> QED  BY <1>3, <1>4, <1>5

\* Rows of trades that stay, and trades that stay unsaved.
LEMMA HistoryStays ==
  ASSUME ChainTypes, MarketsMade, TradesFollow, TradesOnce, ReservesInOrder,
         log' = log, UNCHANGED <<tradeSaves, TradeHistory>>,
         \A t \in Tokens : PairEntity[t] # None =>
           PairEntity'[t] # None /\ PairEntity'[t].reserves = PairEntity[t].reserves,
         \A i \in DOMAIN log : Amm(log[i]) /\ Unsaved(handed, action_que, at, i)
                                 => Unsaved(handed', action_que', at', i),
         GivenOnce' => /\ GivenOnce
                       /\ \A i \in DOMAIN log : Amm(log[i]) /\ Unsaved(handed', action_que', at', i)
                                                  => Unsaved(handed, action_que, at, i)
  PROVE  TradesFollow' /\ TradesOnce' /\ ReservesInOrder'
  <1>1. tradeSaves' = tradeSaves /\ TradeHistory' = TradeHistory
    OBVIOUS
  <1>2. /\ \A j \in DOMAIN log : \A t : ReserveSet(log[j], t) # None => Amm(log[j])
        /\ \A j \in DOMAIN log : IsTrade(log[j]) => Amm(log[j])
    <2>1. \A j \in DOMAIN log : log[j] \in TxRecords /\ WellFormed(log[j])
      BY DEF ChainTypes, MarketsMade
    <2> QED  BY <2>1, Seconds
  <1>3. TradesFollow'
    BY <1>1, <1>2 DEF TradesFollow, Followed
  <1>4. ASSUME GivenOnce'
        PROVE  /\ GivenOnce
               /\ \A rec : RowIsRight(log, handed, action_que, at, rec)
                             => RowIsRight(log, handed', action_que', at', rec)
    BY <1>2, <1>4 DEF RowIsRight
  <1>5. TradesOnce'
    BY <1>1, <1>4 DEF TradesOnce
  <1>6. ReservesInOrder'
    <2> SUFFICES ASSUME GivenOnce', NEW t \in Tokens, NEW p \in DOMAIN log, KeyedIn(log, t),
                        LastSaved(log, handed', action_que', at', p, t)
                 PROVE  PairEntity'[t] # None /\ PairEntity'[t].reserves = ReserveSet(log[p], t)
      BY DEF ReservesInOrder
    <2>1. GivenOnce
      OBVIOUS
    <2>2. LastSaved(log, handed, action_que, at, p, t)
      BY <1>2 DEF LastSaved
    <2> QED  BY <2>1, <2>2 DEF ReservesInOrder
  <1> QED  BY <1>3, <1>5, <1>6

\* The queue, where it stays.
LEMMA QueueStays ==
  ASSUME ChainTypes, QueueFollows, QueueInOrder, RowsFirst, log' = log,
         UNCHANGED <<handed, action_que, replays, crashes>>,
         \A t \in Tokens : TokenEntity[t] # None => TokenEntity'[t] # None,
         \A t \in Tokens : HasSymbol(PairEntity[t]) => HasSymbol(PairEntity'[t])
  PROVE  QueueFollows' /\ QueueInOrder' /\ RowsFirst'
  <1>1. handed' = handed /\ action_que' = action_que /\ replays' = replays /\ crashes' = crashes
    OBVIOUS
  <1>2. QueueFollows'
    BY <1>1 DEF QueueFollows
  <1>3. QueueInOrder'
    BY <1>1 DEF QueueInOrder, GivenOnce
  <1>4. \A j \in DOMAIN log : log[j].token \in Tokens
    <2>1. \A x \in TxRecords : x.token \in Tokens
      BY DEF TxRecords
    <2> QED  BY <2>1 DEF ChainTypes
  <1>5. RowsFirst'
    BY <1>1, <1>4 DEF RowsFirst
  <1> QED  BY <1>2, <1>3, <1>5

\* processAmmBlock goes on with transaction e and the row of t, and may have changed
\* what e sets.
Touches(e, t) ==
  /\ \/ ReserveSet(e, t) # None \/ PairEntity'[t].reserves = None
     \/ PairEntity[t] # None /\ PairEntity'[t].reserves = PairEntity[t].reserves
  /\ \/ PriceSet(e, t) # None \/ PairEntity'[t].price = None
     \/ PairEntity[t] # None /\ PairEntity'[t].price = PairEntity[t].price
  /\ \/ LpSet(e, t) # None \/ PairEntity'[t].lp = None
     \/ PairEntity[t] # None /\ PairEntity'[t].lp = PairEntity[t].lp
  /\ e.token = t \/ t = Rswp \/ (PairEntity'[t] = PairEntity[t] /\ told'[t] = told[t])

\* The rows, while processAmmBlock goes on.
LEMMA GoesOn ==
  ASSUME ChainTypes, JobTypes, MarketsMade, QueueFollows, AccountsFollow, MarketsFollow, MarketsFill,
         action_que # <<>>, Head(action_que).do = "processAmmBlock",
         UNCHANGED chainVars, UNCHANGED <<handed, action_que, BalanceEntity>>,
         \A a \in Accounts, t \in Tokens :
           PointsSet(tx, a, t) # None \/ LpPointsEntity'[a][t] = LpPointsEntity[a][t],
         \A t \in Tokens : PairEntity'[t] # None => Touches(tx, t),
         \A t \in Tokens : Full(PairEntity[t]) => Full(PairEntity'[t])
  PROVE  AccountsFollow' /\ MarketsFollow' /\ MarketsFill'
  <1>1. /\ log' = log /\ market' = market /\ points' = points /\ balance' = balance
        /\ handed' = handed /\ action_que' = action_que /\ BalanceEntity' = BalanceEntity
    BY DEF chainVars
  <1>2. PICK i : i = Head(action_que).tx
    OBVIOUS
  <1>3. tx = log[i] /\ i \in DOMAIN log /\ Waits(handed, action_que, "processAmmBlock", i)
    BY <1>2, HeadFacts DEF Waits, Queued
  <1>4. Amm(log[i])
    <2>1. SecondOf(tx) = "processAmmBlock"
      BY HeadFacts
    <2> QED  BY <1>3, <2>1, HeadFacts, Seconds
  <1>5. \A j \in DOMAIN log : log[j].token \in Tokens
    <2>1. \A x \in TxRecords : x.token \in Tokens
      BY DEF TxRecords
    <2> QED  BY <2>1 DEF ChainTypes
  <1>6. AccountsFollow'
    <2> SUFFICES ASSUME NEW a \in Accounts, NEW t \in Tokens
                 PROVE
         /\ BalanceEntity[a][t] \in {None, balance[a][t]}
            \/ \E j \in DOMAIN log : BalanceSet(log[j], a, t) # None
                                     /\ Waits(handed, action_que, "saveTransfer", j)
         /\ LpPointsEntity'[a][t] \in {None, points[a][t]}
            \/ \E j \in DOMAIN log : PointsSet(log[j], a, t) # None
                                     /\ Waits(handed, action_que, "processAmmBlock", j)
      BY <1>1 DEF AccountsFollow
    <2>1. PointsSet(log[i], a, t) # None \/ LpPointsEntity'[a][t] = LpPointsEntity[a][t]
      BY <1>3
    <2> QED  BY <1>3, <2>1 DEF AccountsFollow
  <1>7. MarketsFollow'
    <2> SUFFICES ASSUME NEW t \in Tokens, KeyedIn(log, t), PairEntity'[t] # None
                 PROVE
      /\ PairEntity'[t].reserves \in {None, market[t].reserve}
         \/ \E j \in DOMAIN log : ReserveSet(log[j], t) # None
                                  /\ Waits(handed, action_que, "processAmmBlock", j)
      /\ PairEntity'[t].price \in {None, market[t].price}
         \/ \E j \in DOMAIN log : PriceSet(log[j], t) # None
                                  /\ Waits(handed, action_que, "processAmmBlock", j)
      /\ PairEntity'[t].lp \in {None, market[t].lp}
         \/ \E j \in DOMAIN log : LpSet(log[j], t) # None
                                  /\ Waits(handed, action_que, "processAmmBlock", j)
      /\ t # Rswp => told'[t] = Metrics(PairEntity'[t])
         \/ \E j \in DOMAIN log : Amm(log[j]) /\ log[j].token = t
                                  /\ Waits(handed, action_que, "processAmmBlock", j)
      BY <1>1 DEF MarketsFollow, Metrics
    <2>1. Touches(log[i], t)
      BY <1>3
    <2>2. PairEntity'[t].reserves \in {None, market[t].reserve}
         \/ \E j \in DOMAIN log : ReserveSet(log[j], t) # None
                                  /\ Waits(handed, action_que, "processAmmBlock", j)
      BY <1>3, <2>1 DEF Touches, MarketsFollow
    <2>3. PairEntity'[t].price \in {None, market[t].price}
         \/ \E j \in DOMAIN log : PriceSet(log[j], t) # None
                                  /\ Waits(handed, action_que, "processAmmBlock", j)
      BY <1>3, <2>1 DEF Touches, MarketsFollow
    <2>4. PairEntity'[t].lp \in {None, market[t].lp}
         \/ \E j \in DOMAIN log : LpSet(log[j], t) # None
                                  /\ Waits(handed, action_que, "processAmmBlock", j)
      BY <1>3, <2>1 DEF Touches, MarketsFollow
    <2>5. t # Rswp => told'[t] = Metrics(PairEntity'[t])
         \/ \E j \in DOMAIN log : Amm(log[j]) /\ log[j].token = t
                                  /\ Waits(handed, action_que, "processAmmBlock", j)
      <3>1. CASE log[i].token = t \/ t = Rswp
        BY <1>3, <1>4, <3>1
      <3>2. CASE PairEntity'[t] = PairEntity[t] /\ told'[t] = told[t]
        BY <3>2 DEF MarketsFollow
      <3> QED  BY <2>1, <3>1, <3>2 DEF Touches
    <2> QED  BY <2>2, <2>3, <2>4, <2>5
  <1>8. MarketsFill'
    BY <1>1, <1>5 DEF MarketsFill
  <1> QED  BY <1>6, <1>7, <1>8

-----------------------------------------------------------------------------
(* The queue is given a transaction *)

\* que2 is que and the two actions of transaction i, whose record is e.
Extended(que, que2, m, i, e) ==
  /\ m \in Nat /\ DOMAIN que = 1 .. m /\ DOMAIN que2 = 1 .. (m + 2)
  /\ \A k \in 1 .. m : que2[k] = que[k]
  /\ IsAt(que2, m + 1, "saveTransfer", i) /\ IsAt(que2, m + 2, SecondOf(e), i)

\* The two actions of a transaction.
LEMMA ActionsAre ==
  ASSUME ChainTypes, NEW i \in DOMAIN log
  PROVE  /\ ActionsOf(i) \in Seq([do : Actions, tx : Nat]) /\ Len(ActionsOf(i)) = 2
         /\ ActionsOf(i)[1] = [do |-> "saveTransfer", tx |-> i]
         /\ ActionsOf(i)[2] = [do |-> SecondOf(log[i]), tx |-> i]
  <1>1. PICK does : does = CASE log[i].fn = "submit" -> <<"saveTransfer", "saveToken">>
                [] log[i].fn = "change_metadata" -> <<"saveTransfer", "saveTokenUpdate">>
                [] OTHER -> <<"saveTransfer", "processAmmBlock">>
    OBVIOUS
  <1>2. does[1] = "saveTransfer" /\ does[2] = SecondOf(log[i])
    <2>1. CASE log[i].fn = "submit"
      BY <1>1, <2>1 DEF SecondOf
    <2>2. CASE log[i].fn = "change_metadata"
      BY <1>1, <2>2 DEF SecondOf
    <2>3. CASE log[i].fn \notin {"submit", "change_metadata"}
      BY <1>1, <2>3 DEF SecondOf
    <2> QED  BY <2>1, <2>2, <2>3
  <1>3. PICK b : b = [k \in 1 .. 2 |-> [do |-> does[k], tx |-> i]]
    OBVIOUS
  <1>4. ActionsOf(i) = b
    BY <1>1, <1>3, Zenon DEF ActionsOf
  <1>5. b[1] = [do |-> "saveTransfer", tx |-> i] /\ b[2] = [do |-> SecondOf(log[i]), tx |-> i]
    BY <1>2, <1>3
  <1>6. SecondOf(log[i]) \in Actions /\ "saveTransfer" \in Actions
    BY DEF SecondOf, Actions
  <1>7. i \in Nat
    BY DEF ChainTypes
  <1>8. b \in Seq([do : Actions, tx : Nat]) /\ Len(b) = 2
    BY <1>2, <1>3, <1>6, <1>7
  <1> QED  BY <1>4, <1>5, <1>8

\* q is s and the two entries of b.
TwoMore(q, s, b, m) ==
  /\ Len(q) = m + 2 /\ \A k \in 1 .. m : q[k] = s[k]
  /\ q[m + 1] = b[1] /\ q[m + 2] = b[2]

\* Two entries put behind a sequence.
LEMMA JoinedTwo ==
  ASSUME NEW R, NEW s \in Seq(R), NEW b \in Seq(R), NEW m \in Nat, Len(s) = m, Len(b) = 2,
         NEW q, q = s \o b
  PROVE  q \in Seq(R) /\ TwoMore(q, s, b, m)
  <1>1. /\ q \in Seq(R) /\ Len(q) = m + 2
        /\ \A k \in 1 .. (m + 2) : q[k] = IF k <= m THEN s[k] ELSE b[k - m]
    <2>1. /\ q \in Seq(R) /\ Len(q) = Len(s) + Len(b)
          /\ \A k \in 1 .. Len(s) + Len(b) : q[k] = IF k <= Len(s) THEN s[k] ELSE b[k - Len(s)]
      BY ConcatProperties
    <2> QED  BY <2>1
  <1>2. ASSUME NEW k \in 1 .. m
        PROVE  q[k] = s[k]
    <2>1. k \in 1 .. (m + 2) /\ k <= m
      OBVIOUS
    <2> QED  BY <1>1, <2>1
  <1>3. q[m + 1] = b[1]
    BY <1>1
  <1>4. q[m + 2] = b[2]
    BY <1>1
  <1> QED  BY <1>1, <1>2, <1>3, <1>4 DEF TwoMore

\* parseBlock extends the queue so.
LEMMA Parses ==
  ASSUME ChainTypes, JobTypes, parseBlock
  PROVE  /\ handed + 1 \in DOMAIN log
         /\ action_que' \in Seq([do : Actions, tx : Nat])
         /\ \E m : Extended(action_que, action_que', m, handed + 1, log[handed + 1])
  <1>1. PICK i \in Nat : i = handed + 1 /\ i \in DOMAIN log
    BY DEF ChainTypes, JobTypes, parseBlock
  <1>2. PICK b : b = ActionsOf(i)
    OBVIOUS
  <1>3. /\ b \in Seq([do : Actions, tx : Nat]) /\ Len(b) = 2
        /\ b[1] = [do |-> "saveTransfer", tx |-> i] /\ b[2] = [do |-> SecondOf(log[i]), tx |-> i]
    BY <1>1, <1>2, ActionsAre
  <1>4. action_que \in Seq([do : Actions, tx : Nat]) /\ action_que' = action_que \o b
    BY <1>1, <1>2 DEF JobTypes, parseBlock
  <1>5. PICK m \in Nat : m = Len(action_que) /\ DOMAIN action_que = 1 .. m
    BY <1>4
  <1>6. PICK q : q = action_que \o b
    OBVIOUS
  <1>7. /\ q \in Seq([do : Actions, tx : Nat]) /\ Len(q) = m + 2
        /\ \A k \in 1 .. m : q[k] = action_que[k]
        /\ q[m + 1] = b[1] /\ q[m + 2] = b[2]
    <2>1. PICK R : R = [do : Actions, tx : Nat]
      OBVIOUS
    <2>2. action_que \in Seq(R) /\ b \in Seq(R)
      BY <1>3, <1>4, <2>1
    <2>3. m = Len(action_que) /\ Len(b) = 2 /\ q = action_que \o b
      BY <1>3, <1>5, <1>6
    <2>4. PICK s : s = action_que
      OBVIOUS
    <2>5. s \in Seq(R) /\ m \in Nat /\ m = Len(s) /\ Len(b) = 2 /\ q = s \o b
      BY <2>3, <2>4, <2>2
    <2>6. q \in Seq(R) /\ TwoMore(q, s, b, m)
      BY <2>2, <2>5, JoinedTwo
    <2> QED  BY <2>1, <2>4, <2>6 DEF TwoMore
  <1>8. DOMAIN q = 1 .. (m + 2)
    BY <1>7
  <1>9. m + 1 \in 1 .. (m + 2) /\ m + 2 \in 1 .. (m + 2)
    OBVIOUS
  <1>10. IsAt(q, m + 1, "saveTransfer", i) /\ IsAt(q, m + 2, SecondOf(log[i]), i)
    BY <1>3, <1>7, <1>8, <1>9 DEF IsAt
  <1>11. Extended(action_que, q, m, i, log[i])
    BY <1>5, <1>7, <1>8, <1>10 DEF Extended
  <1>12. \E n : Extended(action_que, action_que', n, i, log[i])
    BY <1>4, <1>6, <1>11
  <1> QED  BY <1>1, <1>4, <1>6, <1>7, <1>12

\* What was in the queue stays there, in its place; what is new comes after it.
LEMMA ExtendedKeeps ==
  ASSUME NEW que, NEW que2, NEW m, NEW i \in Nat, NEW e, Extended(que, que2, m, i, e),
         NEW upto, upto \in Nat, i = upto + 1
  PROVE  /\ \A do, j : Queued(que, do, j) => Queued(que2, do, j)
         /\ \A j \in Nat : (\E do : Waits(upto, que, do, j)) /\ j # i =>
              \A do : Waits(upto, que, do, j) => Waits(i, que2, do, j)
         /\ Queued(que2, "saveTransfer", i) /\ Queued(que2, SecondOf(e), i)
         /\ \A k \in 1 .. m : \A do, j : After(que, k, do, j) => After(que2, k, do, j)
         /\ \A k \in 1 .. m : After(que2, k, "saveTransfer", i) /\ After(que2, k, SecondOf(e), i)
         /\ \A do : \A j \in Nat : ComesFirst(upto, que, do, j) /\ (j = i => do = SecondOf(e))
                               => ComesFirst(i, que2, do, j)
  <1>1. /\ m \in Nat /\ DOMAIN que = 1 .. m /\ DOMAIN que2 = 1 .. (m + 2)
        /\ \A k \in 1 .. m : que2[k] = que[k]
        /\ IsAt(que2, m + 1, "saveTransfer", i) /\ IsAt(que2, m + 2, SecondOf(e), i)
    BY DEF Extended
  <1>2. \A k \in 1 .. m : k \in 1 .. (m + 2) /\ k < m + 1 /\ k < m + 2
    BY <1>1
  <1>3. \A k \in 1 .. m : \A do, j : IsAt(que, k, do, j) => IsAt(que2, k, do, j)
    BY <1>1, <1>2 DEF IsAt
  <1>4. \A do, j : Queued(que, do, j) => Queued(que2, do, j)
    BY <1>1, <1>2, <1>3 DEF Queued
  <1>5. Queued(que2, "saveTransfer", i) /\ Queued(que2, SecondOf(e), i)
    BY <1>1 DEF Queued
  <1>6. \A k \in 1 .. m : \A do, j : After(que, k, do, j) => After(que2, k, do, j)
    BY <1>1, <1>2, <1>3 DEF After
  <1>7. \A k \in 1 .. m : After(que2, k, "saveTransfer", i) /\ After(que2, k, SecondOf(e), i)
    BY <1>1, <1>2 DEF After
  <1>8. \A j \in Nat : j # i => \A do : Waits(upto, que, do, j) => Waits(i, que2, do, j)
    BY <1>4 DEF Waits
  <1>9. ASSUME NEW do, NEW j \in Nat, ComesFirst(upto, que, do, j), j = i => do = SecondOf(e)
        PROVE  ComesFirst(i, que2, do, j)
    <2>1. j <= i => Queued(que2, do, j)
      BY <1>4, <1>5, <1>9 DEF ComesFirst
    <2>2. ASSUME NEW k \in 1 .. (m + 2), j < que2[k].tx
          PROVE  Before(que2, k, do, j)
      <3>1. CASE k \in 1 .. m
        BY <1>1, <1>2, <1>3, <1>9, <2>2, <3>1 DEF ComesFirst, Before
      <3>2. CASE k \in {m + 1, m + 2}
        <4>1. que2[k].tx = i
          BY <1>1, <3>2 DEF IsAt
        <4>2. j <= upto
          BY <2>2, <4>1
        <4>3. PICK l \in 1 .. m : IsAt(que, l, do, j)
          BY <1>1, <1>9, <4>2 DEF ComesFirst, Queued
        <4>4. l < k /\ IsAt(que2, l, do, j)
          BY <1>2, <1>3, <3>2, <4>3
        <4> QED  BY <1>1, <1>2, <4>4 DEF Before
      <3> QED  BY <1>1, <3>1, <3>2
    <2> QED  BY <1>1, <2>1, <2>2 DEF ComesFirst
  <1> QED  BY <1>4, <1>5, <1>6, <1>7, <1>8, <1>9

\* What is unsaved stays so, and nothing else becomes so.
LEMMA ExtendedUnsaved ==
  ASSUME NEW que, NEW que2, NEW m, NEW i \in Nat, NEW e, Extended(que, que2, m, i, e),
         NEW upto, upto \in Nat, i = upto + 1, NEW stage, NEW j \in Nat
  PROVE  /\ Unsaved(upto, que, stage, j) /\ (j = i => SecondOf(e) = "processAmmBlock")
              => Unsaved(i, que2, stage, j)
         /\ Unsaved(i, que2, stage, j) => Unsaved(upto, que, stage, j)
  <1>1. /\ m \in Nat /\ DOMAIN que = 1 .. m /\ DOMAIN que2 = 1 .. (m + 2)
        /\ \A k \in 1 .. m : que2[k] = que[k]
        /\ IsAt(que2, m + 1, "saveTransfer", i) /\ IsAt(que2, m + 2, SecondOf(e), i)
    BY DEF Extended
  <1>2. \A k \in 1 .. m : k \in 1 .. (m + 2)
    BY <1>1
  <1>3. \A k \in 1 .. m : IsAt(que, k, "processAmmBlock", j) <=> IsAt(que2, k, "processAmmBlock", j)
    BY <1>1, <1>2 DEF IsAt
  <1>4. ASSUME Unsaved(upto, que, stage, j), j = i => SecondOf(e) = "processAmmBlock"
        PROVE  Unsaved(i, que2, stage, j)
    <2>1. CASE j > i
      BY <2>1 DEF Unsaved
    <2>2. CASE j = i
      <3>1. IsAt(que2, m + 2, "processAmmBlock", j) /\ m + 2 # 1 /\ m + 2 \in 1 .. (m + 2)
        BY <1>1, <1>4, <2>2
      <3> QED  BY <1>1, <3>1 DEF Unsaved
    <2>3. CASE j < i
      <3>1. PICK k \in 1 .. m : IsAt(que, k, "processAmmBlock", j) /\ (k = 1 => stage # "savePrice")
        BY <1>1, <1>4, <2>3 DEF Unsaved
      <3>2. k \in DOMAIN que2 /\ IsAt(que2, k, "processAmmBlock", j)
        BY <1>1, <1>2, <1>3, <3>1
      <3> QED  BY <3>1, <3>2 DEF Unsaved
    <2> QED  BY <2>1, <2>2, <2>3
  <1>5. ASSUME Unsaved(i, que2, stage, j)
        PROVE  Unsaved(upto, que, stage, j)
    <2>1. CASE j > i
      BY <2>1 DEF Unsaved
    <2>2. ASSUME NEW k \in 1 .. (m + 2), IsAt(que2, k, "processAmmBlock", j),
                 k = 1 => stage # "savePrice"
          PROVE  Unsaved(upto, que, stage, j)
      <3>1. CASE k \in 1 .. m
        BY <1>1, <1>3, <2>2, <3>1 DEF Unsaved
      <3>2. CASE k \in {m + 1, m + 2}
        <4>1. j = i
          BY <1>1, <2>2, <3>2 DEF IsAt
        <4>2. j > upto
          BY <4>1
        <4> QED  BY <4>2 DEF Unsaved
      <3> QED  BY <1>1, <3>1, <3>2
    <2> QED  BY <1>1, <1>5, <2>1, <2>2 DEF Unsaved
  <1> QED  BY <1>4, <1>5

\* parseBlock keeps the order of the queue,
LEMMA ParseQueue ==
  ASSUME ChainTypes, JobTypes, MarketsMade, QueueFollows, RowsFirst, QueueInOrder, parseBlock
  PROVE  QueueFollows' /\ RowsFirst' /\ QueueInOrder'
  <1>1. PICK i \in Nat : i = handed + 1 /\ i \in DOMAIN log
    BY Parses DEF JobTypes
  <1>2. PICK m : Extended(action_que, action_que', m, i, log[i])
    BY <1>1, Parses
  <1>3. /\ m \in Nat /\ DOMAIN action_que = 1 .. m /\ DOMAIN action_que' = 1 .. (m + 2)
        /\ \A k \in 1 .. m : action_que'[k] = action_que[k]
        /\ IsAt(action_que', m + 1, "saveTransfer", i)
        /\ IsAt(action_que', m + 2, SecondOf(log[i]), i)
    BY <1>2 DEF Extended
  <1>4. /\ handed' = i /\ log' = log /\ replays' = replays /\ crashes' = crashes
        /\ TokenEntity' = TokenEntity /\ PairEntity' = PairEntity /\ handed \in Nat
    BY <1>1 DEF parseBlock, chainVars, rows, JobTypes
  <1>5. /\ \A k \in 1 .. m : \A do, j : After(action_que, k, do, j) => After(action_que', k, do, j)
        /\ \A k \in 1 .. m : After(action_que', k, "saveTransfer", i)
                             /\ After(action_que', k, SecondOf(log[i]), i)
    BY <1>1, <1>2, <1>4, ExtendedKeeps
  <1>6. \A do : \A j \in Nat : ComesFirst(handed, action_que, do, j) /\ (j = i => do = SecondOf(log[i]))
                               => ComesFirst(i, action_que', do, j)
    BY <1>1, <1>2, <1>4, ExtendedKeeps
  <1>7. \A j \in DOMAIN log : j \in Nat
    BY DEF ChainTypes
  <1>8. QueueFollows'
    <2> SUFFICES ASSUME NEW k \in 1 .. (m + 2)
                 PROVE
          /\ action_que'[k].tx \in DOMAIN log
          /\ action_que'[k].do \in {"saveTransfer", SecondOf(log[action_que'[k].tx])}
          /\ \A j \in DOMAIN log : action_que'[k].tx < j =>
               \/ j > i
               \/ /\ After(action_que', k, "saveTransfer", j)
                  /\ After(action_que', k, SecondOf(log[j]), j)
      BY <1>3, <1>4 DEF QueueFollows
    <2>1. CASE k \in 1 .. m
      <3>1. action_que'[k] = action_que[k] /\ k \in DOMAIN action_que
        BY <1>3, <2>1
      <3>2. /\ action_que[k].tx \in DOMAIN log
            /\ action_que[k].do \in {"saveTransfer", SecondOf(log[action_que[k].tx])}
            /\ \A j \in DOMAIN log : action_que[k].tx < j =>
                 \/ j > handed
                 \/ /\ After(action_que, k, "saveTransfer", j)
                    /\ After(action_que, k, SecondOf(log[j]), j)
        BY <3>1 DEF QueueFollows
      <3>3. ASSUME NEW j \in DOMAIN log, action_que[k].tx < j, ~(j > i)
            PROVE  /\ After(action_que', k, "saveTransfer", j)
                   /\ After(action_que', k, SecondOf(log[j]), j)
        <4>1. CASE j = i
          BY <1>5, <2>1, <4>1
        <4>2. CASE j # i
          <5>1. ~(j > handed)
            BY <1>1, <1>4, <1>7, <3>3, <4>2
          <5> QED  BY <1>5, <2>1, <3>2, <3>3, <5>1
        <4> QED  BY <4>1, <4>2
      <3> QED  BY <3>1, <3>2, <3>3
    <2>2. CASE k \in {m + 1, m + 2}
      <3>1. action_que'[k].tx = i /\ action_que'[k].do \in {"saveTransfer", SecondOf(log[i])}
        BY <1>3, <2>2 DEF IsAt
      <3> QED  BY <1>1, <3>1
    <2> QED  BY <1>3, <2>1, <2>2
  <1>9. RowsFirst'
    <2>1. ASSUME NEW s \in DOMAIN log, log[s].fn = "submit", TokenEntity[log[s].token] = None
          PROVE  ComesFirst(i, action_que', "saveToken", s)
      <3>1. SecondOf(log[s]) = "saveToken"
        BY <2>1 DEF SecondOf
      <3>2. ComesFirst(handed, action_que, "saveToken", s)
        BY <2>1 DEF RowsFirst
      <3> QED  BY <1>6, <1>7, <3>1, <3>2
    <2>2. ASSUME NEW c \in DOMAIN log, log[c].pairs, ~HasSymbol(PairEntity[log[c].token])
          PROVE  ComesFirst(i, action_que', "processAmmBlock", c)
      <3>1. SecondOf(log[c]) = "processAmmBlock"
        <4>1. log[c] \in TxRecords /\ WellFormed(log[c])
          BY DEF ChainTypes, MarketsMade
        <4> QED  BY <2>2, <4>1, Seconds
      <3>2. ComesFirst(handed, action_que, "processAmmBlock", c)
        BY <2>2 DEF RowsFirst
      <3> QED  BY <1>6, <1>7, <3>1, <3>2
    <2> QED  BY <1>4, <2>1, <2>2 DEF RowsFirst
  <1>10. QueueInOrder'
    <2> SUFFICES ASSUME GivenOnce
                 PROVE
        /\ \A k \in 1 .. (m + 2) : action_que'[k].tx <= i
        /\ \A k, l \in 1 .. (m + 2) : k < l =>
             /\ action_que'[k].tx <= action_que'[l].tx
             /\ action_que'[k].do = "processAmmBlock" => action_que'[k].tx < action_que'[l].tx
      BY <1>3, <1>4 DEF QueueInOrder, GivenOnce
    <2>1. \A k \in {m + 1, m + 2} : action_que'[k].tx = i
      BY <1>3 DEF IsAt
    <2>2. \A k \in 1 .. m : /\ action_que'[k] = action_que[k]
                            /\ action_que[k].tx \in Nat /\ action_que[k].tx <= handed
      BY <1>3, <1>7 DEF QueueInOrder, QueueFollows
    <2>3. \A k \in 1 .. m : action_que'[k].tx < i /\ action_que'[k].tx \in Nat
      BY <1>1, <1>4, <2>2
    <2>4. \A k \in 1 .. (m + 2) : k \in 1 .. m \/ k = m + 1 \/ k = m + 2
      BY <1>3
    <2>5. \A k \in 1 .. (m + 2) : action_que'[k].tx <= i
      BY <2>1, <2>3, <2>4
    <2>6. ASSUME NEW k \in 1 .. (m + 2), NEW l \in 1 .. (m + 2), k < l
          PROVE  /\ action_que'[k].tx <= action_que'[l].tx
                 /\ action_que'[k].do = "processAmmBlock" => action_que'[k].tx < action_que'[l].tx
      <3>1. CASE l \in 1 .. m
        <4>1. k \in 1 .. m
          BY <1>3, <2>6, <3>1
        <4>2. /\ action_que[k].tx <= action_que[l].tx
              /\ action_que[k].do = "processAmmBlock" => action_que[k].tx < action_que[l].tx
          BY <1>3, <2>6, <3>1, <4>1 DEF QueueInOrder
        <4> QED  BY <2>2, <3>1, <4>1, <4>2
      <3>2. CASE l \in {m + 1, m + 2} /\ k \in 1 .. m
        BY <2>1, <2>3, <3>2
      <3>3. CASE l \in {m + 1, m + 2} /\ k \notin 1 .. m
        <4>1. k = m + 1 /\ l = m + 2
          BY <1>3, <2>4, <2>6, <3>3
        <4>2. action_que'[k].do = "saveTransfer"
          BY <1>3, <4>1 DEF IsAt
        <4> QED  BY <2>1, <4>1, <4>2
      <3> QED  BY <2>4, <3>1, <3>2, <3>3
    <2> QED  BY <2>5, <2>6
  <1> QED  BY <1>8, <1>9, <1>10

\* parseBlock keeps the invariant.
LEMMA ParseKeeps ==
  ASSUME MarketInv, parseBlock
  PROVE  MarketInv'
  <1>1. /\ UNCHANGED chainVars /\ UNCHANGED rows
        /\ at' = at /\ entity' = entity /\ tokenSaves' = tokenSaves
        /\ replays' = replays /\ crashes' = crashes /\ tradeSaves' = tradeSaves
        /\ TokenEntity' = TokenEntity /\ TradeHistory' = TradeHistory
    BY DEF parseBlock
  <1>2. /\ log' = log /\ PairEntity' = PairEntity /\ LpPointsEntity' = LpPointsEntity
        /\ BalanceEntity' = BalanceEntity /\ told' = told
    BY <1>1 DEF chainVars, rows
  <1>3. /\ ChainTypes /\ JobTypes /\ TableTypes /\ MarketsMade /\ LastIsKept /\ TradesMove
        /\ QueueFollows /\ RowsFirst /\ Progress /\ AccountsFollow /\ MarketsFollow /\ MarketsFill
        /\ TradesFollow /\ QueueInOrder /\ TradesOnce /\ ReservesInOrder
    BY DEF MarketInv
  <1>4. ChainTypes' /\ MarketsMade' /\ LastIsKept' /\ TradesMove'
    BY <1>1, <1>3, ChainStays
  <1>5. PICK i \in Nat : i = handed + 1 /\ i \in DOMAIN log /\ handed' = i /\ handed \in Nat
    BY <1>3, Parses DEF JobTypes, parseBlock
  <1>6. PICK m : Extended(action_que, action_que', m, i, log[i])
    BY <1>3, <1>5, Parses
  <1>7. /\ m \in Nat /\ DOMAIN action_que = 1 .. m /\ DOMAIN action_que' = 1 .. (m + 2)
        /\ \A k \in 1 .. m : action_que'[k] = action_que[k]
    BY <1>6 DEF Extended
  <1>8. JobTypes'
    <2>1. action_que' \in Seq([do : Actions, tx : Nat])
      BY <1>3, Parses
    <2>2. handed' \in 0 .. Len(log)
      BY <1>3, <1>5 DEF ChainTypes
    <2> QED  BY <1>1, <1>2, <1>3, <2>1, <2>2 DEF JobTypes
  <1>9. TableTypes'
    BY <1>1, <1>2, <1>3 DEF TableTypes
  <1>10. QueueFollows' /\ RowsFirst' /\ QueueInOrder'
    BY <1>3, ParseQueue
  <1>11. Progress'
    <2>1. CASE action_que = <<>>
      <3>1. at' = "savePair"
        BY <1>1, <1>3, <2>1 DEF Progress
      <3> QED  BY <3>1 DEF Progress
    <2>2. CASE action_que # <<>>
      <3>1. Head(action_que) = action_que[1] /\ 1 \in 1 .. m
        BY <1>3, <1>7, <2>2, HeadFacts
      <3>2. action_que' # <<>> /\ Head(action_que') = action_que'[1]
        <4>1. action_que' \in Seq([do : Actions, tx : Nat]) /\ 1 \in DOMAIN action_que'
          BY <1>3, <1>7, Parses
        <4> QED  BY <4>1
      <3>3. Head(action_que') = Head(action_que)
        BY <1>7, <3>1, <3>2
      <3>4. tx' = tx
        BY <1>2, <3>3 DEF tx
      <3> QED  BY <1>1, <1>2, <1>3, <2>2, <3>2, <3>3, <3>4 DEF Progress, Metrics
    <2> QED  BY <2>1, <2>2
  <1>12. \A j \in DOMAIN log : j \in Nat
    BY <1>3 DEF ChainTypes
  <1>13. AccountsFollow' /\ MarketsFollow' /\ MarketsFill'
    <2>1. /\ \A j \in Nat : (\E do : Waits(handed, action_que, do, j)) /\ j # i =>
               \A do : Waits(handed, action_que, do, j) => Waits(i, action_que', do, j)
          /\ Queued(action_que', "saveTransfer", i) /\ Queued(action_que', SecondOf(log[i]), i)
      BY <1>5, <1>6, ExtendedKeeps
    <2>2. ASSUME NEW j \in DOMAIN log, Waits(handed, action_que, "saveTransfer", j)
          PROVE  Waits(handed', action_que', "saveTransfer", j)
      BY <1>5, <1>12, <2>1, <2>2 DEF Waits
    <2>3. ASSUME NEW j \in DOMAIN log, Amm(log[j]), Waits(handed, action_que, "processAmmBlock", j)
          PROVE  Waits(handed', action_que', "processAmmBlock", j)
      <3>1. SecondOf(log[j]) = "processAmmBlock"
        <4>1. log[j] \in TxRecords /\ WellFormed(log[j])
          BY <1>3 DEF ChainTypes, MarketsMade
        <4> QED  BY <2>3, <4>1, Seconds
      <3> QED  BY <1>5, <1>12, <2>1, <2>3, <3>1 DEF Waits
    <2> QED  BY <1>1, <1>3, <2>2, <2>3, RowsStay
  <1>14. TradesFollow' /\ TradesOnce' /\ ReservesInOrder'
    <2>1. ASSUME NEW j \in DOMAIN log, Amm(log[j])
          PROVE  Unsaved(handed, action_que, at, j) <=> Unsaved(handed', action_que', at', j)
      <3>1. SecondOf(log[j]) = "processAmmBlock"
        <4>1. log[j] \in TxRecords /\ WellFormed(log[j])
          BY <1>3 DEF ChainTypes, MarketsMade
        <4> QED  BY <2>1, <4>1, Seconds
      <3> QED  BY <1>1, <1>5, <1>6, <1>12, <3>1, ExtendedUnsaved
    <2>2. GivenOnce' => GivenOnce
      BY <1>1 DEF GivenOnce
    <2> QED  BY <1>1, <1>2, <1>3, <2>1, <2>2, HistoryStays
  <1> QED  BY <1>4, <1>8, <1>9, <1>10, <1>11, <1>13, <1>14 DEF MarketInv

\* Given again: only more is waited for.
LEMMA ReplayKeeps ==
  ASSUME MarketInv, Replay
  PROVE  MarketInv'
  <1>1. /\ UNCHANGED chainVars /\ UNCHANGED rows
        /\ at' = at /\ entity' = entity /\ tokenSaves' = tokenSaves
        /\ replays' = replays + 1 /\ crashes' = crashes /\ tradeSaves' = tradeSaves
        /\ TokenEntity' = TokenEntity /\ TradeHistory' = TradeHistory /\ action_que' = action_que
    BY DEF Replay
  <1>2. /\ log' = log /\ PairEntity' = PairEntity /\ LpPointsEntity' = LpPointsEntity
        /\ BalanceEntity' = BalanceEntity /\ told' = told
    BY <1>1 DEF chainVars, rows
  <1>3. /\ ChainTypes /\ JobTypes /\ TableTypes /\ MarketsMade /\ LastIsKept /\ TradesMove
        /\ QueueFollows /\ RowsFirst /\ Progress /\ AccountsFollow /\ MarketsFollow /\ MarketsFill
        /\ TradesFollow /\ QueueInOrder /\ TradesOnce /\ ReservesInOrder
    BY DEF MarketInv
  <1>4. ChainTypes' /\ MarketsMade' /\ LastIsKept' /\ TradesMove'
    BY <1>1, <1>3, ChainStays
  <1>5. PICK k \in Nat : handed' = k /\ k \in 0 .. Len(log) /\ handed \in Nat /\ k < handed
    BY <1>3 DEF Replay, JobTypes
  <1>6. \A j \in Nat : j > handed => j > k
    BY <1>5
  <1>7. \A j \in DOMAIN log : j \in Nat
    BY <1>3 DEF ChainTypes
  <1>8. JobTypes'
    BY <1>1, <1>2, <1>3, <1>5 DEF JobTypes
  <1>9. TableTypes'
    BY <1>1, <1>2, <1>3 DEF TableTypes
  <1>10. QueueFollows'
    BY <1>1, <1>2, <1>3, <1>5, <1>6, <1>7 DEF QueueFollows
  <1>11. \A do : \A j \in DOMAIN log : ComesFirst(handed, action_que, do, j) => ComesFirst(k, action_que, do, j)
    BY <1>5, <1>7 DEF ComesFirst
  <1>12. RowsFirst'
    BY <1>1, <1>2, <1>3, <1>5, <1>11 DEF RowsFirst
  <1>13. tx' = tx
    BY <1>1, <1>2 DEF tx
  <1>14. Progress'
    BY <1>1, <1>2, <1>3, <1>13 DEF Progress, Metrics
  <1>15. AccountsFollow' /\ MarketsFollow' /\ MarketsFill'
    <2>1. \A j \in DOMAIN log : \A do : Waits(handed, action_que, do, j) => Waits(handed', action_que', do, j)
      BY <1>1, <1>5, <1>6, <1>7 DEF Waits
    <2> QED  BY <1>1, <1>3, <2>1, RowsStay
  <1>16. ~GivenOnce'
    <2>1. replays \in Nat /\ crashes \in Nat
      BY <1>3 DEF JobTypes
    <2> QED  BY <1>1, <2>1 DEF GivenOnce
  <1>17. TradesFollow' /\ TradesOnce' /\ ReservesInOrder'
    <2>1. \A j \in DOMAIN log : Unsaved(handed, action_que, at, j) => Unsaved(handed', action_que', at', j)
      BY <1>1, <1>5, <1>6, <1>7 DEF Unsaved
    <2> QED  BY <1>1, <1>2, <1>3, <1>16, <2>1, HistoryStays
  <1>18. QueueInOrder'
    BY <1>16 DEF QueueInOrder
  <1> QED  BY <1>4, <1>8, <1>9, <1>10, <1>12, <1>14, <1>15, <1>17, <1>18 DEF MarketInv

\* After a crash everything is waited for.
LEMMA CrashKeeps ==
  ASSUME MarketInv, Crash
  PROVE  MarketInv'
  <1>1. /\ UNCHANGED chainVars /\ UNCHANGED rows
        /\ handed' = 0 /\ action_que' = <<>> /\ at' = "savePair" /\ entity' = None
        /\ tokenSaves' = <<>> /\ tradeSaves' = <<>>
        /\ replays' = replays /\ crashes' = crashes + 1
        /\ TokenEntity' = TokenEntity /\ TradeHistory' = TradeHistory
    BY DEF Crash
  <1>2. /\ log' = log /\ PairEntity' = PairEntity /\ LpPointsEntity' = LpPointsEntity
        /\ BalanceEntity' = BalanceEntity /\ told' = told
    BY <1>1 DEF chainVars, rows
  <1>3. /\ ChainTypes /\ JobTypes /\ TableTypes /\ MarketsMade /\ LastIsKept /\ TradesMove
        /\ AccountsFollow /\ MarketsFollow /\ MarketsFill
    BY DEF MarketInv
  <1>4. ChainTypes' /\ MarketsMade' /\ LastIsKept' /\ TradesMove'
    BY <1>1, <1>3, ChainStays
  <1>5. \A j \in DOMAIN log : j \in Nat /\ j > 0
    BY <1>3 DEF ChainTypes
  <1>6. JobTypes'
    <2>1. 0 \in 0 .. Len(log)
      BY <1>3 DEF ChainTypes
    <2> QED  BY <1>1, <1>2, <1>3, <2>1 DEF JobTypes
  <1>7. TableTypes'
    BY <1>1, <1>2, <1>3 DEF TableTypes
  <1>8. QueueFollows'
    BY <1>1 DEF QueueFollows
  <1>9. RowsFirst'
    <2>1. \A do : \A j \in DOMAIN log : ComesFirst(0, <<>>, do, j)
      BY <1>5 DEF ComesFirst
    <2> QED  BY <1>1, <1>2, <2>1 DEF RowsFirst
  <1>10. Progress'
    BY <1>1 DEF Progress
  <1>11. AccountsFollow' /\ MarketsFollow' /\ MarketsFill'
    <2>1. \A j \in DOMAIN log : \A do : Waits(handed', action_que', do, j)
      BY <1>1, <1>5 DEF Waits
    <2> QED  BY <1>1, <1>3, <2>1, RowsStay
  <1>12. ~GivenOnce'
    <2>1. replays \in Nat /\ crashes \in Nat
      BY <1>3 DEF JobTypes
    <2> QED  BY <1>1, <2>1 DEF GivenOnce
  <1>13. TradesFollow'
    BY <1>1, <1>2, <1>5 DEF TradesFollow, Unsaved
  <1>14. TradesOnce' /\ ReservesInOrder' /\ QueueInOrder'
    BY <1>12 DEF TradesOnce, ReservesInOrder, QueueInOrder
  <1> QED  BY <1>4, <1>6, <1>7, <1>8, <1>9, <1>10, <1>11, <1>13, <1>14 DEF MarketInv

-----------------------------------------------------------------------------
(* Handlers beside processAmmBlock *)

\* The head over, when it was not processAmmBlock.
LEMMA OtherDone ==
  ASSUME MarketInv, action_que # <<>>, ActionDone, Head(action_que).do # "processAmmBlock",
         UNCHANGED chainVars,
         UNCHANGED <<tradeSaves, PairEntity, LpPointsEntity, TradeHistory, told>>,
         TokenEntity' \in [Tokens -> {None} \union TokenRows],
         \A t \in Tokens : TokenEntity[t] # None => TokenEntity'[t] # None,
         Head(action_que).do = "saveToken" => TokenEntity'[tx.token] # None,
         BalanceEntity' \in [Accounts -> [Tokens -> Column]],
         \A a \in Accounts, t \in Tokens :
           IF Head(action_que).do = "saveTransfer" /\ BalanceSet(tx, a, t) # None
             THEN BalanceEntity'[a][t] = BalanceSet(tx, a, t)
             ELSE BalanceEntity'[a][t] = BalanceEntity[a][t],
         tokenSaves' \in Seq(MetaSaves \union Finds),
         \A k \in DOMAIN tokenSaves' :
           tokenSaves'[k].at # "find" => TokenEntity'[tokenSaves'[k].token] # None
  PROVE  MarketInv'
  <1>1. /\ ChainTypes /\ JobTypes /\ TableTypes /\ MarketsMade /\ LastIsKept /\ TradesMove
        /\ QueueFollows /\ RowsFirst /\ Progress /\ AccountsFollow /\ MarketsFollow /\ MarketsFill
        /\ TradesFollow /\ QueueInOrder /\ TradesOnce /\ ReservesInOrder
    BY DEF MarketInv
  <1>2. /\ log' = log /\ tradeSaves' = tradeSaves /\ PairEntity' = PairEntity
        /\ LpPointsEntity' = LpPointsEntity /\ TradeHistory' = TradeHistory /\ told' = told
    BY DEF chainVars
  <1>3. ChainTypes' /\ MarketsMade' /\ LastIsKept' /\ TradesMove'
    BY <1>1, ChainStays
  <1>4. JobTypes'
    <2>1. action_que' \in Seq([do : Actions, tx : Nat])
      BY <1>1, DonePops
    <2>2. /\ handed' = handed /\ at' = "savePair" /\ entity' = None
          /\ replays' = replays /\ crashes' = crashes
      BY DEF ActionDone
    <2> QED  BY <1>1, <1>2, <2>1, <2>2 DEF JobTypes
  <1>5. TableTypes'
    BY <1>1, <1>2 DEF TableTypes
  <1>6. QueueFollows' /\ QueueInOrder' /\ Progress'
    BY <1>1, <1>2, DoneQueue
  <1>7. RowsFirst'
    BY <1>1, <1>2, DoneFirst
  <1>8. AccountsFollow'
    BY <1>1, <1>2, DoneAccounts
  <1>9. MarketsFollow'
    <2>1. PICK proc \in BOOLEAN : proc = (Head(action_que).do = "processAmmBlock")
      BY Zenon
    <2>2. ~proc
      BY <2>1
    <2>3. \A e, t : PairEntity'[t] # None => Leaves(e, t, proc)
      BY <1>2, <2>2 DEF Leaves
    <2>4. \A t \in Tokens : KeyedIn(log, t) /\ PairEntity'[t] # None =>
            Leaves(tx, t, Head(action_que).do = "processAmmBlock")
      BY <2>1, <2>3, Zenon
    <2> QED  BY <1>1, <2>4, DoneMarkets
  <1>10. MarketsFill'
    BY <1>1, <1>2, DoneFill
  <1>11. TradesFollow' /\ TradesOnce' /\ ReservesInOrder'
    BY <1>1, <1>2, DoneHistory
  <1> QED  BY <1>3, <1>4, <1>5, <1>6, <1>7, <1>8, <1>9, <1>10, <1>11 DEF MarketInv

\* saveTransfer keeps the invariant.
LEMMA TransferKeeps ==
  ASSUME MarketInv, saveTransfer
  PROVE  MarketInv'
  <1>1. /\ action_que # <<>> /\ Head(action_que).do = "saveTransfer" /\ ActionDone
        /\ UNCHANGED chainVars
        /\ tokenSaves' = tokenSaves /\ tradeSaves' = tradeSaves /\ TokenEntity' = TokenEntity
        /\ PairEntity' = PairEntity /\ LpPointsEntity' = LpPointsEntity
        /\ TradeHistory' = TradeHistory /\ told' = told
    BY DEF saveTransfer, Doing
  <1>2. JobTypes /\ TableTypes
    BY DEF MarketInv
  <1>3. PICK e \in TxRecords : e = tx
    BY <1>1, HeadFacts DEF MarketInv
  <1>4. e.by \in Accounts /\ e.token \in Tokens /\ e.balance \in Column
    BY DEF TxRecords
  <1>5. BalanceEntity' = IF e.balance = None THEN BalanceEntity
                         ELSE [BalanceEntity EXCEPT ![e.by][e.token] = e.balance]
    BY <1>3 DEF saveTransfer
  <1>6. BalanceEntity \in [Accounts -> [Tokens -> Column]]
    BY <1>2 DEF TableTypes
  <1>7. BalanceEntity' \in [Accounts -> [Tokens -> Column]]
    BY <1>4, <1>5, <1>6
  <1>8. \A a \in Accounts, t \in Tokens :
           IF BalanceSet(e, a, t) # None
             THEN BalanceEntity'[a][t] = BalanceSet(e, a, t)
             ELSE BalanceEntity'[a][t] = BalanceEntity[a][t]
    BY <1>4, <1>5, <1>6 DEF BalanceSet
  <1>9. /\ TokenEntity' \in [Tokens -> {None} \union TokenRows]
        /\ tokenSaves' \in Seq(MetaSaves \union Finds)
        /\ \A k \in DOMAIN tokenSaves' :
             tokenSaves'[k].at # "find" => TokenEntity'[tokenSaves'[k].token] # None
    BY <1>1, <1>2 DEF TableTypes, JobTypes
  <1> QED  BY <1>1, <1>3, <1>7, <1>8, <1>9, OtherDone

\* saveToken keeps the invariant.
LEMMA TokenKeeps ==
  ASSUME MarketInv, saveToken
  PROVE  MarketInv'
  <1>1. /\ action_que # <<>> /\ Head(action_que).do = "saveToken" /\ ActionDone
        /\ UNCHANGED chainVars
        /\ tokenSaves' = tokenSaves /\ tradeSaves' = tradeSaves
        /\ PairEntity' = PairEntity /\ LpPointsEntity' = LpPointsEntity
        /\ TradeHistory' = TradeHistory /\ told' = told /\ BalanceEntity' = BalanceEntity
    BY DEF saveToken, Doing, rows
  <1>2. JobTypes /\ TableTypes
    BY DEF MarketInv
  <1>3. PICK e \in TxRecords : e = tx
    BY <1>1, HeadFacts DEF MarketInv
  <1>4. e.token \in Tokens /\ e.symbol \in Nat
    <2>1. WellFormed(e) /\ Head(action_que).do \in {"saveTransfer", SecondOf(e)}
      BY <1>1, <1>3, HeadFacts DEF MarketInv
    <2>2. e.fn = "submit"
      BY <1>1, <2>1, Seconds
    <2>3. e.symbol # None
      BY <2>1, <2>2 DEF WellFormed, Amm
    <2> QED  BY <2>3 DEF TxRecords
  <1>5. PICK rec : rec = [token_symbol |-> e.symbol, has_market |-> FALSE]
    OBVIOUS
  <1>6. rec \in TokenRows /\ rec # None
    <2>1. rec \in TokenRows
      BY <1>4, <1>5 DEF TokenRows
    <2> QED  BY <2>1, IndexAssumption
  <1>7. TokenEntity' = IF TokenEntity[e.token] # None THEN TokenEntity
                       ELSE [TokenEntity EXCEPT ![e.token] = rec]
    BY <1>3, <1>5 DEF saveToken
  <1>8. TokenEntity \in [Tokens -> {None} \union TokenRows]
    BY <1>2 DEF TableTypes
  <1>9. /\ TokenEntity' \in [Tokens -> {None} \union TokenRows]
        /\ \A t \in Tokens : TokenEntity[t] # None => TokenEntity'[t] # None
        /\ TokenEntity'[e.token] # None
    BY <1>4, <1>6, <1>7, <1>8
  <1>10. \A k \in DOMAIN tokenSaves : tokenSaves[k].token \in Tokens
    <2>1. tokenSaves \in Seq(MetaSaves \union Finds)
      BY <1>2 DEF JobTypes
    <2>2. \A x \in MetaSaves \union Finds : x.token \in Tokens
      BY DEF MetaSaves, Finds
    <2> QED  BY <2>1, <2>2
  <1>11. /\ tokenSaves' \in Seq(MetaSaves \union Finds)
         /\ \A k \in DOMAIN tokenSaves' :
              tokenSaves'[k].at # "find" => TokenEntity'[tokenSaves'[k].token] # None
    BY <1>1, <1>2, <1>9, <1>10 DEF JobTypes
  <1>12. BalanceEntity' \in [Accounts -> [Tokens -> Column]]
    BY <1>1, <1>2 DEF TableTypes
  <1> QED  BY <1>1, <1>3, <1>9, <1>11, <1>12, OtherDone

\* saveTokenUpdate keeps the invariant.
LEMMA TokenUpdateKeeps ==
  ASSUME MarketInv, saveTokenUpdate
  PROVE  MarketInv'
  <1>1. /\ action_que # <<>> /\ Head(action_que).do = "saveTokenUpdate" /\ ActionDone
        /\ UNCHANGED chainVars
        /\ tradeSaves' = tradeSaves /\ TokenEntity' = TokenEntity
        /\ PairEntity' = PairEntity /\ LpPointsEntity' = LpPointsEntity
        /\ TradeHistory' = TradeHistory /\ told' = told /\ BalanceEntity' = BalanceEntity
    BY DEF saveTokenUpdate, Doing, rows
  <1>2. JobTypes /\ TableTypes
    BY DEF MarketInv
  <1>3. PICK e \in TxRecords : e = tx
    BY <1>1, HeadFacts DEF MarketInv
  <1>4. e.token \in Tokens /\ e.symbol \in Nat
    <2>1. WellFormed(e) /\ Head(action_que).do \in {"saveTransfer", SecondOf(e)}
      BY <1>1, <1>3, HeadFacts DEF MarketInv
    <2>2. e.fn = "change_metadata"
      BY <1>1, <2>1, Seconds
    <2>3. e.symbol # None
      BY <2>1, <2>2 DEF WellFormed, Amm
    <2> QED  BY <2>3 DEF TxRecords
  <1>5. PICK s : s = [token |-> e.token, entity |-> e.symbol, at |-> "find", columns |-> {}]
    OBVIOUS
  <1>6. s \in Finds /\ s.at = "find"
    BY <1>4, <1>5 DEF Finds
  <1>7. tokenSaves' = Append(tokenSaves, s)
    BY <1>3, <1>5 DEF saveTokenUpdate
  <1>8. PICK R : R = MetaSaves \union Finds
    OBVIOUS
  <1>9. /\ tokenSaves \in Seq(R) /\ s \in R
        /\ \A k \in DOMAIN tokenSaves :
             tokenSaves[k].at # "find" => TokenEntity[tokenSaves[k].token] # None
    BY <1>2, <1>6, <1>8 DEF JobTypes
  <1>10. /\ tokenSaves' \in Seq(R)
         /\ \A k \in DOMAIN tokenSaves' :
              tokenSaves'[k].at # "find" => TokenEntity[tokenSaves'[k].token] # None
    BY <1>6, <1>7, <1>9
  <1>11. /\ TokenEntity' \in [Tokens -> {None} \union TokenRows]
         /\ BalanceEntity' \in [Accounts -> [Tokens -> Column]]
    BY <1>1, <1>2 DEF TableTypes
  <1> QED  BY <1>1, <1>8, <1>10, <1>11, OtherDone

-----------------------------------------------------------------------------
(* What goes on beside the queue *)

\* q is s without its k-th entry.
Without(q, s, k) ==
  /\ \A o \in DOMAIN s : o # k => \E n \in DOMAIN q : q[n] = s[o]
  /\ \A n \in DOMAIN q : \E o \in DOMAIN s : o # k /\ q[n] = s[o]
  /\ \A n, l \in DOMAIN q : n # l =>
       \E o, p \in DOMAIN s : o # p /\ o # k /\ p # k /\ q[n] = s[o] /\ q[l] = s[p]

\* RemoveAt takes one entry out.
LEMMA RemovesOne ==
  ASSUME NEW R, NEW s \in Seq(R), NEW k \in DOMAIN s
  PROVE  RemoveAt(s, k) \in Seq(R) /\ Without(RemoveAt(s, k), s, k)
  <1>1. PICK m \in Nat : m = Len(s) /\ DOMAIN s = 1 .. m
    BY LenProperties
  <1>2. k \in Int /\ 1 <= k /\ k <= m /\ \A i \in 1 .. m : s[i] \in R
    BY <1>1, LenProperties, ElementOfSeq
  <1>3. PICK a : a = SubSeq(s, 1, k - 1)
    OBVIOUS
  <1>4. PICK b : b = SubSeq(s, k + 1, m)
    OBVIOUS
  <1>5. a \in Seq(R) /\ Len(a) = k - 1 /\ \A i \in 1 .. k - 1 : a[i] = s[i]
    <2>1. 1 \in Int /\ k - 1 \in Int /\ \A i \in 1 .. k - 1 : s[i] \in R
      BY <1>2
    <2>2. /\ a \in Seq(R) /\ Len(a) = IF 1 <= k - 1 THEN k - 1 - 1 + 1 ELSE 0
          /\ \A i \in 1 .. k - 1 - 1 + 1 : a[i] = s[1 + i - 1]
      BY <1>3, <2>1, SubSeqProperties
    <2>3. \A i \in 1 .. k - 1 : i \in 1 .. k - 1 - 1 + 1 /\ 1 + i - 1 = i
      BY <1>2
    <2> QED  BY <1>2, <2>2, <2>3
  <1>6. b \in Seq(R) /\ Len(b) = m - k /\ \A i \in 1 .. m - k : b[i] = s[k + i]
    <2>1. k + 1 \in Int /\ m \in Int /\ \A i \in k + 1 .. m : s[i] \in R
      BY <1>2
    <2>2. /\ b \in Seq(R) /\ Len(b) = IF k + 1 <= m THEN m - (k + 1) + 1 ELSE 0
          /\ \A i \in 1 .. m - (k + 1) + 1 : b[i] = s[k + 1 + i - 1]
      BY <1>4, <2>1, SubSeqProperties
    <2>3. \A i \in 1 .. m - k : i \in 1 .. m - (k + 1) + 1 /\ k + 1 + i - 1 = k + i
      BY <1>2
    <2> QED  BY <1>2, <2>2, <2>3
  <1>7. PICK c : c = a \o b
    OBVIOUS
  <1>8. /\ c \in Seq(R) /\ Len(c) = k - 1 + (m - k)
        /\ \A i \in 1 .. k - 1 + (m - k) : c[i] = IF i <= k - 1 THEN a[i] ELSE b[i - (k - 1)]
    <2>1. a \in Seq(R) /\ b \in Seq(R)
      BY <1>5, <1>6
    <2>2. /\ c \in Seq(R) /\ Len(c) = Len(a) + Len(b)
          /\ \A i \in 1 .. Len(a) + Len(b) : c[i] = IF i <= Len(a) THEN a[i] ELSE b[i - Len(a)]
      BY <1>7, <2>1, ConcatProperties
    <2> QED  BY <1>5, <1>6, <2>2
  <1>9. c = RemoveAt(s, k)
    BY <1>1, <1>3, <1>4, <1>7 DEF RemoveAt
  <1>10. ASSUME NEW n \in 1 .. m - 1 PROVE c[n] = IF n < k THEN s[n] ELSE s[n + 1]
    <2>1. n \in 1 .. k - 1 + (m - k)
      BY <1>2
    <2>2. CASE n < k
      BY <1>2, <1>5, <1>8, <2>1, <2>2
    <2>3. CASE ~(n < k)
      <3>1. n - (k - 1) \in 1 .. m - k /\ k + (n - (k - 1)) = n + 1
        BY <1>2, <2>3
      <3>2. ~(n <= k - 1)
        BY <1>2, <2>3
      <3>3. c[n] = b[n - (k - 1)] /\ b[n - (k - 1)] = s[n + 1]
        BY <1>6, <1>8, <2>1, <3>1, <3>2
      <3> QED  BY <2>3, <3>3
    <2> QED  BY <2>2, <2>3
  <1>11. DOMAIN c = 1 .. m - 1
    <2>1. k - 1 + (m - k) = m - 1
      BY <1>2
    <2> QED  BY <1>8, <2>1
  <1>12. ASSUME NEW o \in 1 .. m, o # k
         PROVE  \E n \in 1 .. m - 1 : c[n] = s[o]
    <2>1. CASE o < k
      <3>1. o \in 1 .. m - 1
        BY <1>2, <2>1
      <3>2. c[o] = s[o]
        BY <1>10, <2>1, <3>1
      <3> QED  BY <3>1, <3>2
    <2>2. CASE o > k
      <3>1. PICK n \in 1 .. m - 1 : n = o - 1 /\ ~(n < k) /\ n + 1 = o
        BY <1>2, <2>2
      <3>2. c[n] = s[o]
        BY <1>10, <3>1
      <3> QED  BY <3>2
    <2> QED  BY <1>2, <1>12, <2>1, <2>2
  <1>13. ASSUME NEW n \in 1 .. m - 1
         PROVE  \E o \in 1 .. m : /\ o # k /\ c[n] = s[o]
                                  /\ o = IF n < k THEN n ELSE n + 1
    <2>1. PICK o \in 1 .. m : o # k /\ o = IF n < k THEN n ELSE n + 1
      BY <1>2
    <2> QED  BY <1>10, <2>1
  <1>14. ASSUME NEW n \in 1 .. m - 1, NEW l \in 1 .. m - 1, n # l
         PROVE  \E o, p \in 1 .. m : o # p /\ o # k /\ p # k /\ c[n] = s[o] /\ c[l] = s[p]
    <2>1. PICK o \in 1 .. m : o # k /\ c[n] = s[o] /\ o = IF n < k THEN n ELSE n + 1
      BY <1>13
    <2>2. PICK p \in 1 .. m : p # k /\ c[l] = s[p] /\ p = IF l < k THEN l ELSE l + 1
      BY <1>13
    <2>3. o # p
      BY <1>2, <1>14, <2>1, <2>2
    <2> QED  BY <2>1, <2>2, <2>3
  <1>15. Without(c, s, k)
    <2>1. \A o \in DOMAIN s : o # k => \E n \in DOMAIN c : c[n] = s[o]
      BY <1>1, <1>11, <1>12
    <2>2. \A n \in DOMAIN c : \E o \in DOMAIN s : o # k /\ c[n] = s[o]
      BY <1>1, <1>11, <1>13
    <2>3. ASSUME NEW n \in DOMAIN c, NEW l \in DOMAIN c, n # l
          PROVE  \E o, p \in DOMAIN s : o # p /\ o # k /\ p # k /\ c[n] = s[o] /\ c[l] = s[p]
      <3>1. n \in 1 .. m - 1 /\ l \in 1 .. m - 1
        BY <1>11
      <3>2. PICK o, p \in 1 .. m : o # p /\ o # k /\ p # k /\ c[n] = s[o] /\ c[l] = s[p]
        BY <1>14, <2>3, <3>1
      <3> QED  BY <1>1, <3>2
    <2> QED  BY <2>1, <2>2, <2>3 DEF Without
  <1> QED  BY <1>8, <1>9, <1>15

\* A save of a token's metadata goes on.
LEMMA TokenStepKeeps ==
  ASSUME MarketInv, NEW k \in DOMAIN tokenSaves, TokenUpdateStep(k)
  PROVE  MarketInv'
  <1>1. /\ UNCHANGED chainVars /\ UNCHANGED rows
        /\ handed' = handed /\ action_que' = action_que /\ at' = at /\ entity' = entity
        /\ replays' = replays /\ crashes' = crashes /\ tradeSaves' = tradeSaves
        /\ TradeHistory' = TradeHistory
    BY DEF TokenUpdateStep
  <1>2. /\ log' = log /\ PairEntity' = PairEntity /\ LpPointsEntity' = LpPointsEntity
        /\ BalanceEntity' = BalanceEntity /\ told' = told
    BY <1>1 DEF chainVars, rows
  <1>3. /\ ChainTypes /\ JobTypes /\ TableTypes /\ MarketsMade /\ LastIsKept /\ TradesMove
        /\ QueueFollows /\ RowsFirst /\ Progress /\ AccountsFollow /\ MarketsFollow /\ MarketsFill
        /\ TradesFollow /\ QueueInOrder /\ TradesOnce /\ ReservesInOrder
    BY DEF MarketInv
  <1>4. PICK R : R = MetaSaves \union Finds
    OBVIOUS
  <1>5. PICK s : s = tokenSaves[k]
    OBVIOUS
  <1>6. /\ tokenSaves \in Seq(R) /\ s \in R
        /\ \A l \in DOMAIN tokenSaves :
             tokenSaves[l].at # "find" => TokenEntity[tokenSaves[l].token] # None
    BY <1>3, <1>4, <1>5 DEF JobTypes
  <1>7. \A x \in R : x.token \in Tokens
    BY <1>4 DEF MetaSaves, Finds
  <1>8. TokenEntity \in [Tokens -> {None} \union TokenRows]
    BY <1>3 DEF TableTypes
  <1>9. /\ TokenEntity' \in [Tokens -> {None} \union TokenRows]
        /\ \A t \in Tokens : TokenEntity[t] # None => TokenEntity'[t] # None
        /\ tokenSaves' \in Seq(R)
        /\ \A l \in DOMAIN tokenSaves' :
             tokenSaves'[l].at # "find" => TokenEntity'[tokenSaves'[l].token] # None
    <2>1. ASSUME NEW q, q \in MetaSaves, q.token = s.token, TokenEntity[s.token] # None,
                 tokenSaves' = [tokenSaves EXCEPT ![k] = q], TokenEntity' = TokenEntity
          PROVE  /\ tokenSaves' \in Seq(R)
                 /\ \A l \in DOMAIN tokenSaves' :
                      tokenSaves'[l].at # "find" => TokenEntity'[tokenSaves'[l].token] # None
      <3>1. q \in R
        BY <1>4, <2>1
      <3>2. tokenSaves' \in Seq(R) /\ DOMAIN tokenSaves' = DOMAIN tokenSaves
        BY <1>6, <2>1, <3>1
      <3>3. \A l \in DOMAIN tokenSaves : tokenSaves'[l] = IF l = k THEN q ELSE tokenSaves[l]
        BY <1>6, <2>1
      <3> QED  BY <1>6, <2>1, <3>2, <3>3
    <2>2. ASSUME tokenSaves' = RemoveAt(tokenSaves, k),
                 \A t \in Tokens : TokenEntity[t] # None => TokenEntity'[t] # None
          PROVE  /\ tokenSaves' \in Seq(R)
                 /\ \A l \in DOMAIN tokenSaves' :
                      tokenSaves'[l].at # "find" => TokenEntity'[tokenSaves'[l].token] # None
      <3>1. tokenSaves' \in Seq(R) /\ Without(tokenSaves', tokenSaves, k)
        BY <1>6, <2>2, RemovesOne
      <3>2. ASSUME NEW l \in DOMAIN tokenSaves', tokenSaves'[l].at # "find"
            PROVE  TokenEntity'[tokenSaves'[l].token] # None
        <4>1. PICK o \in DOMAIN tokenSaves : tokenSaves'[l] = tokenSaves[o]
          BY <3>1 DEF Without
        <4>2. tokenSaves[o].token \in Tokens
          BY <1>6, <1>7
        <4> QED  BY <1>6, <2>2, <3>2, <4>1, <4>2
      <3> QED  BY <3>1, <3>2
    <2>3. CASE s.at = "find" /\ TokenEntity[s.token] # None
      <3>1. s \in Finds
        BY <1>4, <1>6, <2>3 DEF MetaSaves
      <3>2. s.entity \in Nat /\ s.token \in Tokens
        BY <3>1 DEF Finds
      <3>3. PICK e : e = [TokenEntity[s.token] EXCEPT !.token_symbol = s.entity]
        OBVIOUS
      <3>4. e \in TokenRows
        BY <1>8, <2>3, <3>2, <3>3 DEF TokenRows
      <3>5. PICK q : q = Saving(s.token, e)
        OBVIOUS
      <3>6. q \in MetaSaves /\ q.token = s.token
        BY <3>2, <3>4, <3>5 DEF MetaSaves, Saving
      <3>7. tokenSaves' = [tokenSaves EXCEPT ![k] = q] /\ TokenEntity' = TokenEntity
        BY <1>5, <2>3, <3>3, <3>5 DEF TokenUpdateStep
      <3> QED  BY <1>8, <2>1, <2>3, <3>6, <3>7
    <2>4. CASE s.at = "find" /\ TokenEntity[s.token] = None
      <3>1. tokenSaves' = RemoveAt(tokenSaves, k) /\ TokenEntity' = TokenEntity
        BY <1>5, <2>4 DEF TokenUpdateStep
      <3> QED  BY <1>8, <2>2, <3>1
    <2>5. CASE s.at = "select"
      <3>1. s \in MetaSaves
        BY <1>4, <1>6, <2>5 DEF Finds
      <3>2. PICK q : q = Compared(s)
        OBVIOUS
      <3>3. q \in MetaSaves /\ q.token = s.token
        <4>1. DOMAIN s.entity = {"token_symbol", "has_market"}
          BY <3>1 DEF MetaSaves, TokenRows
        <4>2. PICK cs : cs = {c \in DOMAIN s.entity : s.entity[c] # TokenEntity[s.token][c]}
          OBVIOUS
        <4>3. cs \in SUBSET {"token_symbol", "has_market"}
          BY <4>1, <4>2
        <4>4. PICK r : r = [s EXCEPT !.at = "update"]
          OBVIOUS
        <4>5. r \in MetaSaves /\ r.token = s.token
          BY <3>1, <4>4 DEF MetaSaves
        <4>6. q = [r EXCEPT !.columns = cs]
          BY <3>2, <4>2, <4>4 DEF Compared
        <4> QED  BY <4>3, <4>5, <4>6 DEF MetaSaves
      <3>4. tokenSaves' = [tokenSaves EXCEPT ![k] = q] /\ TokenEntity' = TokenEntity
        BY <1>5, <2>5, <3>2 DEF TokenUpdateStep
      <3>5. TokenEntity[s.token] # None
        BY <1>5, <1>6, <2>5
      <3> QED  BY <1>8, <2>1, <3>3, <3>4, <3>5
    <2>6. CASE s.at = "update"
      <3>1. s \in MetaSaves
        BY <1>4, <1>6, <2>6 DEF Finds
      <3>2. tokenSaves' = RemoveAt(tokenSaves, k) /\ TokenEntity' = TokensAfter(s)
        BY <1>5, <2>6 DEF TokenUpdateStep
      <3>3. TokenEntity[s.token] \in TokenRows /\ s.token \in Tokens /\ s.entity \in TokenRows
        BY <1>5, <1>6, <1>7, <1>8, <2>6, <3>1 DEF MetaSaves
      <3>4. PICK r : r = [c \in DOMAIN TokenEntity[s.token] |->
                            IF c \in s.columns THEN s.entity[c] ELSE TokenEntity[s.token][c]]
        OBVIOUS
      <3>5. r \in TokenRows
        BY <3>3, <3>4 DEF TokenRows
      <3>6. r # None
        BY <3>5, IndexAssumption
      <3>7. TokenEntity' = [TokenEntity EXCEPT ![s.token] = r]
        BY <3>2, <3>4 DEF TokensAfter
      <3>8. /\ TokenEntity' \in [Tokens -> {None} \union TokenRows]
            /\ \A t \in Tokens : TokenEntity[t] # None => TokenEntity'[t] # None
        BY <1>8, <3>3, <3>5, <3>6, <3>7
      <3> QED  BY <2>2, <3>2, <3>8
    <2>7. s.at \in {"find", "select", "update"}
      BY <1>5 DEF TokenUpdateStep
    <2> QED  BY <2>3, <2>4, <2>5, <2>6, <2>7
  <1>10. ChainTypes' /\ MarketsMade' /\ LastIsKept' /\ TradesMove'
    BY <1>1, <1>3, ChainStays
  <1>11. JobTypes'
    BY <1>1, <1>2, <1>3, <1>4, <1>9 DEF JobTypes
  <1>12. TableTypes'
    BY <1>1, <1>2, <1>3, <1>9 DEF TableTypes
  <1>13. QueueFollows' /\ QueueInOrder' /\ RowsFirst'
    BY <1>1, <1>2, <1>3, <1>9, QueueStays
  <1>14. Progress'
    <2>1. tx' = tx
      BY <1>1, <1>2 DEF tx
    <2>2. ASSUME at \in {"saveHasMarket", "insertPair"}
          PROVE  tx.pairs /\ entity # None /\ TokenEntity'[tx.token] # None
      <3>1. tx.pairs /\ entity # None /\ TokenEntity[tx.token] # None /\ action_que # <<>>
        BY <1>3, <2>2 DEF Progress
      <3>2. tx \in TxRecords
        BY <1>3, <3>1, HeadFacts
      <3>3. tx.token \in Tokens
        BY <3>2 DEF TxRecords
      <3> QED  BY <1>9, <3>1, <3>3
    <2> QED  BY <1>1, <1>2, <1>3, <2>1, <2>2 DEF Progress, Metrics
  <1>15. AccountsFollow' /\ MarketsFollow' /\ MarketsFill'
    BY <1>1, <1>3, RowsStay
  <1>16. TradesFollow' /\ TradesOnce' /\ ReservesInOrder'
    <2>1. GivenOnce' => GivenOnce
      BY <1>1 DEF GivenOnce
    <2> QED  BY <1>1, <1>2, <1>3, <2>1, HistoryStays
  <1> QED  BY <1>10, <1>11, <1>12, <1>13, <1>14, <1>15, <1>16 DEF MarketInv

\* A trade is put into the history.
LEMMA InsertKeeps ==
  ASSUME MarketInv, NEW k \in DOMAIN tradeSaves, InsertTrade(k)
  PROVE  MarketInv'
  <1>1. /\ UNCHANGED chainVars /\ UNCHANGED rows
        /\ handed' = handed /\ action_que' = action_que /\ at' = at /\ entity' = entity
        /\ tokenSaves' = tokenSaves /\ replays' = replays /\ crashes' = crashes
        /\ TokenEntity' = TokenEntity
    BY DEF InsertTrade, jobVars
  <1>2. /\ log' = log /\ PairEntity' = PairEntity /\ LpPointsEntity' = LpPointsEntity
        /\ BalanceEntity' = BalanceEntity /\ told' = told
    BY <1>1 DEF chainVars, rows
  <1>3. /\ ChainTypes /\ JobTypes /\ TableTypes /\ MarketsMade /\ LastIsKept /\ TradesMove
        /\ QueueFollows /\ RowsFirst /\ Progress /\ AccountsFollow /\ MarketsFollow /\ MarketsFill
        /\ TradesFollow /\ QueueInOrder /\ TradesOnce /\ ReservesInOrder
    BY DEF MarketInv
  <1>4. PICK s : s = tradeSaves[k]
    OBVIOUS
  <1>5. tradeSaves \in Seq(TradeRows) /\ TradeHistory \in Seq(TradeRows) /\ s \in TradeRows
    BY <1>3, <1>4 DEF JobTypes, TableTypes
  <1>6. tradeSaves' \in Seq(TradeRows) /\ Without(tradeSaves', tradeSaves, k)
    BY <1>5, RemovesOne DEF InsertTrade
  <1>7. TradeHistory' = IF s.token_symbol = None THEN TradeHistory ELSE Append(TradeHistory, s)
    BY <1>4 DEF InsertTrade
  <1>8. PICK n \in Nat : n = Len(TradeHistory) /\ DOMAIN TradeHistory = 1 .. n
    BY <1>5
  <1>9. /\ TradeHistory' \in Seq(TradeRows)
        /\ s.token_symbol = None => TradeHistory' = TradeHistory
        /\ s.token_symbol # None => /\ DOMAIN TradeHistory' = 1 .. (n + 1)
                                    /\ TradeHistory'[n + 1] = s
                                    /\ \A l \in 1 .. n : TradeHistory'[l] = TradeHistory[l]
    BY <1>5, <1>7, <1>8
  <1>10. ChainTypes' /\ MarketsMade' /\ LastIsKept' /\ TradesMove'
    BY <1>1, <1>3, ChainStays
  <1>11. JobTypes'
    BY <1>1, <1>2, <1>3, <1>6 DEF JobTypes
  <1>12. TableTypes'
    BY <1>1, <1>2, <1>3, <1>9 DEF TableTypes
  <1>13. QueueFollows' /\ QueueInOrder' /\ RowsFirst'
    BY <1>1, <1>2, <1>3, QueueStays
  <1>14. Progress'
    <2>1. tx' = tx
      BY <1>1, <1>2 DEF tx
    <2> QED  BY <1>1, <1>2, <1>3, <2>1 DEF Progress, Metrics
  <1>15. AccountsFollow' /\ MarketsFollow' /\ MarketsFill'
    BY <1>1, <1>3, RowsStay
  <1>16. \A l \in 1 .. n : l \in DOMAIN TradeHistory' /\ TradeHistory'[l] = TradeHistory[l]
    <2>1. \A l \in 1 .. n : l \in 1 .. (n + 1)
      OBVIOUS
    <2> QED  BY <1>8, <1>9, <2>1
  <1>17. \A l \in DOMAIN TradeHistory' :
           \/ l \in 1 .. n /\ TradeHistory'[l] = TradeHistory[l]
           \/ l = n + 1 /\ TradeHistory'[l] = s /\ s.token_symbol # None
    <2>1. \A l \in 1 .. (n + 1) : l \in 1 .. n \/ l = n + 1
      OBVIOUS
    <2> QED  BY <1>8, <1>9, <2>1
  <1>18. s.token_symbol # None => n + 1 \in DOMAIN TradeHistory' /\ TradeHistory'[n + 1] = s
    <2>1. n + 1 \in 1 .. (n + 1)
      OBVIOUS
    <2> QED  BY <1>9, <2>1
  <1>19. TradesFollow'
    <2>1. ASSUME NEW i \in DOMAIN log, Held(tradeSaves, TradeHistory, i)
          PROVE  Held(tradeSaves', TradeHistory', i)
      <3>1. ASSUME NEW l \in DOMAIN TradeHistory, TradeHistory[l].hash = i
            PROVE  Held(tradeSaves', TradeHistory', i)
        BY <1>8, <1>16, <3>1 DEF Held
      <3>2. ASSUME NEW l \in DOMAIN tradeSaves, tradeSaves[l].hash = i,
                   tradeSaves[l].token_symbol # None
            PROVE  Held(tradeSaves', TradeHistory', i)
        <4>1. CASE l = k
          BY <1>4, <1>18, <3>2, <4>1 DEF Held
        <4>2. CASE l # k
          <5>1. PICK o \in DOMAIN tradeSaves' : tradeSaves'[o] = tradeSaves[l]
            BY <1>6, <4>2 DEF Without
          <5> QED  BY <3>2, <5>1 DEF Held
        <4> QED  BY <4>1, <4>2
      <3> QED  BY <2>1, <3>1, <3>2 DEF Held
    <2> QED  BY <1>1, <1>2, <1>3, <2>1 DEF TradesFollow
  <1>20. TradesOnce'
    <2> SUFFICES ASSUME GivenOnce
                 PROVE
      /\ \A l \in DOMAIN tradeSaves' :
           /\ RowIsRight(log, handed, action_que, at, tradeSaves'[l])
           /\ \A o \in DOMAIN tradeSaves' : tradeSaves'[o].hash = tradeSaves'[l].hash => o = l
           /\ \A o \in DOMAIN TradeHistory' : TradeHistory'[o].hash # tradeSaves'[l].hash
      /\ \A l \in DOMAIN TradeHistory' :
           /\ RowIsRight(log, handed, action_que, at, TradeHistory'[l])
           /\ \A o \in DOMAIN TradeHistory' : TradeHistory'[o].hash = TradeHistory'[l].hash => o = l
      BY <1>1, <1>2 DEF TradesOnce, GivenOnce
    <2>1. /\ \A l \in DOMAIN tradeSaves :
               /\ RowIsRight(log, handed, action_que, at, tradeSaves[l])
               /\ \A o \in DOMAIN tradeSaves : tradeSaves[o].hash = tradeSaves[l].hash => o = l
               /\ \A o \in DOMAIN TradeHistory : TradeHistory[o].hash # tradeSaves[l].hash
          /\ \A l \in DOMAIN TradeHistory :
               /\ RowIsRight(log, handed, action_que, at, TradeHistory[l])
               /\ \A o \in DOMAIN TradeHistory : TradeHistory[o].hash = TradeHistory[l].hash => o = l
      BY <1>3 DEF TradesOnce
    <2>2. ASSUME NEW l \in DOMAIN tradeSaves'
          PROVE  /\ RowIsRight(log, handed, action_que, at, tradeSaves'[l])
                 /\ \A o \in DOMAIN tradeSaves' : tradeSaves'[o].hash = tradeSaves'[l].hash => o = l
                 /\ \A o \in DOMAIN TradeHistory' : TradeHistory'[o].hash # tradeSaves'[l].hash
      <3>1. PICK p \in DOMAIN tradeSaves : p # k /\ tradeSaves'[l] = tradeSaves[p]
        BY <1>6 DEF Without
      <3>2. ASSUME NEW o \in DOMAIN tradeSaves', tradeSaves'[o].hash = tradeSaves'[l].hash, o # l
            PROVE  FALSE
        <4>1. PICK a, b \in DOMAIN tradeSaves :
                a # b /\ tradeSaves'[o] = tradeSaves[a] /\ tradeSaves'[l] = tradeSaves[b]
          BY <1>6, <3>2 DEF Without
        <4> QED  BY <2>1, <3>2, <4>1
      <3>3. ASSUME NEW o \in DOMAIN TradeHistory'
            PROVE  TradeHistory'[o].hash # tradeSaves'[l].hash
        <4>1. s.hash # tradeSaves[p].hash
          BY <1>4, <2>1, <3>1
        <4> QED  BY <1>8, <1>17, <2>1, <3>1, <4>1
      <3> QED  BY <2>1, <3>1, <3>2, <3>3
    <2>3. ASSUME NEW l \in DOMAIN TradeHistory'
          PROVE  /\ RowIsRight(log, handed, action_que, at, TradeHistory'[l])
                 /\ \A o \in DOMAIN TradeHistory' : TradeHistory'[o].hash = TradeHistory'[l].hash => o = l
      <3>1. \A o \in 1 .. n : TradeHistory[o].hash # s.hash
        BY <1>4, <1>8, <2>1
      <3>2. RowIsRight(log, handed, action_que, at, s)
        BY <1>4, <2>1
      <3>3. RowIsRight(log, handed, action_que, at, TradeHistory'[l])
        BY <1>8, <1>17, <2>1, <3>2
      <3>4. ASSUME NEW o \in DOMAIN TradeHistory', TradeHistory'[o].hash = TradeHistory'[l].hash
            PROVE  o = l
        <4>1. CASE l \in 1 .. n /\ o \in 1 .. n
          BY <1>8, <1>16, <2>1, <3>4, <4>1
        <4>2. CASE ~(l \in 1 .. n /\ o \in 1 .. n)
          BY <1>17, <3>1, <3>4, <4>2
        <4> QED  BY <4>1, <4>2
      <3> QED  BY <3>3, <3>4
    <2> QED  BY <2>2, <2>3
  <1>21. ReservesInOrder'
    BY <1>1, <1>2, <1>3 DEF ReservesInOrder, GivenOnce
  <1> QED  BY <1>10, <1>11, <1>12, <1>13, <1>14, <1>15, <1>19, <1>20, <1>21 DEF MarketInv

-----------------------------------------------------------------------------
(* processAmmBlock goes on *)

\* What the head's transaction is.
LEMMA HeadAmm ==
  ASSUME MarketInv, Doing("processAmmBlock")
  PROVE  /\ action_que # <<>> /\ Head(action_que).do = "processAmmBlock"
         /\ \E e \in TxRecords :
              /\ e = tx /\ WellFormed(e) /\ Amm(e)
              /\ e.token \in Tokens /\ e.by \in Accounts /\ e.pairs \in BOOLEAN
              /\ e.reserve \in Int /\ e.price \in Column /\ e.lp \in Column
              /\ e.points \in Column /\ e.rswp \in Column
  <1>1. action_que # <<>> /\ Head(action_que).do = "processAmmBlock"
    BY DEF Doing
  <1>2. /\ tx \in TxRecords /\ WellFormed(tx)
        /\ Head(action_que).do \in {"saveTransfer", SecondOf(tx)}
    BY <1>1, HeadFacts DEF MarketInv
  <1>3. PICK e \in TxRecords : e = tx
    BY <1>2
  <1>4. WellFormed(e) /\ Amm(e)
    BY <1>1, <1>2, <1>3, Seconds
  <1>5. /\ e.token \in Tokens /\ e.by \in Accounts /\ e.pairs \in BOOLEAN
        /\ e.reserve \in Column /\ e.price \in Column /\ e.lp \in Column
        /\ e.points \in Column /\ e.rswp \in Column
    BY DEF TxRecords
  <1>6. e.reserve \in Int
    BY <1>4, <1>5 DEF WellFormed, Column
  <1> QED  BY <1>1, <1>3, <1>4, <1>5, <1>6

\* A handler that has written some of what its transaction sets.
LEMMA GoKeeps ==
  ASSUME MarketInv, Doing("processAmmBlock"), UNCHANGED chainVars,
         UNCHANGED <<handed, action_que, replays, crashes, tokenSaves, tradeSaves, TradeHistory>>,
         UNCHANGED <<BalanceEntity, told>>,
         at # "savePrice",
         at' \in {"saveHasMarket", "insertPair", "savePairLp", "saveUserLp", "saveReserves"},
         entity' \in {None} \union MetaSaves,
         TokenEntity' \in [Tokens -> {None} \union TokenRows],
         \A t \in Tokens : TokenEntity[t] # None => TokenEntity'[t] # None,
         PairEntity' \in [Tokens -> {None} \union PairRows],
         \A t \in Tokens : PairEntity[t] # None =>
           PairEntity'[t] # None /\ PairEntity'[t].reserves = PairEntity[t].reserves,
         \A t \in Tokens : HasSymbol(PairEntity[t]) => HasSymbol(PairEntity'[t]),
         \A t \in Tokens : Full(PairEntity[t]) => Full(PairEntity'[t]),
         \A t \in Tokens : PairEntity'[t] # None => Touches(tx, t),
         LpPointsEntity' \in [Accounts -> [Tokens -> Column]],
         \A a \in Accounts, t \in Tokens :
           PointsSet(tx, a, t) # None \/ LpPointsEntity'[a][t] = LpPointsEntity[a][t],
         Progress'
  PROVE  MarketInv'
  <1>1. /\ ChainTypes /\ JobTypes /\ TableTypes /\ MarketsMade /\ LastIsKept /\ TradesMove
        /\ QueueFollows /\ RowsFirst /\ Progress /\ AccountsFollow /\ MarketsFollow /\ MarketsFill
        /\ TradesFollow /\ QueueInOrder /\ TradesOnce /\ ReservesInOrder
    BY DEF MarketInv
  <1>2. /\ log' = log /\ handed' = handed /\ action_que' = action_que
        /\ replays' = replays /\ crashes' = crashes
        /\ tokenSaves' = tokenSaves /\ tradeSaves' = tradeSaves
        /\ TradeHistory' = TradeHistory /\ BalanceEntity' = BalanceEntity /\ told' = told
    BY DEF chainVars
  <1>3. action_que # <<>> /\ Head(action_que).do = "processAmmBlock"
    BY DEF Doing
  <1>4. ChainTypes' /\ MarketsMade' /\ LastIsKept' /\ TradesMove'
    BY <1>1, ChainStays
  <1>5. JobTypes'
    <2>1. \A k \in DOMAIN tokenSaves : tokenSaves[k].token \in Tokens
      <3>1. tokenSaves \in Seq(MetaSaves \union Finds)
        BY <1>1 DEF JobTypes
      <3>2. \A x \in MetaSaves \union Finds : x.token \in Tokens
        BY DEF MetaSaves, Finds
      <3> QED  BY <3>1, <3>2
    <2> QED  BY <1>1, <1>2, <2>1 DEF JobTypes
  <1>6. TableTypes'
    BY <1>1, <1>2 DEF TableTypes
  <1>7. QueueFollows' /\ QueueInOrder' /\ RowsFirst'
    BY <1>1, <1>2, QueueStays
  <1>8. AccountsFollow' /\ MarketsFollow' /\ MarketsFill'
    BY <1>1, <1>3, GoesOn
  <1>9. TradesFollow' /\ TradesOnce' /\ ReservesInOrder'
    <2>1. \A i : Unsaved(handed, action_que, at, i) <=> Unsaved(handed', action_que', at', i)
      BY <1>2 DEF Unsaved
    <2>2. GivenOnce' => GivenOnce
      BY <1>2 DEF GivenOnce
    <2> QED  BY <1>1, <1>2, <2>1, <2>2, HistoryStays
  <1> QED  BY <1>4, <1>5, <1>6, <1>7, <1>8, <1>9 DEF MarketInv

\* Where rows are as they were, nothing is touched.
LEMMA SameTouches ==
  ASSUME PairEntity' = PairEntity, told' = told
  PROVE  \A e, t : PairEntity'[t] # None => Touches(e, t)
  BY DEF Touches

\* A token's row is there when its market is made.
LEMMA RowIsThere ==
  ASSUME MarketInv, Doing("processAmmBlock"), tx.pairs
  PROVE  TokenEntity[tx.token] # None
  <1>1. /\ ChainTypes /\ JobTypes /\ MarketsMade /\ QueueFollows /\ RowsFirst
    BY DEF MarketInv
  <1>2. action_que # <<>>
    BY DEF Doing
  <1>3. PICK c \in DOMAIN log : c = Head(action_que).tx /\ tx = log[c]
    BY <1>1, <1>2, HeadFacts
  <1>4. 1 \in DOMAIN action_que /\ action_que[1].tx = c
    BY <1>1, <1>2, <1>3, HeadFacts
  <1>5. PICK s \in DOMAIN log : s < c /\ log[s].fn = "submit" /\ log[s].token = log[c].token
    BY <1>1, <1>3 DEF MarketsMade
  <1> SUFFICES ASSUME TokenEntity[log[s].token] = None
               PROVE  FALSE
    BY <1>3, <1>5
  <1>6. ComesFirst(handed, action_que, "saveToken", s)
    BY <1>1, <1>5 DEF RowsFirst
  <1>7. Before(action_que, 1, "saveToken", s)
    BY <1>4, <1>5, <1>6 DEF ComesFirst
  <1>8. \A l \in DOMAIN action_que : ~(l < 1)
    BY <1>1 DEF JobTypes
  <1> QED  BY <1>7, <1>8 DEF Before

\* savePair keeps the invariant.
LEMMA SavePairKeeps ==
  ASSUME MarketInv, savePair
  PROVE  MarketInv'
  <1>1. /\ Doing("processAmmBlock") /\ at = "savePair" /\ UNCHANGED chainVars
        /\ handed' = handed /\ action_que' = action_que /\ replays' = replays /\ crashes' = crashes
        /\ tokenSaves' = tokenSaves /\ tradeSaves' = tradeSaves /\ TokenEntity' = TokenEntity
        /\ TradeHistory' = TradeHistory
        /\ PairEntity' = PairEntity /\ LpPointsEntity' = LpPointsEntity
        /\ BalanceEntity' = BalanceEntity /\ told' = told
    BY DEF savePair, In, Go, rows
  <1>2. /\ JobTypes /\ TableTypes /\ Progress
    BY DEF MarketInv
  <1>3. PICK e \in TxRecords :
              /\ e = tx /\ WellFormed(e) /\ Amm(e)
              /\ e.token \in Tokens /\ e.by \in Accounts /\ e.pairs \in BOOLEAN
    BY <1>1, HeadAmm
  <1>4. tx' = e
    BY <1>1, <1>3 DEF tx, chainVars
  <1>5. /\ entity' \in {None} \union MetaSaves
        /\ at' \in {"saveHasMarket", "insertPair", "savePairLp", "saveUserLp", "saveReserves"}
        /\ Progress'
    <2>1. CASE ~e.pairs
      <3>1. at' = "savePairLp" /\ entity' = entity
        BY <1>3, <2>1 DEF savePair, Go
      <3>2. Progress'
        BY <1>1, <1>4, <2>1, <3>1 DEF Progress, Doing
      <3> QED  BY <1>2, <3>1, <3>2 DEF JobTypes
    <2>2. CASE e.pairs
      <3>1. TokenEntity[e.token] # None /\ TokenEntity[e.token] \in TokenRows
        BY <1>1, <1>2, <1>3, <2>2, RowIsThere DEF TableTypes
      <3>2. PICK r : r = [TokenEntity[e.token] EXCEPT !.has_market = TRUE]
        OBVIOUS
      <3>3. r \in TokenRows
        BY <3>1, <3>2 DEF TokenRows
      <3>4. PICK s : s = Saving(e.token, r)
        OBVIOUS
      <3>5. s \in MetaSaves /\ s.token = e.token
        BY <1>3, <3>3, <3>4 DEF MetaSaves, Saving
      <3>6. at' = "saveHasMarket" /\ entity' = s
        BY <1>3, <2>2, <3>1, <3>2, <3>4 DEF savePair, Go
      <3>7. entity' # None
        BY <3>5, <3>6, IndexAssumption
      <3>8. Progress'
        BY <1>1, <1>4, <2>2, <3>1, <3>5, <3>6, <3>7 DEF Progress, Doing
      <3> QED  BY <3>5, <3>6, <3>8
    <2> QED  BY <1>3, <2>1, <2>2
  <1>6. /\ TokenEntity' \in [Tokens -> {None} \union TokenRows]
        /\ PairEntity' \in [Tokens -> {None} \union PairRows]
        /\ LpPointsEntity' \in [Accounts -> [Tokens -> Column]]
    BY <1>1, <1>2 DEF TableTypes
  <1>7. \A t \in Tokens : PairEntity'[t] # None => Touches(tx, t)
    BY <1>1, SameTouches
  <1> QED  BY <1>1, <1>5, <1>6, <1>7, GoKeeps

\* saveHasMarket keeps the invariant.
LEMMA HasMarketKeeps ==
  ASSUME MarketInv, saveHasMarket
  PROVE  MarketInv'
  <1>1. /\ Doing("processAmmBlock") /\ at = "saveHasMarket" /\ UNCHANGED chainVars
        /\ handed' = handed /\ action_que' = action_que /\ replays' = replays /\ crashes' = crashes
        /\ tokenSaves' = tokenSaves /\ tradeSaves' = tradeSaves
        /\ TradeHistory' = TradeHistory
        /\ PairEntity' = PairEntity /\ LpPointsEntity' = LpPointsEntity
        /\ BalanceEntity' = BalanceEntity /\ told' = told
    BY DEF saveHasMarket, In, Go, rows
  <1>2. /\ JobTypes /\ TableTypes /\ Progress
    BY DEF MarketInv
  <1>3. PICK e \in TxRecords :
              /\ e = tx /\ WellFormed(e) /\ Amm(e)
              /\ e.token \in Tokens /\ e.by \in Accounts /\ e.pairs \in BOOLEAN
    BY <1>1, HeadAmm
  <1>4. tx' = e
    BY <1>1, <1>3 DEF tx, chainVars
  <1>5. e.pairs /\ entity # None /\ TokenEntity[e.token] # None /\ entity.token = e.token
    BY <1>1, <1>2, <1>3 DEF Progress
  <1>6. PICK s \in MetaSaves : s = entity
    BY <1>2, <1>5 DEF JobTypes
  <1>7. TokenEntity \in [Tokens -> {None} \union TokenRows]
    BY <1>2 DEF TableTypes
  <1>8. /\ entity' \in {None} \union MetaSaves
        /\ at' \in {"saveHasMarket", "insertPair", "savePairLp", "saveUserLp", "saveReserves"}
        /\ TokenEntity' \in [Tokens -> {None} \union TokenRows]
        /\ \A t \in Tokens : TokenEntity[t] # None => TokenEntity'[t] # None
        /\ Progress'
    <2>1. CASE s.at = "select"
      <3>1. PICK q : q = Compared(s)
        OBVIOUS
      <3>2. q \in MetaSaves /\ q.token = s.token
        <4>1. DOMAIN s.entity = {"token_symbol", "has_market"}
          BY DEF MetaSaves, TokenRows
        <4>2. PICK cs : cs = {c \in DOMAIN s.entity : s.entity[c] # TokenEntity[s.token][c]}
          OBVIOUS
        <4>3. cs \in SUBSET {"token_symbol", "has_market"}
          BY <4>1, <4>2
        <4>4. PICK r : r = [s EXCEPT !.at = "update"]
          OBVIOUS
        <4>5. r \in MetaSaves /\ r.token = s.token
          BY <4>4 DEF MetaSaves
        <4>6. q = [r EXCEPT !.columns = cs]
          BY <3>1, <4>2, <4>4 DEF Compared
        <4> QED  BY <4>3, <4>5, <4>6 DEF MetaSaves
      <3>3. entity' = q /\ at' = "saveHasMarket" /\ TokenEntity' = TokenEntity
        BY <1>6, <2>1, <3>1 DEF saveHasMarket, Go
      <3>4. entity' # None
        BY <3>2, <3>3, IndexAssumption
      <3>5. Progress'
        BY <1>1, <1>4, <1>5, <1>6, <3>2, <3>3, <3>4 DEF Progress, Doing
      <3> QED  BY <1>7, <3>2, <3>3, <3>5
    <2>2. CASE s.at = "update"
      <3>1. TokenEntity' = TokensAfter(s) /\ entity' = entity /\ at' = "insertPair"
        BY <1>6, <2>2 DEF saveHasMarket, Go
      <3>2. TokenEntity[e.token] \in TokenRows /\ s.entity \in TokenRows /\ s.token = e.token
        BY <1>3, <1>5, <1>6, <1>7 DEF MetaSaves
      <3>3. PICK r : r = [c \in DOMAIN TokenEntity[e.token] |->
                            IF c \in s.columns THEN s.entity[c] ELSE TokenEntity[e.token][c]]
        OBVIOUS
      <3>4. r \in TokenRows
        BY <3>2, <3>3 DEF TokenRows
      <3>5. r # None
        BY <3>4, IndexAssumption
      <3>6. TokenEntity' = [TokenEntity EXCEPT ![e.token] = r]
        BY <3>1, <3>2, <3>3 DEF TokensAfter
      <3>7. /\ TokenEntity' \in [Tokens -> {None} \union TokenRows]
            /\ \A t \in Tokens : TokenEntity[t] # None => TokenEntity'[t] # None
        BY <1>3, <1>7, <3>4, <3>5, <3>6
      <3>8. Progress'
        BY <1>1, <1>3, <1>4, <1>5, <3>1, <3>7 DEF Progress, Doing
      <3> QED  BY <1>6, <3>1, <3>7, <3>8
    <2> QED  BY <1>6, <2>1, <2>2 DEF saveHasMarket
  <1>9. /\ PairEntity' \in [Tokens -> {None} \union PairRows]
        /\ LpPointsEntity' \in [Accounts -> [Tokens -> Column]]
    BY <1>1, <1>2 DEF TableTypes
  <1>10. \A t \in Tokens : PairEntity'[t] # None => Touches(tx, t)
    BY <1>1, SameTouches
  <1> QED  BY <1>1, <1>8, <1>9, <1>10, GoKeeps

\* The row that findOne finds, or a new one.
LEMMA PairIs ==
  ASSUME TableTypes, NEW t \in Tokens
  PROVE  /\ Pair(t) \in PairRows
         /\ PairEntity[t] # None => Pair(t) = PairEntity[t]
         /\ PairEntity[t] = None => /\ Pair(t).reserves = None /\ Pair(t).price = None
                                    /\ Pair(t).lp = None /\ Pair(t).token_symbol = None
  <1>1. PairEntity[t] \in {None} \union PairRows
    BY DEF TableTypes
  <1>2. NoPair \in PairRows
    BY DEF NoPair, PairRows, Column
  <1> QED  BY <1>1, <1>2 DEF Pair, NoPair

\* The row of the transaction's market is written: its symbol, or its points.
LEMMA RowWritten ==
  ASSUME TableTypes, NEW e, NEW u \in Tokens, e.token = u, NEW rec \in PairRows, told' = told,
         PairEntity' = [PairEntity EXCEPT ![u] = rec],
         rec.reserves = Pair(u).reserves, rec.price = Pair(u).price,
         rec.lp = Pair(u).lp \/ (e.lp # None /\ rec.lp = e.lp),
         rec.token_symbol = Pair(u).token_symbol \/ rec.token_symbol # None
  PROVE  /\ PairEntity' \in [Tokens -> {None} \union PairRows]
         /\ \A t \in Tokens : PairEntity[t] # None =>
              PairEntity'[t] # None /\ PairEntity'[t].reserves = PairEntity[t].reserves
         /\ \A t \in Tokens : HasSymbol(PairEntity[t]) => HasSymbol(PairEntity'[t])
         /\ \A t \in Tokens : Full(PairEntity[t]) => Full(PairEntity'[t])
         /\ \A t \in Tokens : PairEntity'[t] # None => Touches(e, t)
  <1>1. PairEntity \in [Tokens -> {None} \union PairRows]
    BY DEF TableTypes
  <1>2. /\ PairEntity' \in [Tokens -> {None} \union PairRows]
        /\ \A t \in Tokens : PairEntity'[t] = IF t = u THEN rec ELSE PairEntity[t]
    BY <1>1
  <1>3. rec # None
    BY IndexAssumption
  <1>4. /\ PairEntity[u] # None => Pair(u) = PairEntity[u]
        /\ PairEntity[u] = None => /\ Pair(u).reserves = None /\ Pair(u).price = None
                                   /\ Pair(u).lp = None /\ Pair(u).token_symbol = None
    BY PairIs
  <1>5. \A t \in Tokens : PairEntity[t] # None =>
          PairEntity'[t] # None /\ PairEntity'[t].reserves = PairEntity[t].reserves
    BY <1>2, <1>3, <1>4
  <1>6. \A t \in Tokens : HasSymbol(PairEntity[t]) => HasSymbol(PairEntity'[t])
    BY <1>2, <1>3, <1>4 DEF HasSymbol
  <1>7. \A t \in Tokens : Full(PairEntity[t]) => Full(PairEntity'[t])
    <2>1. Full(PairEntity[u]) => Full(rec)
      <3> SUFFICES ASSUME Full(PairEntity[u]) PROVE Full(rec)
        OBVIOUS
      <3>1. /\ PairEntity[u] # None /\ PairEntity[u].token_symbol # None
            /\ PairEntity[u].reserves # None /\ PairEntity[u].price # None /\ PairEntity[u].lp # None
        BY DEF Full, HasSymbol
      <3>2. /\ rec.token_symbol # None /\ rec.reserves # None /\ rec.price # None /\ rec.lp # None
        BY <1>4, <3>1
      <3> QED  BY <1>3, <3>2 DEF Full, HasSymbol
    <2> QED  BY <1>2, <2>1
  <1>8. \A t \in Tokens : PairEntity'[t] # None => Touches(e, t)
    <2>1. Touches(e, u)
      <3>1. PairEntity'[u] = rec
        BY <1>2
      <3>2. \/ PairEntity'[u].reserves = None
            \/ PairEntity[u] # None /\ PairEntity'[u].reserves = PairEntity[u].reserves
        BY <1>4, <3>1
      <3>3. \/ PairEntity'[u].price = None
            \/ PairEntity[u] # None /\ PairEntity'[u].price = PairEntity[u].price
        BY <1>4, <3>1
      <3>4. \/ LpSet(e, u) # None \/ PairEntity'[u].lp = None
            \/ PairEntity[u] # None /\ PairEntity'[u].lp = PairEntity[u].lp
        BY <1>4, <3>1 DEF LpSet
      <3> QED  BY <3>2, <3>3, <3>4 DEF Touches
    <2>2. \A t \in Tokens : t # u => PairEntity'[t] = PairEntity[t] /\ told'[t] = told[t]
      BY <1>2
    <2> QED  BY <2>1, <2>2 DEF Touches
  <1> QED  BY <1>2, <1>5, <1>6, <1>7, <1>8

\* insertPair keeps the invariant.
LEMMA InsertPairKeeps ==
  ASSUME MarketInv, insertPair
  PROVE  MarketInv'
  <1>1. /\ Doing("processAmmBlock") /\ at = "insertPair" /\ UNCHANGED chainVars
        /\ handed' = handed /\ action_que' = action_que /\ replays' = replays /\ crashes' = crashes
        /\ tokenSaves' = tokenSaves /\ tradeSaves' = tradeSaves /\ TokenEntity' = TokenEntity
        /\ TradeHistory' = TradeHistory /\ entity' = entity /\ at' = "savePairLp"
        /\ LpPointsEntity' = LpPointsEntity
        /\ BalanceEntity' = BalanceEntity /\ told' = told
    BY DEF insertPair, In, Go
  <1>2. /\ JobTypes /\ TableTypes /\ Progress
    BY DEF MarketInv
  <1>3. PICK e \in TxRecords :
              /\ e = tx /\ WellFormed(e) /\ Amm(e)
              /\ e.token \in Tokens /\ e.by \in Accounts /\ e.pairs \in BOOLEAN
    BY <1>1, HeadAmm
  <1>4. tx' = e
    BY <1>1, <1>3 DEF tx, chainVars
  <1>5. e.pairs /\ entity # None
    BY <1>1, <1>2, <1>3 DEF Progress
  <1>6. PICK s \in MetaSaves : s = entity
    BY <1>2, <1>5 DEF JobTypes
  <1>7. PICK u \in Tokens : u = e.token
    BY <1>3
  <1>8. PICK old \in PairRows : old = Pair(u)
    BY <1>2, PairIs
  <1>9. PICK rec : rec = [old EXCEPT !.token_symbol = s.entity.token_symbol]
    OBVIOUS
  <1>10. s.entity.token_symbol \in Nat
    BY DEF MetaSaves, TokenRows
  <1>11. s.entity.token_symbol \in Column /\ s.entity.token_symbol # None
    BY <1>10, IndexAssumption DEF Column
  <1>12. /\ rec \in PairRows /\ rec.reserves = old.reserves /\ rec.price = old.price
         /\ rec.lp = old.lp /\ rec.token_symbol # None
    BY <1>9, <1>11 DEF PairRows
  <1>13. PairEntity' = [PairEntity EXCEPT ![u] = rec]
    <2>1. PairEntity' = [PairEntity EXCEPT ![u] = [Pair(u) EXCEPT
             !.token_symbol = IF entity = None THEN @ ELSE entity.entity.token_symbol]]
      BY <1>3, <1>7 DEF insertPair
    <2> QED  BY <1>5, <1>6, <1>8, <1>9, <2>1
  <1>14. /\ PairEntity' \in [Tokens -> {None} \union PairRows]
         /\ \A t \in Tokens : PairEntity[t] # None =>
              PairEntity'[t] # None /\ PairEntity'[t].reserves = PairEntity[t].reserves
         /\ \A t \in Tokens : HasSymbol(PairEntity[t]) => HasSymbol(PairEntity'[t])
         /\ \A t \in Tokens : Full(PairEntity[t]) => Full(PairEntity'[t])
         /\ \A t \in Tokens : PairEntity'[t] # None => Touches(e, t)
    BY <1>1, <1>2, <1>7, <1>8, <1>12, <1>13, RowWritten
  <1>15. HasSymbol(PairEntity'[u])
    <2>1. PairEntity'[u] = rec
      BY <1>2, <1>13 DEF TableTypes
    <2> QED  BY <1>12, <2>1, IndexAssumption DEF HasSymbol
  <1>16. Progress'
    BY <1>1, <1>4, <1>7, <1>15 DEF Progress, Doing
  <1>17. /\ entity' \in {None} \union MetaSaves
         /\ TokenEntity' \in [Tokens -> {None} \union TokenRows]
         /\ LpPointsEntity' \in [Accounts -> [Tokens -> Column]]
    BY <1>1, <1>2 DEF TableTypes, JobTypes
  <1>18. \A t \in Tokens : PairEntity'[t] # None => Touches(tx, t)
    BY <1>3, <1>14
  <1> QED  BY <1>1, <1>14, <1>16, <1>17, <1>18, GoKeeps

\* savePairLp keeps the invariant.
LEMMA PairLpKeeps ==
  ASSUME MarketInv, savePairLp
  PROVE  MarketInv'
  <1>1. /\ Doing("processAmmBlock") /\ at = "savePairLp" /\ UNCHANGED chainVars
        /\ handed' = handed /\ action_que' = action_que /\ replays' = replays /\ crashes' = crashes
        /\ tokenSaves' = tokenSaves /\ tradeSaves' = tradeSaves /\ TokenEntity' = TokenEntity
        /\ TradeHistory' = TradeHistory /\ entity' = entity /\ at' = "saveUserLp"
        /\ LpPointsEntity' = LpPointsEntity
        /\ BalanceEntity' = BalanceEntity /\ told' = told
    BY DEF savePairLp, In, Go
  <1>2. /\ JobTypes /\ TableTypes /\ Progress
    BY DEF MarketInv
  <1>3. PICK e \in TxRecords :
              /\ e = tx /\ WellFormed(e) /\ Amm(e)
              /\ e.token \in Tokens /\ e.by \in Accounts /\ e.pairs \in BOOLEAN
              /\ e.reserve \in Int /\ e.price \in Column /\ e.lp \in Column
    BY <1>1, HeadAmm
  <1>4. tx' = e
    BY <1>1, <1>3 DEF tx, chainVars
  <1>5. PICK u \in Tokens : u = e.token
    BY <1>3
  <1>6. /\ PairEntity' \in [Tokens -> {None} \union PairRows]
        /\ \A t \in Tokens : PairEntity[t] # None =>
             PairEntity'[t] # None /\ PairEntity'[t].reserves = PairEntity[t].reserves
        /\ \A t \in Tokens : HasSymbol(PairEntity[t]) => HasSymbol(PairEntity'[t])
        /\ \A t \in Tokens : Full(PairEntity[t]) => Full(PairEntity'[t])
        /\ \A t \in Tokens : PairEntity'[t] # None => Touches(e, t)
    <2>1. CASE e.lp = None
      <3>1. PairEntity' = PairEntity
        BY <1>3, <2>1 DEF savePairLp
      <3>2. \A t \in Tokens : PairEntity'[t] # None => Touches(e, t)
        BY <1>1, <3>1, SameTouches
      <3> QED  BY <1>2, <3>1, <3>2 DEF TableTypes
    <2>2. CASE e.lp # None
      <3>1. PICK old \in PairRows : old = Pair(u)
        BY <1>2, PairIs
      <3>2. PICK rec : rec = [old EXCEPT !.lp = e.lp]
        OBVIOUS
      <3>3. /\ rec \in PairRows /\ rec.reserves = old.reserves /\ rec.price = old.price
            /\ rec.lp = e.lp /\ rec.token_symbol = old.token_symbol
        BY <1>3, <3>2 DEF PairRows
      <3>4. PairEntity' = [PairEntity EXCEPT ![u] = rec]
        BY <1>3, <1>5, <2>2, <3>1, <3>2 DEF savePairLp
      <3> QED  BY <1>1, <1>2, <1>5, <2>2, <3>1, <3>3, <3>4, RowWritten
    <2> QED  BY <2>1, <2>2
  <1>7. e.pairs => HasSymbol(PairEntity'[e.token])
    BY <1>1, <1>2, <1>3, <1>6 DEF Progress
  <1>8. Progress'
    BY <1>1, <1>4, <1>7 DEF Progress, Doing
  <1>9. /\ entity' \in {None} \union MetaSaves
         /\ TokenEntity' \in [Tokens -> {None} \union TokenRows]
         /\ LpPointsEntity' \in [Accounts -> [Tokens -> Column]]
    BY <1>1, <1>2 DEF TableTypes, JobTypes
  <1>10. \A t \in Tokens : PairEntity'[t] # None => Touches(tx, t)
    BY <1>3, <1>6
  <1> QED  BY <1>1, <1>6, <1>8, <1>9, <1>10, GoKeeps

\* saveUserLp keeps the invariant.
LEMMA UserLpKeeps ==
  ASSUME MarketInv, saveUserLp
  PROVE  MarketInv'
  <1>1. /\ Doing("processAmmBlock") /\ at = "saveUserLp" /\ UNCHANGED chainVars
        /\ handed' = handed /\ action_que' = action_que /\ replays' = replays /\ crashes' = crashes
        /\ tokenSaves' = tokenSaves /\ tradeSaves' = tradeSaves /\ TokenEntity' = TokenEntity
        /\ TradeHistory' = TradeHistory /\ entity' = entity /\ at' = "saveReserves"
        /\ PairEntity' = PairEntity
        /\ BalanceEntity' = BalanceEntity /\ told' = told
    BY DEF saveUserLp, In, Go
  <1>2. /\ JobTypes /\ TableTypes /\ Progress
    BY DEF MarketInv
  <1>3. PICK e \in TxRecords :
              /\ e = tx /\ WellFormed(e) /\ Amm(e)
              /\ e.token \in Tokens /\ e.by \in Accounts /\ e.pairs \in BOOLEAN
              /\ e.reserve \in Int /\ e.price \in Column /\ e.lp \in Column
              /\ e.points \in Column
    BY <1>1, HeadAmm
  <1>4. tx' = e
    BY <1>1, <1>3 DEF tx, chainVars
  <1>5. LpPointsEntity' = IF e.points = None THEN LpPointsEntity
                          ELSE [LpPointsEntity EXCEPT ![e.by][e.token] = e.points]
    BY <1>3 DEF saveUserLp
  <1>6. LpPointsEntity \in [Accounts -> [Tokens -> Column]]
    BY <1>2 DEF TableTypes
  <1>7. /\ LpPointsEntity' \in [Accounts -> [Tokens -> Column]]
        /\ e.points # None => LpPointsEntity'[e.by][e.token] = e.points
    BY <1>3, <1>5, <1>6
  <1>8. \A a \in Accounts, t \in Tokens :
          PointsSet(e, a, t) # None \/ LpPointsEntity'[a][t] = LpPointsEntity[a][t]
    BY <1>3, <1>5, <1>6 DEF PointsSet
  <1>9. e.pairs => HasSymbol(PairEntity'[e.token])
    BY <1>1, <1>2, <1>3 DEF Progress
  <1>10. Progress'
    BY <1>1, <1>4, <1>7, <1>9 DEF Progress, Doing
  <1>11. /\ entity' \in {None} \union MetaSaves
         /\ TokenEntity' \in [Tokens -> {None} \union TokenRows]
         /\ PairEntity' \in [Tokens -> {None} \union PairRows]
    BY <1>1, <1>2 DEF TableTypes, JobTypes
  <1>12. \A t \in Tokens : PairEntity'[t] # None => Touches(tx, t)
    BY <1>1, SameTouches
  <1> QED  BY <1>1, <1>3, <1>7, <1>8, <1>10, <1>11, <1>12, GoKeeps

-----------------------------------------------------------------------------
(* The reserves, and the trade *)

\* What is unsaved when the head has saved its reserves, and what was before.
LEMMA HeadServed ==
  ASSUME ChainTypes, JobTypes, MarketsMade, QueueFollows, QueueInOrder, action_que # <<>>,
         Head(action_que).do = "processAmmBlock", NEW i, i = Head(action_que).tx
  PROVE  /\ \A h, j : Unsaved(handed, action_que, h, j) /\ j # i
                        => Unsaved(handed, action_que, "savePrice", j)
         /\ \A h, j : Unsaved(handed, action_que, "savePrice", j) => Unsaved(handed, action_que, h, j)
         /\ GivenOnce => ~Unsaved(handed, action_que, "savePrice", i)
         /\ \A j \in DOMAIN log : i < j /\ Amm(log[j]) => Unsaved(handed, action_que, "savePrice", j)
         /\ \A h : h # "savePrice" => Unsaved(handed, action_que, h, i)
         /\ GivenOnce => \A p \in DOMAIN log : p < i => \A h : ~Unsaved(handed, action_que, h, p)
  <1>1. /\ 1 \in DOMAIN action_que /\ action_que[1].tx = i /\ action_que[1].do = "processAmmBlock"
        /\ i \in DOMAIN log /\ i \in Nat
        /\ \A j : IsAt(action_que, 1, "processAmmBlock", j) <=> j = i
    BY HeadFacts
  <1>2. PICK m \in Nat : DOMAIN action_que = 1 .. m
    BY DEF JobTypes
  <1>3. ASSUME NEW h, NEW j, Unsaved(handed, action_que, h, j), j # i
        PROVE  Unsaved(handed, action_que, "savePrice", j)
    BY <1>1, <1>3 DEF Unsaved
  <1>4. ASSUME NEW h, NEW j, Unsaved(handed, action_que, "savePrice", j)
        PROVE  Unsaved(handed, action_que, h, j)
    BY <1>4 DEF Unsaved
  <1>5. ASSUME GivenOnce
        PROVE  ~Unsaved(handed, action_que, "savePrice", i)
    <2>1. i <= handed /\ handed \in Nat
      BY <1>1, <1>5 DEF QueueInOrder, JobTypes
    <2>2. ASSUME NEW k \in 1 .. m, k # 1
          PROVE  i < action_que[k].tx
      <3>1. 1 < k
        BY <1>2, <2>2
      <3> QED  BY <1>1, <1>2, <1>5, <3>1 DEF QueueInOrder
    <2>3. ASSUME NEW k \in 1 .. m, k # 1, IsAt(action_que, k, "processAmmBlock", i)
          PROVE  FALSE
      BY <1>1, <2>2, <2>3 DEF IsAt
    <2> QED  BY <1>1, <1>2, <2>1, <2>3 DEF Unsaved
  <1>6. ASSUME NEW j \in DOMAIN log, i < j, Amm(log[j])
        PROVE  Unsaved(handed, action_que, "savePrice", j)
    <2>1. SecondOf(log[j]) = "processAmmBlock"
      <3>1. log[j] \in TxRecords /\ WellFormed(log[j])
        BY DEF ChainTypes, MarketsMade
      <3> QED  BY <1>6, <3>1, Seconds
    <2>2. j > handed \/ After(action_que, 1, "processAmmBlock", j)
      BY <1>1, <1>6, <2>1 DEF QueueFollows
    <2>3. ASSUME After(action_que, 1, "processAmmBlock", j)
          PROVE  Unsaved(handed, action_que, "savePrice", j)
      <3>1. PICK l \in DOMAIN action_que : 1 < l /\ IsAt(action_que, l, "processAmmBlock", j)
        BY <2>3 DEF After
      <3>2. l # 1
        BY <3>1
      <3> QED  BY <3>1, <3>2 DEF Unsaved
    <2> QED  BY <2>2, <2>3 DEF Unsaved
  <1>7. ASSUME NEW h, h # "savePrice"
        PROVE  Unsaved(handed, action_que, h, i)
    BY <1>1, <1>7 DEF Unsaved
  <1>8. ASSUME GivenOnce, NEW p \in DOMAIN log, p < i, NEW h, Unsaved(handed, action_que, h, p)
        PROVE  FALSE
    <2>1. i <= handed /\ handed \in Nat /\ p \in Nat
      BY <1>1, <1>8 DEF QueueInOrder, JobTypes, ChainTypes
    <2>2. PICK k \in 1 .. m : IsAt(action_que, k, "processAmmBlock", p)
      BY <1>1, <1>2, <1>8, <2>1 DEF Unsaved
    <2>3. action_que[k].tx = p
      BY <2>2 DEF IsAt
    <2>4. k # 1
      BY <1>1, <1>8, <2>1, <2>3
    <2>5. 1 < k
      BY <1>2, <2>4
    <2>6. i <= p
      BY <1>1, <1>2, <1>8, <2>3, <2>5 DEF QueueInOrder
    <2> QED  BY <1>1, <1>8, <2>1, <2>6
  <1> QED  BY <1>3, <1>4, <1>5, <1>6, <1>7, <1>8

\* The reserves that transaction i left are saved, and are the last that are.
LEMMA ReservesMove ==
  ASSUME ChainTypes, MarketsMade, ReservesInOrder, log' = log, GivenOnce' => GivenOnce,
         NEW i \in DOMAIN log,
         \A j \in DOMAIN log : Unsaved(handed, action_que, at, j) /\ j # i
                                 => Unsaved(handed', action_que', at', j),
         \A j \in DOMAIN log : Unsaved(handed', action_que', at', j)
                                 => Unsaved(handed, action_que, at, j),
         GivenOnce' => ~Unsaved(handed', action_que', at', i),
         \A j \in DOMAIN log : i < j /\ Amm(log[j]) => Unsaved(handed', action_que', at', j),
         \A t \in Tokens : KeyedIn(log, t) /\ ReserveSet(log[i], t) # None =>
           PairEntity'[t] # None /\ PairEntity'[t].reserves = ReserveSet(log[i], t),
         \A t \in Tokens : KeyedIn(log, t) /\ ReserveSet(log[i], t) = None /\ PairEntity[t] # None =>
           PairEntity'[t] # None /\ PairEntity'[t].reserves = PairEntity[t].reserves
  PROVE  ReservesInOrder'
  <1> SUFFICES ASSUME GivenOnce', NEW t \in Tokens, NEW p \in DOMAIN log, KeyedIn(log, t),
                      LastSaved(log, handed', action_que', at', p, t)
               PROVE  PairEntity'[t] # None /\ PairEntity'[t].reserves = ReserveSet(log[p], t)
    BY DEF ReservesInOrder
  <1>1. /\ ReserveSet(log[p], t) # None /\ ~Unsaved(handed', action_que', at', p)
        /\ \A j \in DOMAIN log : p < j /\ ReserveSet(log[j], t) # None
                                   => Unsaved(handed', action_que', at', j)
    BY DEF LastSaved
  <1>2. \A j \in DOMAIN log : ReserveSet(log[j], t) # None => Amm(log[j])
    <2>1. \A j \in DOMAIN log : log[j] \in TxRecords /\ WellFormed(log[j])
      BY DEF ChainTypes, MarketsMade
    <2> QED  BY <2>1, Seconds
  <1>3. p \in Nat /\ i \in Nat
    BY DEF ChainTypes
  <1>4. CASE ReserveSet(log[i], t) # None
    <2>1. ~(p < i)
      BY <1>1, <1>4
    <2>2. ~(i < p)
      BY <1>1, <1>2
    <2>3. p = i
      BY <1>3, <2>1, <2>2
    <2> QED  BY <1>4, <2>3
  <1>5. CASE ReserveSet(log[i], t) = None
    <2>1. p # i
      BY <1>1, <1>5
    <2>2. LastSaved(log, handed, action_que, at, p, t)
      BY <1>1, <2>1 DEF LastSaved
    <2>3. GivenOnce
      OBVIOUS
    <2>4. PairEntity[t] # None /\ PairEntity[t].reserves = ReserveSet(log[p], t)
      BY <2>2, <2>3 DEF ReservesInOrder
    <2> QED  BY <1>5, <2>4
  <1> QED  BY <1>4, <1>5

\* The trade under way is worth what the table's reserve and its own are apart.
LEMMA TradeIsRight ==
  ASSUME MarketInv, Doing("processAmmBlock"), at = "saveReserves", GivenOnce,
         NEW i, i = Head(action_que).tx, Followed(log, i)
  PROVE  /\ PairEntity[log[i].token] # None
         /\ getAmountExchanged(log[i].fn, PairEntity[log[i].token].reserves, log[i].reserve)
              = log[i].moved
  <1>1. /\ ChainTypes /\ JobTypes /\ MarketsMade /\ TradesMove /\ QueueFollows /\ QueueInOrder
        /\ ReservesInOrder
    BY DEF MarketInv
  <1>2. action_que # <<>> /\ Head(action_que).do = "processAmmBlock"
    BY DEF Doing
  <1>3. i \in DOMAIN log /\ IsTrade(log[i]) /\ MadeIn(log, log[i].token) /\ KeyedIn(log, log[i].token)
    BY DEF Followed
  <1>4. PICK t \in Tokens : t = log[i].token
    <2>1. \A x \in TxRecords : x.token \in Tokens
      BY DEF TxRecords
    <2> QED  BY <1>1, <1>3, <2>1 DEF ChainTypes
  <1>5. PICK p \in DOMAIN log :
          /\ LastBefore(log, p, i, t)
          /\ getAmountExchanged(log[i].fn, ReserveSet(log[p], t), log[i].reserve) = log[i].moved
    BY <1>1, <1>3, <1>4 DEF TradesMove
  <1>6. p \in Nat /\ i \in Nat /\ \A j \in DOMAIN log : j \in Nat
    BY <1>1, <1>3 DEF ChainTypes
  <1>7. \A j \in DOMAIN log : ReserveSet(log[j], t) # None => Amm(log[j])
    <2>1. \A j \in DOMAIN log : log[j] \in TxRecords /\ WellFormed(log[j])
      BY <1>1 DEF ChainTypes, MarketsMade
    <2> QED  BY <2>1, Seconds
  <1>8. LastSaved(log, handed, action_que, at, p, t)
    <2>1. p < i /\ ReserveSet(log[p], t) # None
      BY <1>5 DEF LastBefore
    <2>2. ~Unsaved(handed, action_que, at, p)
      BY <1>1, <1>2, <2>1, HeadServed
    <2>3. ASSUME NEW j \in DOMAIN log, p < j, ReserveSet(log[j], t) # None
          PROVE  Unsaved(handed, action_que, at, j)
      <3>1. ~(j < i)
        BY <1>5, <2>3 DEF LastBefore
      <3>2. CASE j = i
        BY <1>1, <1>2, <3>2, HeadServed
      <3>3. CASE i < j
        BY <1>1, <1>2, <1>7, <2>3, <3>3, HeadServed
      <3> QED  BY <1>6, <3>1, <3>2, <3>3
    <2> QED  BY <2>1, <2>2, <2>3 DEF LastSaved
  <1>9. PairEntity[t] # None /\ PairEntity[t].reserves = ReserveSet(log[p], t)
    BY <1>1, <1>3, <1>4, <1>8 DEF ReservesInOrder
  <1> QED  BY <1>4, <1>5, <1>9

\* A market that was seen from its making on has its row, with a symbol.
LEMMA MarketIsThere ==
  ASSUME MarketInv, Doing("processAmmBlock"), NEW i, i = Head(action_que).tx, Followed(log, i)
  PROVE  HasSymbol(PairEntity[log[i].token])
  <1>1. /\ ChainTypes /\ JobTypes /\ MarketsMade /\ QueueFollows /\ RowsFirst
    BY DEF MarketInv
  <1>2. action_que # <<>>
    BY DEF Doing
  <1>3. i \in DOMAIN log /\ IsTrade(log[i]) /\ MadeIn(log, log[i].token)
    BY DEF Followed
  <1>4. 1 \in DOMAIN action_que /\ action_que[1].tx = i
    BY <1>1, <1>2, HeadFacts
  <1>5. PICK c \in DOMAIN log : log[c].token = log[i].token /\ log[c].pairs
    BY <1>3 DEF MadeIn
  <1>6. log[i] \in TxRecords /\ WellFormed(log[i]) /\ i \in Nat /\ c \in Nat
    BY <1>1, <1>3 DEF ChainTypes, MarketsMade
  <1>7. Amm(log[i]) /\ ~log[i].pairs
    BY <1>3, <1>6 DEF IsTrade, Amm, WellFormed
  <1>8. c <= i
    BY <1>1, <1>3, <1>5, <1>7 DEF MarketsMade
  <1>9. c < i
    BY <1>5, <1>6, <1>7, <1>8
  <1> SUFFICES ASSUME ~HasSymbol(PairEntity[log[c].token])
               PROVE  FALSE
    BY <1>5
  <1>10. ComesFirst(handed, action_que, "processAmmBlock", c)
    BY <1>1, <1>5 DEF RowsFirst
  <1>11. Before(action_que, 1, "processAmmBlock", c)
    BY <1>4, <1>9, <1>10 DEF ComesFirst
  <1>12. \A l \in DOMAIN action_que : ~(l < 1)
    BY <1>1 DEF JobTypes
  <1> QED  BY <1>11, <1>12 DEF Before

\* What updateReserves makes of a row.
UpdatedRow(old, r, p, l) == [old EXCEPT !.reserves = r, !.price = Or(p, @), !.lp = Or(l, @)]

\* The columns of such a row.
IsUpdated(old, r, p, l, rec) ==
  /\ rec \in PairRows /\ rec.reserves = r
  /\ p # None => rec.price = p
  /\ p = None => rec.price = old.price
  /\ l # None => rec.lp = l
  /\ l = None => rec.lp = old.lp
  /\ rec.token_symbol = old.token_symbol

\* These are they.
LEMMA RowUpdated ==
  ASSUME NEW old \in PairRows, NEW r \in Column, NEW p \in Column, NEW l \in Column, NEW rec,
         rec = UpdatedRow(old, r, p, l)
  PROVE  IsUpdated(old, r, p, l, rec)
  <1>1. PICK np \in Column : np = Or(p, old.price)
    BY DEF Or, PairRows
  <1>2. PICK nl \in Column : nl = Or(l, old.lp)
    BY DEF Or, PairRows
  <1>3. rec = [old EXCEPT !.reserves = r, !.price = np, !.lp = nl]
    BY <1>1, <1>2 DEF UpdatedRow, Or, PairRows
  <1>4. PICK a : a = [old EXCEPT !.reserves = r]
    OBVIOUS
  <1>5. /\ a \in PairRows /\ a.reserves = r /\ a.price = old.price /\ a.lp = old.lp
        /\ a.token_symbol = old.token_symbol
    BY <1>4 DEF PairRows
  <1>6. PICK b : b = [a EXCEPT !.price = np]
    OBVIOUS
  <1>7. /\ b \in PairRows /\ b.reserves = r /\ b.price = np /\ b.lp = old.lp
        /\ b.token_symbol = old.token_symbol
    BY <1>5, <1>6 DEF PairRows
  <1>8. rec = [b EXCEPT !.lp = nl]
    BY <1>3, <1>4, <1>6
  <1>9. /\ rec \in PairRows /\ rec.reserves = r /\ rec.price = np /\ rec.lp = nl
        /\ rec.token_symbol = old.token_symbol
    BY <1>7, <1>8 DEF PairRows
  <1> QED  BY <1>1, <1>2, <1>9 DEF Or, IsUpdated

\* The RSWP market's row has the reserve that the fee left.
RswpSaved(e, pe) ==
  /\ pe \in [Tokens -> {None} \union PairRows]
  /\ \A t \in Tokens : e.rswp = None \/ t # Rswp => pe[t] = PairEntity[t]
  /\ e.rswp # None =>
       /\ pe[Rswp] # None /\ pe[Rswp].reserves = e.rswp
       /\ pe[Rswp].price = Pair(Rswp).price /\ pe[Rswp].lp = Pair(Rswp).lp
       /\ pe[Rswp].token_symbol = Pair(Rswp).token_symbol

\* And this is how saveReserves saves it.
LEMMA SavesRswp ==
  ASSUME TableTypes, NEW e, e.rswp \in Column,
         NEW pe, pe = IF e.rswp = None THEN PairEntity
                      ELSE [PairEntity EXCEPT ![Rswp] = [Pair(Rswp) EXCEPT !.reserves = e.rswp]]
  PROVE  RswpSaved(e, pe)
  <1>1. PairEntity \in [Tokens -> {None} \union PairRows] /\ Rswp \in Tokens
    BY IndexAssumption DEF TableTypes
  <1>2. CASE e.rswp = None
    BY <1>1, <1>2 DEF RswpSaved
  <1>3. CASE e.rswp # None
    <2>1. PICK old \in PairRows : old = Pair(Rswp)
      BY <1>1, PairIs
    <2>2. PICK rec : rec = [old EXCEPT !.reserves = e.rswp]
      OBVIOUS
    <2>3. /\ rec \in PairRows /\ rec.reserves = e.rswp /\ rec.price = old.price /\ rec.lp = old.lp
          /\ rec.token_symbol = old.token_symbol
      BY <2>2 DEF PairRows
    <2>4. pe = [PairEntity EXCEPT ![Rswp] = rec]
      BY <1>3, <2>1, <2>2
    <2>5. rec # None
      BY <2>3, IndexAssumption
    <2>6. /\ pe \in [Tokens -> {None} \union PairRows] /\ pe[Rswp] = rec
          /\ \A t \in Tokens : t # Rswp => pe[t] = PairEntity[t]
      BY <1>1, <2>3, <2>4
    <2> QED  BY <1>3, <2>1, <2>3, <2>5, <2>6 DEF RswpSaved
  <1> QED  BY <1>2, <1>3

\* Of the RSWP row, only the reserve is another.
LEMMA RswpRow ==
  ASSUME TableTypes, NEW e, NEW pe, RswpSaved(e, pe)
  PROVE  /\ \A t \in Tokens : PairEntity[t] # None => pe[t] # None
         /\ \A t \in Tokens : HasSymbol(PairEntity[t]) => HasSymbol(pe[t])
         /\ \A t \in Tokens : Full(PairEntity[t]) => Full(pe[t])
         /\ \A t \in Tokens : pe[t] # None =>
              /\ pe[t].price = None \/ (PairEntity[t] # None /\ pe[t].price = PairEntity[t].price)
              /\ pe[t].lp = None \/ (PairEntity[t] # None /\ pe[t].lp = PairEntity[t].lp)
  <1>1. Rswp \in Tokens
    BY IndexAssumption
  <1>2. /\ PairEntity[Rswp] # None => Pair(Rswp) = PairEntity[Rswp]
        /\ PairEntity[Rswp] = None => /\ Pair(Rswp).reserves = None /\ Pair(Rswp).price = None
                                      /\ Pair(Rswp).lp = None /\ Pair(Rswp).token_symbol = None
    BY <1>1, PairIs
  <1> SUFFICES ASSUME NEW t \in Tokens
               PROVE  /\ PairEntity[t] # None => pe[t] # None
                      /\ HasSymbol(PairEntity[t]) => HasSymbol(pe[t])
                      /\ Full(PairEntity[t]) => Full(pe[t])
                      /\ pe[t] # None =>
                           /\ pe[t].price = None
                              \/ (PairEntity[t] # None /\ pe[t].price = PairEntity[t].price)
                           /\ pe[t].lp = None
                              \/ (PairEntity[t] # None /\ pe[t].lp = PairEntity[t].lp)
    OBVIOUS
  <1>3. CASE e.rswp = None \/ t # Rswp
    <2>1. pe[t] = PairEntity[t]
      BY <1>3 DEF RswpSaved
    <2> QED  BY <2>1
  <1>4. CASE e.rswp # None /\ t = Rswp
    <2>1. /\ pe[t] # None /\ pe[t].reserves = e.rswp
          /\ pe[t].price = Pair(t).price /\ pe[t].lp = Pair(t).lp
          /\ pe[t].token_symbol = Pair(t).token_symbol
      BY <1>4 DEF RswpSaved
    <2>2. HasSymbol(PairEntity[t]) => HasSymbol(pe[t])
      BY <1>2, <1>4, <2>1 DEF HasSymbol
    <2>3. Full(PairEntity[t]) => Full(pe[t])
      BY <1>2, <1>4, <2>1, <2>2 DEF Full, HasSymbol
    <2> QED  BY <1>2, <1>4, <2>1, <2>2, <2>3
  <1> QED  BY <1>3, <1>4

\* What saveReserves leaves of the tables when a key holder made the transaction.
KeyedSave(e, new) ==
  /\ new \in PairRows /\ new # None
  /\ new.reserves = e.reserve
  /\ new.price = IF e.price # None THEN e.price ELSE Pair(e.token).price
  /\ new.lp = IF e.lp # None THEN e.lp ELSE Pair(e.token).lp
  /\ new.token_symbol = Pair(e.token).token_symbol

\* Both markets are written.
LEMMA KeyedRows ==
  ASSUME TableTypes, NEW e, WellFormed(e), e.token \in Tokens, e.rswp \in Column, Amm(e),
         NEW pe, RswpSaved(e, pe), NEW new, KeyedSave(e, new),
         PairEntity' = [pe EXCEPT ![e.token] = new],
         told' = [told EXCEPT ![e.token] = Metrics(new)]
  PROVE  /\ PairEntity' \in [Tokens -> {None} \union PairRows]
         /\ told' \in [Tokens -> {None} \union [reserves : Column, price : Column, lp : Column]]
         /\ \A t \in Tokens : HasSymbol(PairEntity[t]) => HasSymbol(PairEntity'[t])
         /\ \A t \in Tokens : Full(PairEntity[t]) => Full(PairEntity'[t])
         /\ \A t \in Tokens : PairEntity'[t] # None => Touches(e, t)
         /\ PairEntity'[e.token] = new /\ told'[e.token] = Metrics(new)
         /\ e.rswp # None => PairEntity'[Rswp] # None /\ PairEntity'[Rswp].reserves = e.rswp
         /\ \A t \in Tokens : ReserveSet(e, t) # None =>
              PairEntity'[t] # None /\ PairEntity'[t].reserves = ReserveSet(e, t)
         /\ \A t \in Tokens : ReserveSet(e, t) = None => PairEntity'[t] = PairEntity[t]
  <1>1. PICK u \in Tokens : u = e.token
    OBVIOUS
  <1>2. pe \in [Tokens -> {None} \union PairRows] /\ Rswp \in Tokens
    BY IndexAssumption DEF RswpSaved
  <1>3. /\ new \in PairRows /\ new # None /\ new.reserves = e.reserve
        /\ new.price = IF e.price # None THEN e.price ELSE Pair(u).price
        /\ new.lp = IF e.lp # None THEN e.lp ELSE Pair(u).lp
        /\ new.token_symbol = Pair(u).token_symbol
    BY <1>1 DEF KeyedSave
  <1>4. e.reserve # None /\ (e.rswp # None => u # Rswp)
    BY <1>1 DEF WellFormed
  <1>5. /\ PairEntity' \in [Tokens -> {None} \union PairRows] /\ PairEntity'[u] = new
        /\ \A t \in Tokens : t # u => PairEntity'[t] = pe[t]
    BY <1>1, <1>2, <1>3
  <1>6. Metrics(new) \in [reserves : Column, price : Column, lp : Column]
    BY <1>3 DEF Metrics, PairRows
  <1>7. told \in [Tokens -> {None} \union [reserves : Column, price : Column, lp : Column]]
    BY DEF TableTypes
  <1>8. PICK mt \in [reserves : Column, price : Column, lp : Column] : mt = Metrics(new)
    BY <1>6
  <1>9. PICK MS : MS = [reserves : Column, price : Column, lp : Column]
    OBVIOUS
  <1>10. /\ told' \in [Tokens -> {None} \union MS]
         /\ told'[u] = mt /\ \A t \in Tokens : t # u => told'[t] = told[t]
    BY <1>1, <1>7, <1>8, <1>9
  <1>11. /\ PairEntity[u] # None => Pair(u) = PairEntity[u]
         /\ PairEntity[u] = None => /\ Pair(u).reserves = None /\ Pair(u).price = None
                                    /\ Pair(u).lp = None /\ Pair(u).token_symbol = None
    BY PairIs
  <1>12. \A t \in Tokens : HasSymbol(PairEntity[t]) => HasSymbol(PairEntity'[t])
    <2>1. HasSymbol(PairEntity[u]) => HasSymbol(PairEntity'[u])
      BY <1>3, <1>5, <1>11 DEF HasSymbol
    <2>2. \A t \in Tokens : t # u => (HasSymbol(PairEntity[t]) => HasSymbol(PairEntity'[t]))
      BY <1>5, RswpRow
    <2> QED  BY <2>1, <2>2
  <1>13. \A t \in Tokens : Full(PairEntity[t]) => Full(PairEntity'[t])
    <2>1. Full(PairEntity[u]) => Full(PairEntity'[u])
      <3> SUFFICES ASSUME Full(PairEntity[u]) PROVE Full(new)
        BY <1>5
      <3>1. /\ PairEntity[u] # None /\ PairEntity[u].token_symbol # None
            /\ PairEntity[u].reserves # None /\ PairEntity[u].price # None /\ PairEntity[u].lp # None
        BY DEF Full, HasSymbol
      <3>2. /\ new.token_symbol # None /\ new.reserves # None /\ new.price # None /\ new.lp # None
        BY <1>3, <1>4, <1>11, <3>1
      <3> QED  BY <1>3, <3>2 DEF Full, HasSymbol
    <2>2. \A t \in Tokens : t # u => (Full(PairEntity[t]) => Full(PairEntity'[t]))
      BY <1>5, RswpRow
    <2> QED  BY <2>1, <2>2
  <1>14. \A t \in Tokens : ReserveSet(e, t) # None =>
           PairEntity'[t] # None /\ PairEntity'[t].reserves = ReserveSet(e, t)
    <2>1. PairEntity'[u] # None /\ PairEntity'[u].reserves = ReserveSet(e, u)
      BY <1>1, <1>3, <1>5 DEF ReserveSet
    <2>2. ASSUME NEW t \in Tokens, t # u, ReserveSet(e, t) # None
          PROVE  PairEntity'[t] # None /\ PairEntity'[t].reserves = ReserveSet(e, t)
      <3>1. t = Rswp /\ e.rswp # None /\ ReserveSet(e, t) = e.rswp
        BY <1>1, <2>2 DEF ReserveSet
      <3> QED  BY <1>5, <2>2, <3>1 DEF RswpSaved
    <2> QED  BY <2>1, <2>2
  <1>15. \A t \in Tokens : ReserveSet(e, t) = None => PairEntity'[t] = PairEntity[t]
    <2>1. ASSUME NEW t \in Tokens, ReserveSet(e, t) = None
          PROVE  PairEntity'[t] = PairEntity[t]
      <3>1. t # u
        BY <1>1, <1>4, <2>1 DEF ReserveSet
      <3>2. e.rswp = None \/ t # Rswp
        BY <1>1, <2>1, <3>1 DEF ReserveSet
      <3> QED  BY <1>5, <3>1, <3>2 DEF RswpSaved
    <2> QED  BY <2>1
  <1>16. \A t \in Tokens : PairEntity'[t] # None => Touches(e, t)
    <2>1. Touches(e, u)
      <3>1. ReserveSet(e, u) # None
        BY <1>1, <1>4 DEF ReserveSet
      <3>2. \/ PriceSet(e, u) # None \/ PairEntity'[u].price = None
            \/ PairEntity[u] # None /\ PairEntity'[u].price = PairEntity[u].price
        BY <1>1, <1>3, <1>5, <1>11 DEF PriceSet
      <3>3. \/ LpSet(e, u) # None \/ PairEntity'[u].lp = None
            \/ PairEntity[u] # None /\ PairEntity'[u].lp = PairEntity[u].lp
        BY <1>1, <1>3, <1>5, <1>11 DEF LpSet
      <3> QED  BY <1>1, <3>1, <3>2, <3>3 DEF Touches
    <2>2. ASSUME NEW t \in Tokens, t # u, PairEntity'[t] # None
          PROVE  Touches(e, t)
      <3>1. PairEntity'[t] = pe[t] /\ told'[t] = told[t]
        BY <1>5, <1>10, <2>2
      <3>2. CASE ReserveSet(e, t) = None
        BY <1>10, <1>15, <2>2, <3>2 DEF Touches
      <3>3. CASE ReserveSet(e, t) # None
        <4>1. t = Rswp
          BY <1>1, <2>2, <3>3 DEF ReserveSet
        <4>2. /\ \/ PairEntity'[t].price = None
                 \/ PairEntity[t] # None /\ PairEntity'[t].price = PairEntity[t].price
              /\ \/ PairEntity'[t].lp = None
                 \/ PairEntity[t] # None /\ PairEntity'[t].lp = PairEntity[t].lp
          BY <2>2, <3>1, RswpRow
        <4> QED  BY <3>3, <4>1, <4>2 DEF Touches
      <3> QED  BY <3>2, <3>3
    <2> QED  BY <2>1, <2>2
  <1>17. e.rswp # None => PairEntity'[Rswp] # None /\ PairEntity'[Rswp].reserves = e.rswp
    BY <1>2, <1>4, <1>5 DEF RswpSaved
  <1> QED  BY <1>1, <1>5, <1>8, <1>9, <1>10, <1>12, <1>13, <1>14, <1>15, <1>16, <1>17

\* The row of a trade under way.
LEMMA TradeRow ==
  ASSUME MarketInv, Doing("processAmmBlock"), NEW e \in TxRecords, e = tx, IsTrade(e),
         e.reserve \in Int, PairEntity[e.token] # None
  PROVE  \E d \in TradeRows :
           /\ d = TradeOf(PairEntity[e.token]) /\ d.hash = Head(action_que).tx
           /\ d.token_symbol = PairEntity[e.token].token_symbol
           /\ d.amount = getAmountExchanged(e.fn, PairEntity[e.token].reserves, e.reserve)
  <1>1. /\ ChainTypes /\ JobTypes /\ TableTypes /\ MarketsMade /\ QueueFollows
    BY DEF MarketInv
  <1>2. PICK i \in Nat : i = Head(action_que).tx
    BY <1>1, HeadFacts DEF Doing
  <1>3. /\ e.token \in Tokens /\ e.by \in Accounts /\ e.fn \in {"buy", "sell"} /\ e.price \in Column
    BY DEF TxRecords, IsTrade
  <1>4. PICK r \in PairRows : r = PairEntity[e.token]
    BY <1>1, <1>3 DEF TableTypes
  <1>5. r.reserves \in Column /\ r.token_symbol \in Column
    BY DEF PairRows
  <1>6. PICK x \in Column : x = getAmountExchanged(e.fn, r.reserves, e.reserve)
    <2>1. CASE r.reserves = None
      <3>1. None \in Column
        BY DEF Column
      <3>2. getAmountExchanged(e.fn, r.reserves, e.reserve) = None
        BY <2>1, Zenon DEF getAmountExchanged
      <3> QED  BY <3>1, <3>2
    <2>2. CASE r.reserves # None
      <3>1. r.reserves \in Int
        BY <1>5, <2>2 DEF Column
      <3>2. r.reserves - e.reserve \in Int /\ e.reserve - r.reserves \in Int
        BY <3>1
      <3> QED  BY <2>2, <3>2 DEF getAmountExchanged, Column
    <2> QED  BY <2>1, <2>2
  <1>7. PICK d : d = [hash |-> i, token |-> e.token, type |-> e.fn, vk |-> e.by, amount |-> x,
                      price |-> e.price, token_symbol |-> r.token_symbol]
    OBVIOUS
  <1>8. d \in TradeRows
    BY <1>3, <1>5, <1>7 DEF TradeRows
  <1>9. d = TradeOf(PairEntity[e.token])
    BY <1>2, <1>4, <1>6, <1>7 DEF TradeOf
  <1> QED  BY <1>2, <1>4, <1>6, <1>7, <1>8, <1>9

\* The trades, when one of a key holder is given to be saved.
LEMMA KeyedTrades ==
  ASSUME MarketInv, Doing("processAmmBlock"), at = "saveReserves", at' = "savePrice", log' = log,
         UNCHANGED <<handed, action_que, replays, crashes, TradeHistory>>,
         NEW e \in TxRecords, e = tx, WellFormed(e), Amm(e), e.reserve \in Int,
         tradeSaves' = IF PairEntity[e.token] # None /\ IsTrade(e)
                         THEN Append(tradeSaves, TradeOf(PairEntity[e.token])) ELSE tradeSaves
  PROVE  tradeSaves' \in Seq(TradeRows) /\ TradesFollow' /\ TradesOnce'
  <1>1. /\ ChainTypes /\ JobTypes /\ TableTypes /\ MarketsMade /\ QueueFollows /\ QueueInOrder
        /\ TradesFollow /\ TradesOnce
    BY DEF MarketInv
  <1>2. action_que # <<>> /\ Head(action_que).do = "processAmmBlock"
    BY DEF Doing
  <1>3. PICK i \in DOMAIN log : i = Head(action_que).tx /\ log[i] = e
    BY <1>1, <1>2, HeadFacts
  <1>4. /\ \A h, j : Unsaved(handed, action_que, h, j) /\ j # i
                        => Unsaved(handed, action_que, "savePrice", j)
        /\ \A h, j : Unsaved(handed, action_que, "savePrice", j) => Unsaved(handed, action_que, h, j)
        /\ GivenOnce => ~Unsaved(handed, action_que, "savePrice", i)
        /\ Unsaved(handed, action_que, at, i)
    <2>1. \A h : h # "savePrice" => Unsaved(handed, action_que, h, i)
      BY <1>1, <1>2, <1>3, HeadServed
    <2>2. Unsaved(handed, action_que, at, i)
      BY <2>1
    <2> QED  BY <1>1, <1>2, <1>3, <2>2, HeadServed
  <1>5. handed' = handed /\ action_que' = action_que /\ TradeHistory' = TradeHistory
    OBVIOUS
  <1>6. GivenOnce' => GivenOnce
    BY DEF GivenOnce
  <1>7. tradeSaves \in Seq(TradeRows)
    BY <1>1 DEF JobTypes
  <1>8. PICK n \in Nat : n = Len(tradeSaves) /\ DOMAIN tradeSaves = 1 .. n
    BY <1>7
  <1>9. Followed(log, i) => /\ PairEntity[e.token] # None /\ IsTrade(e)
                            /\ PairEntity[e.token].token_symbol # None
    <2>1. Followed(log, i) => HasSymbol(PairEntity[log[i].token])
      BY <1>3, MarketIsThere
    <2> QED  BY <1>3, <2>1 DEF HasSymbol, Followed
  \* What was there is right as before.
  <1>10. ASSUME NEW r, RowIsRight(log, handed, action_que, at, r)
         PROVE  RowIsRight(log, handed, action_que, "savePrice", r) /\ r.hash # i
    BY <1>4, <1>10 DEF RowIsRight
  <1>11. ASSUME NEW j \in DOMAIN log, Followed(log, j), j # i,
                ~Unsaved(handed, action_que, "savePrice", j)
         PROVE  Held(tradeSaves, TradeHistory, j)
    BY <1>1, <1>4, <1>11 DEF TradesFollow
  <1>12. CASE ~(PairEntity[e.token] # None /\ IsTrade(e))
    <2>1. tradeSaves' = tradeSaves
      BY <1>12
    <2>2. TradesFollow'
      <3> SUFFICES ASSUME NEW j \in DOMAIN log, Followed(log, j),
                          ~Unsaved(handed', action_que', at', j)
                   PROVE  Held(tradeSaves', TradeHistory', j)
        BY DEF TradesFollow
      <3>1. j # i
        BY <1>9, <1>12
      <3> QED  BY <1>5, <1>11, <2>1, <3>1
    <2>3. TradesOnce'
      <3> SUFFICES ASSUME GivenOnce'
                   PROVE  /\ \A k \in DOMAIN tradeSaves :
                              /\ RowIsRight(log, handed, action_que, "savePrice", tradeSaves[k])
                              /\ \A l \in DOMAIN tradeSaves :
                                   tradeSaves[l].hash = tradeSaves[k].hash => l = k
                              /\ \A l \in DOMAIN TradeHistory :
                                   TradeHistory[l].hash # tradeSaves[k].hash
                          /\ \A k \in DOMAIN TradeHistory :
                              /\ RowIsRight(log, handed, action_que, "savePrice", TradeHistory[k])
                              /\ \A l \in DOMAIN TradeHistory :
                                   TradeHistory[l].hash = TradeHistory[k].hash => l = k
        BY <1>5, <2>1 DEF TradesOnce
      <3> QED  BY <1>1, <1>6, <1>10 DEF TradesOnce
    <2> QED  BY <1>7, <2>1, <2>2, <2>3
  <1>13. CASE PairEntity[e.token] # None /\ IsTrade(e)
    <2>1. PICK d \in TradeRows :
            /\ d = TradeOf(PairEntity[e.token]) /\ d.hash = i
            /\ d.token_symbol = PairEntity[e.token].token_symbol
            /\ d.amount = getAmountExchanged(e.fn, PairEntity[e.token].reserves, e.reserve)
      BY <1>3, <1>13, TradeRow
    <2>2. tradeSaves' = Append(tradeSaves, d)
      BY <1>13, <2>1
    <2>3. PICK ts : ts = tradeSaves'
      OBVIOUS
    <2>4. /\ ts \in Seq(TradeRows) /\ DOMAIN ts = 1 .. (n + 1)
          /\ \A k \in 1 .. n : ts[k] = tradeSaves[k]
          /\ ts[n + 1] = d
      BY <1>7, <1>8, <2>2, <2>3
    <2>5. TradesFollow'
      <3> SUFFICES ASSUME NEW j \in DOMAIN log, Followed(log, j),
                          ~Unsaved(handed, action_que, "savePrice", j)
                   PROVE  Held(ts, TradeHistory, j)
        BY <1>5, <2>3 DEF TradesFollow
      <3>1. CASE j = i
        <4>1. ts[n + 1].hash = j /\ ts[n + 1].token_symbol # None
          BY <1>9, <2>1, <2>4, <3>1
        <4>2. n + 1 \in DOMAIN ts
          BY <2>4
        <4> QED  BY <4>1, <4>2 DEF Held
      <3>2. CASE j # i
        <4>1. Held(tradeSaves, TradeHistory, j)
          BY <1>11, <3>2
        <4>2. ASSUME NEW k \in DOMAIN tradeSaves, tradeSaves[k].hash = j,
                     tradeSaves[k].token_symbol # None
              PROVE  Held(ts, TradeHistory, j)
          <5>1. k \in DOMAIN ts /\ ts[k] = tradeSaves[k]
            BY <1>8, <2>4
          <5> QED  BY <4>2, <5>1 DEF Held
        <4> QED  BY <4>1, <4>2 DEF Held
      <3> QED  BY <3>1, <3>2
    <2>6. TradesOnce'
      <3> SUFFICES ASSUME GivenOnce'
                   PROVE  /\ \A k \in DOMAIN ts :
                              /\ RowIsRight(log, handed, action_que, "savePrice", ts[k])
                              /\ \A l \in DOMAIN ts : ts[l].hash = ts[k].hash => l = k
                              /\ \A l \in DOMAIN TradeHistory : TradeHistory[l].hash # ts[k].hash
                          /\ \A k \in DOMAIN TradeHistory :
                              /\ RowIsRight(log, handed, action_que, "savePrice", TradeHistory[k])
                              /\ \A l \in DOMAIN TradeHistory :
                                   TradeHistory[l].hash = TradeHistory[k].hash => l = k
        BY <1>5, <2>3 DEF TradesOnce
      <3>1. GivenOnce
        BY <1>6
      <3>2. /\ \A k \in DOMAIN tradeSaves :
                 /\ RowIsRight(log, handed, action_que, at, tradeSaves[k])
                 /\ \A l \in DOMAIN tradeSaves : tradeSaves[l].hash = tradeSaves[k].hash => l = k
                 /\ \A l \in DOMAIN TradeHistory : TradeHistory[l].hash # tradeSaves[k].hash
            /\ \A k \in DOMAIN TradeHistory :
                 /\ RowIsRight(log, handed, action_que, at, TradeHistory[k])
                 /\ \A l \in DOMAIN TradeHistory :
                      TradeHistory[l].hash = TradeHistory[k].hash => l = k
        BY <1>1, <3>1 DEF TradesOnce
      <3>3. RowIsRight(log, handed, action_que, "savePrice", d)
        <4>1. Followed(log, i) => d.amount = log[i].moved
          BY <1>3, <2>1, <3>1, TradeIsRight
        <4> QED  BY <1>3, <1>4, <1>13, <2>1, <3>1, <4>1 DEF RowIsRight
      <3>4. \A k \in 1 .. n : ts[k].hash # i
        BY <1>8, <1>10, <2>4, <3>2
      <3>5. \A k \in DOMAIN TradeHistory : TradeHistory[k].hash # i
        BY <1>10, <3>2
      <3>6. ASSUME NEW k \in DOMAIN ts
            PROVE  /\ RowIsRight(log, handed, action_que, "savePrice", ts[k])
                   /\ \A l \in DOMAIN ts : ts[l].hash = ts[k].hash => l = k
                   /\ \A l \in DOMAIN TradeHistory : TradeHistory[l].hash # ts[k].hash
        <4>1. CASE k = n + 1
          <5>1. \A l \in DOMAIN ts : l # n + 1 => l \in 1 .. n
            BY <2>4
          <5> QED  BY <2>1, <2>4, <3>3, <3>4, <3>5, <4>1, <5>1
        <4>2. CASE k # n + 1
          <5>1. k \in 1 .. n
            BY <2>4, <4>2
          <5>2. ts[k] = tradeSaves[k] /\ k \in DOMAIN tradeSaves /\ ts[k].hash # i
            BY <1>8, <2>4, <3>4, <5>1
          <5>3. ASSUME NEW l \in DOMAIN ts, ts[l].hash = ts[k].hash
                PROVE  l = k
            <6>1. l # n + 1
              BY <2>1, <2>4, <5>2, <5>3
            <6>2. l \in 1 .. n
              BY <2>4, <6>1
            <6>3. ts[l] = tradeSaves[l] /\ l \in DOMAIN tradeSaves
              BY <1>8, <2>4, <6>2
            <6> QED  BY <3>2, <5>2, <5>3, <6>3
          <5> QED  BY <1>10, <3>2, <5>2, <5>3
        <4> QED  BY <4>1, <4>2
      <3> QED  BY <1>10, <3>2, <3>6
    <2> QED  BY <2>3, <2>4, <2>5, <2>6
  <1> QED  BY <1>12, <1>13

\* saveReserves of a key holder's transaction keeps the invariant.
LEMMA KeyedKeeps ==
  ASSUME MarketInv, saveReserves, tx.by \in KeyHolders
  PROVE  MarketInv'
  <1>1. /\ Doing("processAmmBlock") /\ at = "saveReserves" /\ UNCHANGED chainVars
        /\ handed' = handed /\ action_que' = action_que /\ replays' = replays /\ crashes' = crashes
        /\ tokenSaves' = tokenSaves /\ TokenEntity' = TokenEntity /\ TradeHistory' = TradeHistory
        /\ LpPointsEntity' = LpPointsEntity /\ BalanceEntity' = BalanceEntity
        /\ entity' = entity /\ at' = "savePrice"
    BY DEF saveReserves, In, Go
  <1>2. /\ ChainTypes /\ JobTypes /\ TableTypes /\ MarketsMade /\ LastIsKept /\ TradesMove
        /\ QueueFollows /\ RowsFirst /\ Progress /\ AccountsFollow /\ MarketsFollow /\ MarketsFill
        /\ TradesFollow /\ QueueInOrder /\ TradesOnce /\ ReservesInOrder
    BY DEF MarketInv
  <1>3. action_que # <<>> /\ Head(action_que).do = "processAmmBlock"
    BY <1>1 DEF Doing
  <1>4. PICK e \in TxRecords :
              /\ e = tx /\ WellFormed(e) /\ Amm(e)
              /\ e.token \in Tokens /\ e.by \in Accounts /\ e.pairs \in BOOLEAN
              /\ e.reserve \in Int /\ e.price \in Column /\ e.lp \in Column
              /\ e.points \in Column /\ e.rswp \in Column
    BY <1>1, HeadAmm
  <1>5. tx' = e /\ log' = log
    BY <1>1, <1>4 DEF tx, chainVars
  <1>6. PICK i \in DOMAIN log : i = Head(action_que).tx /\ log[i] = e
    BY <1>2, <1>3, <1>4, HeadFacts
  <1>7. PICK pe : pe = IF e.rswp = None THEN PairEntity
                       ELSE [PairEntity EXCEPT ![Rswp] = [Pair(Rswp) EXCEPT !.reserves = e.rswp]]
    OBVIOUS
  <1>8. RswpSaved(e, pe)
    BY <1>2, <1>4, <1>7, SavesRswp
  <1>9. PICK old \in PairRows : old = Pair(e.token)
    BY <1>2, <1>4, PairIs
  <1>10. PICK new : new = [old EXCEPT !.reserves = e.reserve, !.price = Or(e.price, @),
                                      !.lp = Or(e.lp, @)]
    OBVIOUS
  <1>11. KeyedSave(e, new)
    <2>1. e.reserve \in Column
      BY <1>4 DEF Column
    <2>2. /\ new \in PairRows /\ new.reserves = e.reserve
          /\ e.price # None => new.price = e.price
          /\ e.price = None => new.price = old.price
          /\ e.lp # None => new.lp = e.lp
          /\ e.lp = None => new.lp = old.lp
          /\ new.token_symbol = old.token_symbol
      <3>1. PICK r \in Column, p \in Column, l \in Column : r = e.reserve /\ p = e.price /\ l = e.lp
        BY <1>4, <2>1
      <3>2. new = UpdatedRow(old, r, p, l)
        BY <1>10, <3>1 DEF UpdatedRow
      <3>3. IsUpdated(old, r, p, l, new)
        BY <3>2, RowUpdated
      <3> QED  BY <3>1, <3>3 DEF IsUpdated
    <2>3. new # None
      BY <2>2, IndexAssumption
    <2> QED  BY <1>9, <2>2, <2>3 DEF KeyedSave
  <1>12. /\ PairEntity' = [pe EXCEPT ![e.token] = new]
         /\ told' = [told EXCEPT ![e.token] = Metrics(new)]
         /\ tradeSaves' = IF PairEntity[e.token] # None /\ IsTrade(e)
                            THEN Append(tradeSaves, TradeOf(PairEntity[e.token])) ELSE tradeSaves
    BY <1>4, <1>7, <1>9, <1>10 DEF saveReserves, metrics_update, IsTrade
  <1>13. /\ PairEntity' \in [Tokens -> {None} \union PairRows]
         /\ told' \in [Tokens -> {None} \union [reserves : Column, price : Column, lp : Column]]
         /\ \A t \in Tokens : HasSymbol(PairEntity[t]) => HasSymbol(PairEntity'[t])
         /\ \A t \in Tokens : Full(PairEntity[t]) => Full(PairEntity'[t])
         /\ \A t \in Tokens : PairEntity'[t] # None => Touches(e, t)
         /\ PairEntity'[e.token] = new /\ told'[e.token] = Metrics(new)
         /\ e.rswp # None => PairEntity'[Rswp] # None /\ PairEntity'[Rswp].reserves = e.rswp
         /\ \A t \in Tokens : ReserveSet(e, t) # None =>
              PairEntity'[t] # None /\ PairEntity'[t].reserves = ReserveSet(e, t)
         /\ \A t \in Tokens : ReserveSet(e, t) = None => PairEntity'[t] = PairEntity[t]
    BY <1>2, <1>4, <1>8, <1>11, <1>12, KeyedRows
  <1>14. tradeSaves' \in Seq(TradeRows) /\ TradesFollow' /\ TradesOnce'
    BY <1>1, <1>4, <1>5, <1>12, KeyedTrades
  <1>15. ChainTypes' /\ MarketsMade' /\ LastIsKept' /\ TradesMove'
    BY <1>1, <1>2, ChainStays
  <1>16. JobTypes'
    <2>1. \A k \in DOMAIN tokenSaves : tokenSaves[k].token \in Tokens
      <3>1. tokenSaves \in Seq(MetaSaves \union Finds)
        BY <1>2 DEF JobTypes
      <3>2. \A x \in MetaSaves \union Finds : x.token \in Tokens
        BY DEF MetaSaves, Finds
      <3> QED  BY <3>1, <3>2
    <2> QED  BY <1>1, <1>2, <1>5, <1>14, <2>1 DEF JobTypes
  <1>17. TableTypes'
    BY <1>1, <1>2, <1>13 DEF TableTypes
  <1>18. QueueFollows' /\ QueueInOrder' /\ RowsFirst'
    BY <1>1, <1>2, <1>5, <1>13, QueueStays
  <1>19. Progress'
    <2>1. e.pairs => HasSymbol(PairEntity'[e.token])
      BY <1>1, <1>2, <1>4, <1>13 DEF Progress
    <2>2. e.points # None => LpPointsEntity'[e.by][e.token] = e.points
      BY <1>1, <1>2, <1>4 DEF Progress
    <2>3. /\ e.by \in KeyHolders /\ PairEntity'[e.token] # None
          /\ PairEntity'[e.token].reserves = e.reserve
          /\ e.price # None => PairEntity'[e.token].price = e.price
          /\ e.lp # None => PairEntity'[e.token].lp = e.lp
          /\ told'[e.token] = Metrics(PairEntity'[e.token])
      BY <1>4, <1>11, <1>13 DEF KeyedSave
    <2> QED  BY <1>1, <1>3, <1>5, <1>13, <2>1, <2>2, <2>3 DEF Progress
  <1>20. AccountsFollow' /\ MarketsFollow' /\ MarketsFill'
    <2>1. \A t \in Tokens : PairEntity'[t] # None => Touches(tx, t)
      BY <1>4, <1>13
    <2> QED  BY <1>1, <1>2, <1>3, <1>13, <2>1, GoesOn
  <1>21. ReservesInOrder'
    <2>1. GivenOnce' => GivenOnce
      BY <1>1 DEF GivenOnce
    <2>2. \A j \in DOMAIN log : Unsaved(handed, action_que, at, j) /\ j # i
                                  => Unsaved(handed', action_que', at', j)
      BY <1>1, <1>2, <1>3, <1>6, HeadServed
    <2>3. \A j \in DOMAIN log : Unsaved(handed', action_que', at', j)
                                  => Unsaved(handed, action_que, at, j)
      BY <1>1, <1>2, <1>3, <1>6, HeadServed
    <2>4. GivenOnce' => ~Unsaved(handed', action_que', at', i)
      BY <1>1, <1>2, <1>3, <1>6, <2>1, HeadServed
    <2>5. \A j \in DOMAIN log : i < j /\ Amm(log[j]) => Unsaved(handed', action_que', at', j)
      BY <1>1, <1>2, <1>3, <1>6, HeadServed
    <2> QED  BY <1>2, <1>5, <1>6, <1>13, <2>1, <2>2, <2>3, <2>4, <2>5, ReservesMove
  <1> QED  BY <1>14, <1>15, <1>16, <1>17, <1>18, <1>19, <1>20, <1>21 DEF MarketInv

\* saveReserves of a contract's transaction, which throws, keeps the invariant.
LEMMA ThrowKeeps ==
  ASSUME MarketInv, saveReserves, tx.by \notin KeyHolders
  PROVE  MarketInv'
  <1>1. /\ Doing("processAmmBlock") /\ at = "saveReserves" /\ UNCHANGED chainVars /\ ActionDone
        /\ tokenSaves' = tokenSaves /\ TokenEntity' = TokenEntity /\ TradeHistory' = TradeHistory
        /\ LpPointsEntity' = LpPointsEntity /\ BalanceEntity' = BalanceEntity
        /\ told' = told /\ tradeSaves' = tradeSaves
    BY DEF saveReserves, In
  <1>2. /\ ChainTypes /\ JobTypes /\ TableTypes /\ MarketsMade /\ LastIsKept /\ TradesMove
        /\ QueueFollows /\ RowsFirst /\ Progress /\ AccountsFollow /\ MarketsFollow /\ MarketsFill
        /\ TradesFollow /\ QueueInOrder /\ TradesOnce /\ ReservesInOrder
    BY DEF MarketInv
  <1>3. action_que # <<>> /\ Head(action_que).do = "processAmmBlock"
    BY <1>1 DEF Doing
  <1>4. PICK e \in TxRecords :
              /\ e = tx /\ WellFormed(e) /\ Amm(e)
              /\ e.token \in Tokens /\ e.by \in Accounts /\ e.pairs \in BOOLEAN
              /\ e.rswp \in Column /\ e.points \in Column
    BY <1>1, HeadAmm
  <1>5. /\ log' = log /\ handed' = handed /\ at' = "savePair" /\ entity' = None
        /\ replays' = replays /\ crashes' = crashes
    BY <1>1 DEF chainVars, ActionDone
  <1>6. PICK i \in DOMAIN log : i = Head(action_que).tx /\ log[i] = e
    BY <1>2, <1>3, <1>4, HeadFacts
  <1>7. ~e.pairs /\ ~KeyedIn(log, e.token)
    BY <1>4, <1>6 DEF WellFormed, KeyedIn
  <1>8. PICK pe : pe = IF e.rswp = None THEN PairEntity
                       ELSE [PairEntity EXCEPT ![Rswp] = [Pair(Rswp) EXCEPT !.reserves = e.rswp]]
    OBVIOUS
  <1>9. RswpSaved(e, pe)
    BY <1>2, <1>4, <1>8, SavesRswp
  <1>10. PairEntity' = pe
    BY <1>4, <1>8 DEF saveReserves
  <1>11. /\ pe \in [Tokens -> {None} \union PairRows]
         /\ \A t \in Tokens : PairEntity[t] # None => pe[t] # None
         /\ \A t \in Tokens : HasSymbol(PairEntity[t]) => HasSymbol(pe[t])
         /\ \A t \in Tokens : Full(PairEntity[t]) => Full(pe[t])
         /\ \A t \in Tokens : pe[t] # None =>
              /\ pe[t].price = None \/ (PairEntity[t] # None /\ pe[t].price = PairEntity[t].price)
              /\ pe[t].lp = None \/ (PairEntity[t] # None /\ pe[t].lp = PairEntity[t].lp)
    BY <1>2, <1>9, RswpRow DEF RswpSaved
  <1>12. ChainTypes' /\ MarketsMade' /\ LastIsKept' /\ TradesMove'
    BY <1>1, <1>2, ChainStays
  <1>13. JobTypes'
    <2>1. action_que' \in Seq([do : Actions, tx : Nat])
      BY <1>1, <1>2, <1>3, DonePops
    <2> QED  BY <1>1, <1>2, <1>5, <2>1 DEF JobTypes
  <1>14. TableTypes'
    BY <1>1, <1>2, <1>10, <1>11 DEF TableTypes
  <1>15. QueueFollows' /\ QueueInOrder' /\ Progress'
    BY <1>1, <1>2, <1>3, <1>5, DoneQueue
  <1>16. RowsFirst'
    BY <1>1, <1>2, <1>3, <1>4, <1>5, <1>7, <1>10, <1>11, DoneFirst
  <1>17. AccountsFollow'
    <2>1. \A a \in Accounts, t \in Tokens : PointsSet(tx, a, t) # None
            => LpPointsEntity[a][t] = PointsSet(tx, a, t)
      BY <1>1, <1>2 DEF Progress, PointsSet
    <2>2. \A a \in Accounts, t \in Tokens : BalanceEntity'[a][t] = BalanceEntity[a][t]
      BY <1>1
    <2> QED  BY <1>1, <1>2, <1>3, <2>1, <2>2, DoneAccounts
  <1>18. MarketsFollow'
    <2>1. PICK proc \in BOOLEAN : proc = (Head(action_que).do = "processAmmBlock")
      BY Zenon
    <2>2. proc
      BY <1>3, <2>1
    <2>3. ASSUME NEW t \in Tokens, KeyedIn(log, t), PairEntity'[t] # None
          PROVE  Leaves(e, t, proc)
      <3>1. e.token # t
        BY <1>7, <2>3
      <3>2. PriceSet(e, t) = None /\ LpSet(e, t) = None
        BY <3>1 DEF PriceSet, LpSet
      <3>3. CASE e.rswp = None \/ t # Rswp
        <4>1. PairEntity'[t] = PairEntity[t] /\ told'[t] = told[t]
          BY <1>1, <1>9, <1>10, <3>3 DEF RswpSaved
        <4>2. ReserveSet(e, t) = None
          BY <3>1, <3>3 DEF ReserveSet
        <4> QED  BY <2>2, <2>3, <3>1, <3>2, <4>1, <4>2 DEF Leaves
      <3>4. CASE e.rswp # None /\ t = Rswp
        <4>1. ReserveSet(e, t) = e.rswp /\ PairEntity'[t].reserves = e.rswp
          BY <1>9, <1>10, <3>1, <3>4 DEF ReserveSet, RswpSaved
        <4>2. /\ \/ PairEntity'[t].price = None
                 \/ PairEntity[t] # None /\ PairEntity'[t].price = PairEntity[t].price
              /\ \/ PairEntity'[t].lp = None
                 \/ PairEntity[t] # None /\ PairEntity'[t].lp = PairEntity[t].lp
          BY <1>10, <1>11, <2>3
        <4> QED  BY <2>2, <3>2, <3>4, <4>1, <4>2 DEF Leaves
      <3> QED  BY <3>3, <3>4
    <2>4. \A t \in Tokens : KeyedIn(log, t) /\ PairEntity'[t] # None =>
            Leaves(tx, t, Head(action_que).do = "processAmmBlock")
      BY <1>4, <2>1, <2>3, Zenon
    <2> QED  BY <1>1, <1>2, <1>3, <2>4, DoneMarkets
  <1>19. MarketsFill'
    BY <1>1, <1>2, <1>3, <1>4, <1>5, <1>7, <1>10, <1>11, DoneFill
  <1>20. GivenOnce' => GivenOnce
    BY <1>5 DEF GivenOnce
  <1>21. PICK que : que = action_que'
    OBVIOUS
  <1>22. /\ \A h, j : Unsaved(handed, action_que, h, j) /\ (h = "savePrice" \/ j # i)
                        => Unsaved(handed, que, "savePair", j)
         /\ \A h, j : Unsaved(handed, que, "savePair", j) => Unsaved(handed, action_que, h, j)
    <2>1. PICK m : Popped(action_que, que, m)
      BY <1>1, <1>2, <1>3, <1>21, DonePops
    <2>2. \A j : IsAt(action_que, 1, "processAmmBlock", j) => j = i
      BY <1>2, <1>3, <1>6, HeadFacts
    <2> QED  BY <2>1, <2>2, PoppedUnsaved
  <1>23. TradesFollow'
    <2> SUFFICES ASSUME NEW j \in DOMAIN log, Followed(log, j), ~Unsaved(handed, que, "savePair", j)
                 PROVE  Held(tradeSaves, TradeHistory, j)
      BY <1>1, <1>5, <1>21 DEF TradesFollow
    <2>1. j # i
      BY <1>6, <1>7 DEF Followed
    <2>2. ~Unsaved(handed, action_que, at, j)
      BY <1>22, <2>1
    <2> QED  BY <1>2, <2>2 DEF TradesFollow
  <1>24. TradesOnce'
    <2> SUFFICES ASSUME GivenOnce'
                 PROVE  /\ \A k \in DOMAIN tradeSaves :
                            /\ RowIsRight(log, handed, que, "savePair", tradeSaves[k])
                            /\ \A l \in DOMAIN tradeSaves :
                                 tradeSaves[l].hash = tradeSaves[k].hash => l = k
                            /\ \A l \in DOMAIN TradeHistory :
                                 TradeHistory[l].hash # tradeSaves[k].hash
                        /\ \A k \in DOMAIN TradeHistory :
                            /\ RowIsRight(log, handed, que, "savePair", TradeHistory[k])
                            /\ \A l \in DOMAIN TradeHistory :
                                 TradeHistory[l].hash = TradeHistory[k].hash => l = k
      BY <1>1, <1>5, <1>21 DEF TradesOnce
    <2>1. ASSUME NEW r, RowIsRight(log, handed, action_que, at, r)
          PROVE  RowIsRight(log, handed, que, "savePair", r)
      BY <1>22, <2>1 DEF RowIsRight
    <2> QED  BY <1>2, <1>20, <2>1 DEF TradesOnce
  <1>25. ReservesInOrder'
    <2>1. \A j \in DOMAIN log : Unsaved(handed, action_que, at, j) /\ j # i
                                  => Unsaved(handed', action_que', at', j)
      BY <1>5, <1>21, <1>22
    <2>2. \A j \in DOMAIN log : Unsaved(handed', action_que', at', j)
                                  => Unsaved(handed, action_que, at, j)
      BY <1>5, <1>21, <1>22
    <2>3. GivenOnce' => ~Unsaved(handed', action_que', at', i)
      <3>1. GivenOnce => ~Unsaved(handed, action_que, "savePrice", i)
        BY <1>2, <1>3, <1>6, HeadServed
      <3> QED  BY <1>5, <1>20, <1>21, <1>22, <3>1
    <2>4. \A j \in DOMAIN log : i < j /\ Amm(log[j]) => Unsaved(handed', action_que', at', j)
      <3>1. \A j \in DOMAIN log : i < j /\ Amm(log[j]) => Unsaved(handed, action_que, "savePrice", j)
        BY <1>2, <1>3, <1>6, HeadServed
      <3> QED  BY <1>5, <1>21, <1>22, <3>1
    <2>5. \A t \in Tokens : KeyedIn(log, t) /\ ReserveSet(log[i], t) # None =>
            PairEntity'[t] # None /\ PairEntity'[t].reserves = ReserveSet(log[i], t)
      BY <1>6, <1>7, <1>9, <1>10 DEF ReserveSet, RswpSaved
    <2>6. \A t \in Tokens : KeyedIn(log, t) /\ ReserveSet(log[i], t) = None /\ PairEntity[t] # None =>
            PairEntity'[t] # None /\ PairEntity'[t].reserves = PairEntity[t].reserves
      BY <1>6, <1>7, <1>9, <1>10 DEF ReserveSet, RswpSaved
    <2> QED  BY <1>2, <1>5, <1>20, <2>1, <2>2, <2>3, <2>4, <2>5, <2>6, ReservesMove
  <1> QED  BY <1>12, <1>13, <1>14, <1>15, <1>16, <1>17, <1>18, <1>19, <1>23, <1>24, <1>25
              DEF MarketInv

\* savePrice keeps the invariant.
LEMMA PriceKeeps ==
  ASSUME MarketInv, savePrice
  PROVE  MarketInv'
  <1>1. /\ Doing("processAmmBlock") /\ at = "savePrice" /\ UNCHANGED chainVars /\ ActionDone
        /\ tokenSaves' = tokenSaves /\ TokenEntity' = TokenEntity /\ TradeHistory' = TradeHistory
        /\ LpPointsEntity' = LpPointsEntity /\ BalanceEntity' = BalanceEntity
        /\ tradeSaves' = tradeSaves
    BY DEF savePrice, In
  <1>2. /\ ChainTypes /\ JobTypes /\ TableTypes /\ MarketsMade /\ LastIsKept /\ TradesMove
        /\ QueueFollows /\ RowsFirst /\ Progress /\ AccountsFollow /\ MarketsFollow /\ MarketsFill
        /\ TradesFollow /\ QueueInOrder /\ TradesOnce /\ ReservesInOrder
    BY DEF MarketInv
  <1>3. action_que # <<>> /\ Head(action_que).do = "processAmmBlock"
    BY <1>1 DEF Doing
  <1>4. PICK e \in TxRecords :
              /\ e = tx /\ WellFormed(e) /\ Amm(e)
              /\ e.token \in Tokens /\ e.by \in Accounts /\ e.pairs \in BOOLEAN
              /\ e.reserve \in Int /\ e.price \in Column /\ e.lp \in Column
              /\ e.rswp \in Column /\ e.points \in Column
    BY <1>1, HeadAmm
  <1>5. /\ log' = log /\ handed' = handed /\ at' = "savePair" /\ entity' = None
        /\ replays' = replays /\ crashes' = crashes
    BY <1>1 DEF chainVars, ActionDone
  <1>6. PICK u \in Tokens : u = e.token
    BY <1>4
  <1>7. PICK r \in PairRows : r = PairEntity[u] /\ r # None
    <2>1. PairEntity[u] # None
      BY <1>1, <1>2, <1>4, <1>6 DEF Progress
    <2> QED  BY <1>2, <2>1 DEF TableTypes
  <1>8. /\ e.by \in KeyHolders /\ r.reserves = e.reserve
        /\ e.price # None => r.price = e.price
        /\ e.lp # None => r.lp = e.lp
        /\ e.rswp # None => PairEntity[Rswp] # None /\ PairEntity[Rswp].reserves = e.rswp
        /\ told[u] = Metrics(r)
    BY <1>1, <1>2, <1>4, <1>6, <1>7 DEF Progress
  \* The price is in the row already, and the clients know it.
  <1>9. PairEntity' = PairEntity /\ told' = told
    <2>1. CASE e.price = None
      BY <1>4, <2>1 DEF savePrice
    <2>2. CASE e.price # None
      <3>1. PICK s : s = [r EXCEPT !.price = e.price]
        OBVIOUS
      <3>2. s = r
        BY <1>8, <2>2, <3>1 DEF PairRows
      <3>3. Pair(u) = r
        BY <1>7 DEF Pair
      <3>4. PairEntity' = [PairEntity EXCEPT ![u] = s] /\ told' = [told EXCEPT ![u] = Metrics(s)]
        BY <1>4, <1>6, <2>2, <3>1, <3>3 DEF savePrice, metrics_update
      <3>5. PICK M : M = Metrics(r)
        OBVIOUS
      <3>6. told' = [told EXCEPT ![u] = M] /\ told[u] = M
        BY <1>8, <3>2, <3>4, <3>5
      <3>7. PairEntity' = [PairEntity EXCEPT ![u] = r]
        BY <3>2, <3>4
      <3>8. PICK MS : MS = {None} \union [reserves : Column, price : Column, lp : Column]
        OBVIOUS
      <3>9. told \in [Tokens -> MS]
        BY <1>2, <3>8 DEF TableTypes
      <3>10. told' = told
        BY <3>6, <3>9
      <3>11. PICK PS : PS = {None} \union PairRows
        OBVIOUS
      <3>12. PairEntity \in [Tokens -> PS]
        BY <1>2, <3>11 DEF TableTypes
      <3>13. PairEntity' = PairEntity
        BY <1>7, <3>7, <3>12
      <3> QED  BY <3>10, <3>13
    <2> QED  BY <2>1, <2>2
  <1>10. e.pairs => Full(PairEntity[u])
    <2>1. e.pairs => HasSymbol(PairEntity[u])
      BY <1>1, <1>2, <1>4, <1>6 DEF Progress
    <2>2. e.pairs => e.reserve # None /\ e.price # None /\ e.lp # None
      BY <1>4 DEF WellFormed
    <2> QED  BY <1>7, <1>8, <2>1, <2>2 DEF Full
  <1>11. ChainTypes' /\ MarketsMade' /\ LastIsKept' /\ TradesMove'
    BY <1>1, <1>2, ChainStays
  <1>12. JobTypes'
    <2>1. action_que' \in Seq([do : Actions, tx : Nat])
      BY <1>1, <1>2, <1>3, DonePops
    <2> QED  BY <1>1, <1>2, <1>5, <2>1 DEF JobTypes
  <1>13. TableTypes'
    BY <1>1, <1>2, <1>9 DEF TableTypes
  <1>14. QueueFollows' /\ QueueInOrder' /\ Progress'
    BY <1>1, <1>2, <1>3, <1>5, DoneQueue
  <1>15. RowsFirst'
    <2>1. tx.pairs => HasSymbol(PairEntity'[tx.token])
      BY <1>4, <1>6, <1>9, <1>10 DEF Full
    <2> QED  BY <1>1, <1>2, <1>3, <1>5, <1>9, <2>1, DoneFirst
  <1>16. AccountsFollow'
    <2>1. \A a \in Accounts, t \in Tokens : PointsSet(tx, a, t) # None
            => LpPointsEntity[a][t] = PointsSet(tx, a, t)
      BY <1>1, <1>2 DEF Progress, PointsSet
    <2>2. \A a \in Accounts, t \in Tokens : BalanceEntity'[a][t] = BalanceEntity[a][t]
      BY <1>1
    <2> QED  BY <1>1, <1>2, <1>3, <2>1, <2>2, DoneAccounts
  <1>17. MarketsFollow'
    <2>1. PICK proc \in BOOLEAN : proc = (Head(action_que).do = "processAmmBlock")
      BY Zenon
    <2>2. ASSUME NEW t \in Tokens, PairEntity'[t] # None
          PROVE  Leaves(e, t, proc)
      <3>1. PairEntity'[t] = PairEntity[t] /\ told'[t] = told[t]
        BY <1>9
      <3>2. CASE t = u
        <4>1. ReserveSet(e, t) = e.reserve /\ PriceSet(e, t) = e.price /\ LpSet(e, t) = e.lp
          BY <1>6, <3>2 DEF ReserveSet, PriceSet, LpSet
        <4>2. told'[t] = Metrics(PairEntity'[t])
          BY <1>7, <1>8, <3>1, <3>2
        <4>3. PairEntity'[t] = r
          BY <1>7, <3>1, <3>2
        <4> QED  BY <1>7, <1>8, <2>2, <3>1, <4>1, <4>2, <4>3 DEF Leaves
      <3>3. CASE t # u
        <4>1. PriceSet(e, t) = None /\ LpSet(e, t) = None
          BY <1>6, <3>3 DEF PriceSet, LpSet
        <4>2. ReserveSet(e, t) # None => PairEntity[t].reserves = ReserveSet(e, t)
          BY <1>6, <1>8, <3>3 DEF ReserveSet
        <4> QED  BY <1>6, <2>2, <3>1, <3>3, <4>1, <4>2 DEF Leaves
      <3> QED  BY <3>2, <3>3
    <2>3. \A t \in Tokens : KeyedIn(log, t) /\ PairEntity'[t] # None =>
            Leaves(tx, t, Head(action_que).do = "processAmmBlock")
      BY <1>4, <2>1, <2>2, Zenon
    <2> QED  BY <1>1, <1>2, <1>3, <2>3, DoneMarkets
  <1>18. MarketsFill'
    <2>1. tx.pairs => Full(PairEntity'[tx.token])
      BY <1>4, <1>6, <1>9, <1>10
    <2> QED  BY <1>1, <1>2, <1>3, <1>5, <1>9, <2>1, DoneFill
  <1>19. TradesFollow' /\ TradesOnce' /\ ReservesInOrder'
    BY <1>1, <1>2, <1>3, <1>5, <1>9, DoneHistory
  <1> QED  BY <1>11, <1>12, <1>13, <1>14, <1>15, <1>16, <1>17, <1>18, <1>19 DEF MarketInv

-----------------------------------------------------------------------------
(* The invariant *)

\* At the start nothing has happened, nothing is queued and the tables are empty.
LEMMA InitMarketInv == IndexInit => MarketInv
  <1> SUFFICES ASSUME IndexInit PROVE MarketInv
    OBVIOUS
  <1>1. /\ log = <<>> /\ DOMAIN log = {} /\ Len(log) = 0
        /\ action_que = <<>> /\ DOMAIN action_que = {}
        /\ tokenSaves = <<>> /\ DOMAIN tokenSaves = {} /\ tradeSaves = <<>>
        /\ DOMAIN tradeSaves = {} /\ TradeHistory = <<>> /\ DOMAIN TradeHistory = {}
        /\ handed = 0 /\ at = "savePair" /\ entity = None /\ replays = 0 /\ crashes = 0
    BY DEF IndexInit
  <1>2. /\ points = [a \in Accounts |-> [t \in Tokens |-> 0]]
        /\ balance = [a \in Accounts |-> [t \in Tokens |-> MaxReserve]]
        /\ symbol = [t \in Tokens |-> IF t \in Old THEN 0 ELSE None]
        /\ TokenEntity = [t \in Tokens |-> None] /\ PairEntity = [t \in Tokens |-> None]
        /\ LpPointsEntity = [a \in Accounts |-> [t \in Tokens |-> None]]
        /\ BalanceEntity = [a \in Accounts |-> [t \in Tokens |-> None]]
        /\ told = [t \in Tokens |-> None]
    BY DEF IndexInit
  <1>3. MaxReserve \in Int /\ None \notin Int /\ Old \subseteq Tokens
    BY IndexAssumption
  <1>4. PICK one : one = [reserve |-> 1, price |-> 1, lp |-> 1]
    OBVIOUS
  <1>5. /\ one \in [reserve : Int, price : Int, lp : Int]
        /\ one \in [reserve : Column, price : Column, lp : Column]
        /\ NoMarket \in [reserve : Column, price : Column, lp : Column]
        /\ one # NoMarket
    <2>1. one.reserve = 1 /\ NoMarket.reserve = None
      BY <1>4 DEF NoMarket
    <2> QED  BY <1>3, <1>4, <2>1 DEF NoMarket, Column
  <1>6. market = [t \in Tokens |-> IF t \in Old THEN one ELSE NoMarket]
    BY <1>4 DEF IndexInit
  <1>7. ChainTypes
    <2>1. log \in Seq(TxRecords)
      BY <1>1
    <2>2. market \in [Tokens -> [reserve : Column, price : Column, lp : Column]]
      BY <1>5, <1>6
    <2> QED  BY <1>2, <1>3, <2>1, <2>2 DEF ChainTypes
  <1>8. JobTypes
    BY <1>1 DEF JobTypes
  <1>9. TableTypes
    <2>1. TradeHistory \in Seq(TradeRows)
      BY <1>1
    <2>2. /\ LpPointsEntity \in [Accounts -> [Tokens -> Column]]
          /\ BalanceEntity \in [Accounts -> [Tokens -> Column]]
      BY <1>2 DEF Column
    <2>3. told \in [Tokens -> {None} \union [reserves : Column, price : Column, lp : Column]]
      BY <1>2
    <2>4. /\ TokenEntity \in [Tokens -> {None} \union TokenRows]
          /\ PairEntity \in [Tokens -> {None} \union PairRows]
      BY <1>2
    <2> QED  BY <2>1, <2>2, <2>3, <2>4 DEF TableTypes
  <1>10. MarketsMade
    <2>1. \A t \in Tokens : Exists(t) => market[t] \in [reserve : Int, price : Int, lp : Int]
      BY <1>5, <1>6 DEF Exists
    <2>2. \A t \in Old : Exists(t)
      BY <1>3, <1>5, <1>6 DEF Exists
    <2>3. \A t \in Tokens \ Old : symbol[t] = None
      BY <1>2
    <2> QED  BY <1>1, <2>1, <2>2, <2>3 DEF MarketsMade
  <1>11. LastIsKept
    BY <1>1 DEF LastIsKept
  <1>12. TradesMove
    BY <1>1 DEF TradesMove, MadeIn
  <1>13. QueueFollows /\ RowsFirst
    BY <1>1 DEF QueueFollows, RowsFirst
  <1>14. Progress
    BY <1>1 DEF Progress
  <1>15. AccountsFollow
    BY <1>2 DEF AccountsFollow
  <1>16. MarketsFollow /\ MarketsFill
    BY <1>1, <1>2 DEF MarketsFollow, MarketsFill
  <1>17. TradesFollow /\ QueueInOrder /\ TradesOnce /\ ReservesInOrder
    BY <1>1 DEF TradesFollow, QueueInOrder, TradesOnce, ReservesInOrder
  <1> QED  BY <1>7, <1>8, <1>9, <1>10, <1>11, <1>12, <1>13, <1>14, <1>15, <1>16, <1>17
              DEF MarketInv

\* A step that changes nothing keeps the invariant.
LEMMA StutterKeeps ==
  ASSUME MarketInv, UNCHANGED indexVars
  PROVE  MarketInv'
  <1>1. /\ ChainTypes /\ JobTypes /\ TableTypes /\ MarketsMade /\ LastIsKept /\ TradesMove
        /\ QueueFollows /\ RowsFirst /\ Progress /\ AccountsFollow /\ MarketsFollow /\ MarketsFill
        /\ TradesFollow /\ QueueInOrder /\ TradesOnce /\ ReservesInOrder
    BY DEF MarketInv
  <1>2. /\ UNCHANGED chainVars /\ UNCHANGED rows
        /\ log' = log /\ handed' = handed /\ action_que' = action_que
        /\ at' = at /\ entity' = entity /\ replays' = replays /\ crashes' = crashes
        /\ tokenSaves' = tokenSaves /\ tradeSaves' = tradeSaves
        /\ TokenEntity' = TokenEntity /\ TradeHistory' = TradeHistory
        /\ PairEntity' = PairEntity /\ LpPointsEntity' = LpPointsEntity
        /\ BalanceEntity' = BalanceEntity /\ told' = told
    BY DEF indexVars, chainVars, jobVars, rows
  <1>3. ChainTypes' /\ MarketsMade' /\ LastIsKept' /\ TradesMove'
    BY <1>1, <1>2, ChainStays
  <1>4. JobTypes' /\ TableTypes'
    BY <1>1, <1>2 DEF JobTypes, TableTypes
  <1>5. QueueFollows' /\ QueueInOrder' /\ RowsFirst'
    BY <1>1, <1>2, QueueStays
  <1>6. Progress'
    <2>1. tx' = tx
      BY <1>2 DEF tx
    <2> QED  BY <1>1, <1>2, <2>1 DEF Progress
  <1>7. AccountsFollow' /\ MarketsFollow' /\ MarketsFill'
    BY <1>1, <1>2, RowsStay
  <1>8. TradesFollow' /\ TradesOnce' /\ ReservesInOrder'
    <2>1. \A i : Unsaved(handed, action_que, at, i) <=> Unsaved(handed', action_que', at', i)
      BY <1>2 DEF Unsaved
    <2>2. GivenOnce' => GivenOnce
      BY <1>2 DEF GivenOnce
    <2> QED  BY <1>1, <1>2, <2>1, <2>2, HistoryStays
  <1> QED  BY <1>3, <1>4, <1>5, <1>6, <1>7, <1>8 DEF MarketInv

\* Every step keeps the invariant.
LEMMA NextMarketInv == MarketInv /\ [IndexNext]_indexVars => MarketInv'
  <1> SUFFICES ASSUME MarketInv, [IndexNext]_indexVars PROVE MarketInv'
    OBVIOUS
  <1>1. CASE ChainStep
    BY <1>1, ChainKeeps
  <1>2. CASE parseBlock
    BY <1>2, ParseKeeps
  <1>3. CASE Replay
    BY <1>3, ReplayKeeps
  <1>4. CASE Crash
    BY <1>4, CrashKeeps
  <1>5. CASE saveTransfer
    BY <1>5, TransferKeeps
  <1>6. CASE saveToken
    BY <1>6, TokenKeeps
  <1>7. CASE saveTokenUpdate
    BY <1>7, TokenUpdateKeeps
  <1>8. CASE \E k \in DOMAIN tokenSaves : TokenUpdateStep(k)
    BY <1>8, TokenStepKeeps
  <1>9. CASE savePair
    BY <1>9, SavePairKeeps
  <1>10. CASE saveHasMarket
    BY <1>10, HasMarketKeeps
  <1>11. CASE insertPair
    BY <1>11, InsertPairKeeps
  <1>12. CASE savePairLp
    BY <1>12, PairLpKeeps
  <1>13. CASE saveUserLp
    BY <1>13, UserLpKeeps
  <1>14. CASE saveReserves
    BY <1>14, KeyedKeeps, ThrowKeeps
  <1>15. CASE savePrice
    BY <1>15, PriceKeeps
  <1>16. CASE \E k \in DOMAIN tradeSaves : InsertTrade(k)
    BY <1>16, InsertKeeps
  <1>17. CASE UNCHANGED indexVars
    BY <1>17, StutterKeeps
  <1> QED  BY <1>1, <1>2, <1>3, <1>4, <1>5, <1>6, <1>7, <1>8, <1>9, <1>10, <1>11, <1>12, <1>13,
              <1>14, <1>15, <1>16, <1>17 DEF IndexNext

\* In every state each table is where the chain left it, or a transaction that sets
\* what it has otherwise is still to be handed over or queued; a trade is in the
\* history or on its way there.
THEOREM MarketInductive == IndexSpec => []MarketInv
  BY InitMarketInv, NextMarketInv, PTL DEF IndexSpec

\* The invariant gives the types of the tables.
LEMMA MarketInvTypes == MarketInv => IndexTypeOK
  <1> SUFFICES ASSUME MarketInv PROVE IndexTypeOK
    OBVIOUS
  <1>1. ChainTypes /\ JobTypes /\ TableTypes /\ QueueFollows
    BY DEF MarketInv
  <1>2. \A e \in TxRecords : e.by \in Accounts
    BY DEF TxRecords
  <1>3. \A i \in DOMAIN log : log[i] \in TxRecords
    BY <1>1 DEF ChainTypes
  <1>4. \A k \in DOMAIN action_que : action_que[k].tx \in DOMAIN log
    BY <1>1 DEF QueueFollows
  <1> QED  BY <1>1, <1>2, <1>3, <1>4 DEF IndexTypeOK, JobTypes, TableTypes

\* At rest no transaction waits.
LEMMA NothingWaits ==
  ASSUME MarketInv, IndexAtRest
  PROVE  /\ \A do : \A j \in DOMAIN log : ~Waits(handed, action_que, do, j)
         /\ \A j \in DOMAIN log : ~Unsaved(handed, action_que, at, j)
         /\ \A t : MadeIn(log, t) <=> Seen(t)
         /\ \A t : KeyedIn(log, t) <=> OnlyKeyHolders(t)
  <1>1. /\ handed = Len(log) /\ DOMAIN action_que = {} /\ DOMAIN log = 1 .. Len(log)
        /\ Len(log) \in Nat
    BY DEF MarketInv, ChainTypes, IndexAtRest
  <1>2. \A j \in DOMAIN log : ~(j > handed)
    BY <1>1
  <1>3. \A do : \A j \in DOMAIN log : ~Waits(handed, action_que, do, j)
    BY <1>1, <1>2 DEF Waits, Queued
  <1>4. \A j \in DOMAIN log : ~Unsaved(handed, action_que, at, j)
    BY <1>1, <1>2 DEF Unsaved
  <1>5. \A t : MadeIn(log, t) <=> Seen(t)
    BY DEF MadeIn, Seen, TxsOf
  <1>6. \A t : KeyedIn(log, t) <=> OnlyKeyHolders(t)
    BY DEF KeyedIn, OnlyKeyHolders, TxsOf
  <1> QED  BY <1>3, <1>4, <1>5, <1>6

\* At rest the tables are where the chain is,
LEMMA MarketInvSettles == MarketInv => MarketsSettle
  <1> SUFFICES ASSUME MarketInv, IndexAtRest, NEW t \in Tokens
               PROVE  /\ OnlyKeyHolders(t) /\ PairEntity[t] # None =>
                           /\ PairEntity[t].reserves \in {None, market[t].reserve}
                           /\ PairEntity[t].price \in {None, market[t].price}
                           /\ PairEntity[t].lp \in {None, market[t].lp}
                      /\ OnlyKeyHolders(t) /\ Seen(t) =>
                           PairEntity[t] # None /\ \A c \in DOMAIN NoPair : PairEntity[t][c] # None
                      /\ \A a \in Accounts :
                           /\ BalanceEntity[a][t] \in {None, balance[a][t]}
                           /\ LpPointsEntity[a][t] \in {None, points[a][t]}
    BY DEF MarketsSettle
  <1>1. /\ AccountsFollow /\ MarketsFollow /\ MarketsFill
    BY DEF MarketInv
  <1>2. /\ \A do : \A j \in DOMAIN log : ~Waits(handed, action_que, do, j)
        /\ MadeIn(log, t) <=> Seen(t)
        /\ KeyedIn(log, t) <=> OnlyKeyHolders(t)
    BY NothingWaits
  <1>3. ASSUME KeyedIn(log, t), PairEntity[t] # None
        PROVE  /\ PairEntity[t].reserves \in {None, market[t].reserve}
               /\ PairEntity[t].price \in {None, market[t].price}
               /\ PairEntity[t].lp \in {None, market[t].lp}
    BY <1>1, <1>2, <1>3 DEF MarketsFollow
  <1>4. ASSUME MadeIn(log, t)
        PROVE  PairEntity[t] # None /\ \A c \in DOMAIN NoPair : PairEntity[t][c] # None
    <2>1. PICK c \in DOMAIN log : log[c].token = t /\ log[c].pairs
      BY <1>4 DEF MadeIn
    <2>2. Full(PairEntity[t])
      BY <1>1, <1>2, <2>1 DEF MarketsFill
    <2>3. /\ PairEntity[t] # None /\ PairEntity[t].token_symbol # None
          /\ PairEntity[t].reserves # None /\ PairEntity[t].price # None /\ PairEntity[t].lp # None
      BY <2>2 DEF Full, HasSymbol
    <2>4. DOMAIN NoPair = {"reserves", "price", "lp", "token_symbol"}
      BY DEF NoPair
    <2> QED  BY <2>3, <2>4
  <1>5. \A a \in Accounts :
          /\ BalanceEntity[a][t] \in {None, balance[a][t]}
          /\ LpPointsEntity[a][t] \in {None, points[a][t]}
    BY <1>1, <1>2 DEF AccountsFollow
  <1> QED  BY <1>2, <1>3, <1>4, <1>5

\* the clients have been told what the tables have,
LEMMA MarketInvTells == MarketInv => ClientsSettle
  <1> SUFFICES ASSUME MarketInv, IndexAtRest, NEW t \in Tokens \ {Rswp},
                      PairEntity[t] # None, OnlyKeyHolders(t)
               PROVE  told[t] = Metrics(PairEntity[t])
    BY DEF ClientsSettle
  <1>1. MarketsFollow
    BY DEF MarketInv
  <1> QED  BY <1>1, NothingWaits DEF MarketsFollow

\* and the trades are in the history.
LEMMA MarketInvTrades == MarketInv => TradesKept
  <1> SUFFICES ASSUME MarketInv, IndexAtRest, NEW i \in Trades,
                      Seen(log[i].token), OnlyKeyHolders(log[i].token)
               PROVE  /\ RowsOf(i) # {}
                      /\ replays + crashes = 0 =>
                           /\ \A j, k \in RowsOf(i) : j = k
                           /\ \A k \in RowsOf(i) : TradeHistory[k].amount = log[i].moved
    BY DEF TradesKept
  <1>1. TradesFollow /\ TradesOnce
    BY DEF MarketInv
  <1>2. i \in DOMAIN log /\ Followed(log, i)
    BY NothingWaits DEF Trades, Followed, IsTrade
  <1>3. Held(tradeSaves, TradeHistory, i)
    BY <1>1, <1>2, NothingWaits DEF TradesFollow
  <1>4. DOMAIN tradeSaves = {}
    BY DEF IndexAtRest
  <1>5. RowsOf(i) # {}
    BY <1>3, <1>4 DEF Held, RowsOf
  <1>6. ASSUME GivenOnce
        PROVE  /\ \A j, k \in RowsOf(i) : j = k
               /\ \A k \in RowsOf(i) : TradeHistory[k].amount = log[i].moved
    BY <1>1, <1>2, <1>6 DEF TradesOnce, RowsOf, RowIsRight
  <1> QED  BY <1>5, <1>6 DEF GivenOnce

\* The tables have their types in every state, for any number of transactions,
\* replays and crashes.
THEOREM TablesAreTyped == IndexSpec => []IndexTypeOK
  BY MarketInductive, MarketInvTypes, PTL

\* Once everything is handed over and dealt with, reserves, prices, points and
\* balances are what the last transactions set, whatever replays and crashes went
\* before.
THEOREM MarketsSettleAtRest == IndexSpec => []MarketsSettle
  BY MarketInductive, MarketInvSettles, PTL

\* The last metrics_update of a market has what its row has.
THEOREM ClientsAreTold == IndexSpec => []ClientsSettle
  BY MarketInductive, MarketInvTells, PTL

\* The history has every trade of a market that was seen from its making on, and
\* given once, once and with the amount that it moved.
THEOREM TradesAreKept == IndexSpec => []TradesKept
  BY MarketInductive, MarketInvTrades, PTL

=============================================================================
