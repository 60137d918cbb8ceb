---------------------------- MODULE ActionQueue ----------------------------
(***************************************************************************)
(* The parser's action queue (parser.provider.ts).  Handlers that write    *)
(* the API's database are not run when a transaction arrives: they are     *)
(* pushed on action_que, and executeActionQue awaits them one after the    *)
(* other.  A rejected action is logged and dropped like a finished one.    *)
(***************************************************************************)
EXTENDS Naturals, Sequences, SequencesExt

VARIABLES
  action_que,             \* actions outstanding; the first may be in progress
  action_que_processing,
  executing,              \* actions that a call of executeActionQue awaits
  applied,                \* actions that took effect, by their last time
  dropped                 \* actions that threw, or were lost, the last time

queueVars == <<action_que, action_que_processing, executing, applied, dropped>>

QueueInit ==
  /\ action_que = <<>>
  /\ action_que_processing = FALSE
  /\ executing = <<>>
  /\ applied = <<>>
  /\ dropped = {}

Later(order, a) == Append(RemoveFirst(order, a), a)

\* One call of executeActionQue up to its first await, on the queue q while
\* the calls in running await theirs.
executeActionQue(q, running) ==
  /\ action_que' = q
  /\ action_que_processing' = (q # <<>>)
  /\ executing' = IF q = <<>> THEN running ELSE Append(running, Head(q))

\* Slip: action_que_processing is not looked at.
addToActionQue_noFlag(a) ==
  /\ executeActionQue(Append(action_que, a), executing)
  /\ UNCHANGED <<applied, dropped>>

\* Slip: an action is only queued when the queue is idle.
addToActionQue_whenIdle(a) ==
  /\ IF action_que_processing
       THEN UNCHANGED <<action_que, action_que_processing, executing>>
       ELSE executeActionQue(Append(action_que, a), executing)
  /\ UNCHANGED <<applied, dropped>>

addToActionQue(a) ==
  /\ IF action_que_processing
       THEN /\ action_que' = Append(action_que, a)
            /\ UNCHANGED <<action_que_processing, executing>>
       ELSE executeActionQue(Append(action_que, a), executing)
  /\ UNCHANGED <<applied, dropped>>

\* An awaited action settles and the queue moves on: splice(0, 1).
MoveOn(k) ==
  executeActionQue(IF action_que = <<>> THEN <<>> ELSE Tail(action_que), RemoveAt(executing, k))

Finish(k) ==
  /\ MoveOn(k)
  /\ applied' = Later(applied, executing[k])
  /\ dropped' = dropped \ {executing[k]}

\* Slip: a rejected action is removed, the queue not resumed.
Reject_stalls(k) ==
  /\ action_que' = Tail(action_que)
  /\ executing' = RemoveAt(executing, k)
  /\ dropped' = dropped \union {executing[k]}
  /\ UNCHANGED <<action_que_processing, applied>>

Reject(k) ==
  /\ MoveOn(k)
  /\ dropped' = dropped \union {executing[k]}
  /\ UNCHANGED applied

\* The process dies: the queue was in memory, what was applied is not.
QueueLost ==
  /\ action_que' = <<>>
  /\ action_que_processing' = FALSE
  /\ executing' = <<>>
  /\ dropped' = dropped \union Range(action_que)
  /\ UNCHANGED applied

\* Actions run one at a time, in the order they were added, and an action
\* that waits is always behind one that is being awaited: the comment above
\* executeActionQue wants the queue to rule out races between handlers.
OneAtATime ==
  /\ Len(executing) <= 1
  /\ executing # <<>> => action_que # <<>> /\ executing[1] = Head(action_que)
  /\ action_que # <<>> => executing # <<>>
=============================================================================
