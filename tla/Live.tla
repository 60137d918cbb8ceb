---------------------------------- MODULE Live ---------------------------------
(***************************************************************************)
(* A page of the web client on its connection to the gateway: its feeds    *)
(* and the chat, which share the connection and its order.                 *)
(***************************************************************************)
EXTENDS Feeds, Chat

CONSTANTS Budgets  \* bound: how often a price changes, somebody trades, the user
                   \* opens pages and chooses tokens, somebody acts in the
                   \* chat, a day passes, the connection breaks

VARIABLES previously_connected,
          acts  \* bound: what is left of that

vars == <<socketVars, feedVars, chatVars, previously_connected, acts>>

Init ==
  /\ SocketInit /\ FeedsInit /\ ChatInit
  /\ previously_connected = FALSE
  /\ acts \in Budgets

\* The first connection joins the chat and the feeds every page has; a later
\* one joins nothing.
handleConnect ==
  LET first == ~previously_connected IN
  /\ ~connected
  /\ connected' = TRUE /\ socket_id' = socket_id + 1
  /\ up' = IF first THEN <<Room("trollbox", None)>> \o Joined(Rswp) \o Joined(Tau) \o up ELSE up
  /\ joinedFeeds' = IF first THEN joinedFeeds \union {Rswp, Tau} ELSE joinedFeeds
  /\ previously_connected' = TRUE
  /\ UNCHANGED <<down, row, updating, shown, missed, tradeFeedVars, chatVars, acts>>

\* Whatever is on its way is lost.
Disconnect ==
  /\ connected
  /\ connected' = FALSE /\ up' = <<>> /\ down' = <<>>
  /\ FeedsDisconnect /\ ChatDisconnect
  /\ UNCHANGED socket_id

Spend(kind) ==
  /\ acts[kind] > 0
  /\ acts' = [acts EXCEPT ![kind] = @ - 1]
  /\ UNCHANGED previously_connected

Next ==
  \/ Spend("prices") /\ RowsApi /\ UNCHANGED chatVars
  \/ Spend("trades") /\ TradesApi /\ UNCHANGED chatVars
  \/ Spend("pages") /\ RowsUser /\ UNCHANGED chatVars
  \/ Spend("swaps") /\ TradesUser /\ UNCHANGED chatVars
  \/ Spend("chat") /\ (ChatUser \/ ChatOthers) /\ UNCHANGED feedVars
  \/ Spend("days") /\ Tomorrow /\ UNCHANGED feedVars
  \/ FeedsStep /\ UNCHANGED <<chatVars, previously_connected, acts>>
  \/ ChatStep /\ UNCHANGED <<feedVars, previously_connected, acts>>
  \/ handleConnect
  \/ Spend("breaks") /\ Disconnect

Spec == Init /\ [][Next]_vars
===============================================================================
