------------------------------- MODULE LiveProofs -------------------------------
(***************************************************************************)
(* What a page shows of its connection to the gateway, proved: rows settle *)
(* on the tables, trades are shown once, a sign-on is answered, and tokens *)
(* end, and messages are listed once and in order, for any markets, any    *)
(* number of updates, messages and days, and with a connection that breaks *)
(* as often as it may.  The last part is about the rounds that work out    *)
(* the circulating supplies and the markets' summaries.                    *)
(***************************************************************************)
EXTENDS Live, Metrics, TallyTheorems, FiniteSetTheorems, SequenceTheorems, TLAPS

(* What is on its way *)

Rooms == [prefix : {"row"}, subject : Rows] \union [prefix : {"trade_feed"}, subject : Tokens]
           \union {Room("trollbox", None)}

IsSeq(s) == \E S : s \in Seq(S)

\* Nothing comes from a connection that is not there.
Carried ==
  /\ up \in Seq(Rooms) /\ IsSeq(down)
  /\ connected \in BOOLEAN /\ socket_id \in Nat
  /\ connected => socket_id > 0
  /\ ~connected => down = <<>>

Places == 1 .. Len(down)

\* The event at place i has this name and is about x.
About(i, name, x) == down[i].name = name /\ down[i].of = x

LastAbout(i, name, x) ==
  About(i, name, x) /\ \A j \in Places : j > i => ~About(j, name, x)

NoneAbout(name, x) == \A i \in Places : ~About(i, name, x)

Asked(prefix, x) == Room(prefix, x) \in ToSet(up)

-----------------------------------------------------------------------------
(* The rows *)

RowTypes ==
  /\ row \in [Rows -> Nat] /\ shown \in [Rows -> Nat]
  /\ updating \in [Rows -> {None, "trade", "saved"}]
  /\ joinedFeeds \subseteq Rows
  /\ \A f \in Rows : shown[f] <= row[f]
  /\ \A i \in Places : down[i].name = "update" =>
       down[i].of \in Rows /\ down[i].says \in 0 .. row[down[i].of]

\* The last word about a row that is on its way is what the table has, unless
\* another one is about to be told.
LastWord ==
  \A f \in Rows \ {Staking} : \A i \in Places :
    LastAbout(i, "update", f) => down[i].says = row[f] \/ updating[f] = "saved"

\* What the client shows is the last word where no other is on its way.
ShownIsLast ==
  \A f \in (joinedFeeds \ missed) \ {Staking} :
    NoneAbout("update", f) /\ ~Asked("row", f) =>
      shown[f] = row[f] \/ updating[f] = "saved"

RowsInv == RowTypes /\ LastWord /\ ShownIsLast

-----------------------------------------------------------------------------
(* The trades *)

\* Trades are numbered, whatever their market.
Trades == Tokens \X (Nat \ {0})

TradeTypes ==
  /\ trades \in Nat /\ early \subseteq Trades
  /\ TradeHistory \in [Tokens -> SUBSET Trades] /\ tradeSaves \subseteq Trades
  /\ tradeHistory \in [Tokens -> SUBSET Trades] /\ tradeUpdates \in [Tokens -> Seq(Trades)]
  /\ listeners \in [Tokens -> Nat] /\ asked \subseteq Tokens
  /\ {selectedToken, current_trade_feed} \subseteq Tokens \union {None}
  /\ \A t \in Tokens : \A x \in TradeHistory[t] : x[1] = t /\ x[2] <= trades
  /\ \A x \in tradeSaves \union early : x[2] <= trades
  /\ \A t \in Tokens : tradeHistory[t] \subseteq TradeHistory[t]

\* Trades come in the order of their numbers, and a history has what was inserted.
InOrder ==
  /\ \A i \in Places : down[i].name = "trade" =>
       /\ down[i].of \in Tokens /\ down[i].says \in Trades
       /\ down[i].says[1] = down[i].of /\ down[i].says[2] <= trades
  /\ \A i, j \in Places : i < j /\ down[i].name = "trade" /\ down[j].name = "trade" =>
       down[i].says[2] < down[j].says[2]
  /\ \A i \in Places : down[i].name = "history" =>
       down[i].of \in Tokens /\ down[i].says \subseteq TradeHistory[down[i].of]

\* A market that is listened to once, or not, has its trades listed in order
\* and ahead of those on their way.
ListsInOrder ==
  \A t \in Tokens : listeners[t] <= 1 =>
    /\ \A k \in 1 .. Len(tradeUpdates[t]) :
         tradeUpdates[t][k][1] = t /\ tradeUpdates[t][k][2] <= trades
    /\ \A k, l \in 1 .. Len(tradeUpdates[t]) :
         k < l => tradeUpdates[t][k][2] < tradeUpdates[t][l][2]
    /\ \A k \in 1 .. Len(tradeUpdates[t]), i \in Places :
         About(i, "trade", t) => tradeUpdates[t][k][2] < down[i].says[2]
    /\ listeners[t] = 0 => tradeUpdates[t] = <<>> /\ tradeHistory[t] = {}

\* The market whose trades are kept: the last that was joined, or that of the page.
Held(t) == current_trade_feed = t \/ (selectedToken = t /\ t \notin asked)

Watching(t) == Held(t) /\ t \notin cut \union again

Listening ==
  \A t \in Tokens :
    /\ Held(t) => listeners[t] > 0
    /\ t \notin again => listeners[t] <= 1
    /\ Watching(t) /\ ~connected => Asked("trade_feed", t)

\* Trades that were told, by the market.
Told(t) == TradeHistory[t] \union {x \in tradeSaves : x[1] = t}

\* A trade is in the list, or will be.
Follows(t, x) ==
  \/ \E k \in 1 .. Len(tradeUpdates[t]) : tradeUpdates[t][k] = x
  \/ \E i \in Places : About(i, "trade", t) /\ down[i].says = x

\* Before the history is read the early trades are listed, and no others; after
\* that those which the history lacks.
Once(t, x) ==
  IF Asked("trade_feed", t) THEN Follows(t, x) <=> x \in early
  ELSE /\ NoneAbout("history", t) => (Follows(t, x) <=> x \notin tradeHistory[t])
       /\ \A i \in Places : LastAbout(i, "history", t) => (Follows(t, x) <=> x \notin down[i].says)

EachOnce == \A t \in Tokens : Watching(t) => \A x \in Told(t) \ blurred : Once(t, x)

TradesInv == TradeTypes /\ InOrder /\ ListsInOrder /\ Listening /\ EachOnce

-----------------------------------------------------------------------------
(* The chat *)

\* The secrets of the first connection are its id, and until there is one
\* nobody signs on by name.
Secrets ==
  /\ IsSeq(sending) /\ IsSeq(auths) /\ unnamed \in BOOLEAN /\ loggedIn \in BOOLEAN
  /\ ws_id \in {None} \union 1 .. socket_id
  /\ \A i \in Places : down[i].name = "authcode" => down[i].says = socket_id
  /\ ~unnamed /\ socket_id <= 1 =>
       /\ \A i \in 1 .. Len(sending) : sending[i] = 1
       /\ \A i \in 1 .. Len(auths) : auths[i] = 1
  /\ ~unnamed /\ socket_id = 0 => sending = <<>> /\ auths = <<>> /\ ~loggedIn

\* The page that is logged in with the extension's account has its token, or it
\* comes, or the API has yet to see the sign-on.
TokenComes ==
  connected /\ inExtension /\ socket_id = 1 /\ ~unnamed /\ loggedIn /\ auths = <<>> =>
    bearerToken # None \/ \E i \in Places : down[i].name = "auth_response"

\* Every token ends, the longer kind first.
Ends(token) ==
  /\ token \in TokenSet
  /\ token.until <= signedOn + RefreshDays + AccessDays
  /\ token.kind = "refresh" => token.until <= signedOn + RefreshDays

TokensEnd ==
  /\ day \in Nat /\ signedOn \in 0 .. day
  /\ \A token \in tokens : Ends(token)
  /\ bearerToken # None => Ends(bearerToken)
  /\ \A i \in Places : down[i].name = "auth_response" => Ends(down[i].says)
  /\ spoke \in [on : Nat, since : Nat] /\ SpeaksWithin

ChatInv == Secrets /\ TokenComes /\ TokensEnd

IInv == Carried /\ RowsInv /\ TradesInv /\ ChatInv

-----------------------------------------------------------------------------
(* Facts about the two queues *)

\* One more at the end.
LEMMA AppendFacts ==
  ASSUME NEW s, IsSeq(s), NEW e
  PROVE  /\ IsSeq(Append(s, e)) /\ Len(s) \in Nat /\ Len(Append(s, e)) = Len(s) + 1
         /\ \A i \in 1 .. Len(s) : Append(s, e)[i] = s[i]
         /\ Append(s, e)[Len(s) + 1] = e
  <1>1. PICK S : s \in Seq(S)
    BY DEF IsSeq
  <1>2. PICK T : T = S \union {e}
    OBVIOUS
  <1>3. s \in Seq(T) /\ e \in T
    BY <1>1, <1>2
  <1>4. PICK r : r = Append(s, e)
    OBVIOUS
  <1>5. r \in Seq(T) /\ Len(r) = Len(s) + 1 /\ Len(s) \in Nat
        /\ (\A i \in 1 .. Len(s) : r[i] = s[i]) /\ r[Len(s) + 1] = e
    BY <1>3, <1>4
  <1> QED  BY <1>4, <1>5 DEF IsSeq

\* One less at the front.
LEMMA TailFacts ==
  ASSUME NEW s, IsSeq(s), s # <<>>
  PROVE  /\ IsSeq(Tail(s)) /\ Len(s) \in Nat \ {0} /\ Len(Tail(s)) = Len(s) - 1
         /\ \A i \in 1 .. Len(s) - 1 : Tail(s)[i] = s[i + 1]
         /\ Head(s) = s[1]
  <1>1. PICK S : s \in Seq(S)
    BY DEF IsSeq
  <1>2. Tail(s) \in Seq(S)
    BY <1>1
  <1> QED  BY <1>1, <1>2 DEF IsSeq

\* A room more is asked for.
LEMMA RoomAdded ==
  ASSUME up \in Seq(Rooms), NEW r \in Rooms, up' = Append(up, r)
  PROVE  up' \in Seq(Rooms) /\ ToSet(up') = ToSet(up) \union {r}
  <1>1. /\ up' \in Seq(Rooms) /\ Len(up') = Len(up) + 1 /\ Len(up) \in Nat
        /\ (\A i \in 1 .. Len(up) : up'[i] = up[i]) /\ up'[Len(up) + 1] = r
    OBVIOUS
  <1>2. DOMAIN up' = 1 .. Len(up) + 1 /\ DOMAIN up = 1 .. Len(up)
    BY <1>1
  <1> HIDE DEF Rooms
  <1>3. ASSUME NEW x \in ToSet(up') PROVE x \in ToSet(up) \union {r}
    <2>1. PICK i \in 1 .. Len(up) + 1 : x = up'[i]
      BY <1>2, <1>3 DEF ToSet
    <2>2. CASE i = Len(up) + 1
      BY <1>1, <2>1, <2>2
    <2>3. CASE i # Len(up) + 1
      <3>1. i \in 1 .. Len(up)
        BY <1>1, <2>1, <2>3
      <3> QED  BY <1>1, <1>2, <2>1, <3>1 DEF ToSet
    <2> QED  BY <2>2, <2>3
  <1>4. ASSUME NEW x \in ToSet(up) \union {r} PROVE x \in ToSet(up')
    <2>1. CASE x = r
      BY <1>1, <1>2, <2>1 DEF ToSet
    <2>2. CASE x \in ToSet(up)
      <3>1. PICK i \in 1 .. Len(up) : x = up[i]
        BY <1>2, <2>2 DEF ToSet
      <3>2. x = up'[i] /\ i \in 1 .. Len(up) + 1
        BY <1>1, <3>1
      <3> QED  BY <1>2, <3>2 DEF ToSet
    <2> QED  BY <1>4, <2>1, <2>2
  <1> QED  BY <1>1, <1>3, <1>4

\* The gateway takes up a request.
LEMMA RoomTaken ==
  ASSUME up \in Seq(Rooms), up # <<>>, up' = Tail(up)
  PROVE  up' \in Seq(Rooms) /\ ToSet(up) = ToSet(up') \union {Head(up)} /\ Head(up) \in Rooms
  <1>1. /\ up' \in Seq(Rooms) /\ Len(up') = Len(up) - 1 /\ Len(up) \in Nat \ {0}
        /\ (\A i \in 1 .. Len(up) - 1 : up'[i] = up[i + 1]) /\ up[1] = Head(up) /\ Head(up) \in Rooms
    OBVIOUS
  <1>2. DOMAIN up' = 1 .. Len(up) - 1 /\ DOMAIN up = 1 .. Len(up)
    BY <1>1
  <1> HIDE DEF Rooms
  <1>3. ASSUME NEW x \in ToSet(up) PROVE x \in ToSet(up') \union {Head(up)}
    <2>1. PICK i \in 1 .. Len(up) : x = up[i]
      BY <1>2, <1>3 DEF ToSet
    <2>2. CASE i = 1
      BY <1>1, <2>1, <2>2
    <2>3. CASE i # 1
      <3>1. i - 1 \in 1 .. Len(up) - 1 /\ up'[i - 1] = x
        BY <1>1, <2>1, <2>3
      <3> QED  BY <1>2, <3>1 DEF ToSet
    <2> QED  BY <2>2, <2>3
  <1>4. ASSUME NEW x \in ToSet(up') \union {Head(up)} PROVE x \in ToSet(up)
    <2>1. CASE x = Head(up)
      BY <1>1, <1>2, <2>1 DEF ToSet
    <2>2. CASE x \in ToSet(up')
      <3>1. PICK i \in 1 .. Len(up) - 1 : x = up'[i]
        BY <1>2, <2>2 DEF ToSet
      <3>2. x = up[i + 1] /\ i + 1 \in 1 .. Len(up)
        BY <1>1, <3>1
      <3> QED  BY <1>2, <3>2 DEF ToSet
    <2> QED  BY <1>4, <2>1, <2>2
  <1> QED  BY <1>1, <1>3, <1>4

\* Two lists of rooms, one behind the other.
LEMMA RoomsJoined ==
  ASSUME NEW a \in Seq(Rooms), NEW b \in Seq(Rooms)
  PROVE  a \o b \in Seq(Rooms) /\ ToSet(a \o b) = ToSet(a) \union ToSet(b)
  <1>1. PICK c : c = a \o b
    OBVIOUS
  <1>2. /\ c \in Seq(Rooms) /\ Len(c) = Len(a) + Len(b) /\ Len(a) \in Nat /\ Len(b) \in Nat
        /\ \A i \in 1 .. Len(a) : c[i] = a[i]
        /\ \A i \in 1 .. Len(b) : c[Len(a) + i] = b[i]
    BY <1>1
  <1>3. DOMAIN c = 1 .. Len(c) /\ DOMAIN a = 1 .. Len(a) /\ DOMAIN b = 1 .. Len(b)
    BY <1>2
  <1> HIDE DEF Rooms
  <1>4. ASSUME NEW x \in ToSet(c) PROVE x \in ToSet(a) \union ToSet(b)
    <2>1. PICK i \in 1 .. Len(c) : x = c[i]
      BY <1>3, <1>4 DEF ToSet
    <2>2. CASE i <= Len(a)
      <3>1. i \in 1 .. Len(a)
        BY <1>2, <2>2
      <3>2. x = a[i]
        BY <1>2, <2>1, <3>1
      <3> QED  BY <1>3, <3>1, <3>2 DEF ToSet
    <2>3. CASE i > Len(a)
      <3>0. i - Len(a) \in 1 .. Len(b)
        <4>1. Len(c) = Len(a) + Len(b) /\ Len(a) \in Nat /\ Len(b) \in Nat /\ i \in 1 .. Len(c)
          BY <1>2, <2>1
        <4> QED  BY <2>3, <4>1
      <3>1. PICK j \in 1 .. Len(b) : j = i - Len(a)
        BY <3>0
      <3>2. i = Len(a) + j
        BY <1>2, <2>1, <3>1
      <3>3. x = b[j]
        BY <1>2, <2>1, <3>2
      <3> QED  BY <1>3, <3>3 DEF ToSet
    <2> QED  BY <1>2, <2>1, <2>2, <2>3
  <1>5. ASSUME NEW x \in ToSet(a) \union ToSet(b) PROVE x \in ToSet(c)
    <2>1. CASE x \in ToSet(a)
      <3>1. PICK i \in 1 .. Len(a) : x = a[i]
        BY <1>3, <2>1 DEF ToSet
      <3>2. i \in 1 .. Len(c) /\ x = c[i]
        BY <1>2, <3>1
      <3> QED  BY <1>3, <3>2 DEF ToSet
    <2>2. CASE x \in ToSet(b)
      <3>1. PICK i \in 1 .. Len(b) : x = b[i]
        BY <1>3, <2>2 DEF ToSet
      <3>2. Len(a) + i \in 1 .. Len(c) /\ x = c[Len(a) + i]
        BY <1>2, <3>1
      <3> QED  BY <1>3, <3>2 DEF ToSet
    <2> QED  BY <1>5, <2>1, <2>2
  <1> QED  BY <1>1, <1>2, <1>4, <1>5

-----------------------------------------------------------------------------
(* Events of other kinds *)

\* The events of these names stay as they are and in their order, at most one
\* place nearer.
Moved(N) ==
  \E k \in {0, 1} :
    /\ \A i \in 1 .. Len(down') : down'[i].name \in N =>
         i + k \in Places /\ down'[i] = down[i + k]
    /\ \A i \in Places : down[i].name \in N =>
         i - k \in 1 .. Len(down') /\ down'[i - k] = down[i]

\* Nothing happens.
LEMMA Stood ==
  ASSUME Carried, NEW N, down' = down
  PROVE  Moved(N) /\ IsSeq(down')
  <1>1. Len(down) \in Nat
    BY DEF Carried, IsSeq
  <1>2. /\ \A i \in 1 .. Len(down') : down'[i].name \in N => i + 0 \in Places /\ down'[i] = down[i + 0]
        /\ \A i \in Places : down[i].name \in N => i - 0 \in 1 .. Len(down') /\ down'[i - 0] = down[i]
    BY <1>1 DEF Places
  <1> QED  BY <1>2 DEF Moved, Carried

\* An event of another name is sent.
LEMMA Sent ==
  ASSUME Carried, NEW N, NEW e, e.name \notin N, down' = Append(down, e)
  PROVE  Moved(N) /\ IsSeq(down')
  <1>1. /\ IsSeq(down') /\ Len(down) \in Nat /\ Len(down') = Len(down) + 1
        /\ \A i \in 1 .. Len(down) : down'[i] = down[i]
        /\ down'[Len(down) + 1] = e
    BY AppendFacts DEF Carried
  <1>2. /\ \A i \in 1 .. Len(down') : down'[i].name \in N => i + 0 \in Places /\ down'[i] = down[i + 0]
        /\ \A i \in Places : down[i].name \in N => i - 0 \in 1 .. Len(down') /\ down'[i - 0] = down[i]
    BY <1>1 DEF Places
  <1> QED  BY <1>1, <1>2 DEF Moved

\* An event of another name arrives.
LEMMA Came ==
  ASSUME Carried, NEW N, down # <<>>, Head(down).name \notin N, down' = Tail(down)
  PROVE  Moved(N) /\ IsSeq(down')
  <1>1. /\ IsSeq(down') /\ Len(down) \in Nat \ {0} /\ Len(down') = Len(down) - 1
        /\ \A i \in 1 .. Len(down) - 1 : down'[i] = down[i + 1]
        /\ down[1].name \notin N
    BY TailFacts DEF Carried
  <1>2. /\ \A i \in 1 .. Len(down') : down'[i].name \in N => i + 1 \in Places /\ down'[i] = down[i + 1]
        /\ \A i \in Places : down[i].name \in N => i - 1 \in 1 .. Len(down') /\ down'[i - 1] = down[i]
    BY <1>1 DEF Places
  <1> QED  BY <1>1, <1>2 DEF Moved

\* Two events are sent, of other names.
LEMMA SentTwo ==
  ASSUME Carried, NEW N, NEW a, NEW b, a.name \notin N, b.name \notin N, down' = down \o <<a, b>>
  PROVE  /\ Moved(N) /\ IsSeq(down')
         /\ Len(down) \in Nat /\ Len(down') = Len(down) + 2
         /\ \A i \in 1 .. Len(down) : down'[i] = down[i]
         /\ down'[Len(down) + 1] = a /\ down'[Len(down) + 2] = b
  <1>1. PICK S : down \in Seq(S)
    BY DEF Carried, IsSeq
  <1>2. PICK T : T = S \union {a, b}
    OBVIOUS
  <1>3. down \in Seq(T) /\ <<a, b>> \in Seq(T) /\ Len(<<a, b>>) = 2
        /\ <<a, b>>[1] = a /\ <<a, b>>[2] = b
    BY <1>1, <1>2
  <1>4. /\ down' \in Seq(T) /\ Len(down) \in Nat /\ Len(down') = Len(down) + 2
        /\ \A i \in 1 .. Len(down) : down'[i] = down[i]
        /\ down'[Len(down) + 1] = a /\ down'[Len(down) + 2] = b
    BY <1>3
  <1>5. /\ \A i \in 1 .. Len(down') : down'[i].name \in N => i + 0 \in Places /\ down'[i] = down[i + 0]
        /\ \A i \in Places : down[i].name \in N => i - 0 \in 1 .. Len(down') /\ down'[i - 0] = down[i]
    BY <1>4 DEF Places
  <1> QED  BY <1>4, <1>5 DEF Moved, IsSeq

-----------------------------------------------------------------------------
(* Steps that leave a part alone *)

RowsAside ==
  /\ UNCHANGED <<row, joinedFeeds, shown, missed>> /\ Moved({"update"})
  /\ \/ updating' = updating
     \/ \E t \in Tokens : updating[t] = None /\ updating' = [updating EXCEPT ![t] = "trade"]
  /\ \A f \in Rows : Asked("row", f) => Asked("row", f)'

TradesAside ==
  /\ UNCHANGED tradeFeedVars /\ Moved({"trade", "history"})
  /\ \A t \in Tokens : Asked("trade_feed", t)' <=> Asked("trade_feed", t)
  /\ connected => connected'

ChatAside ==
  /\ UNCHANGED chatVars /\ Moved({"authcode", "auth_response"})
  /\ UNCHANGED <<connected, socket_id>>

\* What moves keeps whom it is about, and which is the last.
LEMMA LastMoves ==
  ASSUME Carried, IsSeq(down'), NEW N, Moved(N), NEW name \in N, NEW x
  PROVE  /\ \A i \in 1 .. Len(down') : LastAbout(i, name, x)' =>
              \E j \in Places : LastAbout(j, name, x) /\ down[j] = down'[i]
         /\ NoneAbout(name, x)' <=> NoneAbout(name, x)
  <1>1. PICK k \in {0, 1} :
          /\ \A i \in 1 .. Len(down') : down'[i].name \in N =>
               i + k \in Places /\ down'[i] = down[i + k]
          /\ \A i \in Places : down[i].name \in N =>
               i - k \in 1 .. Len(down') /\ down'[i - k] = down[i]
    BY DEF Moved
  <1>2. Len(down) \in Nat /\ Len(down') \in Nat /\ Places = 1 .. Len(down) /\ Places' = 1 .. Len(down')
    BY DEF Carried, IsSeq, Places
  <1>3. ASSUME NEW i \in 1 .. Len(down'), LastAbout(i, name, x)'
        PROVE  \E j \in Places : LastAbout(j, name, x) /\ down[j] = down'[i]
    <2>1. /\ down'[i].name = name /\ down'[i].of = x
          /\ \A j \in 1 .. Len(down') : j > i => ~(down'[j].name = name /\ down'[j].of = x)
      BY <1>2, <1>3 DEF LastAbout, About
    <2>2. i + k \in Places /\ down[i + k] = down'[i]
      BY <1>1, <2>1
    <2>3. ASSUME NEW j \in Places, j > i + k, down[j].name = name, down[j].of = x PROVE FALSE
      <3>1. j - k \in 1 .. Len(down') /\ down'[j - k] = down[j]
        BY <1>1, <2>3
      <3>2. j - k > i
        BY <1>2, <2>3
      <3> QED  BY <2>1, <2>3, <3>1, <3>2
    <2>4. LastAbout(i + k, name, x)
      BY <2>1, <2>2, <2>3 DEF LastAbout, About
    <2> QED  BY <2>2, <2>4
  <1>4. ASSUME NEW i \in Places, About(i, name, x) PROVE ~NoneAbout(name, x)'
    <2>1. i - k \in 1 .. Len(down') /\ down'[i - k] = down[i]
      BY <1>1, <1>4 DEF About
    <2> QED  BY <1>2, <1>4, <2>1 DEF About, NoneAbout
  <1>5. ASSUME NEW i \in Places', About(i, name, x)' PROVE ~NoneAbout(name, x)
    <2>1. i + k \in Places /\ down'[i] = down[i + k]
      BY <1>1, <1>2, <1>5 DEF About
    <2> QED  BY <1>5, <2>1 DEF About, NoneAbout
  <1>6. NoneAbout(name, x)' <=> NoneAbout(name, x)
    BY <1>4, <1>5 DEF NoneAbout
  <1> QED  BY <1>3, <1>6

\* Rows that are left alone settle as before.
LEMMA RowsStand ==
  ASSUME Carried, IsSeq(down'), RowsInv, RowsAside
  PROVE  RowsInv'
  <1>1. UNCHANGED <<row, joinedFeeds, shown, missed>> /\ Moved({"update"})
    BY DEF RowsAside
  <1>0. /\ updating' \in [Rows -> {None, "trade", "saved"}]
        /\ \A f \in Rows : updating[f] = "saved" => updating'[f] = "saved"
    BY FeedsAssumption DEF RowsAside, RowsInv, RowTypes, Rows
  <1>2. RowTypes'
    <2>1. ASSUME NEW i \in 1 .. Len(down'), down'[i].name = "update"
          PROVE  down'[i].of \in Rows /\ down'[i].says \in 0 .. row[down'[i].of]
      <3>1. PICK j \in Places : down'[i] = down[j]
        BY <1>1, <2>1 DEF Moved
      <3> QED  BY <2>1, <3>1 DEF RowsInv, RowTypes
    <2> QED  BY <1>0, <1>1, <2>1 DEF RowsInv, RowTypes, Places
  <1>3. LastWord'
    <2> SUFFICES ASSUME NEW f \in Rows \ {Staking}, NEW i \in 1 .. Len(down'),
                        LastAbout(i, "update", f)'
                 PROVE  down'[i].says = row[f] \/ updating'[f] = "saved"
      BY <1>1 DEF LastWord, Places
    <2>1. PICK j \in Places : LastAbout(j, "update", f) /\ down[j] = down'[i]
      BY <1>1, LastMoves
    <2> QED  BY <1>0, <2>1 DEF RowsInv, LastWord
  <1>4. ShownIsLast'
    <2>1. \A f \in Rows : NoneAbout("update", f)' <=> NoneAbout("update", f)
      BY <1>1, LastMoves
    <2>2. joinedFeeds \subseteq Rows
      BY DEF RowsInv, RowTypes
    <2> QED  BY <1>0, <1>1, <2>1, <2>2 DEF RowsInv, ShownIsLast, RowsAside
  <1> QED  BY <1>2, <1>3, <1>4 DEF RowsInv

\* A trade that is listed, or comes, does so once as before.
LEMMA OnceStands ==
  ASSUME Carried, IsSeq(down'), Moved({"trade", "history"}), NEW t \in Tokens, NEW x, Once(t, x),
         tradeUpdates'[t] = tradeUpdates[t], tradeHistory'[t] = tradeHistory[t],
         Asked("trade_feed", t)' <=> Asked("trade_feed", t), x \in early' <=> x \in early
  PROVE  Once(t, x)'
  <1>1. PICK k \in {0, 1} :
          /\ \A i \in 1 .. Len(down') : down'[i].name \in {"trade", "history"} =>
               i + k \in Places /\ down'[i] = down[i + k]
          /\ \A i \in Places : down[i].name \in {"trade", "history"} =>
               i - k \in 1 .. Len(down') /\ down'[i - k] = down[i]
    BY DEF Moved
  <1>2. Len(down) \in Nat /\ Len(down') \in Nat /\ Places = 1 .. Len(down) /\ Places' = 1 .. Len(down')
    BY DEF Carried, IsSeq, Places
  <1>3. Follows(t, x)' <=> Follows(t, x)
    <2>1. ASSUME NEW i \in Places, About(i, "trade", t), down[i].says = x PROVE Follows(t, x)'
      <3>1. i - k \in Places' /\ down'[i - k] = down[i]
        BY <1>1, <1>2, <2>1 DEF About
      <3> QED  BY <2>1, <3>1 DEF About, Follows
    <2>2. ASSUME NEW i \in Places', About(i, "trade", t)', down'[i].says = x PROVE Follows(t, x)
      <3>1. i + k \in Places /\ down'[i] = down[i + k]
        BY <1>1, <1>2, <2>2 DEF About
      <3> QED  BY <2>2, <3>1 DEF About, Follows
    <2> QED  BY <2>1, <2>2 DEF Follows
  <1>4. NoneAbout("history", t)' <=> NoneAbout("history", t)
    BY LastMoves
  <1>5. ASSUME NEW i \in 1 .. Len(down'), LastAbout(i, "history", t)'
        PROVE  Asked("trade_feed", t) \/ (Follows(t, x)' <=> x \notin down'[i].says)
    <2>1. PICK j \in Places : LastAbout(j, "history", t) /\ down[j] = down'[i]
      <3>1. "history" \in {"trade", "history"}
        OBVIOUS
      <3>2. \A n \in 1 .. Len(down') : LastAbout(n, "history", t)' =>
              \E j \in Places : LastAbout(j, "history", t) /\ down[j] = down'[n]
        BY <3>1, LastMoves
      <3> QED  BY <1>5, <3>2
    <2>2. Asked("trade_feed", t) \/ (Follows(t, x) <=> x \notin down[j].says)
      BY <2>1 DEF Once
    <2> QED  BY <1>3, <2>1, <2>2
  <1> QED  BY <1>2, <1>3, <1>4, <1>5 DEF Once

\* Trades that are left alone are shown as before.
LEMMA TradesStand ==
  ASSUME Carried, Carried', TradesInv, TradesAside
  PROVE  TradesInv'
  <1>1. /\ UNCHANGED <<TradeHistory, tradeSaves, trades, selectedToken, asked, current_trade_feed,
                       listeners, tradeHistory, tradeUpdates, cut, again, early, blurred>>
        /\ Moved({"trade", "history"}) /\ IsSeq(down')
    BY DEF TradesAside, tradeFeedVars, Carried
  <1>2. PICK k \in {0, 1} :
          /\ \A i \in 1 .. Len(down') : down'[i].name \in {"trade", "history"} =>
               i + k \in Places /\ down'[i] = down[i + k]
          /\ \A i \in Places : down[i].name \in {"trade", "history"} =>
               i - k \in 1 .. Len(down') /\ down'[i - k] = down[i]
    BY <1>1 DEF Moved
  <1>3. Len(down) \in Nat /\ Len(down') \in Nat /\ Places = 1 .. Len(down) /\ Places' = 1 .. Len(down')
    BY <1>1 DEF Carried, IsSeq, Places
  <1>4. TradeTypes'
    BY <1>1 DEF TradesInv, TradeTypes
  <1>5. InOrder'
    <2>1. ASSUME NEW i \in Places', down'[i].name = "trade"
          PROVE  /\ down'[i].of \in Tokens /\ down'[i].says \in Trades
                 /\ down'[i].says[1] = down'[i].of /\ down'[i].says[2] <= trades
      <3>1. i + k \in Places /\ down'[i] = down[i + k]
        BY <1>2, <1>3, <2>1
      <3> QED  BY <2>1, <3>1 DEF TradesInv, InOrder
    <2>2. ASSUME NEW i \in Places', NEW j \in Places', i < j,
                 down'[i].name = "trade", down'[j].name = "trade"
          PROVE  down'[i].says[2] < down'[j].says[2]
      <3>1. /\ i + k \in Places /\ down'[i] = down[i + k]
            /\ j + k \in Places /\ down'[j] = down[j + k]
            /\ i + k < j + k
        BY <1>2, <1>3, <2>2
      <3> QED  BY <2>2, <3>1 DEF TradesInv, InOrder
    <2>3. ASSUME NEW i \in Places', down'[i].name = "history"
          PROVE  down'[i].of \in Tokens /\ down'[i].says \subseteq TradeHistory[down'[i].of]
      <3>1. i + k \in Places /\ down'[i] = down[i + k]
        BY <1>2, <1>3, <2>3
      <3> QED  BY <2>3, <3>1 DEF TradesInv, InOrder
    <2> QED  BY <1>1, <2>1, <2>2, <2>3 DEF InOrder
  <1>6. ListsInOrder'
    <2>1. ASSUME NEW t \in Tokens, NEW i \in Places', About(i, "trade", t)'
          PROVE  \E j \in Places : About(j, "trade", t) /\ down'[i] = down[j]
      <3>1. i + k \in Places /\ down'[i] = down[i + k]
        BY <1>2, <1>3, <2>1 DEF About
      <3> QED  BY <2>1, <3>1 DEF About
    <2> QED  BY <1>1, <2>1 DEF TradesInv, ListsInOrder
  <1>7. Listening'
    BY <1>1 DEF TradesInv, TradesAside, Listening, Watching, Held, Carried
  <1>8. EachOnce'
    <2> SUFFICES ASSUME NEW t \in Tokens, Watching(t), NEW x \in Told(t) \ blurred
                 PROVE  Once(t, x)'
      BY <1>1 DEF EachOnce, Watching, Held, Told
    <2>1. Once(t, x)
      BY DEF TradesInv, EachOnce
    <2>2. Asked("trade_feed", t)' <=> Asked("trade_feed", t)
      BY DEF TradesAside
    <2> QED  BY <1>1, <2>1, <2>2, OnceStands
  <1> QED  BY <1>4, <1>5, <1>6, <1>7, <1>8 DEF TradesInv

\* Where nobody signs on, and no token comes or goes, the sign-ons are as they were.
LEMMA AuthStands ==
  ASSUME Carried, Carried', ChatInv, Moved({"auth_response"}),
         UNCHANGED <<day, tokens, sending, auths, inExtension, bearerToken, loggedIn, unnamed,
                     signedOn, connected, socket_id>>,
         ws_id' \in {None} \union 1 .. socket_id,
         \A i \in 1 .. Len(down') : down'[i].name = "authcode" => down'[i].says = socket_id,
         spoke' \in [on : Nat, since : Nat], SpeaksWithin'
  PROVE  ChatInv'
  <1>1. PICK k \in {0, 1} :
          /\ \A i \in 1 .. Len(down') : down'[i].name \in {"auth_response"} =>
               i + k \in Places /\ down'[i] = down[i + k]
          /\ \A i \in Places : down[i].name \in {"auth_response"} =>
               i - k \in 1 .. Len(down') /\ down'[i - k] = down[i]
    BY DEF Moved
  <1>2. Places' = 1 .. Len(down')
    BY DEF Places
  <1>3. Secrets'
    BY <1>2 DEF ChatInv, Secrets
  <1>4. TokenComes'
    <2>1. ASSUME NEW i \in Places, down[i].name = "auth_response"
          PROVE  \E j \in Places' : down'[j].name = "auth_response"
      BY <1>1, <1>2, <2>1
    <2> QED  BY <2>1 DEF ChatInv, TokenComes
  <1>5. TokensEnd'
    <2>1. \A i \in Places' : down'[i].name = "auth_response" => Ends(down'[i].says)
      BY <1>1, <1>2 DEF ChatInv, TokensEnd
    <2>2. \A token : Ends(token)' <=> Ends(token)
      BY DEF Ends
    <2> QED  BY <2>1, <2>2 DEF ChatInv, TokensEnd
  <1> QED  BY <1>3, <1>4, <1>5 DEF ChatInv

\* A chat that is left alone keeps its tokens.
LEMMA ChatStands ==
  ASSUME Carried, Carried', ChatInv, ChatAside
  PROVE  ChatInv'
  <1>1. /\ UNCHANGED <<day, tokens, sending, auths, inExtension, ws_id, bearerToken, loggedIn,
                       unnamed, signedOn, spoke, connected, socket_id>>
        /\ Moved({"authcode", "auth_response"})
    BY DEF ChatAside, chatVars, authVars, listVars
  <1>2. Moved({"auth_response"})
    BY <1>1 DEF Moved
  <1>3. \A i \in 1 .. Len(down') : down'[i].name = "authcode" => down'[i].says = socket_id
    BY <1>1 DEF Moved, ChatInv, Secrets
  <1>4. ws_id' \in {None} \union 1 .. socket_id /\ spoke' \in [on : Nat, since : Nat] /\ SpeaksWithin'
    BY <1>1 DEF ChatInv, Secrets, TokensEnd, SpeaksWithin
  <1> QED  BY <1>1, <1>2, <1>3, <1>4, AuthStands

-----------------------------------------------------------------------------
(* What a step does to the connection *)

\* Nothing is sent or taken up.
LEMMA Still ==
  ASSUME Carried, UNCHANGED socketVars
  PROVE  /\ Carried' /\ \A N : Moved(N)
         /\ \A p, x : Asked(p, x)' <=> Asked(p, x)
  <1>1. UNCHANGED <<connected, socket_id, up, down>>
    BY DEF socketVars
  <1>2. Carried'
    BY <1>1 DEF Carried
  <1>3. \A N : Moved(N)
    BY <1>1, Stood
  <1> QED  BY <1>1, <1>2, <1>3 DEF Asked

\* An event arrives.
LEMMA Arrival ==
  ASSUME Carried, NEW name, Arrives(name), down' = Tail(down), UNCHANGED <<connected, socket_id, up>>
  PROVE  /\ Carried' /\ connected /\ (\A N : name \notin N => Moved(N))
         /\ (\A p, x : Asked(p, x)' <=> Asked(p, x))
         /\ Len(down) \in Nat \ {0} /\ Len(down') = Len(down) - 1
         /\ (\A i \in 1 .. Len(down) - 1 : down'[i] = down[i + 1])
         /\ Head(down) = down[1] /\ down[1].name = name
  <1>1. down # <<>> /\ Head(down).name = name
    BY DEF Arrives
  <1>2. /\ IsSeq(down') /\ Len(down) \in Nat \ {0} /\ Len(down') = Len(down) - 1
        /\ (\A i \in 1 .. Len(down) - 1 : down'[i] = down[i + 1])
        /\ Head(down) = down[1]
    BY <1>1, TailFacts DEF Carried
  <1>3. connected /\ Carried'
    BY <1>1, <1>2 DEF Carried
  <1>4. ASSUME NEW N, name \notin N PROVE Moved(N)
    BY <1>1, <1>4, Came
  <1> QED  BY <1>1, <1>2, <1>3, <1>4 DEF Asked

\* Everybody is told.
LEMMA Emission ==
  ASSUME Carried, NEW e, down' = Emitted(e), UNCHANGED <<connected, socket_id, up>>
  PROVE  /\ Carried' /\ (\A N : e.name \notin N => Moved(N))
         /\ (\A p, x : Asked(p, x)' <=> Asked(p, x))
  <1>1. CASE connected
    <2>1. down' = Append(down, e)
      BY <1>1 DEF Emitted
    <2>2. IsSeq(down')
      BY <2>1, AppendFacts DEF Carried
    <2>3. ASSUME NEW N, e.name \notin N PROVE Moved(N)
      BY <2>1, <2>3, Sent
    <2> QED  BY <1>1, <2>2, <2>3 DEF Carried, Asked
  <1>2. CASE ~connected
    <2>1. UNCHANGED socketVars
      BY <1>2 DEF Emitted, socketVars
    <2> QED  BY <2>1, Still
  <1> QED  BY <1>1, <1>2

\* A request is taken up.
LEMMA Answering ==
  ASSUME Carried, NEW prefix, Joins(prefix), up' = Tail(up), UNCHANGED <<connected, socket_id>>,
         IsSeq(down')
  PROVE  /\ Carried' /\ connected
         /\ Head(up) \in Rooms /\ Head(up).prefix = prefix
         /\ (\A p, x : Asked(p, x)' => Asked(p, x))
         /\ (\A p, x : Asked(p, x) /\ Room(p, x) # Head(up) => Asked(p, x)')
  <1>1. connected /\ up # <<>> /\ Head(up).prefix = prefix
    BY DEF Joins
  <1>2. up' \in Seq(Rooms) /\ ToSet(up) = ToSet(up') \union {Head(up)} /\ Head(up) \in Rooms
    BY <1>1, RoomTaken DEF Carried
  <1>3. Carried'
    BY <1>1, <1>2 DEF Carried
  <1> QED  BY <1>1, <1>2, <1>3 DEF Asked

\* A room is asked for.
LEMMA Asking ==
  ASSUME Carried, NEW r \in Rooms, up' = Append(up, r), UNCHANGED <<connected, socket_id, down>>
  PROVE  /\ Carried' /\ (\A N : Moved(N))
         /\ (\A p, x : Asked(p, x)' <=> Asked(p, x) \/ Room(p, x) = r)
  <1>1. up' \in Seq(Rooms) /\ ToSet(up') = ToSet(up) \union {r}
    BY RoomAdded DEF Carried
  <1>2. Carried'
    BY <1>1 DEF Carried
  <1>3. \A N : Moved(N)
    BY Stood
  <1> QED  BY <1>1, <1>2, <1>3 DEF Asked

\* Rooms of different kinds differ, and so do those about different things.
LEMMA RoomFacts ==
  /\ \A f \in Rows : Room("row", f) \in Rooms
  /\ \A t \in Tokens : Room("trade_feed", t) \in Rooms
  /\ Room("trollbox", None) \in Rooms
  /\ \A p, x : Room(p, x).prefix = p /\ Room(p, x).subject = x
  /\ \A p, q, x, y : Room(p, x) = Room(q, y) => p = q /\ x = y
  /\ \A r \in Rooms : /\ r.prefix = "row" => r.subject \in Rows
                      /\ r.prefix = "trade_feed" => r.subject \in Tokens
                      /\ r = Room(r.prefix, r.subject)
  <1>1. /\ \A f \in Rows : Room("row", f) \in Rooms
        /\ \A t \in Tokens : Room("trade_feed", t) \in Rooms
        /\ Room("trollbox", None) \in Rooms
    BY DEF Room, Rooms
  <1>2. \A p, x : Room(p, x).prefix = p /\ Room(p, x).subject = x
    BY DEF Room
  <1>3. \A p, q, x, y : Room(p, x) = Room(q, y) => p = q /\ x = y
    BY <1>2
  <1>4. ASSUME NEW r \in Rooms
        PROVE  /\ r.prefix = "row" => r.subject \in Rows
               /\ r.prefix = "trade_feed" => r.subject \in Tokens
               /\ r = Room(r.prefix, r.subject)
    <2>1. CASE r \in [prefix : {"row"}, subject : Rows]
      BY <2>1 DEF Room
    <2>2. CASE r \in [prefix : {"trade_feed"}, subject : Tokens]
      BY <2>2 DEF Room
    <2>3. CASE r = Room("trollbox", None)
      BY <1>2, <2>3
    <2> QED  BY <2>1, <2>2, <2>3 DEF Rooms
  <1> QED  BY <1>1, <1>2, <1>3, <1>4

-----------------------------------------------------------------------------
(* The rows *)

\* A row is saved; one that clients are told of is about to be told.
LEMMA RowSaved ==
  ASSUME Carried, RowsInv, UNCHANGED socketVars, NEW f \in Rows,
         row' = [row EXCEPT ![f] = @ + 1],
         \/ updating' = [updating EXCEPT ![f] = "saved"]
         \/ f = Staking /\ updating' = updating,
         UNCHANGED <<joinedFeeds, shown, missed>>
  PROVE  RowsInv'
  <1>1. UNCHANGED <<up, down>>
    BY DEF socketVars
  <1>2. /\ row' \in [Rows -> Nat] /\ updating' \in [Rows -> {None, "trade", "saved"}]
        /\ (\A g \in Rows : row[g] <= row'[g])
        /\ (\A g \in Rows : g # f => row'[g] = row[g] /\ updating'[g] = updating[g])
        /\ (f # Staking => updating'[f] = "saved")
    BY DEF RowsInv, RowTypes
  <1>3. RowTypes'
    <2>1. \A g \in Rows : row[g] \in Nat /\ row'[g] \in Nat /\ shown[g] \in Nat /\ shown[g] <= row[g]
      BY <1>2 DEF RowsInv, RowTypes
    <2>2. \A g \in Rows : shown[g] <= row'[g]
      BY <1>2, <2>1
    <2>3. ASSUME NEW i \in Places, down[i].name = "update"
          PROVE  down[i].of \in Rows /\ down[i].says \in 0 .. row'[down[i].of]
      <3>1. down[i].of \in Rows /\ down[i].says \in 0 .. row[down[i].of]
        BY <2>3 DEF RowsInv, RowTypes
      <3> QED  BY <1>2, <2>1, <3>1
    <2> QED  BY <1>1, <1>2, <2>2, <2>3 DEF RowsInv, RowTypes, Places
  <1>4. LastWord'
    BY <1>1, <1>2 DEF RowsInv, LastWord, LastAbout, About, Places
  <1>5. ShownIsLast'
    <2>1. joinedFeeds \subseteq Rows
      BY DEF RowsInv, RowTypes
    <2> QED  BY <1>1, <1>2, <2>1 DEF RowsInv, ShownIsLast, NoneAbout, About, Places, Asked
  <1> QED  BY <1>3, <1>4, <1>5 DEF RowsInv

\* The client is told what a row has.
LEMMA RowTold ==
  ASSUME Carried, RowsInv, NEW f \in Rows, down' = Append(down, Event("update", f, row[f])),
         UNCHANGED <<row, joinedFeeds, shown, missed>>,
         updating' = updating \/ updating' = [updating EXCEPT ![f] = None],
         \A g \in Rows : g # f => (Asked("row", g) => Asked("row", g)')
  PROVE  RowsInv'
  <1>1. PICK e : e = Event("update", f, row[f])
    OBVIOUS
  <1>2. e.name = "update" /\ e.of = f /\ e.says = row[f]
    BY <1>1 DEF Event
  <1>3. /\ Len(down) \in Nat /\ Len(down') = Len(down) + 1
        /\ \A i \in 1 .. Len(down) : down'[i] = down[i]
        /\ down'[Len(down) + 1] = e
    BY <1>1, AppendFacts DEF Carried
  <1>4. Places = 1 .. Len(down) /\ Places' = 1 .. Len(down) + 1
    BY <1>3 DEF Places
  <1>5. /\ updating' \in [Rows -> {None, "trade", "saved"}]
        /\ \A g \in Rows : g # f => updating'[g] = updating[g]
    BY DEF RowsInv, RowTypes
  <1>6. RowTypes'
    <2>1. ASSUME NEW i \in Places', down'[i].name = "update"
          PROVE  down'[i].of \in Rows /\ down'[i].says \in 0 .. row[down'[i].of]
      <3>1. CASE i \in Places
        BY <1>3, <1>4, <2>1, <3>1 DEF RowsInv, RowTypes
      <3>2. CASE i = Len(down) + 1
        <4>1. row[f] \in Nat
          BY DEF RowsInv, RowTypes
        <4> QED  BY <1>2, <1>3, <3>2, <4>1
      <3> QED  BY <1>3, <1>4, <3>1, <3>2
    <2> QED  BY <1>5, <2>1 DEF RowsInv, RowTypes
  <1>7. LastWord'
    <2> SUFFICES ASSUME NEW g \in Rows \ {Staking}, NEW i \in Places',
                        LastAbout(i, "update", g)'
                 PROVE  down'[i].says = row[g] \/ updating'[g] = "saved"
      BY DEF LastWord
    <2>1. /\ down'[i].name = "update" /\ down'[i].of = g
          /\ \A j \in Places' : j > i => ~(down'[j].name = "update" /\ down'[j].of = g)
      BY DEF LastAbout, About
    <2>2. CASE i = Len(down) + 1
      BY <1>2, <1>3, <2>1, <2>2
    <2>3. CASE i \in Places
      <3>1. g # f
        BY <1>2, <1>3, <1>4, <2>1, <2>3
      <3>2. \A j \in Places : j \in Places' /\ down'[j] = down[j]
        BY <1>3, <1>4
      <3>3. LastAbout(i, "update", g)
        BY <2>1, <2>3, <3>2 DEF LastAbout, About
      <3> QED  BY <1>5, <2>3, <3>1, <3>2, <3>3 DEF RowsInv, LastWord
    <2> QED  BY <1>3, <1>4, <2>2, <2>3
  <1>8. ShownIsLast'
    <2> SUFFICES ASSUME NEW g \in (joinedFeeds \ missed) \ {Staking},
                        NoneAbout("update", g)', ~Asked("row", g)'
                 PROVE  shown[g] = row[g] \/ updating'[g] = "saved"
      BY DEF ShownIsLast
    <2>1. \A j \in Places' : ~(down'[j].name = "update" /\ down'[j].of = g)
      BY DEF NoneAbout, About
    <2>2. g # f
      BY <1>2, <1>3, <1>4, <2>1
    <2>3. NoneAbout("update", g)
      BY <1>3, <1>4, <2>1 DEF NoneAbout, About
    <2>4. g \in Rows
      BY DEF RowsInv, RowTypes
    <2> QED  BY <1>5, <2>2, <2>3, <2>4 DEF RowsInv, ShownIsLast
  <1> QED  BY <1>6, <1>7, <1>8 DEF RowsInv

\* Rooms are asked for, and what is joined without one was joined before.
LEMMA RowsJoined ==
  ASSUME RowsInv, UNCHANGED <<down, row, updating, shown, missed>>, joinedFeeds' \subseteq Rows,
         \A f \in Rows : Asked("row", f) => Asked("row", f)',
         \A f \in joinedFeeds' : f \in joinedFeeds \/ f = Staking \/ Asked("row", f)'
  PROVE  RowsInv'
  <1>1. RowTypes' /\ LastWord'
    BY DEF RowsInv, RowTypes, LastWord, LastAbout, About, Places
  <1>2. ShownIsLast'
    <2> SUFFICES ASSUME NEW g \in (joinedFeeds' \ missed) \ {Staking},
                        NoneAbout("update", g)', ~Asked("row", g)'
                 PROVE  shown[g] = row[g] \/ updating[g] = "saved"
      BY DEF ShownIsLast
    <2>1. g \in joinedFeeds /\ ~Asked("row", g)
      OBVIOUS
    <2>2. NoneAbout("update", g)
      BY DEF NoneAbout, About, Places
    <2> QED  BY <2>1, <2>2 DEF RowsInv, ShownIsLast
  <1> QED  BY <1>1, <1>2 DEF RowsInv

\* What every step of the rows leaves alone.
OthersAside == Carried' /\ TradesAside /\ ChatAside

\* A step that sends nothing leaves the other parts alone.
LEMMA StillAside ==
  ASSUME Carried, UNCHANGED <<socketVars, tradeFeedVars, chatVars>>
  PROVE  OthersAside
  <1>1. /\ Carried' /\ (\A N : Moved(N)) /\ (\A p, x : Asked(p, x)' <=> Asked(p, x))
    BY Still
  <1>2. UNCHANGED <<connected, socket_id>>
    BY DEF socketVars
  <1> QED  BY <1>1, <1>2 DEF OthersAside, TradesAside, ChatAside

\* The rows are saved: the price, a staking contract's, a market's.
LEMMA SavesKeepRows ==
  ASSUME Carried, RowsInv, UNCHANGED chatVars,
         \/ saveUSDPrice
         \/ updateStakingContractMeta
         \/ \E t \in Tokens : saveReserves(t)
  PROVE  RowsInv' /\ OthersAside
  <1>1. CASE saveUSDPrice
    <2>1. Tau \in Rows
      BY DEF Rows
    <2>2. RowsInv'
      BY <1>1, <2>1, RowSaved DEF saveUSDPrice
    <2>3. UNCHANGED <<socketVars, tradeFeedVars, chatVars>>
      BY <1>1 DEF saveUSDPrice
    <2> QED  BY <2>2, <2>3, StillAside
  <1>2. CASE updateStakingContractMeta
    <2>1. Staking \in Rows
      BY DEF Rows
    <2>2. RowsInv'
      BY <1>2, <2>1, RowSaved DEF updateStakingContractMeta
    <2>3. UNCHANGED <<socketVars, tradeFeedVars, chatVars>>
      BY <1>2 DEF updateStakingContractMeta
    <2> QED  BY <2>2, <2>3, StillAside
  <1>3. ASSUME NEW t \in Tokens, saveReserves(t) PROVE RowsInv' /\ OthersAside
    <2>1. t \in Rows
      BY DEF Rows
    <2>2. RowsInv'
      BY <1>3, <2>1, RowSaved DEF saveReserves
    <2>3. UNCHANGED <<socketVars, tradeFeedVars, chatVars>>
      BY <1>3 DEF saveReserves
    <2> QED  BY <2>2, <2>3, StillAside
  <1> QED  BY <1>1, <1>2, <1>3

\* The handler tells what it saved; without a connection the row is missed.
LEMMA TellingKeepsRows ==
  ASSUME Carried, RowsInv, UNCHANGED chatVars, NEW f \in Rows, metrics_update(f)
  PROVE  RowsInv' /\ OthersAside
  <1>1. PICK e : e = Event("update", f, row[f])
    OBVIOUS
  <1>2. e.name = "update"
    BY <1>1 DEF Event
  <1>3. /\ down' = Emitted(e) /\ missed' = (IF connected THEN missed ELSE missed \union {f})
        /\ updating' = [updating EXCEPT ![f] = None]
        /\ UNCHANGED <<connected, socket_id, up, row, joinedFeeds, shown, tradeFeedVars>>
    BY <1>1 DEF metrics_update, handleClientUpdate
  <1>4. /\ Carried' /\ (\A N : "update" \notin N => Moved(N))
        /\ (\A p, x : Asked(p, x)' <=> Asked(p, x))
    BY <1>2, <1>3, Emission
  <1>5. OthersAside
    <2>1. "update" \notin {"trade", "history"} /\ "update" \notin {"authcode", "auth_response"}
      OBVIOUS
    <2> QED  BY <1>3, <1>4, <2>1 DEF OthersAside, TradesAside, ChatAside
  <1>6. CASE connected
    <2>1. down' = Append(down, Event("update", f, row[f])) /\ missed' = missed
      BY <1>1, <1>3, <1>6 DEF Emitted
    <2>2. RowsInv'
      BY <1>3, <1>4, <2>1, RowTold
    <2> QED  BY <1>5, <2>2
  <1>7. CASE ~connected
    <2>1. down' = down /\ down = <<>> /\ missed' = missed \union {f}
      BY <1>3, <1>7 DEF Emitted, Carried
    <2>2. Places = {} /\ Places' = {}
      BY <2>1 DEF Places
    <2>3. updating' \in [Rows -> {None, "trade", "saved"}]
          /\ \A g \in Rows : g # f => updating'[g] = updating[g]
      BY <1>3 DEF RowsInv, RowTypes
    <2>4. RowTypes' /\ LastWord'
      BY <1>3, <2>2, <2>3 DEF RowsInv, RowTypes, LastWord
    <2>5. ShownIsLast'
      <3>1. NoneAbout("update", f) /\ joinedFeeds \subseteq Rows
        BY <2>2 DEF NoneAbout, RowsInv, RowTypes
      <3>2. \A g : NoneAbout("update", g)
        BY <2>2 DEF NoneAbout
      <3> QED  BY <1>3, <1>4, <2>1, <2>3, <3>1, <3>2 DEF RowsInv, ShownIsLast
    <2> QED  BY <1>5, <2>4, <2>5 DEF RowsInv
  <1> QED  BY <1>6, <1>7

\* A join that the client sends.
LEMMA JoinsKeepRows ==
  ASSUME Carried, RowsInv, UNCHANGED chatVars,
         joinStakingPanel \/ leaveStakingPanel \/ \E t \in Tokens : joinTokenMetricsFeed(t)
  PROVE  RowsInv' /\ OthersAside
  <1>1. joinedFeeds \subseteq Rows /\ Staking \in Rows /\ Tokens \subseteq Rows
    BY DEF RowsInv, RowTypes, Rows
  <1>2. ASSUME NEW f \in Rows, up' = Append(up, Room("row", f)),
               joinedFeeds' = joinedFeeds \union {f},
               UNCHANGED <<connected, socket_id, down, row, updating, shown, missed, tradeFeedVars>>
        PROVE  RowsInv' /\ OthersAside
    <2>1. /\ Carried' /\ (\A N : Moved(N))
          /\ (\A p, x : Asked(p, x)' <=> Asked(p, x) \/ Room(p, x) = Room("row", f))
      BY <1>2, RoomFacts, Asking
    <2>2. \A t : Asked("trade_feed", t)' <=> Asked("trade_feed", t)
      BY <2>1, RoomFacts
    <2>3. RowsInv'
      BY <1>1, <1>2, <2>1, RowsJoined
    <2> QED  BY <1>2, <2>1, <2>2, <2>3 DEF OthersAside, TradesAside, ChatAside
  <1>3. CASE joinStakingPanel
    BY <1>1, <1>2, <1>3 DEF joinStakingPanel, JoinRoom
  <1>4. CASE leaveStakingPanel
    <2>1. UNCHANGED <<socketVars, row, updating, shown, missed, tradeFeedVars>>
          /\ joinedFeeds' = joinedFeeds \ {Staking}
      BY <1>4 DEF leaveStakingPanel
    <2>2. UNCHANGED down /\ \A p, x : Asked(p, x)' <=> Asked(p, x)
      BY <2>1, Still DEF socketVars
    <2>3. RowsInv'
      BY <1>1, <2>1, <2>2, RowsJoined
    <2> QED  BY <2>1, <2>3, StillAside
  <1>5. ASSUME NEW t \in Tokens, joinTokenMetricsFeed(t) PROVE RowsInv' /\ OthersAside
    <2>1. up' = up \o <<Room("row", t)>>
      BY <1>5 DEF joinTokenMetricsFeed, Joined
    <2>2. up' = Append(up, Room("row", t))
      <3>1. PICK r \in Rooms : r = Room("row", t)
        BY <1>1, RoomFacts
      <3>2. up \in Seq(Rooms) /\ up' = up \o <<r>>
        BY <2>1, <3>1 DEF Carried
      <3>3. up' = Append(up, r)
        BY <3>2
      <3> QED  BY <3>1, <3>3
    <2> QED  BY <1>1, <1>2, <1>5, <2>2 DEF joinTokenMetricsFeed
  <1> QED  BY <1>3, <1>4, <1>5

\* A join that is answered.
LEMMA AnswersKeepRows ==
  ASSUME Carried, RowsInv, UNCHANGED chatVars, handleJoinRow
  PROVE  RowsInv' /\ OthersAside
  <1>1. PICK f : f = Head(up).subject
    OBVIOUS
  <1>2. /\ Joins("row") /\ up' = Tail(up) /\ UNCHANGED <<connected, socket_id, feedVars>>
        /\ down' = IF row[f] = 0 THEN down ELSE Append(down, Event("update", f, row[f]))
    BY <1>1 DEF handleJoinRow
  <1>3. PICK e : e = Event("update", f, row[f])
    OBVIOUS
  <1>4. e.name = "update" /\ e.name \notin {"trade", "history"}
        /\ e.name \notin {"authcode", "auth_response"}
    BY <1>3 DEF Event
  <1>5. IsSeq(down') /\ Moved({"trade", "history"}) /\ Moved({"authcode", "auth_response"})
    <2>1. CASE row[f] = 0
      BY <1>2, <2>1, Stood
    <2>2. CASE row[f] # 0
      <3>1. down' = Append(down, e)
        BY <1>2, <1>3, <2>2
      <3> QED  BY <1>4, <3>1, Sent
    <2> QED  BY <2>1, <2>2
  <1>6. /\ Carried' /\ Head(up) \in Rooms /\ Head(up).prefix = "row"
        /\ (\A p, x : Asked(p, x)' => Asked(p, x))
        /\ (\A p, x : Asked(p, x) /\ Room(p, x) # Head(up) => Asked(p, x)')
    BY <1>2, <1>5, Answering
  <1>7. f \in Rows /\ Head(up) = Room("row", f)
    BY <1>1, <1>6, RoomFacts
  <1>8. /\ (\A t : Asked("trade_feed", t)' <=> Asked("trade_feed", t))
        /\ (\A g : g # f => (Asked("row", g) => Asked("row", g)'))
    BY <1>6, <1>7, RoomFacts
  <1>9. UNCHANGED <<row, updating, joinedFeeds, shown, missed, tradeFeedVars>>
    BY <1>2 DEF feedVars, rowVars
  <1>10. OthersAside
    BY <1>2, <1>5, <1>6, <1>8, <1>9 DEF OthersAside, TradesAside, ChatAside
  <1>11. CASE row[f] # 0
    <2>1. down' = Append(down, Event("update", f, row[f]))
      BY <1>2, <1>11
    <2>2. RowsInv'
      BY <1>7, <1>8, <1>9, <2>1, RowTold
    <2> QED  BY <1>10, <2>2
  <1>12. CASE row[f] = 0
    <2>1. down' = down
      BY <1>2, <1>12
    <2>2. RowTypes' /\ LastWord'
      BY <1>9, <2>1 DEF RowsInv, RowTypes, LastWord, LastAbout, About, Places
    <2>3. shown[f] = 0
      BY <1>7, <1>12 DEF RowsInv, RowTypes
    <2>4. ShownIsLast'
      <3> SUFFICES ASSUME NEW g \in (joinedFeeds \ missed) \ {Staking},
                          NoneAbout("update", g)', ~Asked("row", g)'
                   PROVE  shown[g] = row[g] \/ updating[g] = "saved"
        BY <1>9 DEF ShownIsLast
      <3>1. NoneAbout("update", g)
        BY <2>1 DEF NoneAbout, About, Places
      <3> QED  BY <1>8, <1>12, <2>3, <3>1 DEF RowsInv, ShownIsLast
    <2> QED  BY <1>10, <2>2, <2>4 DEF RowsInv
  <1> QED  BY <1>11, <1>12

\* A word about a row arrives.
LEMMA WordsKeepRows ==
  ASSUME Carried, RowsInv, UNCHANGED chatVars, handleRow
  PROVE  RowsInv' /\ OthersAside
  <1>1. PICK f : f = Head(down).of
    OBVIOUS
  <1>2. PICK v : v = Head(down).says
    OBVIOUS
  <1>3. /\ Arrives("update") /\ down' = Tail(down)
        /\ shown' = IF f \in joinedFeeds THEN [shown EXCEPT ![f] = v] ELSE shown
        /\ missed' = missed \ {f}
        /\ UNCHANGED <<connected, socket_id, up, row, updating, joinedFeeds, tradeFeedVars>>
    BY <1>1, <1>2 DEF handleRow
  <1>4. /\ Carried' /\ (\A N : "update" \notin N => Moved(N))
        /\ (\A p, x : Asked(p, x)' <=> Asked(p, x))
        /\ Len(down) \in Nat \ {0} /\ Len(down') = Len(down) - 1
        /\ (\A i \in 1 .. Len(down) - 1 : down'[i] = down[i + 1])
        /\ Head(down) = down[1] /\ down[1].name = "update"
    BY <1>3, Arrival
  <1>5. "update" \notin {"trade", "history"} /\ "update" \notin {"authcode", "auth_response"}
    OBVIOUS
  <1>6. OthersAside
    BY <1>3, <1>4, <1>5 DEF OthersAside, TradesAside, ChatAside
  <1>7. Places = 1 .. Len(down) /\ Places' = 1 .. Len(down) - 1 /\ 1 \in Places
    BY <1>4 DEF Places
  <1>8. f \in Rows /\ v \in 0 .. row[f] /\ row[f] \in Nat /\ About(1, "update", f)
    BY <1>1, <1>2, <1>4, <1>7 DEF RowsInv, RowTypes, About
  <1>9. /\ shown' \in [Rows -> Nat] /\ (\A g \in Rows : g # f => shown'[g] = shown[g])
        /\ (f \in joinedFeeds => shown'[f] = v) /\ \A g \in Rows : shown'[g] <= row[g]
    <2>1. v \in Nat /\ v <= row[f]
      BY <1>8
    <2> QED  BY <1>3, <1>8, <2>1 DEF RowsInv, RowTypes
  <1>10. \A i \in Places' : i + 1 \in Places /\ down'[i] = down[i + 1]
    BY <1>4, <1>7
  <1>11. \A j \in Places : j > 1 => j - 1 \in Places' /\ down'[j - 1] = down[j]
    BY <1>4, <1>7
  <1>12. RowTypes'
    <2>1. \A i \in Places' : down'[i].name = "update" =>
            down'[i].of \in Rows /\ down'[i].says \in 0 .. row[down'[i].of]
      BY <1>10 DEF RowsInv, RowTypes
    <2> QED  BY <1>3, <1>9, <2>1 DEF RowsInv, RowTypes
  <1>13. LastWord'
    <2> SUFFICES ASSUME NEW g \in Rows \ {Staking}, NEW i \in Places',
                        LastAbout(i, "update", g)'
                 PROVE  down'[i].says = row[g] \/ updating[g] = "saved"
      BY <1>3 DEF LastWord
    <2>1. /\ down'[i].name = "update" /\ down'[i].of = g
          /\ \A j \in Places' : j > i => ~(down'[j].name = "update" /\ down'[j].of = g)
      BY DEF LastAbout, About
    <2>2. ASSUME NEW j \in Places, j > i + 1 PROVE ~About(j, "update", g)
      <3>1. j - 1 \in Places' /\ down'[j - 1] = down[j] /\ j - 1 > i
        BY <1>4, <1>7, <1>11, <2>2
      <3> QED  BY <2>1, <3>1 DEF About
    <2>3. i + 1 \in Places /\ down'[i] = down[i + 1] /\ LastAbout(i + 1, "update", g)
      BY <1>10, <2>1, <2>2 DEF LastAbout, About
    <2> QED  BY <2>3 DEF RowsInv, LastWord
  <1>14. ShownIsLast'
    <2> SUFFICES ASSUME NEW g \in (joinedFeeds \ missed') \ {Staking},
                        NoneAbout("update", g)', ~Asked("row", g)'
                 PROVE  shown'[g] = row[g] \/ updating[g] = "saved"
      BY <1>3 DEF ShownIsLast
    <2>1. \A i \in Places' : ~(down'[i].name = "update" /\ down'[i].of = g)
      BY DEF NoneAbout, About
    <2>2. \A j \in Places : j > 1 => ~About(j, "update", g)
      BY <1>11, <2>1 DEF About
    <2>3. g \in Rows
      BY DEF RowsInv, RowTypes
    <2>4. CASE g = f
      <3>1. LastAbout(1, "update", f)
        BY <1>8, <2>2, <2>4 DEF LastAbout
      <3>2. v = row[f] \/ updating[f] = "saved"
        BY <1>2, <1>4, <1>7, <1>8, <2>4, <3>1 DEF RowsInv, LastWord
      <3> QED  BY <1>9, <2>4, <3>2
    <2>5. CASE g # f
      <3>1. ~About(1, "update", g)
        BY <1>1, <1>4, <2>5 DEF About
      <3>2. NoneAbout("update", g)
        BY <1>7, <2>2, <3>1 DEF NoneAbout
      <3>3. ~Asked("row", g) /\ g \notin missed
        BY <1>3, <1>4, <2>5
      <3> QED  BY <1>9, <2>3, <2>5, <3>2, <3>3 DEF RowsInv, ShownIsLast
    <2> QED  BY <2>4, <2>5
  <1> QED  BY <1>6, <1>12, <1>13, <1>14 DEF RowsInv

\* What is lost with the connection is missed.
LEMMA BreaksKeepRows ==
  ASSUME Carried, RowsInv, Disconnect
  PROVE  RowsInv'
  <1>1. /\ up' = <<>> /\ down' = <<>>
        /\ missed' = missed \union {e.of : e \in Coming("update")}
                            \union {r.subject : r \in {x \in ToSet(up) : x.prefix = "row"}}
        /\ UNCHANGED <<row, updating, joinedFeeds, shown>>
    BY DEF Disconnect, FeedsDisconnect
  <1>2. Places' = {}
    BY <1>1 DEF Places
  <1>3. RowTypes' /\ LastWord'
    BY <1>1, <1>2 DEF RowsInv, RowTypes, LastWord
  <1>4. ShownIsLast'
    <2> SUFFICES ASSUME NEW g \in (joinedFeeds \ missed') \ {Staking}
                 PROVE  shown[g] = row[g] \/ updating[g] = "saved"
      BY <1>1 DEF ShownIsLast
    <2>1. ~Asked("row", g)
      <3>1. Asked("row", g) => g \in {r.subject : r \in {x \in ToSet(up) : x.prefix = "row"}}
        BY RoomFacts DEF Asked
      <3> QED  BY <1>1, <3>1
    <2>2. NoneAbout("update", g)
      <3> SUFFICES ASSUME NEW i \in Places, About(i, "update", g) PROVE FALSE
        BY DEF NoneAbout
      <3>1. DOMAIN down = Places
        BY DEF Carried, IsSeq, Places
      <3>2. down[i] \in Coming("update") /\ down[i].of = g
        BY <3>1 DEF About, Coming, ToSet
      <3> QED  BY <1>1, <3>2
    <2> QED  BY <1>1, <2>1, <2>2 DEF RowsInv, ShownIsLast
  <1> QED  BY <1>3, <1>4 DEF RowsInv

-----------------------------------------------------------------------------
(* The trades *)

\* What every step of the trades leaves alone.
RestAside == Carried' /\ RowsAside /\ ChatAside

\* A step that sends nothing leaves the other parts alone.
LEMMA StillRest ==
  ASSUME Carried, UNCHANGED <<socketVars, rowVars, chatVars>>
  PROVE  RestAside
  <1>1. /\ Carried' /\ (\A N : Moved(N)) /\ (\A p, x : Asked(p, x)' <=> Asked(p, x))
    BY Still
  <1>2. UNCHANGED <<connected, socket_id, row, updating, joinedFeeds, shown, missed>>
    BY DEF socketVars, rowVars
  <1> QED  BY <1>1, <1>2 DEF RestAside, RowsAside, ChatAside

\* A trade is shown once as before where it is listed, or comes, as before.
LEMMA OnceKept ==
  ASSUME Carried, IsSeq(down'), Moved({"history"}), NEW t \in Tokens, NEW x, Once(t, x),
         Follows(t, x)' <=> Follows(t, x), tradeHistory'[t] = tradeHistory[t],
         Asked("trade_feed", t)' <=> Asked("trade_feed", t), x \in early' <=> x \in early
  PROVE  Once(t, x)'
  <1>1. NoneAbout("history", t)' <=> NoneAbout("history", t)
    BY LastMoves
  <1>2. ASSUME NEW i \in 1 .. Len(down'), LastAbout(i, "history", t)'
        PROVE  Asked("trade_feed", t) \/ (Follows(t, x)' <=> x \notin down'[i].says)
    <2>1. PICK j \in Places : LastAbout(j, "history", t) /\ down[j] = down'[i]
      BY <1>2, LastMoves
    <2> QED  BY <2>1 DEF Once
  <1> QED  BY <1>1, <1>2 DEF Once, Places

\* A trade of another market, or another trade, is told: those that were told
\* before stay where they are.
LEMMA FollowsKept ==
  ASSUME Carried, NEW e, down' = Append(down, e), NEW t \in Tokens, NEW x,
         ~(e.name = "trade" /\ e.of = t /\ e.says = x), tradeUpdates'[t] = tradeUpdates[t]
  PROVE  Follows(t, x)' <=> Follows(t, x)
  <1>1. /\ Len(down) \in Nat /\ Len(down') = Len(down) + 1
        /\ \A i \in 1 .. Len(down) : down'[i] = down[i]
        /\ down'[Len(down) + 1] = e
    BY AppendFacts DEF Carried
  <1>2. \A i \in Places : i \in Places' /\ down'[i] = down[i]
    BY <1>1 DEF Places
  <1>3. \A i \in Places' : i \in Places \/ down'[i] = e
    BY <1>1 DEF Places
  <1>4. ASSUME NEW i \in Places, About(i, "trade", t), down[i].says = x PROVE Follows(t, x)'
    BY <1>2, <1>4 DEF About, Follows
  <1>5. ASSUME NEW i \in Places', About(i, "trade", t)', down'[i].says = x PROVE Follows(t, x)
    BY <1>2, <1>3, <1>5 DEF About, Follows
  <1> QED  BY <1>4, <1>5 DEF Follows

\* The lists are of trades.
LEMMA ListedTrades ==
  ASSUME TradeTypes, NEW u \in Tokens
  PROVE  /\ tradeUpdates[u] \in Seq(Trades) /\ Len(tradeUpdates[u]) \in Nat
         /\ \A k \in 1 .. Len(tradeUpdates[u]) :
              tradeUpdates[u][k] \in Trades /\ tradeUpdates[u][k][2] \in Nat
  <1>1. PICK s : s = tradeUpdates[u]
    OBVIOUS
  <1>2. s \in Seq(Trades)
    BY <1>1 DEF TradeTypes
  <1>3. \A x \in Trades : x[2] \in Nat
    BY DEF Trades
  <1> HIDE DEF Trades
  <1>4. Len(s) \in Nat /\ \A k \in 1 .. Len(s) : s[k] \in Trades
    BY <1>2
  <1> QED  BY <1>1, <1>2, <1>3, <1>4

\* A trade that is told now has a number of its own.
LEMMA TradeIsNew ==
  ASSUME Carried, TradesInv, NEW t \in Tokens, Watching(t), NEW x, x[2] = trades + 1
  PROVE  ~Follows(t, x) /\ x \notin TradeHistory[t] /\ x \notin tradeHistory[t] /\ x \notin early
  <1>1. trades \in Nat /\ ~(trades + 1 <= trades)
    BY DEF TradesInv, TradeTypes
  <1>2. x \notin TradeHistory[t] /\ x \notin tradeHistory[t] /\ x \notin early
    BY <1>1 DEF TradesInv, TradeTypes
  <1>3. listeners[t] <= 1
    BY DEF TradesInv, Listening, Watching
  <1>4. ~\E k \in 1 .. Len(tradeUpdates[t]) : tradeUpdates[t][k] = x
    BY <1>1, <1>3 DEF TradesInv, ListsInOrder
  <1>5. ~\E i \in Places : About(i, "trade", t) /\ down[i].says = x
    BY <1>1 DEF TradesInv, InOrder, About
  <1> QED  BY <1>2, <1>4, <1>5 DEF Follows

\* The queue comes to a trade: it is behind those before it, and early where the
\* history has yet to be read.
LEMMA TradesComeOnce ==
  ASSUME Carried, RowTypes, TradesInv, UNCHANGED chatVars, NEW t \in Tokens, updateTradeFeed(t)
  PROVE  TradesInv' /\ RestAside
  <1>1. PICK x0 : x0 = <<t, trades'>>
    OBVIOUS
  <1>2. PICK e : e = Event("trade", t, x0)
    OBVIOUS
  <1>3. e.name = "trade" /\ e.of = t /\ e.says = x0
    BY <1>2 DEF Event
  <1>4. /\ (\A f \in Tokens : updating[f] = None)
        /\ trades' = trades + 1 /\ down' = Emitted(e)
        /\ tradeSaves' = tradeSaves \union {x0}
        /\ early' = (IF connected /\ Asked("trade_feed", t) THEN early \union {x0} ELSE early)
        /\ updating' = [updating EXCEPT ![t] = "trade"]
        /\ UNCHANGED <<connected, socket_id, up, row, joinedFeeds, shown, missed, TradeHistory,
                 selectedToken, asked, current_trade_feed, listeners, tradeHistory, tradeUpdates,
                 cut, again, blurred>>
    BY <1>1, <1>2 DEF updateTradeFeed, UpdateOf, Asked
  <1>5. /\ Carried' /\ (\A N : "trade" \notin N => Moved(N)) /\ (\A p, x : Asked(p, x)' <=> Asked(p, x))
    BY <1>3, <1>4, Emission
  <1>6. RestAside
    <2>1. "trade" \notin {"update"} /\ "trade" \notin {"authcode", "auth_response"}
      OBVIOUS
    <2> QED  BY <1>4, <1>5, <2>1 DEF RestAside, RowsAside, ChatAside
  <1>7. trades \in Nat /\ x0 \in Trades /\ x0[1] = t /\ x0[2] = trades + 1
    BY <1>1, <1>4 DEF TradesInv, TradeTypes, Trades
  <1>8. TradeTypes'
    <2>1. early' \subseteq Trades /\ tradeSaves' \subseteq Trades /\ trades' \in Nat
      BY <1>4, <1>7 DEF TradesInv, TradeTypes
    <2>2. \A n \in Nat : n <= trades => n <= trades'
      BY <1>4, <1>7
    <2>3. \A x \in Trades : x[2] \in Nat
      BY DEF Trades
    <2>4. \A x \in tradeSaves' \union early' : x[2] <= trades'
      <3>1. x0[2] <= trades'
        BY <1>4, <1>7
      <3>2. \A x \in tradeSaves \union early : x[2] <= trades'
        BY <2>2, <2>3 DEF TradesInv, TradeTypes
      <3> QED  BY <1>4, <3>1, <3>2
    <2>5. \A u \in Tokens : \A x \in TradeHistory[u] : x[1] = u /\ x[2] <= trades'
      BY <2>2, <2>3 DEF TradesInv, TradeTypes
    <2> QED  BY <1>4, <2>1, <2>4, <2>5 DEF TradesInv, TradeTypes
  <1>9. Listening'
    BY <1>4, <1>5 DEF TradesInv, Listening, Watching, Held
  <1>10. \A n \in Nat : n <= trades => n <= trades' /\ n < trades + 1
    BY <1>4, <1>7
  <1>11. CASE connected
    <2>1. down' = Append(down, e)
      BY <1>4, <1>11 DEF Emitted
    <2>2. /\ Len(down) \in Nat /\ Len(down') = Len(down) + 1
          /\ \A i \in 1 .. Len(down) : down'[i] = down[i]
          /\ down'[Len(down) + 1] = e
      BY <2>1, AppendFacts DEF Carried
    <2>3. Places' = 1 .. Len(down) + 1 /\ Places = 1 .. Len(down) /\ Len(down) + 1 \in Places'
      BY <2>2 DEF Places
    <2>4. ASSUME NEW i \in Places'
          PROVE  (i \in Places /\ down'[i] = down[i]) \/ (i = Len(down) + 1 /\ down'[i] = e)
      <3>1. i \in 1 .. Len(down) \/ i = Len(down) + 1
        BY <2>2, <2>3
      <3> QED  BY <2>2, <2>3, <3>1
    <2>5. \A i \in Places : down[i].name = "trade" => down[i].says \in Trades /\ down[i].says[2] \in Nat
      BY DEF TradesInv, InOrder, Trades
    <2>6. InOrder'
      <3>1. ASSUME NEW i \in Places', down'[i].name = "trade"
            PROVE  /\ down'[i].of \in Tokens /\ down'[i].says \in Trades
                   /\ down'[i].says[1] = down'[i].of /\ down'[i].says[2] <= trades'
        <4>1. CASE i \in Places /\ down'[i] = down[i]
          BY <1>10, <2>5, <3>1, <4>1 DEF TradesInv, InOrder
        <4>2. CASE down'[i] = e
          BY <1>3, <1>4, <1>7, <4>2
        <4> QED  BY <2>4, <4>1, <4>2
      <3>2. ASSUME NEW i \in Places', NEW j \in Places', i < j,
                   down'[i].name = "trade", down'[j].name = "trade"
            PROVE  down'[i].says[2] < down'[j].says[2]
        <4>1. i \in Places /\ down'[i] = down[i]
          BY <2>2, <2>3, <3>2
        <4>2. CASE j \in Places /\ down'[j] = down[j]
          BY <3>2, <4>1, <4>2 DEF TradesInv, InOrder
        <4>3. CASE down'[j] = e
          BY <1>3, <1>7, <1>10, <2>5, <3>2, <4>1, <4>3 DEF TradesInv, InOrder
        <4> QED  BY <2>4, <4>2, <4>3
      <3>3. ASSUME NEW i \in Places', down'[i].name = "history"
            PROVE  down'[i].of \in Tokens /\ down'[i].says \subseteq TradeHistory[down'[i].of]
        <4>1. i \in Places /\ down'[i] = down[i]
          BY <1>3, <2>4, <3>3
        <4> QED  BY <3>3, <4>1 DEF TradesInv, InOrder
      <3> QED  BY <1>4, <3>1, <3>2, <3>3 DEF InOrder
    <2>7. ListsInOrder'
      <3> SUFFICES ASSUME NEW u \in Tokens, listeners[u] <= 1
                   PROVE  /\ \A k \in 1 .. Len(tradeUpdates[u]) :
                               tradeUpdates[u][k][1] = u /\ tradeUpdates[u][k][2] <= trades'
                          /\ \A k, l \in 1 .. Len(tradeUpdates[u]) :
                               k < l => tradeUpdates[u][k][2] < tradeUpdates[u][l][2]
                          /\ \A k \in 1 .. Len(tradeUpdates[u]), i \in Places' :
                               down'[i].name = "trade" /\ down'[i].of = u =>
                                 tradeUpdates[u][k][2] < down'[i].says[2]
                          /\ listeners[u] = 0 => tradeUpdates[u] = <<>> /\ tradeHistory[u] = {}
        BY <1>4 DEF ListsInOrder, About
      <3>1. /\ \A k \in 1 .. Len(tradeUpdates[u]) :
                 tradeUpdates[u][k][1] = u /\ tradeUpdates[u][k][2] <= trades
            /\ \A k, l \in 1 .. Len(tradeUpdates[u]) :
                 k < l => tradeUpdates[u][k][2] < tradeUpdates[u][l][2]
            /\ \A k \in 1 .. Len(tradeUpdates[u]), i \in Places :
                 down[i].name = "trade" /\ down[i].of = u => tradeUpdates[u][k][2] < down[i].says[2]
            /\ listeners[u] = 0 => tradeUpdates[u] = <<>> /\ tradeHistory[u] = {}
        BY DEF TradesInv, ListsInOrder, About
      <3>2. \A k \in 1 .. Len(tradeUpdates[u]) : tradeUpdates[u][k][2] \in Nat
        BY ListedTrades DEF TradesInv
      <3>3. ASSUME NEW k \in 1 .. Len(tradeUpdates[u]), NEW i \in Places',
                   down'[i].name = "trade", down'[i].of = u
            PROVE  tradeUpdates[u][k][2] < down'[i].says[2]
        <4>1. CASE i \in Places /\ down'[i] = down[i]
          BY <3>1, <3>3, <4>1
        <4>2. CASE down'[i] = e
          BY <1>3, <1>7, <1>10, <3>1, <3>2, <4>2
        <4> QED  BY <2>4, <4>1, <4>2
      <3> QED  BY <1>10, <3>1, <3>2, <3>3
    <2>8. EachOnce'
      <3> SUFFICES ASSUME NEW u \in Tokens, Watching(u), NEW x \in Told(u)' \ blurred
                   PROVE  Once(u, x)'
        BY <1>4 DEF EachOnce, Watching, Held
      <3>1. CASE u = t /\ x = x0
        <4>1. Follows(u, x)'
          BY <1>3, <2>2, <2>3, <3>1 DEF Follows, About
        <4>2. /\ x \notin TradeHistory[u] /\ x \notin tradeHistory[u] /\ x \notin early
          BY <1>7, <3>1, TradeIsNew
        <4>3. Asked("trade_feed", u)' => x \in early'
          BY <1>4, <1>5, <1>11, <3>1
        <4>4. \A i \in Places' : down'[i].name = "history" /\ down'[i].of = u => x \notin down'[i].says
          BY <1>4, <2>6, <4>2 DEF InOrder
        <4> QED  BY <1>4, <4>1, <4>2, <4>3, <4>4 DEF Once, LastAbout, About
      <3>2. CASE ~(u = t /\ x = x0)
        <4>1. x \in Told(u) /\ x # x0
          BY <1>4, <1>7, <3>2 DEF Told, TradesInv, TradeTypes
        <4>2. Once(u, x)
          BY <4>1 DEF TradesInv, EachOnce
        <4>3. Follows(u, x)' <=> Follows(u, x)
          BY <1>3, <1>4, <2>1, <4>1, FollowsKept
        <4>4. Moved({"history"}) /\ IsSeq(down')
          BY <1>5 DEF Carried
        <4>5. Asked("trade_feed", u)' <=> Asked("trade_feed", u)
          BY <1>5
        <4>6. x \in early' <=> x \in early
          BY <1>4, <4>1
        <4> QED  BY <1>4, <4>2, <4>3, <4>4, <4>5, <4>6, OnceKept
      <3> QED  BY <3>1, <3>2
    <2> QED  BY <1>6, <1>8, <1>9, <2>6, <2>7, <2>8 DEF TradesInv
  <1>12. CASE ~connected
    <2>1. UNCHANGED <<down, early>> /\ down = <<>>
      BY <1>4, <1>12 DEF Emitted, Carried
    <2>2. Places = {} /\ Places' = {}
      BY <2>1 DEF Places
    <2>3. InOrder'
      BY <2>2 DEF InOrder
    <2>4. ListsInOrder'
      <3> SUFFICES ASSUME NEW u \in Tokens, listeners[u] <= 1
                   PROVE  /\ \A k \in 1 .. Len(tradeUpdates[u]) :
                               tradeUpdates[u][k][1] = u /\ tradeUpdates[u][k][2] <= trades'
                          /\ \A k, l \in 1 .. Len(tradeUpdates[u]) :
                               k < l => tradeUpdates[u][k][2] < tradeUpdates[u][l][2]
                          /\ listeners[u] = 0 => tradeUpdates[u] = <<>> /\ tradeHistory[u] = {}
        BY <1>4, <2>2 DEF ListsInOrder
      <3>1. /\ \A k \in 1 .. Len(tradeUpdates[u]) :
                 tradeUpdates[u][k][1] = u /\ tradeUpdates[u][k][2] <= trades
            /\ \A k, l \in 1 .. Len(tradeUpdates[u]) :
                 k < l => tradeUpdates[u][k][2] < tradeUpdates[u][l][2]
            /\ listeners[u] = 0 => tradeUpdates[u] = <<>> /\ tradeHistory[u] = {}
        BY DEF TradesInv, ListsInOrder
      <3>2. \A k \in 1 .. Len(tradeUpdates[u]) : tradeUpdates[u][k][2] \in Nat
        BY ListedTrades DEF TradesInv
      <3> QED  BY <1>10, <3>1, <3>2
    <2>5. EachOnce'
      <3> SUFFICES ASSUME NEW u \in Tokens, Watching(u), NEW x \in Told(u)' \ blurred
                   PROVE  Once(u, x)'
        BY <1>4 DEF EachOnce, Watching, Held
      <3>1. Asked("trade_feed", u) /\ Asked("trade_feed", u)'
        BY <1>5, <1>12 DEF TradesInv, Listening
      <3>2. Follows(u, x)' <=> Follows(u, x)
        BY <1>4, <2>2 DEF Follows
      <3>3. CASE u = t /\ x = x0
        BY <1>7, <2>1, <3>1, <3>2, <3>3, TradeIsNew DEF Once
      <3>4. CASE ~(u = t /\ x = x0)
        <4>1. x \in Told(u)
          BY <1>4, <1>7, <3>4 DEF Told
        <4> QED  BY <2>1, <3>1, <3>2, <4>1 DEF TradesInv, EachOnce, Once
      <3> QED  BY <3>3, <3>4
    <2> QED  BY <1>6, <1>8, <1>9, <2>3, <2>4, <2>5 DEF TradesInv
  <1> QED  BY <1>11, <1>12

\* A trade is inserted that was told before.
LEMMA SavesKeepTrades ==
  ASSUME Carried, TradesInv, UNCHANGED chatVars, NEW x0 \in tradeSaves, saveTradeUpdate(x0)
  PROVE  TradesInv' /\ RestAside
  <1>1. /\ TradeHistory' = [TradeHistory EXCEPT ![x0[1]] = @ \union {x0}]
        /\ tradeSaves' = tradeSaves \ {x0}
        /\ UNCHANGED <<socketVars, rowVars, trades, selectedToken, asked, current_trade_feed,
                       listeners, tradeHistory, tradeUpdates, cut, again, early, blurred>>
    BY DEF saveTradeUpdate
  <1>2. UNCHANGED <<connected, socket_id, up, down>>
    BY <1>1 DEF socketVars
  <1>3. RestAside
    BY <1>1, StillRest
  <1>4. x0 \in Trades /\ x0[1] \in Tokens /\ x0[2] <= trades
    BY DEF TradesInv, TradeTypes, Trades
  <1>5. /\ TradeHistory' \in [Tokens -> SUBSET Trades]
        /\ \A t \in Tokens : TradeHistory'[t] = TradeHistory[t] \union (IF t = x0[1] THEN {x0} ELSE {})
    BY <1>1, <1>4 DEF TradesInv, TradeTypes
  <1>6. TradeTypes'
    BY <1>1, <1>4, <1>5 DEF TradesInv, TradeTypes
  <1>7. InOrder'
    BY <1>1, <1>2, <1>5 DEF TradesInv, InOrder, Places
  <1>8. ListsInOrder' /\ Listening'
    BY <1>1, <1>2 DEF TradesInv, ListsInOrder, Listening, Watching, Held, About, Places, Asked
  <1>9. EachOnce'
    <2> SUFFICES ASSUME NEW t \in Tokens, Watching(t), NEW x \in Told(t)' \ blurred
                 PROVE  Once(t, x)'
      BY <1>1 DEF EachOnce, Watching, Held
    <2>1. x \in Told(t)
      BY <1>1, <1>5 DEF Told
    <2>2. Once(t, x)
      BY <2>1 DEF TradesInv, EachOnce
    <2>3. Moved({"trade", "history"}) /\ IsSeq(down')
      BY <1>2, Stood
    <2>4. Asked("trade_feed", t)' <=> Asked("trade_feed", t)
      BY <1>2 DEF Asked
    <2> QED  BY <1>1, <2>2, <2>3, <2>4, OnceStands
  <1> QED  BY <1>3, <1>6, <1>7, <1>8, <1>9 DEF TradesInv

\* Another token is chosen: no more markets are held than before.
LEMMA ChoicesKeepTrades ==
  ASSUME Carried, TradesInv, UNCHANGED chatVars, NEW t0 \in Tokens, selectToken(t0)
  PROVE  TradesInv' /\ RestAside
  <1>1. /\ selectedToken' = t0 /\ asked' = asked \union {t0}
        /\ UNCHANGED <<socketVars, rowVars, TradeHistory, tradeSaves, trades, current_trade_feed,
                 listeners, tradeHistory, tradeUpdates, cut, again, early, blurred>>
    BY DEF selectToken
  <1>2. UNCHANGED <<connected, socket_id, up, down>>
    BY <1>1 DEF socketVars
  <1>3. RestAside
    BY <1>1, StillRest
  <1>4. TradeTypes' /\ InOrder' /\ ListsInOrder'
    BY <1>1, <1>2 DEF TradesInv, TradeTypes, InOrder, ListsInOrder, About, Places
  <1>5. \A t : Held(t)' => Held(t)
    BY <1>1 DEF Held
  <1>6. \A t : Watching(t)' => Watching(t)
    BY <1>1, <1>5 DEF Watching
  <1>7. Listening'
    BY <1>1, <1>2, <1>5, <1>6 DEF TradesInv, Listening, Asked
  <1>8. EachOnce'
    <2> SUFFICES ASSUME NEW t \in Tokens, Watching(t)', NEW x \in Told(t) \ blurred
                 PROVE  Once(t, x)'
      BY <1>1 DEF EachOnce, Told
    <2>1. Once(t, x)
      BY <1>6 DEF TradesInv, EachOnce
    <2>2. Moved({"trade", "history"}) /\ IsSeq(down')
      BY <1>2, Stood
    <2>3. Asked("trade_feed", t)' <=> Asked("trade_feed", t)
      BY <1>2 DEF Asked
    <2> QED  BY <1>1, <2>1, <2>2, <2>3, OnceStands
  <1> QED  BY <1>3, <1>4, <1>7, <1>8 DEF TradesInv

\* Another page is opened: nothing is held any more, and the lists are empty.
LEMMA LeavingKeepsTrades ==
  ASSUME Carried, TradesInv, UNCHANGED chatVars, leaveTradeFeed
  PROVE  TradesInv' /\ RestAside
  <1>1. /\ selectedToken' = None /\ current_trade_feed' = None
        /\ listeners' = (IF current_trade_feed = None THEN listeners
                         ELSE [listeners EXCEPT ![current_trade_feed] = 0])
        /\ tradeHistory' = [t \in Tokens |-> {}] /\ tradeUpdates' = [t \in Tokens |-> <<>>]
        /\ UNCHANGED <<socketVars, rowVars, TradeHistory, tradeSaves, trades, asked, cut, again,
                       early, blurred>>
    BY DEF leaveTradeFeed
  <1>2. UNCHANGED <<connected, socket_id, up, down>>
    BY <1>1 DEF socketVars
  <1>3. RestAside
    BY <1>1, StillRest
  <1>4. \A t \in Tokens : ~Held(t)'
    BY <1>1, FeedsAssumption DEF Held, Rows
  <1>5. listeners' \in [Tokens -> Nat] /\ \A t \in Tokens : listeners'[t] = listeners[t] \/ listeners'[t] = 0
    BY <1>1 DEF TradesInv, TradeTypes
  <1>6. TradeTypes'
    <2>1. tradeUpdates' \in [Tokens -> Seq(Trades)] /\ tradeHistory' \in [Tokens -> SUBSET Trades]
      BY <1>1
    <2> QED  BY <1>1, <1>5, <2>1 DEF TradesInv, TradeTypes
  <1>7. InOrder'
    BY <1>1, <1>2 DEF TradesInv, InOrder, Places
  <1>8. ListsInOrder'
    BY <1>1 DEF ListsInOrder
  <1>9. Listening'
    BY <1>1, <1>4, <1>5 DEF TradesInv, Listening, Watching
  <1>10. EachOnce'
    BY <1>4 DEF EachOnce, Watching
  <1> QED  BY <1>3, <1>6, <1>7, <1>8, <1>9, <1>10 DEF TradesInv

\* A break: what was listened to is not watched any more.
LEMMA BreaksKeepTrades ==
  ASSUME TradesInv, Disconnect
  PROVE  TradesInv'
  <1>1. /\ down' = <<>> /\ connected' = FALSE
        /\ cut' = cut \union {t \in Tokens : listeners[t] > 0}
        /\ UNCHANGED <<TradeHistory, tradeSaves, trades, selectedToken, asked, current_trade_feed,
                       listeners, tradeHistory, tradeUpdates, again, early, blurred>>
    BY DEF Disconnect, FeedsDisconnect
  <1>2. Places' = {}
    BY <1>1 DEF Places
  <1>3. TradeTypes' /\ InOrder' /\ ListsInOrder'
    BY <1>1, <1>2 DEF TradesInv, TradeTypes, InOrder, ListsInOrder
  <1>4. \A t \in Tokens : ~Watching(t)'
    BY <1>1 DEF TradesInv, Listening, Watching, Held
  <1>5. Listening' /\ EachOnce'
    BY <1>1, <1>4 DEF TradesInv, Listening, Held, EachOnce
  <1> QED  BY <1>3, <1>5 DEF TradesInv

\* A market is joined, with the trades on their way as the early ones; one that
\* is listened to already is not watched any more.
LEMMA JoinsKeepTrades ==
  ASSUME Carried, TradesInv, UNCHANGED chatVars, NEW t0 \in Tokens, joinTradeFeed(t0)
  PROVE  TradesInv' /\ RestAside
  <1>1. /\ t0 \in asked /\ asked' = asked \ {t0}
        /\ UNCHANGED <<connected, socket_id, down, rowVars, TradeHistory, tradeSaves, trades,
                       selectedToken, tradeHistory, tradeUpdates, blurred>>
    BY DEF joinTradeFeed
  <1>2. UNCHANGED <<row, updating, joinedFeeds, shown, missed>>
    BY <1>1 DEF rowVars
  <1>3. InOrder'
    BY <1>1 DEF TradesInv, InOrder, Places
  <1>4. \A t : t # t0 => (Held(t)' => Held(t))
    <2>1. CASE current_trade_feed = t0
      BY <1>1, <2>1 DEF Held, joinTradeFeed
    <2>2. CASE current_trade_feed # t0
      <3>1. current_trade_feed' = t0
        BY <2>2 DEF joinTradeFeed
      <3> QED  BY <1>1, <3>1 DEF Held
    <2> QED  BY <2>1, <2>2
  <1>5. CASE current_trade_feed = t0
    <2>1. UNCHANGED <<up, listeners, current_trade_feed, cut, again, early>>
      BY <1>5 DEF joinTradeFeed
    <2>2. UNCHANGED <<socketVars, rowVars, chatVars>>
      BY <1>1, <2>1 DEF socketVars
    <2>3. TradeTypes' /\ ListsInOrder'
      BY <1>1, <2>1 DEF TradesInv, TradeTypes, ListsInOrder, About, Places
    <2>4. \A t : Held(t)' => Held(t)
      BY <1>4, <1>5 DEF Held
    <2>5. \A t : Watching(t)' => Watching(t)
      BY <2>1, <2>4 DEF Watching
    <2>6. Listening'
      BY <1>1, <2>1, <2>4, <2>5 DEF TradesInv, Listening, Asked
    <2>7. EachOnce'
      <3> SUFFICES ASSUME NEW t \in Tokens, Watching(t)', NEW x \in Told(t) \ blurred
                   PROVE  Once(t, x)'
        BY <1>1 DEF EachOnce, Told
      <3>1. Once(t, x)
        BY <2>5 DEF TradesInv, EachOnce
      <3>2. Moved({"trade", "history"}) /\ IsSeq(down')
        BY <1>1, Stood
      <3>3. Asked("trade_feed", t)' <=> Asked("trade_feed", t)
        BY <2>1 DEF Asked
      <3> QED  BY <1>1, <2>1, <3>1, <3>2, <3>3, OnceStands
    <2> QED  BY <1>3, <2>2, <2>3, <2>6, <2>7, StillRest DEF TradesInv
  <1>6. CASE current_trade_feed # t0
    <2>1. /\ up' = Append(up, Room("trade_feed", t0))
          /\ listeners' = [listeners EXCEPT ![t0] = @ + 1] /\ current_trade_feed' = t0
          /\ IF listeners[t0] > 0
             THEN again' = again \union {t0} /\ UNCHANGED <<cut, early>>
             ELSE /\ again' = again \ {t0} /\ cut' = cut \ {t0}
                  /\ early' = {x \in early : x[1] # t0}
                                \union {e.says : e \in {x \in Coming("trade") : x.of = t0}}
      BY <1>6 DEF joinTradeFeed, JoinRoom
    <2>2. /\ Carried' /\ (\A N : Moved(N))
          /\ (\A p, x : Asked(p, x)' <=> Asked(p, x) \/ Room(p, x) = Room("trade_feed", t0))
      BY <1>1, <2>1, RoomFacts, Asking
    <2>3. /\ (\A f : Asked("row", f)' <=> Asked("row", f))
          /\ Asked("trade_feed", t0)'
          /\ (\A t : t # t0 => (Asked("trade_feed", t)' <=> Asked("trade_feed", t)))
      BY <2>2, RoomFacts
    <2>4. RestAside
      BY <1>1, <1>2, <2>2, <2>3 DEF RestAside, RowsAside, ChatAside
    <2>5. /\ listeners' \in [Tokens -> Nat] /\ listeners'[t0] = listeners[t0] + 1
          /\ (\A t \in Tokens : t # t0 => listeners'[t] = listeners[t]) /\ listeners[t0] \in Nat
      BY <2>1 DEF TradesInv, TradeTypes
    <2>6. DOMAIN down = Places
      BY DEF Carried, IsSeq, Places
    <2>7. ASSUME NEW x, x \in {e.says : e \in {y \in Coming("trade") : y.of = t0}}
          PROVE  \E i \in Places : About(i, "trade", t0) /\ down[i].says = x
      BY <2>6, <2>7 DEF Coming, ToSet, About
    <2>8. ASSUME NEW i \in Places, About(i, "trade", t0)
          PROVE  down[i].says \in {e.says : e \in {y \in Coming("trade") : y.of = t0}}
      BY <2>6, <2>8 DEF Coming, ToSet, About
    <2>9. \A i \in Places : About(i, "trade", t0) =>
            down[i].says \in Trades /\ down[i].says[1] = t0 /\ down[i].says[2] <= trades
      BY DEF TradesInv, InOrder, About
    <2>10. /\ early' \subseteq Trades /\ (\A x \in early' : x[2] <= trades)
           /\ \A x : x[1] # t0 => (x \in early' <=> x \in early)
      <3>1. CASE listeners[t0] > 0
        BY <2>1, <3>1 DEF TradesInv, TradeTypes
      <3>2. CASE ~(listeners[t0] > 0)
        <4>1. PICK E : E = {e.says : e \in {y \in Coming("trade") : y.of = t0}}
          OBVIOUS
        <4>2. early' = {x \in early : x[1] # t0} \union E
          BY <2>1, <3>2, <4>1
        <4>3. \A x \in E : x \in Trades /\ x[1] = t0 /\ x[2] <= trades
          BY <2>7, <2>9, <4>1
        <4>4. early \subseteq Trades /\ \A x \in early : x[2] <= trades
          BY DEF TradesInv, TradeTypes
        <4> QED  BY <4>2, <4>3, <4>4
      <3> QED  BY <3>1, <3>2
    <2>11. TradeTypes'
      BY <1>1, <2>1, <2>5, <2>10 DEF TradesInv, TradeTypes
    <2>12. ListsInOrder'
      <3>1. listeners'[t0] <= 1 => listeners[t0] = 0 /\ listeners'[t0] # 0
        BY <2>5
      <3>2. listeners[t0] = 0 => tradeUpdates[t0] = <<>>
        BY DEF TradesInv, ListsInOrder
      <3>3. UNCHANGED <<down, trades, tradeUpdates, tradeHistory>>
        BY <1>1
      <3> SUFFICES ASSUME NEW t \in Tokens, listeners'[t] <= 1
                   PROVE  /\ \A k \in 1 .. Len(tradeUpdates[t]) :
                               tradeUpdates[t][k][1] = t /\ tradeUpdates[t][k][2] <= trades
                          /\ \A k, l \in 1 .. Len(tradeUpdates[t]) :
                               k < l => tradeUpdates[t][k][2] < tradeUpdates[t][l][2]
                          /\ \A k \in 1 .. Len(tradeUpdates[t]), i \in Places :
                               About(i, "trade", t) => tradeUpdates[t][k][2] < down[i].says[2]
                          /\ listeners'[t] = 0 => tradeUpdates[t] = <<>> /\ tradeHistory[t] = {}
        BY <3>3 DEF ListsInOrder, About, Places
      <3>4. CASE t = t0
        BY <3>1, <3>2, <3>4
      <3>5. CASE t # t0
        BY <2>5, <3>5 DEF TradesInv, ListsInOrder
      <3> QED  BY <3>4, <3>5
    <2>13. \A t : t # t0 => (Watching(t)' => Watching(t))
      BY <1>4, <2>1 DEF Watching
    <2>14. Listening'
      <3> SUFFICES ASSUME NEW t \in Tokens
                   PROVE  /\ Held(t)' => listeners'[t] > 0
                          /\ t \notin again' => listeners'[t] <= 1
                          /\ Watching(t)' /\ ~connected => Asked("trade_feed", t)'
        BY <1>1 DEF Listening
      <3>1. CASE t = t0
        BY <2>1, <2>3, <2>5, <3>1
      <3>2. CASE t # t0
        BY <1>4, <2>1, <2>3, <2>5, <2>13, <3>2 DEF TradesInv, Listening
      <3> QED  BY <3>1, <3>2
    <2>15. EachOnce'
      <3> SUFFICES ASSUME NEW t \in Tokens, Watching(t)', NEW x \in Told(t) \ blurred
                   PROVE  Once(t, x)'
        BY <1>1 DEF EachOnce, Told
      <3>0. x[1] = t
        BY DEF Told, TradesInv, TradeTypes
      <3>1. CASE t # t0
        <4>1. Once(t, x)
          BY <2>13, <3>1 DEF TradesInv, EachOnce
        <4>2. Moved({"trade", "history"}) /\ IsSeq(down')
          BY <1>1, Stood
        <4> QED  BY <1>1, <2>3, <2>10, <3>0, <3>1, <4>1, <4>2, OnceStands
      <3>2. CASE t = t0
        <4>1. ~(listeners[t0] > 0)
          BY <2>1, <3>2 DEF Watching
        <4>2. tradeUpdates[t] = <<>> /\ UNCHANGED <<down, tradeUpdates>>
          BY <1>1, <2>5, <3>2, <4>1 DEF TradesInv, ListsInOrder
        <4>3. Follows(t, x)' <=> \E i \in Places : About(i, "trade", t) /\ down[i].says = x
          BY <4>2 DEF Follows, About, Places
        <4>4. x \in early' <=> x \in {e.says : e \in {y \in Coming("trade") : y.of = t0}}
          BY <2>1, <3>0, <3>2, <4>1
        <4>5. Follows(t, x)' <=> x \in early'
          BY <2>7, <2>8, <3>2, <4>3, <4>4
        <4> QED  BY <2>3, <3>2, <4>5 DEF Once
      <3> QED  BY <3>1, <3>2
    <2> QED  BY <1>3, <2>4, <2>11, <2>12, <2>14, <2>15 DEF TradesInv
  <1> QED  BY <1>5, <1>6

\* The history is read: it lacks the trades that are listed and no others, but for
\* those around the reading and the older ones.
LEMMA ReadingsKeepTrades ==
  ASSUME Carried, TradesInv, UNCHANGED chatVars, handleJoinTradeFeed
  PROVE  TradesInv' /\ RestAside
  <1>1. PICK t0 : t0 = Head(up).subject
    OBVIOUS
  <1>2. PICK e : e = Event("history", t0, LatestTrades(t0))
    OBVIOUS
  <1>3. /\ e.name = "history" /\ e.of = t0 /\ e.says = LatestTrades(t0)
        /\ LatestTrades(t0) \subseteq TradeHistory[t0]
    BY <1>2 DEF Event, LatestTrades
  <1>4. /\ Joins("trade_feed") /\ down' = Append(down, e) /\ up' = Tail(up)
        /\ blurred' = blurred \union (early \intersect TradeHistory[t0])
                        \union (TradeHistory[t0] \ LatestTrades(t0))
                        \union {x \in tradeSaves : x[1] = t0 /\ x \notin early}
        /\ UNCHANGED <<connected, socket_id, rowVars, TradeHistory, tradeSaves, trades,
                       selectedToken, asked, current_trade_feed, listeners, tradeHistory,
                       tradeUpdates, cut, again, early>>
    BY <1>1, <1>2 DEF handleJoinTradeFeed
  <1>5. /\ Len(down) \in Nat /\ Len(down') = Len(down) + 1 /\ IsSeq(down')
        /\ \A i \in 1 .. Len(down) : down'[i] = down[i]
        /\ down'[Len(down) + 1] = e
    BY <1>4, AppendFacts DEF Carried
  <1>6. /\ Carried' /\ connected /\ Head(up) \in Rooms /\ Head(up).prefix = "trade_feed"
        /\ (\A p, x : Asked(p, x)' => Asked(p, x))
        /\ (\A p, x : Asked(p, x) /\ Room(p, x) # Head(up) => Asked(p, x)')
    BY <1>4, <1>5, Answering
  <1>7. t0 \in Tokens /\ Head(up) = Room("trade_feed", t0) /\ Asked("trade_feed", t0)
    <2>1. t0 \in Tokens /\ Head(up) = Room("trade_feed", t0)
      BY <1>1, <1>6, RoomFacts
    <2>2. up # <<>> /\ up \in Seq(Rooms)
      BY <1>4 DEF Joins, Carried
    <2> QED  BY <1>4, <2>1, <2>2, RoomTaken DEF Asked
  <1>8. /\ (\A f : Asked("row", f) => Asked("row", f)')
        /\ (\A t : t # t0 => (Asked("trade_feed", t)' <=> Asked("trade_feed", t)))
    BY <1>6, <1>7, RoomFacts
  <1>9. RestAside
    <2>1. e.name \notin {"update"} /\ e.name \notin {"authcode", "auth_response"}
      BY <1>3
    <2>2. Moved({"update"}) /\ Moved({"authcode", "auth_response"})
      BY <1>4, <2>1, Sent
    <2> QED  BY <1>4, <1>6, <1>8, <2>2 DEF RestAside, RowsAside, ChatAside, rowVars
  <1>10. Places' = 1 .. Len(down) + 1 /\ Places = 1 .. Len(down) /\ Len(down) + 1 \in Places'
    BY <1>5 DEF Places
  <1>11. ASSUME NEW i \in Places'
         PROVE  (i \in Places /\ down'[i] = down[i]) \/ (i = Len(down) + 1 /\ down'[i] = e)
    <2>1. i \in 1 .. Len(down) \/ i = Len(down) + 1
      BY <1>5, <1>10
    <2> QED  BY <1>5, <1>10, <2>1
  <1>12. \A i \in Places : i \in Places' /\ down'[i] = down[i]
    BY <1>5, <1>10
  <1>13. TradeTypes'
    BY <1>4 DEF TradesInv, TradeTypes
  <1>14. ASSUME NEW i \in Places', down'[i].name = "trade" PROVE i \in Places /\ down'[i] = down[i]
    BY <1>3, <1>11, <1>14
  <1>15. InOrder'
    <2>1. ASSUME NEW i \in Places', down'[i].name = "history"
          PROVE  down'[i].of \in Tokens /\ down'[i].says \subseteq TradeHistory[down'[i].of]
      BY <1>3, <1>7, <1>11, <2>1 DEF TradesInv, InOrder
    <2> QED  BY <1>4, <1>14, <2>1 DEF TradesInv, InOrder
  <1>16. ListsInOrder'
    <2>1. ASSUME NEW t \in Tokens, NEW i \in Places', down'[i].name = "trade", down'[i].of = t
          PROVE  i \in Places /\ About(i, "trade", t) /\ down'[i] = down[i]
      BY <1>14, <2>1 DEF About
    <2> SUFFICES ASSUME NEW t \in Tokens, listeners[t] <= 1
                 PROVE  /\ \A k \in 1 .. Len(tradeUpdates[t]) :
                             tradeUpdates[t][k][1] = t /\ tradeUpdates[t][k][2] <= trades
                        /\ \A k, l \in 1 .. Len(tradeUpdates[t]) :
                             k < l => tradeUpdates[t][k][2] < tradeUpdates[t][l][2]
                        /\ \A k \in 1 .. Len(tradeUpdates[t]), i \in Places' :
                             down'[i].name = "trade" /\ down'[i].of = t =>
                               tradeUpdates[t][k][2] < down'[i].says[2]
                        /\ listeners[t] = 0 => tradeUpdates[t] = <<>> /\ tradeHistory[t] = {}
      BY <1>4 DEF ListsInOrder, About
    <2>2. \A k \in 1 .. Len(tradeUpdates[t]), i \in Places :
            About(i, "trade", t) => tradeUpdates[t][k][2] < down[i].says[2]
      BY DEF TradesInv, ListsInOrder
    <2>3. \A k \in 1 .. Len(tradeUpdates[t]), i \in Places' :
            down'[i].name = "trade" /\ down'[i].of = t => tradeUpdates[t][k][2] < down'[i].says[2]
      BY <2>1, <2>2
    <2> QED  BY <2>3 DEF TradesInv, ListsInOrder
  <1>17. Listening'
    BY <1>4, <1>6 DEF TradesInv, Listening, Held, Watching
  <1>18. EachOnce'
    <2> SUFFICES ASSUME NEW t \in Tokens, Watching(t), NEW x \in Told(t) \ blurred'
                 PROVE  Once(t, x)'
      BY <1>4 DEF EachOnce, Watching, Held, Told
    <2>1. Once(t, x)
      BY <1>4 DEF TradesInv, EachOnce
    <2>2. Follows(t, x)' <=> Follows(t, x)
      BY <1>3, <1>4, FollowsKept
    <2>3. CASE t # t0
      <3>1. NoneAbout("history", t)' => NoneAbout("history", t)
        BY <1>12 DEF NoneAbout, About
      <3>2. ASSUME NEW i \in Places', LastAbout(i, "history", t)'
            PROVE  i \in Places /\ down'[i] = down[i] /\ LastAbout(i, "history", t)
        BY <1>3, <1>11, <1>12, <2>3, <3>2 DEF LastAbout, About
      <3>3. ASSUME NEW i \in Places', LastAbout(i, "history", t)', ~Asked("trade_feed", t)
            PROVE  Follows(t, x)' <=> x \notin down'[i].says
        BY <2>1, <2>2, <3>2, <3>3 DEF Once
      <3> QED  BY <1>4, <1>8, <2>1, <2>2, <2>3, <3>1, <3>3 DEF Once
    <2>4. CASE t = t0
      <3>1. Follows(t, x) <=> x \in early
        BY <1>7, <2>1, <2>4 DEF Once
      <3>2. x \in early <=> x \notin LatestTrades(t0)
        BY <1>3, <1>4, <2>4 DEF Told, TradesInv, TradeTypes
      <3>3. ~NoneAbout("history", t)'
        BY <1>3, <1>5, <1>10, <2>4 DEF NoneAbout, About
      <3>4. ASSUME NEW i \in Places', LastAbout(i, "history", t)'
            PROVE  down'[i].says = LatestTrades(t0)
        <4>1. CASE i = Len(down) + 1
          BY <1>3, <1>5, <4>1
        <4>2. CASE i \in Places
          <5>1. Len(down) + 1 > i
            BY <1>5, <1>10, <4>2
          <5> QED  BY <1>3, <1>5, <1>10, <2>4, <3>4, <5>1 DEF LastAbout, About
        <4> QED  BY <1>11, <4>1, <4>2
      <3>5. ASSUME NEW i \in Places', LastAbout(i, "history", t)'
            PROVE  Follows(t, x)' <=> x \notin down'[i].says
        BY <2>2, <3>1, <3>2, <3>4, <3>5
      <3> QED  BY <1>4, <2>2, <3>1, <3>3, <3>5 DEF Once
    <2> QED  BY <2>3, <2>4
  <1> QED  BY <1>9, <1>13, <1>15, <1>16, <1>17, <1>18 DEF TradesInv

\* What a step that takes an event of the trades to the client leaves alone.
LEMMA ArrivalRest ==
  ASSUME Carried, NEW name \in {"trade", "history"}, Arrives(name), down' = Tail(down),
         UNCHANGED <<connected, socket_id, up, rowVars, chatVars>>
  PROVE  RestAside
  <1>1. /\ Carried' /\ (\A N : name \notin N => Moved(N)) /\ (\A p, x : Asked(p, x)' <=> Asked(p, x))
    BY Arrival
  <1>2. name \notin {"update"} /\ name \notin {"authcode", "auth_response"}
    OBVIOUS
  <1> QED  BY <1>1, <1>2 DEF RestAside, RowsAside, ChatAside, rowVars

\* What comes is in order as before, without the first.
LEMMA OrderKept ==
  ASSUME Carried, InOrder, down # <<>>, down' = Tail(down), UNCHANGED <<trades, TradeHistory>>
  PROVE  InOrder'
  <1>1. /\ Len(down) \in Nat \ {0} /\ Len(down') = Len(down) - 1
        /\ \A i \in 1 .. Len(down) - 1 : down'[i] = down[i + 1]
    BY TailFacts DEF Carried
  <1>2. ASSUME NEW i \in Places' PROVE i \in Nat /\ i + 1 \in Places /\ down'[i] = down[i + 1]
    BY <1>1 DEF Places
  <1>3. ASSUME NEW i \in Places', down'[i].name = "trade"
        PROVE  /\ down'[i].of \in Tokens /\ down'[i].says \in Trades
               /\ down'[i].says[1] = down'[i].of /\ down'[i].says[2] <= trades
    BY <1>2, <1>3 DEF InOrder
  <1>4. ASSUME NEW i \in Places', NEW j \in Places', i < j,
               down'[i].name = "trade", down'[j].name = "trade"
        PROVE  down'[i].says[2] < down'[j].says[2]
    <2>0. i \in Nat /\ j \in Nat
      BY <1>2
    <2>1. /\ i + 1 \in Places /\ down'[i] = down[i + 1]
          /\ j + 1 \in Places /\ down'[j] = down[j + 1]
      BY <1>2
    <2>2. i + 1 < j + 1
      BY <1>4, <2>0
    <2> QED  BY <1>4, <2>1, <2>2 DEF InOrder
  <1>5. ASSUME NEW i \in Places', down'[i].name = "history"
        PROVE  down'[i].of \in Tokens /\ down'[i].says \subseteq TradeHistory[down'[i].of]
    BY <1>2, <1>5 DEF InOrder
  <1> QED  BY <1>3, <1>4, <1>5 DEF InOrder

\* A history arrives, and takes the place of the one before.
LEMMA HistoriesKeepTrades ==
  ASSUME Carried, TradesInv, UNCHANGED chatVars, handleTradeUpdate, Arrives("history")
  PROVE  TradesInv' /\ RestAside
  <1>1. PICK t0 : t0 = Head(down).of
    OBVIOUS
  <1>2. PICK h : h = Head(down).says
    OBVIOUS
  <1>3. /\ down' = Tail(down)
        /\ UNCHANGED <<connected, socket_id, up, rowVars, TradeHistory, tradeSaves, trades,
                       selectedToken, asked, current_trade_feed, listeners, cut, again, early,
                       blurred>>
    BY DEF handleTradeUpdate
  <1>4. /\ tradeHistory' = (IF listeners[t0] = 0 THEN tradeHistory
                            ELSE [tradeHistory EXCEPT ![t0] = h])
        /\ UNCHANGED tradeUpdates
    <2>1. ~Arrives("trade")
      BY DEF Arrives
    <2> QED  BY <1>1, <1>2, <2>1 DEF handleTradeUpdate
  <1>5. RestAside
    BY <1>3, ArrivalRest
  <1>6. /\ Carried' /\ (\A N : "history" \notin N => Moved(N))
        /\ (\A p, x : Asked(p, x)' <=> Asked(p, x))
        /\ Len(down) \in Nat \ {0} /\ Len(down') = Len(down) - 1
        /\ (\A i \in 1 .. Len(down) - 1 : down'[i] = down[i + 1])
        /\ Head(down) = down[1] /\ down[1].name = "history"
    BY <1>3, Arrival
  <1>7. Places = 1 .. Len(down) /\ Places' = 1 .. Len(down) - 1 /\ 1 \in Places
    BY <1>6 DEF Places
  <1>8. ASSUME NEW i \in Places' PROVE i \in Nat /\ i + 1 \in Places /\ down'[i] = down[i + 1]
    BY <1>6, <1>7
  <1>9. ASSUME NEW j \in Places
        PROVE  j = 1 \/ (j > 1 /\ j - 1 \in Places' /\ down'[j - 1] = down[j] /\ j \in Nat)
    BY <1>6, <1>7
  <1>10. t0 \in Tokens /\ h \subseteq TradeHistory[t0] /\ About(1, "history", t0) /\ down[1].says = h
    BY <1>1, <1>2, <1>6, <1>7 DEF TradesInv, InOrder, About
  <1>11. /\ tradeHistory' \in [Tokens -> SUBSET Trades]
         /\ (\A t \in Tokens : tradeHistory'[t] \subseteq TradeHistory[t])
         /\ (\A t \in Tokens : t # t0 \/ listeners[t0] = 0 => tradeHistory'[t] = tradeHistory[t])
         /\ (listeners[t0] # 0 => tradeHistory'[t0] = h)
    <2>1. TradeHistory[t0] \subseteq Trades
      BY <1>10 DEF TradesInv, TradeTypes
    <2>2. h \in SUBSET Trades
      BY <1>10, <2>1
    <2> QED  BY <1>4, <1>10, <2>2 DEF TradesInv, TradeTypes
  <1>12. TradeTypes'
    BY <1>3, <1>4, <1>11 DEF TradesInv, TradeTypes
  <1>13. InOrder'
    <2>1. down # <<>>
      BY DEF Arrives
    <2> QED  BY <1>3, <2>1, OrderKept DEF TradesInv
  <1>14. ListsInOrder'
    <2> SUFFICES ASSUME NEW t \in Tokens, listeners[t] <= 1
                 PROVE  /\ \A k \in 1 .. Len(tradeUpdates[t]) :
                             tradeUpdates[t][k][1] = t /\ tradeUpdates[t][k][2] <= trades
                        /\ \A k, l \in 1 .. Len(tradeUpdates[t]) :
                             k < l => tradeUpdates[t][k][2] < tradeUpdates[t][l][2]
                        /\ \A k \in 1 .. Len(tradeUpdates[t]), i \in Places' :
                             down'[i].name = "trade" /\ down'[i].of = t =>
                               tradeUpdates[t][k][2] < down'[i].says[2]
                        /\ listeners[t] = 0 => tradeUpdates[t] = <<>> /\ tradeHistory'[t] = {}
      BY <1>3, <1>4 DEF ListsInOrder, About
    <2>1. \A k \in 1 .. Len(tradeUpdates[t]), i \in Places :
            down[i].name = "trade" /\ down[i].of = t => tradeUpdates[t][k][2] < down[i].says[2]
      BY DEF TradesInv, ListsInOrder, About
    <2>2. \A k \in 1 .. Len(tradeUpdates[t]), i \in Places' :
            down'[i].name = "trade" /\ down'[i].of = t => tradeUpdates[t][k][2] < down'[i].says[2]
      BY <1>8, <2>1
    <2>3. listeners[t] = 0 => tradeHistory'[t] = tradeHistory[t]
      BY <1>11
    <2> QED  BY <2>2, <2>3 DEF TradesInv, ListsInOrder
  <1>15. Listening'
    BY <1>3, <1>6 DEF TradesInv, Listening, Held, Watching
  <1>16. EachOnce'
    <2> SUFFICES ASSUME NEW t \in Tokens, Watching(t), NEW x \in Told(t) \ blurred
                 PROVE  Once(t, x)'
      BY <1>3 DEF EachOnce, Watching, Held, Told
    <2>1. Once(t, x)
      BY DEF TradesInv, EachOnce
    <2>2. Follows(t, x)' <=> Follows(t, x)
      <3>1. ASSUME NEW i \in Places, About(i, "trade", t), down[i].says = x PROVE Follows(t, x)'
        <4>1. i # 1
          BY <1>6, <3>1 DEF About
        <4> QED  BY <1>9, <3>1, <4>1 DEF About, Follows
      <3>2. ASSUME NEW i \in Places', About(i, "trade", t)', down'[i].says = x PROVE Follows(t, x)
        BY <1>8, <3>2 DEF About, Follows
      <3> QED  BY <1>4, <3>1, <3>2 DEF Follows
    <2>3. ASSUME NEW i \in Places', LastAbout(i, "history", t)'
          PROVE  i + 1 \in Places /\ down'[i] = down[i + 1] /\ LastAbout(i + 1, "history", t)
      <3>1. /\ down'[i].name = "history" /\ down'[i].of = t
            /\ \A j \in Places' : j > i => ~(down'[j].name = "history" /\ down'[j].of = t)
        BY <2>3 DEF LastAbout, About
      <3>2. i \in Nat /\ i + 1 \in Places /\ down'[i] = down[i + 1]
        BY <1>8
      <3>3. ASSUME NEW j \in Places, j > i + 1 PROVE ~About(j, "history", t)
        <4>1. j - 1 \in Places' /\ down'[j - 1] = down[j] /\ j - 1 > i
          BY <1>7, <1>9, <3>2, <3>3
        <4> QED  BY <3>1, <4>1 DEF About
      <3> QED  BY <3>1, <3>2, <3>3 DEF LastAbout, About
    <2>4. ASSUME NEW i \in Places', LastAbout(i, "history", t)', ~Asked("trade_feed", t)
          PROVE  Follows(t, x)' <=> x \notin down'[i].says
      BY <2>1, <2>2, <2>3, <2>4 DEF Once
    <2>5. ASSUME NoneAbout("history", t)', ~Asked("trade_feed", t)
          PROVE  Follows(t, x)' <=> x \notin tradeHistory'[t]
      <3>1. \A j \in Places' : ~(down'[j].name = "history" /\ down'[j].of = t)
        BY <2>5 DEF NoneAbout, About
      <3>2. \A j \in Places : j > 1 => ~About(j, "history", t)
        BY <1>9, <3>1 DEF About
      <3>3. CASE t = t0
        <4>1. LastAbout(1, "history", t)
          BY <1>10, <3>2, <3>3 DEF LastAbout
        <4>2. listeners[t0] # 0
          BY <3>3 DEF TradesInv, TradeTypes, Listening, Watching
        <4> QED  BY <1>7, <1>10, <1>11, <2>1, <2>2, <2>5, <3>3, <4>1, <4>2 DEF Once
      <3>4. CASE t # t0
        <4>1. ~About(1, "history", t)
          BY <1>10, <3>4 DEF About
        <4>2. NoneAbout("history", t)
          BY <1>9, <3>2, <4>1 DEF NoneAbout
        <4> QED  BY <1>11, <2>1, <2>2, <2>5, <3>4, <4>2 DEF Once
      <3> QED  BY <3>3, <3>4
    <2> QED  BY <1>3, <1>6, <2>1, <2>2, <2>4, <2>5 DEF Once
  <1> QED  BY <1>5, <1>12, <1>13, <1>14, <1>15, <1>16 DEF TradesInv

\* A trade arrives at a market that is listened to once: the list is longer by one.
LEMMA OneMore ==
  ASSUME TradeTypes, NEW t \in Tokens, listeners[t] = 1, NEW x \in Trades,
         tradeUpdates' = [tradeUpdates EXCEPT ![t] = @ \o [i \in 1 .. listeners[t] |-> x]]
  PROVE  /\ Len(tradeUpdates[t]) \in Nat /\ Len(tradeUpdates'[t]) = Len(tradeUpdates[t]) + 1
         /\ (\A k \in 1 .. Len(tradeUpdates[t]) : tradeUpdates'[t][k] = tradeUpdates[t][k])
         /\ tradeUpdates'[t][Len(tradeUpdates[t]) + 1] = x
  <1>1. PICK s : s = tradeUpdates[t]
    OBVIOUS
  <1>2. PICK o : o = [i \in 1 .. listeners[t] |-> x]
    OBVIOUS
  <1>3. PICK r : r = s \o o
    OBVIOUS
  <1>4. tradeUpdates'[t] = r
    BY <1>1, <1>2, <1>3 DEF TradeTypes
  <1>5. s \in Seq(Trades)
    BY <1>1, ListedTrades
  <1> HIDE DEF Trades
  <1>6. o = <<x>> /\ <<x>> \in Seq(Trades) /\ Len(<<x>>) = 1 /\ <<x>>[1] = x
    BY <1>2
  <1>7. r = Append(s, x)
    BY <1>3, <1>5, <1>6
  <1>8. IsSeq(s)
    BY <1>5 DEF IsSeq
  <1> QED  BY <1>1, <1>4, <1>7, <1>8, AppendFacts

\* A trade arrives, and is listed behind the others.
LEMMA ArrivalsKeepTrades ==
  ASSUME Carried, TradesInv, UNCHANGED chatVars, handleTradeUpdate, Arrives("trade")
  PROVE  TradesInv' /\ RestAside
  <1>1. PICK t0 : t0 = Head(down).of
    OBVIOUS
  <1>2. PICK x0 : x0 = Head(down).says
    OBVIOUS
  <1>3. /\ down' = Tail(down)
        /\ UNCHANGED <<connected, socket_id, up, rowVars, TradeHistory, tradeSaves, trades,
                       selectedToken, asked, current_trade_feed, listeners, cut, again, early,
                       blurred>>
    BY DEF handleTradeUpdate
  <1>4. /\ tradeUpdates' = [tradeUpdates EXCEPT ![t0] = @ \o [i \in 1 .. listeners[t0] |-> x0]]
        /\ UNCHANGED tradeHistory
    <2>1. ~Arrives("history")
      BY DEF Arrives
    <2> QED  BY <1>1, <1>2, <2>1 DEF handleTradeUpdate
  <1>5. RestAside
    BY <1>3, ArrivalRest
  <1>6. /\ Carried' /\ (\A N : "trade" \notin N => Moved(N))
        /\ (\A p, x : Asked(p, x)' <=> Asked(p, x))
        /\ Len(down) \in Nat \ {0} /\ Len(down') = Len(down) - 1
        /\ (\A i \in 1 .. Len(down) - 1 : down'[i] = down[i + 1])
        /\ Head(down) = down[1] /\ down[1].name = "trade"
    BY <1>3, Arrival
  <1>7. Places = 1 .. Len(down) /\ Places' = 1 .. Len(down) - 1 /\ 1 \in Places
    BY <1>6 DEF Places
  <1>8. ASSUME NEW i \in Places' PROVE i \in Nat /\ i + 1 \in Places /\ down'[i] = down[i + 1]
    BY <1>6, <1>7
  <1>9. ASSUME NEW j \in Places
        PROVE  j = 1 \/ (j > 1 /\ j - 1 \in Places' /\ down'[j - 1] = down[j] /\ j \in Nat)
    BY <1>6, <1>7
  <1>10. /\ t0 \in Tokens /\ x0 \in Trades /\ x0[1] = t0 /\ x0[2] <= trades
         /\ About(1, "trade", t0) /\ down[1].says = x0
    BY <1>1, <1>2, <1>6, <1>7 DEF TradesInv, InOrder, About
  <1>11. listeners[t0] \in Nat /\ \A t \in Tokens : t # t0 => tradeUpdates'[t] = tradeUpdates[t]
    BY <1>4, <1>10 DEF TradesInv, TradeTypes
  <1>12. tradeUpdates' \in [Tokens -> Seq(Trades)]
    <2>1. PICK s : s = tradeUpdates[t0]
      OBVIOUS
    <2>2. PICK o : o = [i \in 1 .. listeners[t0] |-> x0]
      OBVIOUS
    <2>3. s \in Seq(Trades)
      BY <1>10, <2>1, ListedTrades DEF TradesInv
    <2> HIDE DEF Trades
    <2>4. o \in Seq(Trades)
      BY <1>10, <1>11, <2>2
    <2>5. s \o o \in Seq(Trades)
      BY <2>3, <2>4
    <2>6. tradeUpdates' = [tradeUpdates EXCEPT ![t0] = s \o o]
      BY <1>4, <2>1, <2>2
    <2> QED  BY <1>10, <2>5, <2>6 DEF TradesInv, TradeTypes
  <1>13. TradeTypes'
    BY <1>3, <1>4, <1>12 DEF TradesInv, TradeTypes
  <1>14. InOrder'
    <2>1. down # <<>>
      BY DEF Arrives
    <2> QED  BY <1>3, <2>1, OrderKept DEF TradesInv
  <1>15. listeners[t0] = 0 => tradeUpdates'[t0] = tradeUpdates[t0]
    <2> SUFFICES ASSUME listeners[t0] = 0 PROVE tradeUpdates'[t0] = tradeUpdates[t0]
      OBVIOUS
    <2>1. PICK o : o = [i \in 1 .. listeners[t0] |-> x0]
      OBVIOUS
    <2>2. o = <<>>
      BY <2>1
    <2>3. tradeUpdates[t0] = <<>>
      BY <1>10 DEF TradesInv, ListsInOrder
    <2>4. tradeUpdates'[t0] = tradeUpdates[t0] \o o
      BY <1>4, <1>10, <2>1 DEF TradesInv, TradeTypes
    <2> QED  BY <2>2, <2>3, <2>4
  <1>15a. TradeTypes /\ t0 \in Tokens /\ x0 \in Trades
    BY <1>10 DEF TradesInv
  <1>15b. ASSUME listeners[t0] = 1
         PROVE  /\ Len(tradeUpdates[t0]) \in Nat
                /\ Len(tradeUpdates'[t0]) = Len(tradeUpdates[t0]) + 1
                /\ \A k \in 1 .. Len(tradeUpdates[t0]) : tradeUpdates'[t0][k] = tradeUpdates[t0][k]
                /\ tradeUpdates'[t0][Len(tradeUpdates[t0]) + 1] = x0
    BY <1>4, <1>15b, <1>15a, OneMore
  <1>16. ListsInOrder'
    <2> SUFFICES ASSUME NEW t \in Tokens, listeners[t] <= 1
                 PROVE  /\ \A k \in 1 .. Len(tradeUpdates'[t]) :
                             tradeUpdates'[t][k][1] = t /\ tradeUpdates'[t][k][2] <= trades
                        /\ \A k, l \in 1 .. Len(tradeUpdates'[t]) :
                             k < l => tradeUpdates'[t][k][2] < tradeUpdates'[t][l][2]
                        /\ \A k \in 1 .. Len(tradeUpdates'[t]), i \in Places' :
                             down'[i].name = "trade" /\ down'[i].of = t =>
                               tradeUpdates'[t][k][2] < down'[i].says[2]
                        /\ listeners[t] = 0 => tradeUpdates'[t] = <<>> /\ tradeHistory[t] = {}
      <3>1. UNCHANGED <<trades, listeners, tradeHistory>>
        BY <1>3, <1>4
      <3> QED  BY <3>1 DEF ListsInOrder, About
    <2>1. /\ \A k \in 1 .. Len(tradeUpdates[t]) :
               tradeUpdates[t][k][1] = t /\ tradeUpdates[t][k][2] <= trades
          /\ \A k, l \in 1 .. Len(tradeUpdates[t]) :
               k < l => tradeUpdates[t][k][2] < tradeUpdates[t][l][2]
          /\ \A k \in 1 .. Len(tradeUpdates[t]), i \in Places :
               down[i].name = "trade" /\ down[i].of = t => tradeUpdates[t][k][2] < down[i].says[2]
          /\ listeners[t] = 0 => tradeUpdates[t] = <<>> /\ tradeHistory[t] = {}
      BY DEF TradesInv, ListsInOrder, About
    <2>2. \A k \in 1 .. Len(tradeUpdates[t]), i \in Places' :
            down'[i].name = "trade" /\ down'[i].of = t => tradeUpdates[t][k][2] < down'[i].says[2]
      BY <1>8, <2>1
    <2>3. CASE tradeUpdates'[t] = tradeUpdates[t]
      BY <2>1, <2>2, <2>3
    <2>4. CASE t = t0 /\ listeners[t] = 1
      <3>1. /\ Len(tradeUpdates[t]) \in Nat /\ Len(tradeUpdates'[t]) = Len(tradeUpdates[t]) + 1
            /\ (\A k \in 1 .. Len(tradeUpdates[t]) : tradeUpdates'[t][k] = tradeUpdates[t][k])
            /\ tradeUpdates'[t][Len(tradeUpdates[t]) + 1] = x0
        BY <1>15b, <2>4
      <3>2. ASSUME NEW k \in 1 .. Len(tradeUpdates'[t])
            PROVE  \/ (k \in 1 .. Len(tradeUpdates[t]) /\ tradeUpdates'[t][k] = tradeUpdates[t][k])
                   \/ (k = Len(tradeUpdates[t]) + 1 /\ tradeUpdates'[t][k] = x0)
        <4>1. k \in 1 .. Len(tradeUpdates[t]) \/ k = Len(tradeUpdates[t]) + 1
          BY <3>1
        <4> QED  BY <3>1, <4>1
      <3>3. \A k \in 1 .. Len(tradeUpdates'[t]) :
              tradeUpdates'[t][k][1] = t /\ tradeUpdates'[t][k][2] <= trades
        BY <1>10, <2>1, <2>4, <3>2
      <3>4. ASSUME NEW k \in 1 .. Len(tradeUpdates'[t]), NEW l \in 1 .. Len(tradeUpdates'[t]), k < l
            PROVE  tradeUpdates'[t][k][2] < tradeUpdates'[t][l][2]
        <4>1. k \in 1 .. Len(tradeUpdates[t]) /\ tradeUpdates'[t][k] = tradeUpdates[t][k]
          BY <3>1, <3>2, <3>4
        <4>2. CASE l \in 1 .. Len(tradeUpdates[t]) /\ tradeUpdates'[t][l] = tradeUpdates[t][l]
          BY <2>1, <3>4, <4>1, <4>2
        <4>3. CASE tradeUpdates'[t][l] = x0
          BY <1>7, <1>10, <2>1, <2>4, <4>1, <4>3 DEF About
        <4> QED  BY <3>2, <4>2, <4>3
      <3>5. ASSUME NEW k \in 1 .. Len(tradeUpdates'[t]), NEW i \in Places',
                   down'[i].name = "trade", down'[i].of = t
            PROVE  tradeUpdates'[t][k][2] < down'[i].says[2]
        <4>1. CASE k \in 1 .. Len(tradeUpdates[t]) /\ tradeUpdates'[t][k] = tradeUpdates[t][k]
          BY <2>2, <3>5, <4>1
        <4>2. CASE tradeUpdates'[t][k] = x0
          <5>1. i + 1 \in Places /\ down'[i] = down[i + 1] /\ 1 < i + 1
            BY <1>7, <1>8
          <5> QED  BY <1>6, <1>7, <1>10, <3>5, <4>2, <5>1 DEF TradesInv, InOrder
        <4> QED  BY <3>2, <4>1, <4>2
      <3> QED  BY <2>4, <3>3, <3>4, <3>5
    <2>5. t # t0 \/ listeners[t] = 0 \/ listeners[t] = 1
      BY <1>11
    <2> QED  BY <1>11, <1>15, <2>3, <2>4, <2>5
  <1>17. Listening'
    BY <1>3, <1>6 DEF TradesInv, Listening, Held, Watching
  <1>18. EachOnce'
    <2> SUFFICES ASSUME NEW t \in Tokens, Watching(t), NEW x \in Told(t) \ blurred
                 PROVE  Once(t, x)'
      BY <1>3 DEF EachOnce, Watching, Held, Told
    <2>1. Once(t, x)
      BY DEF TradesInv, EachOnce
    <2>2. ASSUME NEW i \in Places', About(i, "trade", t)', down'[i].says = x PROVE Follows(t, x)
      BY <1>8, <2>2 DEF About, Follows
    <2>3. ASSUME NEW i \in Places, i # 1, About(i, "trade", t), down[i].says = x PROVE Follows(t, x)'
      BY <1>9, <2>3 DEF About, Follows
    <2>4. Follows(t, x)' <=> Follows(t, x)
      <3>1. CASE t # t0
        <4>1. ~About(1, "trade", t) /\ tradeUpdates'[t] = tradeUpdates[t]
          BY <1>10, <1>11, <3>1 DEF About
        <4> QED  BY <2>2, <2>3, <4>1 DEF Follows
      <3>2. CASE t = t0
        <4>1. listeners[t] = 1
          BY <1>11, <3>2 DEF TradesInv, Listening, Watching
        <4>2. /\ Len(tradeUpdates[t]) \in Nat /\ Len(tradeUpdates'[t]) = Len(tradeUpdates[t]) + 1
              /\ (\A k \in 1 .. Len(tradeUpdates[t]) : tradeUpdates'[t][k] = tradeUpdates[t][k])
              /\ tradeUpdates'[t][Len(tradeUpdates[t]) + 1] = x0
          BY <1>15b, <3>2, <4>1
        <4>3. ASSUME NEW k \in 1 .. Len(tradeUpdates[t]), tradeUpdates[t][k] = x PROVE Follows(t, x)'
          BY <4>2, <4>3 DEF Follows
        <4>4. x = x0 => Follows(t, x)' /\ Follows(t, x)
          <5>1. Len(tradeUpdates[t]) + 1 \in 1 .. Len(tradeUpdates'[t])
            BY <4>2
          <5> QED  BY <1>7, <1>10, <3>2, <4>2, <5>1 DEF Follows
        <4>5. ASSUME NEW k \in 1 .. Len(tradeUpdates'[t]), tradeUpdates'[t][k] = x, x # x0
              PROVE  Follows(t, x)
          <5>1. k \in 1 .. Len(tradeUpdates[t])
            BY <4>2, <4>5
          <5> QED  BY <4>2, <4>5, <5>1 DEF Follows
        <4>6. Follows(t, x) => Follows(t, x)'
          BY <1>10, <2>3, <4>3, <4>4 DEF Follows
        <4>7. Follows(t, x)' => Follows(t, x)
          BY <2>2, <4>4, <4>5 DEF Follows
        <4> QED  BY <4>6, <4>7
      <3> QED  BY <3>1, <3>2
    <2>5. Moved({"history"}) /\ IsSeq(down')
      BY <1>6 DEF Carried
    <2>6. Asked("trade_feed", t)' <=> Asked("trade_feed", t)
      BY <1>6
    <2> QED  BY <1>3, <1>4, <2>1, <2>4, <2>5, <2>6, OnceKept
  <1> QED  BY <1>5, <1>13, <1>14, <1>16, <1>17, <1>18 DEF TradesInv

-----------------------------------------------------------------------------
(* The chat *)

\* What every step of the chat leaves alone.
PageAside == Carried' /\ RowsAside /\ TradesAside

\* A step that leaves the connection alone leaves the feeds alone.
LEMMA StillPage ==
  ASSUME Carried, UNCHANGED <<socketVars, feedVars>>
  PROVE  PageAside
  <1>1. /\ Carried' /\ (\A N : Moved(N)) /\ (\A p, x : Asked(p, x)' <=> Asked(p, x))
    BY Still
  <1>2. UNCHANGED <<connected, row, updating, joinedFeeds, shown, missed, tradeFeedVars>>
    BY DEF socketVars, feedVars, rowVars
  <1> QED  BY <1>1, <1>2 DEF PageAside, RowsAside, TradesAside

\* What a step that takes an event of the chat to the page leaves alone.
LEMMA ArrivalPage ==
  ASSUME Carried, NEW name \in {"authcode", "auth_response", "chat_history", "message"},
         Arrives(name), down' = Tail(down), UNCHANGED <<connected, socket_id, up, feedVars>>
  PROVE  PageAside
  <1>1. /\ Carried' /\ (\A N : name \notin N => Moved(N)) /\ (\A p, x : Asked(p, x)' <=> Asked(p, x))
    BY Arrival
  <1>2. name \notin {"update"} /\ name \notin {"trade", "history"}
    OBVIOUS
  <1>3. UNCHANGED <<connected, row, updating, joinedFeeds, shown, missed, tradeFeedVars>>
    BY DEF feedVars, rowVars
  <1> QED  BY <1>1, <1>2, <1>3 DEF PageAside, RowsAside, TradesAside

\* What a step that tells everybody a message leaves alone.
LEMMA MessagesAside ==
  ASSUME Carried, send_message, UNCHANGED feedVars
  PROVE  PageAside /\ Moved({"authcode", "auth_response"}) /\ UNCHANGED <<connected, socket_id>>
  <1>1. PICK e : e = Event("message", None, messages')
    OBVIOUS
  <1>2. e.name = "message" /\ down' = Emitted(e) /\ UNCHANGED <<connected, socket_id, up>>
    BY <1>1 DEF Event, send_message
  <1>3. /\ Carried' /\ (\A N : e.name \notin N => Moved(N)) /\ (\A p, x : Asked(p, x)' <=> Asked(p, x))
    BY <1>2, Emission
  <1>4. e.name \notin {"update"} /\ e.name \notin {"trade", "history"}
        /\ e.name \notin {"authcode", "auth_response"}
    BY <1>2
  <1>5. UNCHANGED <<row, updating, joinedFeeds, shown, missed, tradeFeedVars>>
    BY DEF feedVars, rowVars
  <1> QED  BY <1>2, <1>3, <1>4, <1>5 DEF PageAside, RowsAside, TradesAside

\* Nobody signs on, and nothing is said with a token.
LEMMA AuthAside ==
  ASSUME Carried, Carried', ChatInv, Moved({"authcode", "auth_response"}),
         UNCHANGED <<authVars, connected, socket_id>>,
         spoke' \in [on : Nat, since : Nat], SpeaksWithin'
  PROVE  ChatInv'
  <1>1. UNCHANGED <<day, tokens, sending, auths, inExtension, ws_id, bearerToken, loggedIn, unnamed,
                    signedOn>>
    BY DEF authVars
  <1>2. Moved({"auth_response"})
    BY DEF Moved
  <1>3. \A i \in 1 .. Len(down') : down'[i].name = "authcode" => down'[i].says = socket_id
    BY DEF Moved, ChatInv, Secrets
  <1>4. ws_id' \in {None} \union 1 .. socket_id
    BY <1>1 DEF ChatInv, Secrets
  <1> QED  BY <1>1, <1>2, <1>3, <1>4, AuthStands

\* The secret of a sign-on is the id the page has.
LEMMA LoginsKeepTokens ==
  ASSUME Carried, ChatInv, handleLogin,
         UNCHANGED <<socketVars, day, tokens, auths, inExtension, ws_id, bearerToken, loggedIn,
                     signedOn, spoke>>
  PROVE  ChatInv'
  <1>1. UNCHANGED <<connected, socket_id, down>>
    BY DEF socketVars
  <1>2. sending' = Append(sending, ws_id) /\ unnamed' = (unnamed \/ ws_id = None)
    BY DEF handleLogin
  <1>3. /\ IsSeq(sending') /\ Len(sending) \in Nat /\ Len(sending') = Len(sending) + 1
        /\ \A i \in 1 .. Len(sending) : sending'[i] = sending[i]
        /\ sending'[Len(sending) + 1] = ws_id
    BY <1>2, AppendFacts DEF ChatInv, Secrets
  <1>4. ASSUME ~unnamed' PROVE ~unnamed /\ ws_id \in 1 .. socket_id
    BY <1>2, <1>4 DEF ChatInv, Secrets
  <1>5. socket_id \in Nat
    BY DEF Carried
  <1>6. ASSUME ~unnamed', socket_id <= 1, NEW i \in 1 .. Len(sending') PROVE sending'[i] = 1
    <2>1. CASE i \in 1 .. Len(sending)
      BY <1>3, <1>4, <1>6, <2>1 DEF ChatInv, Secrets
    <2>2. CASE i = Len(sending) + 1
      BY <1>3, <1>4, <1>5, <1>6, <2>2
    <2> QED  BY <1>3, <2>1, <2>2
  <1>7. unnamed' \in BOOLEAN
    BY <1>2 DEF ChatInv, Secrets
  <1>8. ~unnamed' => socket_id # 0
    BY <1>4, <1>5
  <1>9. Secrets'
    <2>1. /\ IsSeq(auths) /\ loggedIn \in BOOLEAN /\ ws_id \in {None} \union 1 .. socket_id
          /\ \A i \in Places : down[i].name = "authcode" => down[i].says = socket_id
          /\ ~unnamed' /\ socket_id <= 1 => \A i \in 1 .. Len(auths) : auths[i] = 1
      BY <1>4 DEF ChatInv, Secrets
    <2> QED  BY <1>1, <1>3, <1>6, <1>7, <1>8, <2>1 DEF Secrets, Places
  <1>10. TokenComes'
    BY <1>1, <1>4 DEF ChatInv, TokenComes, Places
  <1>11. TokensEnd'
    BY <1>1 DEF ChatInv, TokensEnd, Ends, Places, SpeaksWithin
  <1> QED  BY <1>9, <1>10, <1>11 DEF ChatInv

\* A sign-on transaction runs, and the box is open.
LEMMA SuccessesKeepTokens ==
  ASSUME Carried, ChatInv, UNCHANGED feedVars, success
  PROVE  ChatInv' /\ PageAside
  <1>1. /\ sending # <<>> /\ sending' = Tail(sending) /\ auths' = Append(auths, Head(sending))
        /\ loggedIn' = TRUE
        /\ UNCHANGED <<socketVars, day, tokens, inExtension, ws_id, bearerToken, unnamed, signedOn,
                       spoke>>
    BY DEF success, listVars
  <1>2. UNCHANGED <<connected, socket_id, down>>
    BY <1>1 DEF socketVars
  <1>3. IsSeq(sending) /\ IsSeq(auths)
    BY DEF ChatInv, Secrets
  <1>4. /\ IsSeq(sending') /\ Len(sending) \in Nat \ {0} /\ Len(sending') = Len(sending) - 1
        /\ \A i \in 1 .. Len(sending) - 1 : sending'[i] = sending[i + 1]
        /\ Head(sending) = sending[1]
    BY <1>1, <1>3, TailFacts
  <1>5. /\ IsSeq(auths') /\ Len(auths) \in Nat /\ Len(auths') = Len(auths) + 1
        /\ \A i \in 1 .. Len(auths) : auths'[i] = auths[i]
        /\ auths'[Len(auths) + 1] = Head(sending)
    BY <1>1, <1>3, AppendFacts
  <1>6. ~unnamed => socket_id # 0
    BY <1>1 DEF ChatInv, Secrets
  <1>7. ASSUME ~unnamed, socket_id <= 1
        PROVE  /\ \A i \in 1 .. Len(sending') : sending'[i] = 1
               /\ \A i \in 1 .. Len(auths') : auths'[i] = 1
    <2>1. /\ \A i \in 1 .. Len(sending) : sending[i] = 1
          /\ \A i \in 1 .. Len(auths) : auths[i] = 1
      BY <1>7 DEF ChatInv, Secrets
    <2>2. Head(sending) = 1
      BY <1>4, <2>1
    <2>3. ASSUME NEW i \in 1 .. Len(sending') PROVE sending'[i] = 1
      <3>1. i + 1 \in 1 .. Len(sending) /\ sending'[i] = sending[i + 1]
        BY <1>4
      <3> QED  BY <2>1, <3>1
    <2>4. ASSUME NEW i \in 1 .. Len(auths') PROVE auths'[i] = 1
      <3>1. i \in 1 .. Len(auths) \/ i = Len(auths) + 1
        BY <1>5
      <3> QED  BY <1>5, <2>1, <2>2, <3>1
    <2> QED  BY <2>3, <2>4
  <1>8. Secrets'
    <2>1. /\ unnamed \in BOOLEAN /\ ws_id \in {None} \union 1 .. socket_id
          /\ \A i \in Places : down[i].name = "authcode" => down[i].says = socket_id
      BY DEF ChatInv, Secrets
    <2> QED  BY <1>1, <1>2, <1>4, <1>5, <1>6, <1>7, <2>1 DEF Secrets, Places
  <1>9. TokenComes'
    <2>1. auths' # <<>>
      <3> SUFFICES ASSUME auths' = <<>> PROVE FALSE
        OBVIOUS
      <3>1. Len(auths') = 0
        OBVIOUS
      <3> QED  BY <1>5, <3>1
    <2> QED  BY <2>1 DEF TokenComes
  <1>10. TokensEnd'
    BY <1>1, <1>2 DEF ChatInv, TokensEnd, Ends, Places, SpeaksWithin
  <1> QED  BY <1>1, <1>8, <1>9, <1>10, StillPage DEF ChatInv

\* A sign-on transaction fails.
LEMMA ErrorsKeepTokens ==
  ASSUME Carried, ChatInv, UNCHANGED feedVars, error
  PROVE  ChatInv' /\ PageAside
  <1>1. /\ sending # <<>> /\ sending' = Tail(sending)
        /\ UNCHANGED <<socketVars, day, tokens, auths, inExtension, ws_id, bearerToken, loggedIn,
                       unnamed, signedOn, spoke>>
    BY DEF error, listVars
  <1>2. UNCHANGED <<connected, socket_id, down>>
    BY <1>1 DEF socketVars
  <1>3. IsSeq(sending)
    BY DEF ChatInv, Secrets
  <1>4. /\ IsSeq(sending') /\ Len(sending) \in Nat \ {0} /\ Len(sending') = Len(sending) - 1
        /\ \A i \in 1 .. Len(sending) - 1 : sending'[i] = sending[i + 1]
    BY <1>1, <1>3, TailFacts
  <1>5. ASSUME ~unnamed, socket_id <= 1, NEW i \in 1 .. Len(sending') PROVE sending'[i] = 1
    <2>1. i + 1 \in 1 .. Len(sending) /\ sending'[i] = sending[i + 1]
      BY <1>4
    <2> QED  BY <1>5, <2>1 DEF ChatInv, Secrets
  <1>6. ~unnamed => socket_id # 0
    BY <1>1 DEF ChatInv, Secrets
  <1>7. Secrets'
    <2>1. /\ IsSeq(auths) /\ unnamed \in BOOLEAN /\ loggedIn \in BOOLEAN
          /\ ws_id \in {None} \union 1 .. socket_id
          /\ \A i \in Places : down[i].name = "authcode" => down[i].says = socket_id
          /\ ~unnamed /\ socket_id <= 1 => \A i \in 1 .. Len(auths) : auths[i] = 1
      BY DEF ChatInv, Secrets
    <2> QED  BY <1>1, <1>2, <1>4, <1>5, <1>6, <2>1 DEF Secrets, Places
  <1>8. TokenComes' /\ TokensEnd'
    BY <1>1, <1>2 DEF ChatInv, TokenComes, TokensEnd, Ends, Places, SpeaksWithin
  <1> QED  BY <1>1, <1>7, <1>8, StillPage DEF ChatInv

\* The API sees a sign-on: its tokens are the account's, and the access token is
\* sent to the connection whose id was the secret.
LEMMA SignOnsKeepTokens ==
  ASSUME Carried, ChatInv, UNCHANGED feedVars, authenticate
  PROVE  ChatInv' /\ PageAside
  <1>1. PICK token : token = generateAccessToken
    OBVIOUS
  <1>2. PICK e : e = Event("auth_response", None, token)
    OBVIOUS
  <1>3. e.name = "auth_response" /\ e.says = token
    BY <1>2 DEF Event
  <1>4. /\ auths # <<>> /\ auths' = Tail(auths) /\ signedOn' = day
        /\ tokens' = tokens \union {token, generateRefreshToken}
        /\ down' = (IF connected /\ Head(auths) = socket_id THEN Append(down, e) ELSE down)
        /\ UNCHANGED <<connected, socket_id, up, day, sending, inExtension, ws_id, bearerToken,
                       loggedIn, unnamed, spoke>>
    BY <1>1, <1>2 DEF authenticate, listVars
  <1>5. Len(down) \in Nat /\ Places = 1 .. Len(down) /\ Places' = 1 .. Len(down')
    BY DEF Carried, IsSeq, Places
  <1>6. \/ UNCHANGED down
        \/ /\ down' = Append(down, e) /\ Len(down') = Len(down) + 1
           /\ (\A i \in 1 .. Len(down) : down'[i] = down[i]) /\ down'[Len(down) + 1] = e
    BY <1>4, AppendFacts DEF Carried
  <1>7. IsSeq(down') /\ Moved({"update"}) /\ Moved({"trade", "history"})
    <2>1. e.name \notin {"update"} /\ e.name \notin {"trade", "history"}
      BY <1>3
    <2>2. CASE UNCHANGED down
      BY <2>2, Stood
    <2>3. CASE down' = Append(down, e)
      BY <2>1, <2>3, Sent
    <2> QED  BY <1>4, <2>2, <2>3
  <1>8. PageAside
    <2>1. Carried'
      BY <1>4, <1>7 DEF Carried
    <2>2. UNCHANGED <<row, updating, joinedFeeds, shown, missed, tradeFeedVars>>
      BY DEF feedVars, rowVars
    <2>3. \A p, x : Asked(p, x)' <=> Asked(p, x)
      BY <1>4 DEF Asked
    <2> QED  BY <1>4, <1>7, <2>1, <2>2, <2>3 DEF PageAside, RowsAside, TradesAside
  <1>9. ASSUME NEW i \in Places' PROVE (i \in Places /\ down'[i] = down[i]) \/ down'[i] = e
    <2>1. CASE UNCHANGED down
      BY <1>5, <1>9, <2>1
    <2>2. CASE /\ Len(down') = Len(down) + 1 /\ (\A j \in 1 .. Len(down) : down'[j] = down[j])
               /\ down'[Len(down) + 1] = e
      <3>1. i \in 1 .. Len(down) \/ i = Len(down) + 1
        BY <1>5, <2>2
      <3> QED  BY <1>5, <2>2, <3>1
    <2> QED  BY <1>6, <2>1, <2>2
  <1>10. IsSeq(auths)
    BY DEF ChatInv, Secrets
  <1>11. /\ IsSeq(auths') /\ Len(auths) \in Nat \ {0} /\ Len(auths') = Len(auths) - 1
         /\ \A i \in 1 .. Len(auths) - 1 : auths'[i] = auths[i + 1]
         /\ Head(auths) = auths[1]
    BY <1>4, <1>10, TailFacts
  <1>12. ASSUME ~unnamed, socket_id <= 1, NEW i \in 1 .. Len(auths') PROVE auths'[i] = 1
    <2>1. i + 1 \in 1 .. Len(auths) /\ auths'[i] = auths[i + 1]
      BY <1>11
    <2> QED  BY <1>12, <2>1 DEF ChatInv, Secrets
  <1>13. ~unnamed => socket_id # 0
    BY <1>4 DEF ChatInv, Secrets
  <1>14. Secrets'
    <2>1. /\ IsSeq(sending) /\ unnamed \in BOOLEAN /\ loggedIn \in BOOLEAN
          /\ ws_id \in {None} \union 1 .. socket_id
          /\ ~unnamed /\ socket_id <= 1 => \A i \in 1 .. Len(sending) : sending[i] = 1
      BY DEF ChatInv, Secrets
    <2>2. \A i \in Places' : down'[i].name = "authcode" => down'[i].says = socket_id
      BY <1>3, <1>9 DEF ChatInv, Secrets
    <2> QED  BY <1>4, <1>11, <1>12, <1>13, <2>1, <2>2 DEF Secrets
  <1>15. TokenComes'
    <2> SUFFICES ASSUME connected, socket_id = 1, ~unnamed
                 PROVE  \E i \in Places' : down'[i].name = "auth_response"
      BY <1>4 DEF TokenComes
    <2>1. Head(auths) = 1
      BY <1>11 DEF ChatInv, Secrets
    <2>2. down' = Append(down, e)
      BY <1>4, <2>1
    <2>3. Len(down') = Len(down) + 1 /\ down'[Len(down) + 1] = e
      BY <2>2, AppendFacts DEF Carried
    <2>4. Len(down) + 1 \in Places'
      BY <1>5, <2>3
    <2> QED  BY <1>3, <2>3, <2>4
  <1>16. TokensEnd'
    <2>1. day \in Nat /\ signedOn \in Nat /\ signedOn <= day /\ AccessDays \in Nat /\ RefreshDays \in Nat
      BY ChatAssumption DEF ChatInv, TokensEnd
    <2>2. ASSUME NEW k, Ends(k) PROVE Ends(k)'
      <3>1. k \in TokenSet /\ k.until \in Nat
        BY <2>2 DEF Ends, TokenSet
      <3> QED  BY <1>4, <2>1, <2>2, <3>1 DEF Ends
    <2>3. Ends(token)'
      <3>1. token.kind = "access" /\ token.until = day + AccessDays /\ token \in TokenSet
        BY <1>1, <2>1 DEF generateAccessToken, TokenSet
      <3> QED  BY <1>4, <2>1, <3>1 DEF Ends
    <2>4. PICK r : r = generateRefreshToken
      OBVIOUS
    <2>5. Ends(r)'
      <3>1. r.kind = "refresh" /\ r.until = day + RefreshDays /\ r \in TokenSet
        BY <2>1, <2>4 DEF generateRefreshToken, TokenSet
      <3> QED  BY <1>4, <2>1, <3>1 DEF Ends
    <2>6. ASSUME NEW k \in tokens' PROVE Ends(k)'
      <3>1. k \in tokens \/ k = token \/ k = r
        BY <1>4, <2>4, <2>6
      <3>2. k \in tokens => Ends(k)
        BY DEF ChatInv, TokensEnd
      <3> QED  BY <2>2, <2>3, <2>5, <3>1, <3>2
    <2>7. ASSUME NEW i \in Places', down'[i].name = "auth_response" PROVE Ends(down[i].says)'
      <3>1. CASE i \in Places /\ down'[i] = down[i]
        <4>1. PICK k : k = down[i].says
          OBVIOUS
        <4>2. Ends(k)
          BY <2>7, <3>1, <4>1 DEF ChatInv, TokensEnd
        <4>3. Ends(k)' /\ down'[i].says = k
          BY <2>2, <3>1, <4>1, <4>2
        <4> QED  BY <4>3 DEF Ends
      <3>2. CASE down'[i] = e
        <4>1. down'[i].says = token
          BY <1>3, <3>2
        <4> QED  BY <2>3, <4>1 DEF Ends
      <3> QED  BY <1>9, <3>1, <3>2
    <2>8. bearerToken # None => Ends(bearerToken)'
      <3>1. PICK k : k = bearerToken
        OBVIOUS
      <3>2. bearerToken # None => Ends(k)
        BY <3>1 DEF ChatInv, TokensEnd
      <3>3. bearerToken # None => Ends(k)'
        BY <2>2, <3>2
      <3> QED  BY <1>4, <3>1, <3>3 DEF Ends
    <2>9. day' \in Nat /\ signedOn' \in 0 .. day' /\ spoke' \in [on : Nat, since : Nat] /\ SpeaksWithin'
      BY <1>4, <2>1 DEF ChatInv, TokensEnd, SpeaksWithin
    <2> QED  BY <1>4, <2>6, <2>7, <2>8, <2>9 DEF TokensEnd, Ends
  <1> QED  BY <1>8, <1>14, <1>15, <1>16 DEF ChatInv

\* The token arrives, and is taken over for the extension's account.
LEMMA ResponsesKeepTokens ==
  ASSUME Carried, ChatInv, UNCHANGED feedVars, handleAuthResponse
  PROVE  ChatInv' /\ PageAside
  <1>1. PICK token : token = Head(down).says
    OBVIOUS
  <1>2. /\ Arrives("auth_response") /\ down' = Tail(down)
        /\ \/ inExtension /\ bearerToken' = token /\ loggedIn' = TRUE
           \/ ~inExtension /\ UNCHANGED <<bearerToken, loggedIn>>
        /\ UNCHANGED <<connected, socket_id, up, day, tokens, sending, auths, inExtension, ws_id,
                       unnamed, signedOn, spoke>>
    BY <1>1 DEF handleAuthResponse, listVars
  <1>3. /\ Carried' /\ connected /\ Len(down) \in Nat \ {0} /\ Len(down') = Len(down) - 1
        /\ (\A i \in 1 .. Len(down) - 1 : down'[i] = down[i + 1])
        /\ Head(down) = down[1] /\ down[1].name = "auth_response"
    BY <1>2, Arrival
  <1>4. PageAside
    BY <1>2, ArrivalPage
  <1>5. Places = 1 .. Len(down) /\ Places' = 1 .. Len(down) - 1 /\ 1 \in Places
    BY <1>3 DEF Places
  <1>6. ASSUME NEW i \in Places' PROVE i + 1 \in Places /\ down'[i] = down[i + 1]
    BY <1>3, <1>5
  <1>7. Ends(token)
    BY <1>1, <1>3, <1>5 DEF ChatInv, TokensEnd
  <1>8. inExtension => bearerToken' # None
    BY <1>2, <1>7, ChatAssumption DEF Ends
  <1>9. socket_id # 0
    BY <1>3 DEF Carried
  <1>10. Secrets'
    <2>1. \A i \in Places' : down'[i].name = "authcode" => down'[i].says = socket_id
      BY <1>6 DEF ChatInv, Secrets
    <2> QED  BY <1>2, <1>9, <2>1 DEF ChatInv, Secrets
  <1>11. TokenComes'
    BY <1>2, <1>8 DEF TokenComes
  <1>12. TokensEnd'
    <2>1. \A k : Ends(k)' <=> Ends(k)
      BY <1>2 DEF Ends
    <2>2. \A i \in Places' : down'[i].name = "auth_response" => Ends(down'[i].says)
      BY <1>6 DEF ChatInv, TokensEnd
    <2> QED  BY <1>2, <1>7, <2>1, <2>2 DEF ChatInv, TokensEnd, SpeaksWithin
  <1> QED  BY <1>4, <1>10, <1>11, <1>12 DEF ChatInv

\* A refresh token gives an access token, which ends as long after it at most.
LEMMA RefreshesKeepTokens ==
  ASSUME Carried, ChatInv, UNCHANGED feedVars, NEW token \in tokens, refresh(token)
  PROVE  ChatInv' /\ PageAside
  <1>1. PICK new : new = generateAccessToken
    OBVIOUS
  <1>2. /\ token.kind = "refresh" /\ day <= token.until /\ tokens' = tokens \union {new}
        /\ UNCHANGED <<socketVars, day, sending, auths, inExtension, ws_id, bearerToken, loggedIn,
                       unnamed, signedOn, spoke>>
    BY <1>1 DEF refresh, resolveRefreshToken, Valid, listVars
  <1>3. UNCHANGED <<connected, socket_id, down>>
    BY <1>2 DEF socketVars
  <1>4. Ends(new)
    <2>1. day \in Nat /\ signedOn \in Nat /\ AccessDays \in Nat /\ RefreshDays \in Nat
      BY ChatAssumption DEF ChatInv, TokensEnd
    <2>2. token \in TokenSet /\ token.until <= signedOn + RefreshDays
      BY <1>2 DEF ChatInv, TokensEnd, Ends
    <2>3. token.until \in Nat
      BY <2>2 DEF TokenSet
    <2>4. new.kind = "access" /\ new.until = day + AccessDays /\ new \in TokenSet
      BY <1>1, <2>1 DEF generateAccessToken, TokenSet
    <2> QED  BY <1>2, <2>1, <2>2, <2>3, <2>4 DEF Ends
  <1>5. \A k : Ends(k)' <=> Ends(k)
    BY <1>2 DEF Ends
  <1>6. TokensEnd'
    BY <1>2, <1>3, <1>4, <1>5 DEF ChatInv, TokensEnd, Places, SpeaksWithin
  <1>7. Secrets' /\ TokenComes'
    BY <1>2, <1>3 DEF ChatInv, Secrets, TokenComes, Places
  <1> QED  BY <1>2, <1>6, <1>7, StillPage DEF ChatInv

\* A day passes.
LEMMA DaysKeepTokens ==
  ASSUME Carried, ChatInv, UNCHANGED feedVars, Tomorrow
  PROVE  ChatInv' /\ PageAside
  <1>1. /\ day' = day + 1
        /\ UNCHANGED <<socketVars, tokens, sending, auths, inExtension, ws_id, bearerToken,
                       loggedIn, unnamed, signedOn, spoke>>
    BY DEF Tomorrow, listVars
  <1>2. UNCHANGED <<connected, socket_id, down>>
    BY <1>1 DEF socketVars
  <1>3. day' \in Nat /\ signedOn' \in 0 .. day'
    BY <1>1 DEF ChatInv, TokensEnd
  <1>4. \A k : Ends(k)' <=> Ends(k)
    BY <1>1 DEF Ends
  <1>5. TokensEnd'
    BY <1>1, <1>2, <1>3, <1>4 DEF ChatInv, TokensEnd, Places, SpeaksWithin
  <1>6. Secrets' /\ TokenComes'
    BY <1>1, <1>2 DEF ChatInv, Secrets, TokenComes, Places
  <1> QED  BY <1>1, <1>5, <1>6, StillPage DEF ChatInv

\* A message with a token of the account is not later than the token's end.
LEMMA MessagesKeepTokens ==
  ASSUME Carried, ChatInv, UNCHANGED feedVars, NEW token, Ends(token), Speak(token)
  PROVE  ChatInv' /\ PageAside
  <1>1. /\ day <= token.until /\ send_message /\ UNCHANGED authVars
        /\ spoke' = [on |-> day, since |-> signedOn]
    BY DEF Speak, Valid
  <1>2. PageAside /\ Moved({"authcode", "auth_response"}) /\ UNCHANGED <<connected, socket_id>>
    BY <1>1, MessagesAside
  <1>3. day \in Nat /\ signedOn \in Nat /\ AccessDays \in Nat /\ RefreshDays \in Nat
    BY ChatAssumption DEF ChatInv, TokensEnd
  <1>4. token.until \in Nat /\ token.until <= signedOn + RefreshDays + AccessDays
    BY DEF Ends, TokenSet
  <1>5. spoke' \in [on : Nat, since : Nat] /\ spoke'.on = day /\ spoke'.since = signedOn
    BY <1>1, <1>3
  <1>6. day - signedOn <= AccessDays + RefreshDays
    BY <1>1, <1>3, <1>4
  <1>7. SpeaksWithin'
    BY <1>5, <1>6 DEF SpeaksWithin
  <1>8. Carried'
    BY <1>2 DEF PageAside
  <1> QED  BY <1>1, <1>2, <1>5, <1>7, <1>8, AuthAside

\* Others speak with tokens of their own.
LEMMA OthersKeepTokens ==
  ASSUME Carried, ChatInv, UNCHANGED feedVars, OthersSpeak
  PROVE  ChatInv' /\ PageAside
  <1>1. send_message /\ UNCHANGED <<authVars, spoke>>
    BY DEF OthersSpeak
  <1>2. PageAside /\ Moved({"authcode", "auth_response"}) /\ UNCHANGED <<connected, socket_id>>
    BY <1>1, MessagesAside
  <1>3. Carried' /\ spoke' \in [on : Nat, since : Nat] /\ SpeaksWithin'
    BY <1>1, <1>2 DEF PageAside, ChatInv, TokensEnd, SpeaksWithin
  <1> QED  BY <1>1, <1>2, <1>3, AuthAside

\* The page's message goes out with its token, or the page signs on.
LEMMA PostsKeepTokens ==
  ASSUME Carried, ChatInv, UNCHANGED feedVars, login \/ handleSendMessage
  PROVE  ChatInv' /\ PageAside
  <1>1. CASE /\ handleLogin
             /\ UNCHANGED <<socketVars, day, tokens, auths, inExtension, ws_id, bearerToken,
                            loggedIn, signedOn, listVars>>
    BY <1>1, LoginsKeepTokens, StillPage DEF listVars
  <1>2. CASE bearerToken # None /\ Speak(bearerToken)
    <2>1. PICK token : token = bearerToken
      OBVIOUS
    <2>2. Ends(token) /\ Speak(token)
      BY <1>2, <2>1 DEF ChatInv, TokensEnd
    <2> QED  BY <2>2, MessagesKeepTokens
  <1> QED  BY <1>1, <1>2 DEF login, handleSendMessage

\* Steps of the list of messages: a message is inserted, or arrives, or a history.
LEMMA ListsKeepTokens ==
  ASSUME Carried, ChatInv, UNCHANGED feedVars,
         \/ \E m \in chatSaves : saveTrollChat(m)
         \/ handleTrollboxHistory
         \/ handleTrollBoxMessage
  PROVE  ChatInv' /\ PageAside
  <1>1. UNCHANGED <<authVars, spoke>>
    BY DEF saveTrollChat, handleTrollboxHistory, handleTrollBoxMessage
  <1>2. spoke' \in [on : Nat, since : Nat] /\ SpeaksWithin'
    BY <1>1 DEF ChatInv, TokensEnd, SpeaksWithin
  <1>3. ASSUME NEW m \in chatSaves, saveTrollChat(m) PROVE ChatInv' /\ PageAside
    <2>1. UNCHANGED socketVars
      BY <1>3 DEF saveTrollChat
    <2>2. PageAside /\ UNCHANGED <<connected, socket_id>>
      BY <2>1, StillPage DEF socketVars
    <2>3. Moved({"authcode", "auth_response"}) /\ Carried'
      BY <2>1, Still
    <2> QED  BY <1>1, <1>2, <2>2, <2>3, AuthAside
  <1>4. ASSUME NEW name \in {"chat_history", "message"}, Arrives(name), down' = Tail(down),
               UNCHANGED <<connected, socket_id, up>>
        PROVE  ChatInv' /\ PageAside
    <2>1. PageAside
      BY <1>4, ArrivalPage
    <2>2. name \notin {"authcode", "auth_response"}
      BY <1>4
    <2>3. Carried' /\ Moved({"authcode", "auth_response"})
      BY <1>4, <2>2, Arrival
    <2> QED  BY <1>1, <1>2, <1>4, <2>1, <2>3, AuthAside
  <1>5. CASE handleTrollboxHistory
    BY <1>4, <1>5 DEF handleTrollboxHistory
  <1>6. CASE handleTrollBoxMessage
    BY <1>4, <1>6 DEF handleTrollBoxMessage
  <1> QED  BY <1>3, <1>5, <1>6

\* The chat is joined: the id that is sent is that of the connection.
LEMMA BoxesKeepTokens ==
  ASSUME Carried, ChatInv, UNCHANGED feedVars, handleJoinTrollBox
  PROVE  ChatInv' /\ PageAside
  <1>1. PICK a : a = Event("authcode", None, socket_id)
    OBVIOUS
  <1>2. PICK b : b = Event("chat_history", None, Ascending(LatestMessages))
    BY Zenon
  <1>3. a.name = "authcode" /\ a.says = socket_id /\ b.name = "chat_history"
    BY <1>1, <1>2, Zenon DEF Event
  <1>4. /\ Joins("trollbox") /\ down' = down \o <<a, b>> /\ up' = Tail(up)
        /\ UNCHANGED <<connected, socket_id, authVars, spoke>>
    BY <1>1, <1>2, Zenon DEF handleJoinTrollBox
  <1>5. /\ a.name \notin {"update"} /\ b.name \notin {"update"}
        /\ a.name \notin {"trade", "history"} /\ b.name \notin {"trade", "history"}
        /\ a.name \notin {"auth_response"} /\ b.name \notin {"auth_response"}
    BY <1>3
  <1>6. /\ Moved({"update"}) /\ Moved({"trade", "history"}) /\ Moved({"auth_response"}) /\ IsSeq(down')
        /\ Len(down) \in Nat /\ Len(down') = Len(down) + 2
        /\ (\A i \in 1 .. Len(down) : down'[i] = down[i])
        /\ down'[Len(down) + 1] = a /\ down'[Len(down) + 2] = b
    BY <1>4, <1>5, SentTwo
  <1>7. /\ Carried' /\ connected /\ Head(up) \in Rooms /\ Head(up).prefix = "trollbox"
        /\ (\A p, x : Asked(p, x)' => Asked(p, x))
        /\ (\A p, x : Asked(p, x) /\ Room(p, x) # Head(up) => Asked(p, x)')
    BY <1>4, <1>6, Answering
  <1>8. /\ (\A f : Asked("row", f) => Asked("row", f)')
        /\ (\A t : Asked("trade_feed", t)' <=> Asked("trade_feed", t))
    BY <1>7, RoomFacts
  <1>9. PageAside
    <2>1. UNCHANGED <<row, updating, joinedFeeds, shown, missed, tradeFeedVars>>
      BY DEF feedVars, rowVars
    <2> QED  BY <1>4, <1>6, <1>7, <1>8, <2>1 DEF PageAside, RowsAside, TradesAside
  <1>10. ASSUME NEW i \in 1 .. Len(down'), down'[i].name = "authcode"
         PROVE  down'[i].says = socket_id
    <2>1. i \in 1 .. Len(down) \/ i = Len(down) + 1 \/ i = Len(down) + 2
      BY <1>6
    <2>2. CASE i \in 1 .. Len(down)
      BY <1>6, <1>10, <2>2 DEF ChatInv, Secrets, Places
    <2>3. CASE i = Len(down) + 1
      BY <1>3, <1>6, <2>3
    <2>4. CASE i = Len(down) + 2
      BY <1>3, <1>6, <1>10, <2>4
    <2> QED  BY <2>1, <2>2, <2>3, <2>4
  <1>11. UNCHANGED <<day, tokens, sending, auths, inExtension, ws_id, bearerToken, loggedIn,
                     unnamed, signedOn>>
    BY <1>4 DEF authVars
  <1>12. ws_id' \in {None} \union 1 .. socket_id /\ spoke' \in [on : Nat, since : Nat] /\ SpeaksWithin'
    BY <1>4, <1>11 DEF ChatInv, Secrets, TokensEnd, SpeaksWithin
  <1>13. ChatInv'
    BY <1>4, <1>6, <1>7, <1>10, <1>11, <1>12, AuthStands
  <1> QED  BY <1>9, <1>13

\* The id of the connection arrives.
LEMMA CodesKeepTokens ==
  ASSUME Carried, ChatInv, UNCHANGED feedVars, handleTrollboxAuthCode
  PROVE  ChatInv' /\ PageAside
  <1>1. PICK code : code = Head(down).says
    OBVIOUS
  <1>2. /\ Arrives("authcode") /\ down' = Tail(down) /\ ws_id' = code
        /\ UNCHANGED <<connected, socket_id, up, day, tokens, sending, auths, inExtension,
                       bearerToken, loggedIn, unnamed, signedOn, spoke>>
    BY <1>1 DEF handleTrollboxAuthCode, listVars
  <1>3. /\ Carried' /\ connected /\ (\A N : "authcode" \notin N => Moved(N))
        /\ Len(down) \in Nat \ {0} /\ Len(down') = Len(down) - 1
        /\ (\A i \in 1 .. Len(down) - 1 : down'[i] = down[i + 1])
        /\ Head(down) = down[1] /\ down[1].name = "authcode"
    BY <1>2, Arrival
  <1>4. PageAside
    BY <1>2, ArrivalPage
  <1>5. Places = 1 .. Len(down) /\ 1 \in Places
    BY <1>3 DEF Places
  <1>6. code = socket_id /\ socket_id \in Nat /\ socket_id > 0
    BY <1>1, <1>3, <1>5 DEF ChatInv, Secrets, Carried
  <1>7. ws_id' \in {None} \union 1 .. socket_id
    BY <1>2, <1>6
  <1>8. ASSUME NEW i \in 1 .. Len(down'), down'[i].name = "authcode"
        PROVE  down'[i].says = socket_id
    <2>1. i + 1 \in Places /\ down'[i] = down[i + 1]
      BY <1>3, <1>5
    <2> QED  BY <1>8, <2>1 DEF ChatInv, Secrets
  <1>9. "authcode" \notin {"auth_response"}
    OBVIOUS
  <1>10. spoke' \in [on : Nat, since : Nat] /\ SpeaksWithin'
    BY <1>2 DEF ChatInv, TokensEnd, SpeaksWithin
  <1>11. ChatInv'
    BY <1>2, <1>3, <1>7, <1>8, <1>9, <1>10, AuthStands
  <1> QED  BY <1>4, <1>11

\* A break: what was on its way to the page is lost, tokens included.
LEMMA BreaksKeepTokens ==
  ASSUME ChatInv, Disconnect
  PROVE  ChatInv'
  <1>1. /\ connected' = FALSE /\ down' = <<>>
        /\ UNCHANGED <<socket_id, day, tokens, sending, auths, inExtension, ws_id, bearerToken,
                       loggedIn, unnamed, signedOn, spoke>>
    BY DEF Disconnect, ChatDisconnect, authVars
  <1>2. Places' = {}
    BY <1>1 DEF Places
  <1>3. \A k : Ends(k)' <=> Ends(k)
    BY <1>1 DEF Ends
  <1> QED  BY <1>1, <1>2, <1>3 DEF ChatInv, Secrets, TokenComes, TokensEnd, SpeaksWithin

-----------------------------------------------------------------------------
(* The connection *)

\* The page connects: what it waited to ask for goes out behind the chat and the
\* feeds every page has.
LEMMA Connecting ==
  ASSUME IInv, handleConnect
  PROVE  IInv'
  <1>1. PICK first : first = ~previously_connected
    OBVIOUS
  <1>2. /\ ~connected /\ connected' = TRUE /\ socket_id' = socket_id + 1
        /\ up' = (IF first THEN <<Room("trollbox", None)>> \o Joined(Rswp) \o Joined(Tau) \o up ELSE up)
        /\ joinedFeeds' = (IF first THEN joinedFeeds \union {Rswp, Tau} ELSE joinedFeeds)
        /\ UNCHANGED <<down, row, updating, shown, missed, tradeFeedVars, chatVars>>
    BY <1>1 DEF handleConnect
  <1>3. /\ Carried /\ RowsInv /\ TradesInv /\ ChatInv
    BY DEF IInv
  <1>4. up \in Seq(Rooms) /\ socket_id \in Nat /\ down = <<>> /\ IsSeq(down)
    BY <1>2, <1>3 DEF Carried
  <1>5. Rswp \in Rows /\ Tau \in Rows /\ joinedFeeds \subseteq Rows
    BY <1>3, FeedsAssumption DEF Rows, RowsInv, RowTypes
  <1>6. /\ up' \in Seq(Rooms)
        /\ (\A p, x : Asked(p, x) => Asked(p, x)')
        /\ (\A t : Asked("trade_feed", t)' => Asked("trade_feed", t))
        /\ (\A f \in {Rswp, Tau} : first => f \in joinedFeeds \/ Asked("row", f)')
    <2>1. CASE ~first
      BY <1>2, <1>4, <2>1 DEF Asked
    <2>2. CASE first
      <3>1. PICK c : c = <<Room("trollbox", None)>>
        OBVIOUS
      <3>2. PICK d : d = Joined(Rswp)
        OBVIOUS
      <3>3. PICK e : e = Joined(Tau)
        OBVIOUS
      <3>4. c \in Seq(Rooms) /\ ToSet(c) = {Room("trollbox", None)}
        <4>1. PICK r \in Rooms : r = Room("trollbox", None)
          BY RoomFacts
        <4>2. c = <<r>> /\ <<r>> \in Seq(Rooms) /\ DOMAIN <<r>> = {1} /\ <<r>>[1] = r
          <5> HIDE DEF Rooms
          <5> QED  BY <3>1, <4>1
        <4> QED  BY <4>1, <4>2 DEF ToSet
      <3>5. ASSUME NEW f \in Rows
            PROVE  Joined(f) \in Seq(Rooms)
                   /\ ToSet(Joined(f)) = (IF f \in joinedFeeds THEN {} ELSE {Room("row", f)})
        <4>1. PICK r \in Rooms : r = Room("row", f)
          BY RoomFacts
        <4>2. <<r>> \in Seq(Rooms) /\ DOMAIN <<r>> = {1} /\ <<r>>[1] = r
          <5> HIDE DEF Rooms
          <5> QED  BY <4>1
        <4>3. <<>> \in Seq(Rooms) /\ ToSet(<<>>) = {}
          BY DEF ToSet
        <4>4. ToSet(<<r>>) = {r}
          BY <4>2 DEF ToSet
        <4>5. Joined(f) = IF f \in joinedFeeds THEN <<>> ELSE <<r>>
          BY <4>1 DEF Joined
        <4> QED  BY <4>1, <4>2, <4>3, <4>4, <4>5
      <3>6. /\ d \in Seq(Rooms) /\ ToSet(d) = (IF Rswp \in joinedFeeds THEN {} ELSE {Room("row", Rswp)})
            /\ e \in Seq(Rooms) /\ ToSet(e) = (IF Tau \in joinedFeeds THEN {} ELSE {Room("row", Tau)})
        BY <1>5, <3>2, <3>3, <3>5
      <3>7. PICK g : g = c \o d
        OBVIOUS
      <3>8. g \in Seq(Rooms) /\ ToSet(g) = ToSet(c) \union ToSet(d)
        BY <3>4, <3>6, <3>7, RoomsJoined
      <3>9. PICK h : h = g \o e
        OBVIOUS
      <3>10. h \in Seq(Rooms) /\ ToSet(h) = ToSet(g) \union ToSet(e)
        BY <3>6, <3>8, <3>9, RoomsJoined
      <3>11. up' = h \o up
        BY <1>2, <2>2, <3>1, <3>2, <3>3, <3>7, <3>9
      <3>12. up' \in Seq(Rooms) /\ ToSet(up') = ToSet(h) \union ToSet(up)
        <4>1. h \o up \in Seq(Rooms) /\ ToSet(h \o up) = ToSet(h) \union ToSet(up)
          BY <1>4, <3>10, RoomsJoined
        <4> QED  BY <3>11, <4>1
      <3>13. ToSet(up') = {Room("trollbox", None)}
                            \union (IF Rswp \in joinedFeeds THEN {} ELSE {Room("row", Rswp)})
                            \union (IF Tau \in joinedFeeds THEN {} ELSE {Room("row", Tau)})
                            \union ToSet(up)
        BY <3>4, <3>6, <3>8, <3>10, <3>12
      <3>14. \A p, x : Asked(p, x)' <=> Room(p, x) \in ToSet(up')
        BY DEF Asked
      <3>15. \A p, x : Asked(p, x) => Asked(p, x)'
        BY <3>13, <3>14 DEF Asked
      <3>16. \A t : Asked("trade_feed", t)' => Asked("trade_feed", t)
        BY <3>13, <3>14, RoomFacts DEF Asked
      <3>17. \A f \in {Rswp, Tau} : f \in joinedFeeds \/ Asked("row", f)'
        BY <3>13, <3>14
      <3> QED  BY <3>12, <3>15, <3>16, <3>17
    <2> QED  BY <2>1, <2>2
  <1>7. Carried'
    BY <1>2, <1>4, <1>6 DEF Carried
  <1>8. RowsInv'
    <2>1. joinedFeeds' \subseteq Rows
      BY <1>2, <1>5
    <2>2. \A f \in joinedFeeds' : f \in joinedFeeds \/ f = Staking \/ Asked("row", f)'
      BY <1>2, <1>6
    <2> QED  BY <1>2, <1>3, <1>6, <2>1, <2>2, RowsJoined
  <1>9. TradesInv'
    <2>1. Moved({"trade", "history"})
      BY <1>2, <1>3, Stood
    <2>2. TradesAside
      BY <1>2, <1>6, <2>1 DEF TradesAside
    <2> QED  BY <1>3, <1>7, <2>2, TradesStand
  <1>10. ChatInv'
    <2>1. /\ UNCHANGED <<day, tokens, sending, auths, inExtension, ws_id, bearerToken, loggedIn,
                         unnamed, signedOn, spoke>>
          /\ Places' = {}
      BY <1>2, <1>4 DEF chatVars, authVars, listVars, Places
    <2>2. \A k : Ends(k)' <=> Ends(k)
      BY <2>1 DEF Ends
    <2>3. TokensEnd'
      BY <1>3, <2>1, <2>2 DEF ChatInv, TokensEnd, SpeaksWithin
    <2>4. socket_id' # 0 /\ (socket_id' <= 1 => socket_id = 0) /\ (socket_id' = 1 => socket_id = 0)
      BY <1>2, <1>4
    <2>5. ws_id' \in {None} \union 1 .. socket_id'
      BY <1>2, <1>3, <1>4, <2>1 DEF ChatInv, Secrets
    <2>6. Secrets'
      BY <1>3, <2>1, <2>4, <2>5 DEF ChatInv, Secrets
    <2>7. TokenComes'
      BY <1>3, <2>1, <2>4 DEF ChatInv, Secrets, TokenComes
    <2> QED  BY <2>3, <2>6, <2>7 DEF ChatInv
  <1> QED  BY <1>7, <1>8, <1>9, <1>10 DEF IInv

-----------------------------------------------------------------------------
(* The invariant is inductive *)

\* A step of the rows keeps the whole.
LEMMA FromRows ==
  ASSUME IInv, RowsInv', OthersAside
  PROVE  IInv'
  <1>1. Carried /\ TradesInv /\ ChatInv /\ Carried' /\ TradesAside /\ ChatAside
    BY DEF IInv, OthersAside
  <1>2. TradesInv' /\ ChatInv'
    BY <1>1, TradesStand, ChatStands
  <1> QED  BY <1>1, <1>2 DEF IInv

\* A step of the trades keeps the whole.
LEMMA FromTrades ==
  ASSUME IInv, TradesInv', RestAside
  PROVE  IInv'
  <1>1. Carried /\ RowsInv /\ ChatInv /\ Carried' /\ RowsAside /\ ChatAside
    BY DEF IInv, RestAside
  <1>2. IsSeq(down')
    BY <1>1 DEF Carried
  <1>3. RowsInv' /\ ChatInv'
    BY <1>1, <1>2, RowsStand, ChatStands
  <1> QED  BY <1>1, <1>3 DEF IInv

\* A step of the chat keeps the whole.
LEMMA FromChat ==
  ASSUME IInv, ChatInv', PageAside
  PROVE  IInv'
  <1>1. Carried /\ RowsInv /\ TradesInv /\ Carried' /\ RowsAside /\ TradesAside
    BY DEF IInv, PageAside
  <1>2. IsSeq(down')
    BY <1>1 DEF Carried
  <1>3. RowsInv' /\ TradesInv'
    BY <1>1, <1>2, RowsStand, TradesStand
  <1> QED  BY <1>1, <1>3 DEF IInv

\* At first there is nothing on its way, and nobody listens.
LEMMA InitIInv == Init => IInv
  <1> SUFFICES ASSUME Init PROVE IInv
    OBVIOUS
  <1>1. connected = FALSE /\ socket_id = 0 /\ up = <<>> /\ down = <<>>
    BY DEF Init, SocketInit
  <1>2. Places = {}
    BY <1>1 DEF Places
  <1>3. <<>> \in Seq(Rooms) /\ <<>> \in Seq(Trades) /\ IsSeq(<<>>)
    <2>1. \A S : <<>> \in Seq(S)
      OBVIOUS
    <2> QED  BY <2>1 DEF IsSeq
  <1>4. Carried
    BY <1>1, <1>3 DEF Carried
  <1>5. RowsInv
    <2>1. /\ row \in [Rows -> 0 .. 1] /\ updating = [f \in Rows |-> None]
          /\ joinedFeeds = {} /\ shown = [f \in Rows |-> 0]
      BY DEF Init, FeedsInit
    <2>2. row \in [Rows -> Nat] /\ \A f \in Rows : shown[f] <= row[f]
      BY <2>1
    <2> QED  BY <1>2, <2>1, <2>2 DEF RowsInv, RowTypes, LastWord, ShownIsLast
  <1>6. TradesInv
    <2>1. /\ TradeHistory = [t \in Tokens |-> {}] /\ tradeSaves = {} /\ trades = 0
          /\ selectedToken = None /\ asked = {} /\ current_trade_feed = None
          /\ listeners = [t \in Tokens |-> 0]
          /\ tradeHistory = [t \in Tokens |-> {}] /\ tradeUpdates = [t \in Tokens |-> <<>>]
          /\ cut = {} /\ again = {} /\ early = {} /\ blurred = {}
      BY DEF Init, FeedsInit
    <2>2. tradeUpdates \in [Tokens -> Seq(Trades)]
      BY <1>3, <2>1
    <2>3. TradeTypes
      BY <2>1, <2>2 DEF TradeTypes
    <2>4. InOrder /\ ListsInOrder
      BY <1>2, <2>1 DEF InOrder, ListsInOrder
    <2>5. \A t \in Tokens : ~Held(t)
      BY <2>1, FeedsAssumption DEF Held, Rows
    <2>6. Listening /\ EachOnce
      BY <2>1, <2>5 DEF Listening, EachOnce, Watching
    <2> QED  BY <2>3, <2>4, <2>6 DEF TradesInv
  <1>7. ChatInv
    <2>1. /\ day = 0 /\ tokens = {} /\ sending = <<>> /\ auths = <<>>
          /\ ws_id = None /\ bearerToken = None /\ loggedIn = FALSE
          /\ unnamed = FALSE /\ signedOn = 0 /\ spoke = [on |-> 0, since |-> 0]
      BY DEF Init, ChatInit
    <2>2. Secrets
      <3>1. Len(sending) = 0 /\ Len(auths) = 0
        BY <2>1
      <3>2. 1 .. Len(sending) = {} /\ 1 .. Len(auths) = {}
        BY <3>1
      <3>3. unnamed \in BOOLEAN /\ loggedIn \in BOOLEAN /\ ~loggedIn
        BY <2>1
      <3> QED  BY <1>2, <1>3, <2>1, <3>2, <3>3 DEF Secrets
    <2>3. TokenComes
      BY <1>1 DEF TokenComes
    <2>4. TokensEnd
      BY <1>2, <2>1, ChatAssumption DEF TokensEnd, SpeaksWithin
    <2> QED  BY <2>2, <2>3, <2>4 DEF ChatInv
  <1> QED  BY <1>4, <1>5, <1>6, <1>7 DEF IInv

\* The steps of the API and of the user that the feeds are about.
LEMMA FeedsKeepIInv ==
  ASSUME IInv, UNCHANGED chatVars, RowsApi \/ TradesApi \/ RowsUser \/ TradesUser \/ FeedsStep
  PROVE  IInv'
  <1>1. Carried /\ RowsInv /\ TradesInv /\ RowTypes
    BY DEF IInv, RowsInv
  <1>2. CASE RowsApi
    BY <1>1, <1>2, SavesKeepRows, FromRows DEF RowsApi
  <1>3. CASE TradesApi
    BY <1>1, <1>3, TradesComeOnce, FromTrades DEF TradesApi
  <1>4. CASE RowsUser
    BY <1>1, <1>4, JoinsKeepRows, FromRows DEF RowsUser
  <1>5. CASE TradesUser
    BY <1>1, <1>5, LeavingKeepsTrades, ChoicesKeepTrades, FromTrades DEF TradesUser
  <1>6. CASE handleJoinRow
    BY <1>1, <1>6, AnswersKeepRows, FromRows
  <1>7. CASE handleRow
    BY <1>1, <1>7, WordsKeepRows, FromRows
  <1>8. CASE handleJoinTradeFeed
    BY <1>1, <1>8, ReadingsKeepTrades, FromTrades
  <1>9. CASE handleTradeUpdate
    <2>1. Arrives("history") \/ Arrives("trade")
      BY <1>9 DEF handleTradeUpdate
    <2> QED  BY <1>1, <1>9, <2>1, HistoriesKeepTrades, ArrivalsKeepTrades, FromTrades
  <1>10. ASSUME NEW f \in Rows, metrics_update(f) PROVE IInv'
    BY <1>1, <1>10, TellingKeepsRows, FromRows
  <1>11. ASSUME NEW t \in Tokens, saveReserves(t) PROVE IInv'
    BY <1>1, <1>11, SavesKeepRows, FromRows
  <1>12. ASSUME NEW t \in Tokens, joinTradeFeed(t) PROVE IInv'
    BY <1>1, <1>12, JoinsKeepTrades, FromTrades
  <1>13. ASSUME NEW trade \in tradeSaves, saveTradeUpdate(trade) PROVE IInv'
    BY <1>1, <1>13, SavesKeepTrades, FromTrades
  <1>14. CASE FeedsStep
    BY <1>6, <1>7, <1>8, <1>9, <1>10, <1>11, <1>12, <1>13, <1>14 DEF FeedsStep
  <1> QED  BY <1>2, <1>3, <1>4, <1>5, <1>14

\* The steps of the chat.
LEMMA ChatKeepsIInv ==
  ASSUME IInv, UNCHANGED feedVars, ChatUser \/ ChatOthers \/ Tomorrow \/ ChatStep
  PROVE  IInv'
  <1>1. Carried /\ ChatInv /\ \A token \in tokens : Ends(token)
    BY DEF IInv, ChatInv, TokensEnd
  <1>2. CASE ChatUser
    BY <1>1, <1>2, PostsKeepTokens, FromChat DEF ChatUser
  <1>3. CASE OthersSpeak
    BY <1>1, <1>3, OthersKeepTokens, FromChat
  <1>4. ASSUME NEW token \in tokens, refresh(token) PROVE IInv'
    BY <1>1, <1>4, RefreshesKeepTokens, FromChat
  <1>5. ASSUME NEW token \in tokens, speakElsewhere(token) PROVE IInv'
    BY <1>1, <1>5, MessagesKeepTokens, FromChat DEF speakElsewhere
  <1>6. CASE Tomorrow
    BY <1>1, <1>6, DaysKeepTokens, FromChat
  <1>7. CASE success \/ error
    BY <1>1, <1>7, SuccessesKeepTokens, ErrorsKeepTokens, FromChat
  <1>8. CASE authenticate \/ handleAuthResponse
    BY <1>1, <1>8, SignOnsKeepTokens, ResponsesKeepTokens, FromChat
  <1>9. CASE handleJoinTrollBox \/ handleTrollboxAuthCode
    BY <1>1, <1>9, BoxesKeepTokens, CodesKeepTokens, FromChat
  <1>10. CASE \/ \E m \in chatSaves : saveTrollChat(m)
              \/ handleTrollboxHistory
              \/ handleTrollBoxMessage
    BY <1>1, <1>10, ListsKeepTokens, FromChat
  <1>11. CASE ChatOthers
    BY <1>3, <1>4, <1>5, <1>11 DEF ChatOthers
  <1>12. CASE ChatStep
    BY <1>7, <1>8, <1>9, <1>10, <1>12 DEF ChatStep
  <1> QED  BY <1>2, <1>6, <1>11, <1>12

\* Every step keeps the invariant.
LEMMA NextIInv == IInv /\ [Next]_vars => IInv'
  <1> SUFFICES ASSUME IInv, [Next]_vars PROVE IInv'
    OBVIOUS
  <1>1. CASE UNCHANGED vars
    <2>1. UNCHANGED <<socketVars, feedVars, chatVars>>
      BY <1>1 DEF vars
    <2>2. UNCHANGED <<rowVars, tradeFeedVars>>
      BY <2>1 DEF feedVars
    <2>3. RestAside /\ OthersAside
      <3>1. Carried /\ UNCHANGED <<socketVars, rowVars, chatVars>>
            /\ UNCHANGED <<socketVars, tradeFeedVars, chatVars>>
        BY <2>1, <2>2 DEF IInv
      <3> QED  BY <3>1, StillRest, StillAside
    <2>4. Carried /\ Carried' /\ TradesInv /\ TradesAside
      BY <2>3 DEF IInv, OthersAside
    <2>5. TradesInv'
      BY <2>4, TradesStand
    <2> QED  BY <2>3, <2>5, FromTrades
  <1>2. CASE handleConnect
    BY <1>2, Connecting
  <1>3. CASE Disconnect
    <2>1. Carried'
      <3>1. /\ up' = <<>> /\ down' = <<>> /\ connected' = FALSE /\ UNCHANGED socket_id
        BY <1>3 DEF Disconnect
      <3>2. <<>> \in Seq(Rooms) /\ IsSeq(<<>>) /\ socket_id \in Nat
        <4>1. \A S : <<>> \in Seq(S)
          OBVIOUS
        <4> QED  BY <4>1 DEF IsSeq, IInv, Carried
      <3> QED  BY <3>1, <3>2 DEF Carried
    <2> QED  BY <1>3, <2>1, BreaksKeepRows, BreaksKeepTrades, BreaksKeepTokens DEF IInv
  <1>4. CASE UNCHANGED chatVars /\ (RowsApi \/ TradesApi \/ RowsUser \/ TradesUser \/ FeedsStep)
    BY <1>4, FeedsKeepIInv
  <1>5. CASE UNCHANGED feedVars /\ (ChatUser \/ ChatOthers \/ Tomorrow \/ ChatStep)
    BY <1>5, ChatKeepsIInv
  <1> QED  BY <1>1, <1>2, <1>3, <1>4, <1>5 DEF Next

-----------------------------------------------------------------------------
(* Theorems *)

\* What is on its way accounts for what the page shows: of the rows, of the
\* trades and of the chat.
THEOREM Inductive == Spec => []IInv
  BY InitIInv, NextIInv, PTL DEF Spec

\* handleRow and metrics_update: when nothing is on its way, the metrics and
\* prices the page listens to are those of the tables, however joins and updates
\* met, unless the last word about them was lost with a connection.
THEOREM RowsAreSettled == Spec => []RowsSettle
  <1>1. IInv => RowsSettle
    <2> SUFFICES ASSUME IInv, Quiet, NEW f \in (joinedFeeds \ missed) \ {Staking}, updating[f] = None
                 PROVE  shown[f] = row[f]
      BY DEF RowsSettle
    <2>1. ~Asked("row", f)
      BY DEF Quiet, Asked, ToSet
    <2>2. NoneAbout("update", f)
      BY DEF Quiet, NoneAbout, Places
    <2>3. updating[f] # "saved"
      BY FeedsAssumption
    <2> QED  BY <2>1, <2>2, <2>3 DEF IInv, RowsInv, ShownIsLast
  <1> QED  BY <1>1, Inductive, PTL

\* handleTradeUpdate and handleJoinTradeFeed: when nothing is on its way, the swap
\* page shows every trade of its token once, be it from the history or from the
\* feed, for any number of trades, tokens and changes of the page.
THEOREM TradesAreShownOnce == Spec => []TradesShownOnce
  <1>1. IInv => TradesShownOnce
    <2> SUFFICES ASSUME IInv, Quiet, asked = {}, selectedToken # None,
                        selectedToken \notin cut \union again,
                        NEW x \in TradeHistory[selectedToken] \ blurred
                 PROVE  TimesShown(selectedToken, x) = 1
      BY DEF TradesShownOnce
    <2>1. PICK t : t = selectedToken
      OBVIOUS
    <2>2. t \in Tokens /\ Watching(t) /\ x \in Told(t) \ blurred
      BY <2>1 DEF IInv, TradesInv, TradeTypes, Watching, Held, Told
    <2>3. ~Asked("trade_feed", t)
      BY DEF Quiet, Asked, ToSet
    <2>4. Places = {}
      BY DEF Quiet, Places
    <2>5. NoneAbout("history", t)
      BY <2>4 DEF NoneAbout
    <2>6. Once(t, x)
      BY <2>2 DEF IInv, TradesInv, EachOnce
    <2>7. PICK n : n = Len(tradeUpdates[t])
      OBVIOUS
    <2>8. DOMAIN tradeUpdates[t] = 1 .. n /\ n \in Nat
      BY <2>2, <2>7, ListedTrades DEF IInv, TradesInv
    <2>9. (\E k \in 1 .. n : tradeUpdates[t][k] = x) <=> x \notin tradeHistory[t]
      BY <2>3, <2>4, <2>5, <2>6, <2>7 DEF Once, Follows
    <2>10. ASSUME NEW k \in 1 .. n, NEW l \in 1 .. n, tradeUpdates[t][k] = x, tradeUpdates[t][l] = x
           PROVE  k = l
      <3>1. listeners[t] <= 1
        BY <2>2 DEF IInv, TradesInv, Listening, Watching
      <3>2. x[2] \in Nat
        <4>1. tradeUpdates[t][k][2] \in Nat
          BY <2>2, <2>7, ListedTrades DEF IInv, TradesInv
        <4> QED  BY <2>10, <4>1
      <3>3. ~(k < l) /\ ~(l < k)
        BY <2>2, <2>7, <2>10, <3>1, <3>2 DEF IInv, TradesInv, ListsInOrder
      <3> QED  BY <2>8, <3>3
    <2>11. PICK S : S = {i \in DOMAIN tradeUpdates[t] : tradeUpdates[t][i] = x}
      OBVIOUS
    <2>12. TimesShown(t, x) = Cardinality(S) + (IF x \in tradeHistory[t] THEN 1 ELSE 0)
      BY <2>11 DEF TimesShown
    <2>13. CASE x \in tradeHistory[t]
      <3>1. S = {}
        BY <2>8, <2>9, <2>11, <2>13
      <3> QED  BY <2>1, <2>12, <2>13, <3>1, FS_EmptySet
    <2>14. CASE x \notin tradeHistory[t]
      <3>1. PICK k \in 1 .. n : tradeUpdates[t][k] = x
        BY <2>9, <2>14
      <3>2. S = {k}
        BY <2>8, <2>10, <2>11, <3>1
      <3>3. Cardinality(S) = 1
        BY <3>2, FS_Singleton
      <3> QED  BY <2>1, <2>12, <2>14, <3>3
    <2> QED  BY <2>13, <2>14
  <1> QED  BY <1>1, Inductive, PTL

\* handleLogin, authenticate and handleAuthResponse: a page of the extension's
\* account whose box is open because it signed on has its token once the API has
\* seen the transaction, as long as its first connection lasts and unless it signed
\* on before it had the id of that.
THEOREM SignOnsAreAnswered == Spec => []SignOnAnswered
  <1>1. IInv => SignOnAnswered
    <2> SUFFICES ASSUME IInv, Quiet, inExtension, socket_id = 1, ~unnamed, loggedIn, auths = <<>>
                 PROVE  bearerToken # None
      BY DEF SignOnAnswered
    <2>1. Places = {} /\ connected
      BY DEF Quiet, Places
    <2> QED  BY <2>1 DEF IInv, ChatInv, TokenComes
  <1> QED  BY <1>1, Inductive, PTL

\* resolveRefreshToken and Valid: nobody speaks whose last sign-on is longer ago
\* than the two kinds of tokens are valid for, one after the other, whatever was
\* refreshed in between.
THEOREM TokensEndInTime == Spec => []SpeaksWithin
  <1>1. IInv => SpeaksWithin
    BY DEF IInv, ChatInv, TokensEnd
  <1> QED  BY <1>1, Inductive, PTL

-----------------------------------------------------------------------------
(* The list of messages *)

\* The chat is asked for, and that ahead of everything.
Boxed == up # <<>> /\ up[1].prefix = "trollbox"

IsMessage(i) == down[i].name = "message"

IsHistory(i) == down[i].name = "chat_history"

Plain(x) == x \notin mixed /\ x \notin unheard

ListedAt(s, x) == \E k \in 1 .. Len(s) : s[k] = x

Rising(s) ==
  /\ IsSeq(s)
  /\ \A k \in 1 .. Len(s) : s[k] \in 1 .. messages
  /\ \A k, l \in 1 .. Len(s) : k < l => s[k] < s[l]

ListTypes ==
  /\ messages \in Nat /\ ChatHistory \union chatSaves = 1 .. messages
  /\ IsSeq(trollboxMessages) /\ historyDue \in BOOLEAN /\ previously_connected \in BOOLEAN
  /\ \A k \in 1 .. Len(trollboxMessages) : trollboxMessages[k] \in 1 .. messages

\* The chat is asked for by the first connection only.
AskedOnce ==
  /\ ~previously_connected => ~connected /\ historyDue /\ ~Boxed
  /\ \A i \in 2 .. Len(up) : up[i].prefix # "trollbox"
  /\ Boxed => historyDue

\* Messages come in the order of their numbers.
MessagesComing ==
  /\ \A i \in Places : IsMessage(i) => down[i].says \in 1 .. messages
  /\ \A i, j \in Places : i < j /\ IsMessage(i) /\ IsMessage(j) => down[i].says < down[j].says

\* One history comes, and is waited for.  What is listed or comes ahead of it is
\* around its reading, what comes behind it is newer, and nothing else is missing.
HistoryComing ==
  \A i \in Places : IsHistory(i) =>
    /\ historyDue /\ ~Boxed /\ Rising(down[i].says)
    /\ \A j \in Places : IsHistory(j) => j = i
    /\ \A k \in 1 .. Len(trollboxMessages) : trollboxMessages[k] \in mixed
    /\ \A j \in Places : IsMessage(j) /\ j < i => down[j].says \in mixed
    /\ \A j \in Places, k \in 1 .. Len(down[i].says) :
         IsMessage(j) /\ j > i => down[i].says[k] < down[j].says
    /\ \A x \in 1 .. messages : Plain(x) =>
         \/ ListedAt(down[i].says, x)
         \/ \E j \in Places : IsMessage(j) /\ j > i /\ down[j].says = x

\* With the history there, messages are listed or come, and in order.
HistoryThere ==
  ~historyDue =>
    /\ \A k, l \in 1 .. Len(trollboxMessages) :
         k < l /\ Plain(trollboxMessages[k]) /\ Plain(trollboxMessages[l]) =>
           trollboxMessages[k] < trollboxMessages[l]
    /\ \A j \in Places, k \in 1 .. Len(trollboxMessages) :
         IsMessage(j) /\ Plain(trollboxMessages[k]) => trollboxMessages[k] < down[j].says
    /\ \A x \in 1 .. messages : Plain(x) =>
         ListedAt(trollboxMessages, x) \/ \E j \in Places : IsMessage(j) /\ down[j].says = x

ListInv == ListTypes /\ AskedOnce /\ MessagesComing /\ HistoryComing /\ HistoryThere

\* Two sequences, one behind the other.
LEMMA ConcatFacts ==
  ASSUME NEW a, NEW b, IsSeq(a), IsSeq(b)
  PROVE  /\ IsSeq(a \o b) /\ Len(a) \in Nat /\ Len(b) \in Nat /\ Len(a \o b) = Len(a) + Len(b)
         /\ \A i \in 1 .. Len(a) : (a \o b)[i] = a[i]
         /\ \A i \in 1 .. Len(b) : (a \o b)[Len(a) + i] = b[i]
         /\ \A x : ListedAt(a \o b, x) <=> ListedAt(a, x) \/ ListedAt(b, x)
  <1>1. PICK S : a \in Seq(S)
    BY DEF IsSeq
  <1>2. PICK T : b \in Seq(T)
    BY DEF IsSeq
  <1>3. PICK U : U = S \union T
    OBVIOUS
  <1>4. a \in Seq(U) /\ b \in Seq(U)
    BY <1>1, <1>2, <1>3
  <1>5. PICK c : c = a \o b
    OBVIOUS
  <1>6. /\ c \in Seq(U) /\ Len(c) = Len(a) + Len(b) /\ Len(a) \in Nat /\ Len(b) \in Nat
        /\ \A i \in 1 .. Len(a) : c[i] = a[i]
        /\ \A i \in 1 .. Len(b) : c[Len(a) + i] = b[i]
    BY <1>4, <1>5
  <1>7. ASSUME NEW x, ListedAt(a, x) \/ ListedAt(b, x) PROVE ListedAt(c, x)
    <2>1. CASE ListedAt(a, x)
      <3>1. PICK i \in 1 .. Len(a) : a[i] = x
        BY <2>1 DEF ListedAt
      <3>2. i \in 1 .. Len(c) /\ c[i] = x
        BY <1>6, <3>1
      <3> QED  BY <3>2 DEF ListedAt
    <2>2. CASE ListedAt(b, x)
      <3>1. PICK i \in 1 .. Len(b) : b[i] = x
        BY <2>2 DEF ListedAt
      <3>2. Len(a) + i \in 1 .. Len(c) /\ c[Len(a) + i] = x
        BY <1>6, <3>1
      <3> QED  BY <3>2 DEF ListedAt
    <2> QED  BY <1>7, <2>1, <2>2
  <1>8. ASSUME NEW x, ListedAt(c, x) PROVE ListedAt(a, x) \/ ListedAt(b, x)
    <2>1. PICK i \in 1 .. Len(c) : c[i] = x
      BY <1>8 DEF ListedAt
    <2>2. CASE i <= Len(a)
      <3>1. i \in 1 .. Len(a) /\ a[i] = x
        BY <1>6, <2>1, <2>2
      <3> QED  BY <3>1 DEF ListedAt
    <2>3. CASE i > Len(a)
      <3>0. i \in Int /\ Len(a) \in Int
        BY <1>6, <2>1
      <3>1. PICK j \in Int : j = i - Len(a)
        BY <3>0
      <3>2. j \in 1 .. Len(b) /\ i = Len(a) + j
        BY <1>6, <2>1, <2>3, <3>1
      <3>3. b[j] = x
        BY <1>6, <2>1, <3>2
      <3> QED  BY <3>2, <3>3 DEF ListedAt
    <2> QED  BY <1>6, <2>1, <2>2, <2>3
  <1> QED  BY <1>5, <1>6, <1>7, <1>8 DEF IsSeq

\* Finitely many numbers can be put in order.
LEMMA AscendingExists ==
  ASSUME NEW n \in Nat, NEW S \in SUBSET (1 .. n)
  PROVE  \E s \in [1 .. Cardinality(S) -> S] :
           \A i, j \in 1 .. Cardinality(S) : i < j => s[i] < s[j]
  <1> DEFINE Ordered(R) == \E s \in [1 .. Cardinality(R) -> R] :
                             \A i, j \in 1 .. Cardinality(R) : i < j => s[i] < s[j]
             T == {k \in Nat : \A R \in SUBSET (1 .. k) : Ordered(R)}
  <1>1. 0 \in T
    <2> SUFFICES ASSUME NEW R \in SUBSET (1 .. 0) PROVE Ordered(R)
      OBVIOUS
    <2>1. R = {}
      OBVIOUS
    <2>2. Cardinality(R) = 0
      BY <2>1, FS_EmptySet
    <2>3. 1 .. Cardinality(R) = {}
      BY <2>2
    <2>4. PICK s : s = [i \in {} |-> i]
      OBVIOUS
    <2>5. s \in [1 .. Cardinality(R) -> R]
      BY <2>3, <2>4
    <2> QED  BY <2>3, <2>5
  <1>2. ASSUME NEW k \in T PROVE k + 1 \in T
    <2> SUFFICES ASSUME NEW R \in SUBSET (1 .. k + 1) PROVE Ordered(R)
      OBVIOUS
    <2>1. PICK Q : Q = R \ {k + 1}
      OBVIOUS
    <2>2. Q \in SUBSET (1 .. k)
      BY <2>1
    <2>3. Ordered(Q)
      BY <2>2
    <2>4. CASE k + 1 \notin R
      BY <2>1, <2>3, <2>4
    <2>5. CASE k + 1 \in R
      <3>1. IsFiniteSet(1 .. k)
        BY FS_Interval
      <3>2. IsFiniteSet(Q) /\ k + 1 \notin Q /\ R = Q \union {k + 1}
        BY <2>1, <2>2, <2>5, <3>1, FS_Subset
      <3>3. PICK c \in Nat : c = Cardinality(Q)
        BY <3>2, FS_CardinalityType
      <3>4. Cardinality(R) = c + 1
        BY <3>2, <3>3, FS_AddElement
      <3>5. PICK s \in [1 .. c -> Q] : \A i, j \in 1 .. c : i < j => s[i] < s[j]
        BY <2>3, <3>3
      <3>6. PICK r : r = [i \in 1 .. c + 1 |-> IF i = c + 1 THEN k + 1 ELSE s[i]]
        OBVIOUS
      <3>7. \A i \in 1 .. c + 1 : i # c + 1 => i \in 1 .. c
        BY <3>3
      <3>8. r \in [1 .. c + 1 -> R]
        BY <3>2, <3>5, <3>6, <3>7
      <3>9. ASSUME NEW i \in 1 .. c + 1, NEW j \in 1 .. c + 1, i < j PROVE r[i] < r[j]
        <4>0. i \in 1 .. c /\ i # c + 1
          BY <3>3, <3>7, <3>9
        <4>1. r[i] = s[i] /\ s[i] \in 1 .. k
          <5>1. r[i] = s[i]
            BY <3>6, <4>0
          <5>2. s[i] \in Q
            BY <3>5, <4>0
          <5> QED  BY <2>2, <5>1, <5>2
        <4>2. CASE j = c + 1
          BY <1>2, <3>6, <4>1, <4>2
        <4>3. CASE j # c + 1
          BY <3>5, <3>6, <3>7, <3>9, <4>0, <4>1, <4>3
        <4> QED  BY <4>2, <4>3
      <3> QED  BY <3>4, <3>8, <3>9
    <2> QED  BY <2>4, <2>5
  <1>3. T \subseteq Nat
    OBVIOUS
  <1> HIDE DEF T
  <1>4. n \in T
    BY <1>1, <1>2, <1>3, NatSetInduction
  <1> QED  BY <1>4 DEF T

\* Ascending lists every one of finitely many numbers, the smaller ones first.
LEMMA AscendingFacts ==
  ASSUME NEW n \in Nat, NEW S \in SUBSET (1 .. n)
  PROVE  /\ IsSeq(Ascending(S))
         /\ \A k \in 1 .. Len(Ascending(S)) : Ascending(S)[k] \in S
         /\ \A k, l \in 1 .. Len(Ascending(S)) : k < l => Ascending(S)[k] < Ascending(S)[l]
         /\ \A x \in S : ListedAt(Ascending(S), x)
  <1>1. IsFiniteSet(S)
    <2>1. IsFiniteSet(1 .. n)
      BY FS_Interval
    <2> QED  BY <2>1, FS_Subset
  <1>2. PICK c \in Nat : c = Cardinality(S)
    BY <1>1, FS_CardinalityType
  <1>3. PICK s : s = Ascending(S)
    OBVIOUS
  <1>4. s \in [1 .. c -> S] /\ \A i, j \in 1 .. c : i < j => s[i] < s[j]
    <2>1. \E r \in [1 .. Cardinality(S) -> S] : \A i, j \in DOMAIN r : i < j => r[i] < r[j]
      BY AscendingExists
    <2>2. /\ Ascending(S) \in [1 .. Cardinality(S) -> S]
          /\ \A i, j \in DOMAIN Ascending(S) : i < j => Ascending(S)[i] < Ascending(S)[j]
      BY <2>1 DEF Ascending
    <2> QED  BY <1>2, <1>3, <2>2
  <1>5. s \in Seq(S) /\ Len(s) = c
    BY <1>4, SeqDef
  <1>6. ASSUME NEW x \in S PROVE \E k \in 1 .. c : s[k] = x
    <2>1. \A i \in 1 .. c : s[i] \in Int
      <3>1. \A i \in 1 .. c : s[i] \in S
        BY <1>4
      <3>2. \A y \in S : y \in Int
        OBVIOUS
      <3> QED  BY <3>1, <3>2
    <2>2. ASSUME NEW i \in 1 .. c, NEW j \in 1 .. c, s[i] = s[j] PROVE i = j
      BY <1>4, <2>1, <2>2
    <2>3. s \in Injection(1 .. c, S)
      BY <1>4, <2>2 DEF Injection, IsInjective
    <2>4. Cardinality(1 .. c) = c
      BY <1>2, FS_Interval
    <2>5. s \in Surjection(1 .. c, S)
      BY <1>1, <1>2, <2>3, <2>4, FS_Injection
    <2> QED  BY <2>5 DEF Surjection
  <1> QED  BY <1>3, <1>4, <1>5, <1>6 DEF IsSeq, ListedAt

\* What a step that is not about messages leaves alone.
ListAside ==
  /\ UNCHANGED <<messages, trollboxMessages, historyDue, mixed, unheard, connected>>
  /\ ChatHistory' \union chatSaves' = ChatHistory \union chatSaves
  /\ Moved({"message", "chat_history"})
  /\ Boxed' => Boxed
  /\ \A i \in 2 .. Len(up') : up'[i].prefix # "trollbox"

\* Messages that are left alone are listed as before.
LEMMA ListStands ==
  ASSUME Carried, Carried', ListInv, ListAside, UNCHANGED previously_connected
  PROVE  ListInv'
  <1>1. PICK k \in {0, 1} :
          /\ \A i \in 1 .. Len(down') : down'[i].name \in {"message", "chat_history"} =>
               i + k \in Places /\ down'[i] = down[i + k]
          /\ \A i \in Places : down[i].name \in {"message", "chat_history"} =>
               i - k \in 1 .. Len(down') /\ down'[i - k] = down[i]
    BY DEF ListAside, Moved
  <1>2. /\ UNCHANGED <<messages, trollboxMessages, historyDue, mixed, unheard, connected,
                       previously_connected>>
        /\ Boxed' => Boxed
    BY DEF ListAside
  <1>3. Places = 1 .. Len(down) /\ Places' = 1 .. Len(down') /\ Len(down) \in Nat /\ Len(down') \in Nat
    BY DEF Carried, IsSeq, Places
  <1>4. ASSUME NEW i \in Places', IsMessage(i)' \/ IsHistory(i)'
        PROVE  /\ i + k \in Places /\ down'[i].says = down[i + k].says
               /\ IsMessage(i)' <=> IsMessage(i + k)
               /\ IsHistory(i)' <=> IsHistory(i + k)
    BY <1>1, <1>3, <1>4 DEF IsMessage, IsHistory
  <1>5. ASSUME NEW i \in Places, IsMessage(i) \/ IsHistory(i)
        PROVE  /\ i - k \in Places' /\ down'[i - k].says = down[i].says
               /\ IsMessage(i - k)' <=> IsMessage(i)
               /\ IsHistory(i - k)' <=> IsHistory(i)
    BY <1>1, <1>3, <1>5 DEF IsMessage, IsHistory
  <1>6. \A x : Plain(x)' <=> Plain(x)
    BY <1>2 DEF Plain
  <1>7. ListTypes'
    BY <1>2 DEF ListInv, ListTypes, ListAside
  <1>8. AskedOnce'
    BY <1>2 DEF ListInv, AskedOnce, ListAside
  <1>9. MessagesComing'
    <2>1. ASSUME NEW i \in Places', IsMessage(i)' PROVE down'[i].says \in 1 .. messages
      BY <1>4, <2>1 DEF ListInv, MessagesComing
    <2>2. ASSUME NEW i \in Places', NEW j \in Places', i < j, IsMessage(i)', IsMessage(j)'
          PROVE  down'[i].says < down'[j].says
      <3>1. i + k < j + k
        BY <1>3, <2>2
      <3> QED  BY <1>4, <2>2, <3>1 DEF ListInv, MessagesComing
    <2> QED  BY <1>2, <2>1, <2>2 DEF MessagesComing
  <1>10. HistoryComing'
    <2> SUFFICES ASSUME NEW i \in Places', IsHistory(i)'
                 PROVE  /\ historyDue' /\ ~Boxed' /\ Rising(down[i].says)'
                        /\ \A j \in Places' : IsHistory(j)' => j = i
                        /\ \A l \in 1 .. Len(trollboxMessages') : trollboxMessages'[l] \in mixed'
                        /\ \A j \in Places' : IsMessage(j)' /\ j < i => down'[j].says \in mixed'
                        /\ \A j \in Places', l \in 1 .. Len(down'[i].says) :
                             IsMessage(j)' /\ j > i => down'[i].says[l] < down'[j].says
                        /\ \A x \in 1 .. messages' : Plain(x)' =>
                             \/ ListedAt(down'[i].says, x)
                             \/ \E j \in Places' : IsMessage(j)' /\ j > i /\ down'[j].says = x
      BY DEF HistoryComing, ListedAt
    <2>1. PICK p \in Places : p = i + k
      BY <1>4
    <2>2. IsHistory(p) /\ down[p].says = down'[i].says
      BY <1>4, <2>1
    <2>3. /\ historyDue /\ ~Boxed /\ Rising(down[p].says)
          /\ \A j \in Places : IsHistory(j) => j = p
          /\ \A l \in 1 .. Len(trollboxMessages) : trollboxMessages[l] \in mixed
          /\ \A j \in Places : IsMessage(j) /\ j < p => down[j].says \in mixed
          /\ \A j \in Places, l \in 1 .. Len(down[p].says) :
               IsMessage(j) /\ j > p => down[p].says[l] < down[j].says
          /\ \A x \in 1 .. messages : Plain(x) =>
               \/ ListedAt(down[p].says, x)
               \/ \E j \in Places : IsMessage(j) /\ j > p /\ down[j].says = x
      BY <2>2 DEF ListInv, HistoryComing
    <2>4. historyDue' /\ ~Boxed' /\ Rising(down[i].says)'
      BY <1>2, <2>2, <2>3 DEF Rising
    <2>5. ASSUME NEW j \in Places', IsHistory(j)' PROVE j = i
      <3>1. j + k = p
        BY <1>4, <2>3, <2>5
      <3> QED  BY <1>3, <2>1, <3>1
    <2>6. ASSUME NEW j \in Places', IsMessage(j)', j < i PROVE down'[j].says \in mixed'
      <3>1. j + k < p
        BY <1>3, <2>1, <2>6
      <3> QED  BY <1>2, <1>4, <2>3, <2>6, <3>1
    <2>7. ASSUME NEW j \in Places', NEW l \in 1 .. Len(down'[i].says), IsMessage(j)', j > i
          PROVE  down'[i].says[l] < down'[j].says
      <3>1. j + k > p
        BY <1>3, <2>1, <2>7
      <3> QED  BY <1>4, <2>2, <2>3, <2>7, <3>1
    <2>8. ASSUME NEW x \in 1 .. messages', Plain(x)', ~ListedAt(down'[i].says, x)
          PROVE  \E j \in Places' : IsMessage(j)' /\ j > i /\ down'[j].says = x
      <3>1. PICK j \in Places : IsMessage(j) /\ j > p /\ down[j].says = x
        BY <1>2, <1>6, <2>2, <2>3, <2>8
      <3>2. j - k > i
        BY <1>3, <2>1, <3>1
      <3> QED  BY <1>5, <3>1, <3>2
    <2> QED  BY <1>2, <2>3, <2>4, <2>5, <2>6, <2>7, <2>8
  <1>11. HistoryThere'
    <2> SUFFICES ASSUME ~historyDue
                 PROVE  /\ \A j \in Places', l \in 1 .. Len(trollboxMessages) :
                             IsMessage(j)' /\ Plain(trollboxMessages[l]) =>
                               trollboxMessages[l] < down'[j].says
                        /\ \A x \in 1 .. messages : Plain(x) =>
                             \/ ListedAt(trollboxMessages, x)
                             \/ \E j \in Places' : IsMessage(j)' /\ down'[j].says = x
      BY <1>2, <1>6 DEF ListInv, HistoryThere, ListedAt
    <2>1. ASSUME NEW j \in Places', NEW l \in 1 .. Len(trollboxMessages),
                 IsMessage(j)', Plain(trollboxMessages[l])
          PROVE  trollboxMessages[l] < down'[j].says
      BY <1>4, <2>1 DEF ListInv, HistoryThere
    <2>2. ASSUME NEW x \in 1 .. messages, Plain(x), ~ListedAt(trollboxMessages, x)
          PROVE  \E j \in Places' : IsMessage(j)' /\ down'[j].says = x
      <3>1. PICK j \in Places : IsMessage(j) /\ down[j].says = x
        BY <2>2 DEF ListInv, HistoryThere
      <3> QED  BY <1>5, <3>1
    <2> QED  BY <2>1, <2>2
  <1> QED  BY <1>7, <1>8, <1>9, <1>10, <1>11 DEF ListInv

\* The requests stay as they are.
LEMMA BoxStands ==
  ASSUME Carried, ListInv, UNCHANGED up
  PROVE  (Boxed' => Boxed) /\ \A i \in 2 .. Len(up') : up'[i].prefix # "trollbox"
  BY DEF Boxed, ListInv, AskedOnce

\* A request is taken up; what is left is for other rooms.
LEMMA BoxTaken ==
  ASSUME Carried, ListInv, up # <<>>, up' = Tail(up)
  PROVE  ~Boxed' /\ \A i \in 2 .. Len(up') : up'[i].prefix # "trollbox"
  <1>1. IsSeq(up)
    BY DEF Carried, IsSeq
  <1>2. /\ Len(up) \in Nat \ {0} /\ Len(up') = Len(up) - 1 /\ IsSeq(up')
        /\ \A i \in 1 .. Len(up) - 1 : up'[i] = up[i + 1]
    BY <1>1, TailFacts
  <1>3. ASSUME NEW i \in 1 .. Len(up') PROVE up'[i].prefix # "trollbox"
    <2>1. i + 1 \in 2 .. Len(up) /\ up'[i] = up[i + 1]
      BY <1>2
    <2> QED  BY <2>1 DEF ListInv, AskedOnce
  <1>4. up' # <<>> => 1 \in 1 .. Len(up')
    <2>1. PICK S : up' \in Seq(S)
      BY <1>2 DEF IsSeq
    <2> QED  BY <2>1
  <1> QED  BY <1>2, <1>3, <1>4 DEF Boxed

\* Another room is asked for.
LEMMA BoxAdded ==
  ASSUME Carried, ListInv, NEW r, r.prefix # "trollbox", up' = Append(up, r)
  PROVE  (Boxed' => Boxed) /\ \A i \in 2 .. Len(up') : up'[i].prefix # "trollbox"
  <1>1. IsSeq(up)
    BY DEF Carried, IsSeq
  <1>2. /\ Len(up) \in Nat /\ Len(up') = Len(up) + 1
        /\ \A i \in 1 .. Len(up) : up'[i] = up[i]
        /\ up'[Len(up) + 1] = r
    BY <1>1, AppendFacts
  <1>3. ASSUME NEW i \in 2 .. Len(up') PROVE up'[i].prefix # "trollbox"
    <2>1. CASE i = Len(up) + 1
      BY <1>2, <2>1
    <2>2. CASE i # Len(up) + 1
      <3>1. i \in 2 .. Len(up) /\ i \in 1 .. Len(up)
        BY <1>2, <2>2
      <3> QED  BY <1>2, <3>1 DEF ListInv, AskedOnce
    <2> QED  BY <2>1, <2>2
  <1>4. ASSUME Boxed' PROVE Boxed
    <2>1. CASE Len(up) = 0
      BY <1>2, <1>4, <2>1 DEF Boxed
    <2>2. CASE Len(up) # 0
      <3>1. 1 \in 1 .. Len(up) /\ up # <<>>
        BY <1>2, <2>2
      <3> QED  BY <1>2, <1>4, <3>1 DEF Boxed
    <2> QED  BY <2>1, <2>2
  <1> QED  BY <1>3, <1>4

\* The feeds leave the messages alone.
LEMMA FeedsKeepLists ==
  ASSUME Carried, Carried', ListInv, RowTypes, UNCHANGED <<chatVars, previously_connected>>,
         RowsApi \/ TradesApi \/ RowsUser \/ TradesUser \/ FeedsStep
  PROVE  ListInv'
  <1> DEFINE M == {"message", "chat_history"}
             BoxAside == (Boxed' => Boxed) /\ \A i \in 2 .. Len(up') : up'[i].prefix # "trollbox"
  <1>1. UNCHANGED <<messages, trollboxMessages, historyDue, mixed, unheard, ChatHistory, chatSaves>>
    BY DEF chatVars, listVars
  <1>2. Rows = Tokens \union {Tau, Staking}
    BY DEF Rows
  <1>3. CASE UNCHANGED socketVars
    <2>1. UNCHANGED <<up, connected, down>>
      BY <1>3 DEF socketVars
    <2>2. BoxAside /\ Moved(M)
      BY <2>1, BoxStands, Stood
    <2> QED  BY <1>1, <2>1, <2>2, ListStands DEF ListAside
  <1>4. ASSUME NEW e, e.name \notin M, down' = Emitted(e), UNCHANGED <<connected, socket_id, up>>
        PROVE  ListInv'
    <2>1. Moved(M)
      BY <1>4, Emission
    <2>2. BoxAside
      BY <1>4, BoxStands
    <2> QED  BY <1>1, <1>4, <2>1, <2>2, ListStands DEF ListAside
  <1>5. ASSUME NEW r, r.prefix # "trollbox", up' = Append(up, r), UNCHANGED <<connected, down>>
        PROVE  ListInv'
    <2>1. BoxAside /\ Moved(M)
      BY <1>5, BoxAdded, Stood
    <2> QED  BY <1>1, <1>5, <2>1, ListStands DEF ListAside
  <1>6. ASSUME NEW prefix, Joins(prefix), up' = Tail(up), UNCHANGED connected, Moved(M)
        PROVE  ListInv'
    <2>1. BoxAside
      BY <1>6, BoxTaken DEF Joins
    <2> QED  BY <1>1, <1>6, <2>1, ListStands DEF ListAside
  <1>7. ASSUME NEW name, name \notin M, Arrives(name), down' = Tail(down),
               UNCHANGED <<connected, socket_id, up>>
        PROVE  ListInv'
    <2>1. Moved(M)
      BY <1>7, Arrival
    <2>2. BoxAside
      BY <1>7, BoxStands
    <2> QED  BY <1>1, <1>7, <2>1, <2>2, ListStands DEF ListAside
  <1>8. CASE RowsApi
    BY <1>3, <1>8 DEF RowsApi, saveUSDPrice, updateStakingContractMeta
  <1>9. ASSUME NEW t \in Tokens, updateTradeFeed(t) PROVE ListInv'
    <2>1. PICK e : e = Event("trade", t, <<t, trades'>>)
      OBVIOUS
    <2>2. down' = Emitted(e) /\ e.name = "trade" /\ UNCHANGED <<connected, socket_id, up>>
      BY <1>9, <2>1 DEF updateTradeFeed, Event
    <2> QED  BY <1>4, <2>2
  <1>10. ASSUME NEW f \in Rows, f \notin joinedFeeds, up' = up \o <<Room("row", f)>>,
                UNCHANGED <<connected, down>>
         PROVE  ListInv'
    <2>1. PICK r \in Rooms : r = Room("row", f) /\ r.prefix = "row"
      BY RoomFacts
    <2>2. up \in Seq(Rooms) /\ up' = up \o <<r>>
      BY <1>10, <2>1 DEF Carried
    <2>3. up' = Append(up, r)
      BY <2>2
    <2> QED  BY <1>5, <1>10, <2>1, <2>3
  <1>11. CASE RowsUser
    <2>1. ASSUME NEW t \in Tokens, joinTokenMetricsFeed(t) PROVE ListInv'
      <3>1. t \in Rows /\ t \notin joinedFeeds /\ up' = up \o <<Room("row", t)>>
        BY <1>2, <2>1 DEF joinTokenMetricsFeed, Joined
      <3> QED  BY <1>10, <2>1, <3>1 DEF joinTokenMetricsFeed
    <2>2. CASE joinStakingPanel
      <3>1. PICK r : r = Room("row", Staking)
        OBVIOUS
      <3>2. up' = Append(up, r) /\ r.prefix = "row"
        BY <2>2, <3>1, RoomFacts DEF joinStakingPanel, JoinRoom
      <3> QED  BY <1>5, <2>2, <3>2 DEF joinStakingPanel
    <2>3. CASE leaveStakingPanel
      BY <1>3, <2>3 DEF leaveStakingPanel
    <2> QED  BY <1>11, <2>1, <2>2, <2>3 DEF RowsUser
  <1>12. CASE TradesUser
    BY <1>3, <1>12 DEF TradesUser, leaveTradeFeed, selectToken
  <1>13. CASE handleJoinRow
    <2>1. PICK f : f = Head(up).subject
      OBVIOUS
    <2>2. PICK e : e = Event("update", f, row[f])
      OBVIOUS
    <2>3. /\ Joins("row") /\ up' = Tail(up) /\ UNCHANGED connected
          /\ down' = down \/ down' = Append(down, e)
      BY <1>13, <2>1, <2>2 DEF handleJoinRow
    <2>4. e.name \notin M
      BY <2>2 DEF Event
    <2>5. Moved(M)
      BY <2>3, <2>4, Stood, Sent
    <2> QED  BY <1>6, <2>3, <2>5
  <1>14. CASE handleRow
    BY <1>7, <1>14 DEF handleRow
  <1>15. CASE handleJoinTradeFeed
    <2>1. PICK t : t = Head(up).subject
      OBVIOUS
    <2>2. PICK e : e = Event("history", t, LatestTrades(t))
      OBVIOUS
    <2>3. Joins("trade_feed") /\ up' = Tail(up) /\ UNCHANGED connected /\ down' = Append(down, e)
      BY <1>15, <2>1, <2>2 DEF handleJoinTradeFeed
    <2>4. e.name \notin M
      BY <2>2 DEF Event
    <2>5. Moved(M)
      BY <2>3, <2>4, Sent
    <2> QED  BY <1>6, <2>3, <2>5
  <1>16. CASE handleTradeUpdate
    BY <1>7, <1>16 DEF handleTradeUpdate
  <1>17. ASSUME NEW f \in Rows, metrics_update(f) PROVE ListInv'
    <2>1. PICK e : e = Event("update", f, row[f])
      OBVIOUS
    <2>2. down' = Emitted(e) /\ e.name = "update" /\ UNCHANGED <<connected, socket_id, up>>
      BY <1>17, <2>1 DEF metrics_update, handleClientUpdate, Event
    <2> QED  BY <1>4, <2>2
  <1>18. ASSUME NEW t \in Tokens, saveReserves(t) PROVE ListInv'
    BY <1>3, <1>18 DEF saveReserves
  <1>19. ASSUME NEW t \in Tokens, joinTradeFeed(t) PROVE ListInv'
    <2>1. CASE current_trade_feed = t
      BY <1>3, <1>19, <2>1 DEF joinTradeFeed, socketVars
    <2>2. CASE current_trade_feed # t
      <3>1. PICK r : r = Room("trade_feed", t)
        OBVIOUS
      <3>2. up' = Append(up, r) /\ r.prefix = "trade_feed" /\ UNCHANGED <<connected, down>>
        BY <1>19, <2>2, <3>1, RoomFacts DEF joinTradeFeed, JoinRoom
      <3> QED  BY <1>5, <3>2
    <2> QED  BY <2>1, <2>2
  <1>20. ASSUME NEW trade \in tradeSaves, saveTradeUpdate(trade) PROVE ListInv'
    BY <1>3, <1>20 DEF saveTradeUpdate
  <1>21. CASE TradesApi
    BY <1>9, <1>21 DEF TradesApi
  <1>22. CASE FeedsStep
    BY <1>13, <1>14, <1>15, <1>16, <1>17, <1>18, <1>19, <1>20, <1>22 DEF FeedsStep
  <1> QED  BY <1>8, <1>11, <1>12, <1>21, <1>22

\* Signing on leaves the messages alone, and so do the days and the insert of a message.
LEMMA SignOnsKeepLists ==
  ASSUME Carried, Carried', ListInv, UNCHANGED previously_connected,
         \/ handleLogin /\ UNCHANGED <<socketVars, listVars>>
         \/ success \/ error \/ authenticate \/ handleAuthResponse \/ handleTrollboxAuthCode
         \/ Tomorrow \/ \E token \in tokens : refresh(token)
         \/ \E m \in chatSaves : saveTrollChat(m)
  PROVE  ListInv'
  <1> DEFINE M == {"message", "chat_history"}
  <1>1. ASSUME UNCHANGED <<messages, trollboxMessages, historyDue, mixed, unheard, connected, up>>,
               ChatHistory' \union chatSaves' = ChatHistory \union chatSaves, Moved(M)
        PROVE  ListInv'
    <2>1. (Boxed' => Boxed) /\ \A i \in 2 .. Len(up') : up'[i].prefix # "trollbox"
      BY <1>1, BoxStands
    <2> QED  BY <1>1, <2>1, ListStands DEF ListAside
  <1>2. CASE UNCHANGED <<socketVars, listVars>>
    BY <1>1, <1>2, Stood DEF socketVars, listVars
  <1>3. ASSUME NEW name, name \notin M, Arrives(name), down' = Tail(down),
               UNCHANGED <<connected, socket_id, up, listVars>>
        PROVE  ListInv'
    <2>1. Moved(M)
      BY <1>3, Arrival
    <2> QED  BY <1>1, <1>3, <2>1 DEF listVars
  <1>4. CASE success \/ error \/ Tomorrow \/ \E token \in tokens : refresh(token)
    BY <1>2, <1>4 DEF success, error, Tomorrow, refresh
  <1>5. CASE handleAuthResponse \/ handleTrollboxAuthCode
    BY <1>3, <1>5 DEF handleAuthResponse, handleTrollboxAuthCode
  <1>6. CASE authenticate
    <2>1. PICK e : e = Event("auth_response", None, generateAccessToken)
      OBVIOUS
    <2>2. /\ down' = Append(down, e) \/ down' = down
          /\ UNCHANGED <<connected, up, listVars>>
      BY <1>6, <2>1 DEF authenticate
    <2>3. e.name \notin M
      BY <2>1 DEF Event
    <2>4. Moved(M)
      BY <2>2, <2>3, Stood, Sent
    <2> QED  BY <1>1, <2>2, <2>4 DEF listVars
  <1>7. ASSUME NEW m \in chatSaves, saveTrollChat(m) PROVE ListInv'
    <2>1. UNCHANGED <<connected, up, down, messages, trollboxMessages, historyDue, mixed, unheard>>
          /\ ChatHistory' \union chatSaves' = ChatHistory \union chatSaves
      BY <1>7 DEF saveTrollChat, socketVars
    <2> QED  BY <1>1, <2>1, Stood
  <1> QED  BY <1>2, <1>4, <1>5, <1>6, <1>7

\* A message is told: it is newer than all others, and comes behind them.  A page
\* that is not connected does not hear it.
LEMMA TellingKeepsLists ==
  ASSUME Carried, ListInv, send_message, UNCHANGED previously_connected
  PROVE  ListInv'
  <1>1. PICK n : n = messages + 1
    OBVIOUS
  <1>2. PICK e : e = Event("message", None, n)
    OBVIOUS
  <1>3. /\ messages' = n /\ down' = Emitted(e) /\ chatSaves' = chatSaves \union {n}
        /\ unheard' = (IF connected \/ historyDue THEN unheard ELSE unheard \union {n})
        /\ UNCHANGED <<connected, socket_id, up, ChatHistory, trollboxMessages, historyDue, mixed,
                       previously_connected>>
    BY <1>1, <1>2 DEF send_message
  <1>4. e.name = "message" /\ e.says = n
    BY <1>2 DEF Event
  <1>5. messages \in Nat /\ n \in Nat /\ n = messages + 1
    BY <1>1 DEF ListInv, ListTypes
  <1>6. ListTypes'
    <2>1. ChatHistory' \union chatSaves' = 1 .. n
      BY <1>3, <1>5 DEF ListInv, ListTypes
    <2> QED  BY <1>3, <1>5, <2>1 DEF ListInv, ListTypes
  <1>7. AskedOnce' /\ (Boxed' <=> Boxed)
    BY <1>3 DEF ListInv, AskedOnce, Boxed
  <1>8. CASE ~connected
    <2>1. down' = down /\ down = <<>>
      BY <1>3, <1>8 DEF Emitted, Carried
    <2>2. Places = {} /\ Places' = {}
      BY <2>1 DEF Places
    <2>3. MessagesComing' /\ HistoryComing'
      BY <2>2 DEF MessagesComing, HistoryComing
    <2>4. HistoryThere'
      <3> SUFFICES ASSUME ~historyDue PROVE HistoryThere'
        BY <1>3 DEF HistoryThere
      <3>1. \A x : Plain(x)' <=> Plain(x) /\ x # n
        BY <1>3, <1>8 DEF Plain
      <3> QED  BY <1>3, <1>5, <2>2, <3>1 DEF ListInv, HistoryThere, ListedAt
    <2> QED  BY <1>6, <1>7, <2>3, <2>4 DEF ListInv
  <1>9. CASE connected
    <2>1. down' = Append(down, e)
      BY <1>3, <1>9 DEF Emitted
    <2>2. /\ IsSeq(down') /\ Len(down) \in Nat /\ Len(down') = Len(down) + 1
          /\ \A i \in 1 .. Len(down) : down'[i] = down[i]
          /\ down'[Len(down) + 1] = e
      BY <2>1, AppendFacts DEF Carried
    <2>3. PICK p \in Nat : p = Len(down) + 1
      BY <2>2
    <2>4. /\ Places = 1 .. Len(down) /\ Places' = Places \union {p} /\ \A i \in Places : i < p
          /\ \A i \in Places : down'[i] = down[i]
          /\ down'[p] = e
      BY <2>2, <2>3 DEF Places
    <2>5. /\ \A i \in Places : (IsMessage(i)' <=> IsMessage(i)) /\ (IsHistory(i)' <=> IsHistory(i))
          /\ IsMessage(p)' /\ ~IsHistory(p)'
      BY <1>4, <2>4 DEF IsMessage, IsHistory
    <2>6. \A x : Plain(x)' <=> Plain(x)
      BY <1>3, <1>9 DEF Plain
    <2>7. MessagesComing'
      <3>1. \A i \in Places : IsMessage(i) => down[i].says \in 1 .. messages
        BY DEF ListInv, MessagesComing
      <3>2. \A i \in Places' : IsMessage(i)' => down'[i].says \in 1 .. n
        BY <1>4, <1>5, <2>4, <2>5, <3>1
      <3>3. ASSUME NEW i \in Places', NEW j \in Places', i < j, IsMessage(i)', IsMessage(j)'
            PROVE  down'[i].says < down'[j].says
        <4>1. i \in Places
          BY <2>2, <2>3, <2>4, <3>3
        <4>2. CASE j = p
          BY <1>4, <1>5, <2>4, <2>5, <3>1, <3>3, <4>1, <4>2
        <4>3. CASE j \in Places
          BY <2>4, <2>5, <3>3, <4>1, <4>3 DEF ListInv, MessagesComing
        <4> QED  BY <2>4, <4>2, <4>3
      <3> QED  BY <1>3, <3>2, <3>3 DEF MessagesComing
    <2>8. HistoryComing'
      <3> SUFFICES ASSUME NEW i \in Places', IsHistory(i)'
                   PROVE  /\ historyDue' /\ ~Boxed' /\ Rising(down[i].says)'
                          /\ \A j \in Places' : IsHistory(j)' => j = i
                          /\ \A l \in 1 .. Len(trollboxMessages') : trollboxMessages'[l] \in mixed'
                          /\ \A j \in Places' : IsMessage(j)' /\ j < i => down'[j].says \in mixed'
                          /\ \A j \in Places', l \in 1 .. Len(down'[i].says) :
                               IsMessage(j)' /\ j > i => down'[i].says[l] < down'[j].says
                          /\ \A x \in 1 .. messages' : Plain(x)' =>
                               \/ ListedAt(down'[i].says, x)
                               \/ \E j \in Places' : IsMessage(j)' /\ j > i /\ down'[j].says = x
        BY DEF HistoryComing, ListedAt
      <3>1. i \in Places /\ IsHistory(i) /\ down'[i] = down[i]
        BY <2>4, <2>5
      <3>2. /\ historyDue /\ ~Boxed /\ Rising(down[i].says)
            /\ \A j \in Places : IsHistory(j) => j = i
            /\ \A l \in 1 .. Len(trollboxMessages) : trollboxMessages[l] \in mixed
            /\ \A j \in Places : IsMessage(j) /\ j < i => down[j].says \in mixed
            /\ \A j \in Places, l \in 1 .. Len(down[i].says) :
                 IsMessage(j) /\ j > i => down[i].says[l] < down[j].says
            /\ \A x \in 1 .. messages : Plain(x) =>
                 \/ ListedAt(down[i].says, x)
                 \/ \E j \in Places : IsMessage(j) /\ j > i /\ down[j].says = x
        BY <3>1 DEF ListInv, HistoryComing
      <3>3. Rising(down[i].says)'
        BY <1>3, <1>5, <3>1, <3>2 DEF Rising
      <3>4. ASSUME NEW j \in Places', NEW l \in 1 .. Len(down'[i].says), IsMessage(j)', j > i
            PROVE  down'[i].says[l] < down'[j].says
        <4>1. CASE j = p
          BY <1>4, <1>5, <2>4, <3>1, <3>2, <3>4, <4>1 DEF Rising
        <4>2. CASE j \in Places
          BY <2>4, <2>5, <3>1, <3>2, <3>4, <4>2
        <4> QED  BY <2>4, <4>1, <4>2
      <3>5. ASSUME NEW x \in 1 .. messages', Plain(x)', ~ListedAt(down'[i].says, x)
            PROVE  \E j \in Places' : IsMessage(j)' /\ j > i /\ down'[j].says = x
        <4>1. CASE x = n
          BY <1>4, <2>4, <2>5, <3>1, <4>1
        <4>2. CASE x # n
          <5>1. PICK j \in Places : IsMessage(j) /\ j > i /\ down[j].says = x
            BY <1>3, <1>5, <2>6, <3>1, <3>2, <3>5, <4>2
          <5> QED  BY <2>4, <2>5, <5>1
        <4> QED  BY <4>1, <4>2
      <3>6. \A j \in Places' : IsHistory(j)' => j = i
        BY <2>4, <2>5, <3>2
      <3>7. \A j \in Places' : IsMessage(j)' /\ j < i => down'[j].says \in mixed'
        BY <1>3, <2>2, <2>3, <2>4, <2>5, <3>1, <3>2
      <3> QED  BY <1>3, <1>7, <3>2, <3>3, <3>4, <3>5, <3>6, <3>7
    <2>9. HistoryThere'
      <3> SUFFICES ASSUME ~historyDue
                   PROVE  /\ \A j \in Places', l \in 1 .. Len(trollboxMessages) :
                               IsMessage(j)' /\ Plain(trollboxMessages[l]) =>
                                 trollboxMessages[l] < down'[j].says
                          /\ \A x \in 1 .. n : Plain(x) =>
                               \/ ListedAt(trollboxMessages, x)
                               \/ \E j \in Places' : IsMessage(j)' /\ down'[j].says = x
        BY <1>3, <2>6 DEF ListInv, HistoryThere, ListedAt
      <3>1. ASSUME NEW j \in Places', NEW l \in 1 .. Len(trollboxMessages),
                   IsMessage(j)', Plain(trollboxMessages[l])
            PROVE  trollboxMessages[l] < down'[j].says
        <4>1. CASE j = p
          BY <1>4, <1>5, <2>4, <4>1 DEF ListInv, ListTypes
        <4>2. CASE j \in Places
          BY <2>4, <2>5, <3>1, <4>2 DEF ListInv, HistoryThere
        <4> QED  BY <2>4, <4>1, <4>2
      <3>2. ASSUME NEW x \in 1 .. n, Plain(x), ~ListedAt(trollboxMessages, x)
            PROVE  \E j \in Places' : IsMessage(j)' /\ down'[j].says = x
        <4>1. CASE x = n
          BY <1>4, <2>4, <2>5, <4>1
        <4>2. CASE x # n
          <5>1. x \in 1 .. messages
            BY <1>5, <4>2
          <5>2. PICK j \in Places : IsMessage(j) /\ down[j].says = x
            BY <3>2, <5>1 DEF ListInv, HistoryThere
          <5> QED  BY <2>4, <2>5, <5>2
        <4> QED  BY <4>1, <4>2
      <3> QED  BY <3>1, <3>2
    <2> QED  BY <1>6, <1>7, <2>7, <2>8, <2>9 DEF ListInv
  <1> QED  BY <1>8, <1>9

\* The chat is joined: what the page was told and what is not inserted yet is
\* around the reading of the history, which has all the rest but the older ones.
LEMMA JoiningKeepsLists ==
  ASSUME Carried, ListInv, handleJoinTrollBox, UNCHANGED previously_connected
  PROVE  ListInv'
  <1>1. PICK h : h = Ascending(LatestMessages)
    OBVIOUS
  <1>2. PICK a : a = Event("authcode", None, socket_id)
    OBVIOUS
  <1>3. PICK b : b = Event("chat_history", None, h)
    OBVIOUS
  <1>4. a.name = "authcode" /\ b.name = "chat_history" /\ b.says = h
    BY <1>2, <1>3 DEF Event
  <1>5. /\ Joins("trollbox") /\ down' = down \o <<a, b>> /\ up' = Tail(up)
        /\ mixed' = Heard \union chatSaves \union (ChatHistory \ LatestMessages)
        /\ UNCHANGED <<connected, socket_id, ChatHistory, chatSaves, messages, trollboxMessages,
                       historyDue, unheard, previously_connected>>
    BY <1>1, <1>2, <1>3 DEF handleJoinTrollBox
  <1>6. Boxed /\ up # <<>>
    <2>1. IsSeq(up) /\ up # <<>> /\ Head(up).prefix = "trollbox"
      BY <1>5 DEF Joins, Carried, IsSeq
    <2>2. Head(up) = up[1]
      BY <2>1, TailFacts
    <2> QED  BY <2>1, <2>2 DEF Boxed
  <1>7. historyDue /\ \A i \in Places : ~IsHistory(i)
    BY <1>6 DEF ListInv, AskedOnce, HistoryComing
  <1>8. /\ Len(down) \in Nat /\ Len(down') = Len(down) + 2
        /\ \A i \in 1 .. Len(down) : down'[i] = down[i]
        /\ down'[Len(down) + 1] = a /\ down'[Len(down) + 2] = b
    <2>1. a.name \notin {} /\ b.name \notin {}
      OBVIOUS
    <2> QED  BY <1>5, <2>1, SentTwo
  <1>9. PICK p \in Nat : p = Len(down) + 2
    BY <1>8
  <1>10. /\ Places = 1 .. Len(down) /\ Places' = Places \union {p - 1, p}
         /\ \A i \in Places : i < p /\ down'[i] = down[i]
         /\ down'[p - 1] = a /\ down'[p] = b
    BY <1>8, <1>9 DEF Places
  <1>11. /\ \A i \in Places : (IsMessage(i)' <=> IsMessage(i)) /\ ~IsHistory(i)'
         /\ ~IsMessage(p - 1)' /\ ~IsHistory(p - 1)' /\ ~IsMessage(p)' /\ IsHistory(p)'
    BY <1>4, <1>7, <1>10 DEF IsMessage, IsHistory
  <1>12. ~Boxed' /\ AskedOnce'
    <2>1. ~Boxed' /\ \A i \in 2 .. Len(up') : up'[i].prefix # "trollbox"
      BY <1>5, <1>6, BoxTaken
    <2> QED  BY <1>5, <2>1 DEF ListInv, AskedOnce
  <1>13. ListTypes'
    BY <1>5 DEF ListInv, ListTypes
  <1>14. MessagesComing'
    <2>1. \A i \in Places' : IsMessage(i)' => i \in Places /\ IsMessage(i) /\ down'[i] = down[i]
      BY <1>10, <1>11
    <2> QED  BY <1>5, <2>1 DEF ListInv, MessagesComing
  <1>15. /\ messages \in Nat /\ LatestMessages \in SUBSET (1 .. messages)
         /\ ChatHistory \union chatSaves = 1 .. messages
    BY DEF ListInv, ListTypes, LatestMessages
  <1>16. /\ IsSeq(h) /\ \A k \in 1 .. Len(h) : h[k] \in LatestMessages
         /\ \A k, l \in 1 .. Len(h) : k < l => h[k] < h[l]
         /\ \A x \in LatestMessages : ListedAt(h, x)
    BY <1>1, <1>15, AscendingFacts
  <1>17. Rising(down[p].says)'
    BY <1>4, <1>5, <1>10, <1>15, <1>16 DEF Rising
  <1>18. ASSUME NEW k \in 1 .. Len(trollboxMessages) PROVE trollboxMessages[k] \in mixed'
    <2>1. DOMAIN trollboxMessages = 1 .. Len(trollboxMessages)
      <3>1. PICK S : trollboxMessages \in Seq(S)
        BY DEF ListInv, ListTypes, IsSeq
      <3> QED  BY <3>1
    <2>2. trollboxMessages[k] \in Heard
      BY <2>1 DEF Heard, ToSet
    <2> QED  BY <1>5, <2>2
  <1>19. ASSUME NEW j \in Places, IsMessage(j) PROVE down[j].says \in mixed'
    <2>1. DOMAIN down = Places
      <3>1. PICK S : down \in Seq(S)
        BY DEF Carried, IsSeq
      <3> QED  BY <3>1 DEF Places
    <2>2. down[j] \in Coming("message")
      BY <1>19, <2>1 DEF Coming, IsMessage
    <2>3. down[j].says \in Heard
      BY <2>2 DEF Heard
    <2> QED  BY <1>5, <2>3
  <1>20. HistoryComing'
    <2> SUFFICES ASSUME NEW i \in Places', IsHistory(i)'
                 PROVE  /\ historyDue' /\ ~Boxed' /\ Rising(down[i].says)'
                        /\ \A j \in Places' : IsHistory(j)' => j = i
                        /\ \A l \in 1 .. Len(trollboxMessages') : trollboxMessages'[l] \in mixed'
                        /\ \A j \in Places' : IsMessage(j)' /\ j < i => down'[j].says \in mixed'
                        /\ \A j \in Places', l \in 1 .. Len(down'[i].says) :
                             IsMessage(j)' /\ j > i => down'[i].says[l] < down'[j].says
                        /\ \A x \in 1 .. messages' : Plain(x)' => ListedAt(down'[i].says, x)
      BY DEF HistoryComing, ListedAt
    <2>1. i = p /\ down'[i].says = h
      BY <1>4, <1>10, <1>11
    <2>2. \A j \in Places' : IsMessage(j)' =>
             j \in Places /\ IsMessage(j) /\ down'[j] = down[j] /\ j < p
      BY <1>10, <1>11
    <2>3. \A j \in Places' : IsHistory(j)' => j = i
      BY <1>10, <1>11, <2>1
    <2>4. \A j \in Places' : IsMessage(j)' => down'[j].says \in mixed' /\ ~(j > i)
      BY <1>19, <2>1, <2>2, <1>10, <1>8
    <2>5. ASSUME NEW x \in 1 .. messages', Plain(x)' PROVE ListedAt(h, x)
      <3>1. x \in LatestMessages
        BY <1>5, <1>15, <2>5 DEF Plain
      <3> QED  BY <1>16, <3>1
    <2> QED  BY <1>5, <1>7, <1>12, <1>17, <1>18, <2>1, <2>3, <2>4, <2>5
  <1>21. HistoryThere'
    BY <1>5, <1>7 DEF HistoryThere
  <1> QED  BY <1>12, <1>13, <1>14, <1>20, <1>21 DEF ListInv

\* An event of the list arrives: all others are a place nearer.
LEMMA OneNearer ==
  ASSUME Carried, NEW name, Arrives(name), down' = Tail(down), UNCHANGED <<connected, socket_id, up>>
  PROVE  /\ 1 \in Places /\ Head(down) = down[1] /\ down[1].name = name
         /\ \A i \in Places' : i \in Nat /\ i > 0 /\ i + 1 \in Places /\ down'[i] = down[i + 1]
         /\ \A i \in Places : i \in Nat /\ (i # 1 => i > 1 /\ i - 1 \in Places' /\ down'[i - 1] = down[i])
  <1>1. /\ Len(down) \in Nat \ {0} /\ Len(down') = Len(down) - 1
        /\ (\A i \in 1 .. Len(down) - 1 : down'[i] = down[i + 1])
        /\ Head(down) = down[1] /\ down[1].name = name
    BY Arrival
  <1>2. Places = 1 .. Len(down) /\ Places' = 1 .. Len(down) - 1
    BY <1>1 DEF Places
  <1>3. ASSUME NEW i \in Places, i # 1 PROVE i > 1 /\ i - 1 \in Places' /\ down'[i - 1] = down[i]
    <2>1. i - 1 \in 1 .. Len(down) - 1 /\ (i - 1) + 1 = i /\ i > 1
      BY <1>1, <1>2, <1>3
    <2> QED  BY <1>1, <1>2, <2>1
  <1> QED  BY <1>1, <1>2, <1>3

\* The history arrives, and is put behind what was around its reading.
LEMMA HistoryKeepsLists ==
  ASSUME Carried, ListInv, handleTrollboxHistory, UNCHANGED previously_connected
  PROVE  ListInv'
  <1>1. PICK h : h = Head(down).says
    OBVIOUS
  <1>2. /\ Arrives("chat_history") /\ down' = Tail(down) /\ historyDue' = FALSE
        /\ trollboxMessages' = (IF historyDue THEN trollboxMessages \o h ELSE trollboxMessages)
        /\ UNCHANGED <<connected, socket_id, up, ChatHistory, chatSaves, messages, mixed, unheard,
                       previously_connected>>
    BY <1>1 DEF handleTrollboxHistory
  <1>3. /\ 1 \in Places /\ Head(down) = down[1] /\ down[1].name = "chat_history"
        /\ \A i \in Places' : i \in Nat /\ i > 0 /\ i + 1 \in Places /\ down'[i] = down[i + 1]
        /\ \A i \in Places : i \in Nat /\ (i # 1 => i > 1 /\ i - 1 \in Places' /\ down'[i - 1] = down[i])
    BY <1>2, OneNearer
  <1>4. IsHistory(1) /\ h = down[1].says
    BY <1>1, <1>3 DEF IsHistory
  <1>5. /\ historyDue /\ ~Boxed /\ Rising(h)
        /\ \A j \in Places : IsHistory(j) => j = 1
        /\ \A k \in 1 .. Len(trollboxMessages) : trollboxMessages[k] \in mixed
        /\ \A j \in Places, l \in 1 .. Len(h) : IsMessage(j) /\ j > 1 => h[l] < down[j].says
        /\ \A x \in 1 .. messages : Plain(x) =>
             \/ ListedAt(h, x)
             \/ \E j \in Places : IsMessage(j) /\ j > 1 /\ down[j].says = x
    BY <1>3, <1>4 DEF ListInv, HistoryComing
  <1>6. trollboxMessages' = trollboxMessages \o h /\ IsSeq(trollboxMessages) /\ IsSeq(h)
    BY <1>2, <1>5 DEF Rising, ListInv, ListTypes
  <1>7. /\ IsSeq(trollboxMessages') /\ Len(trollboxMessages) \in Nat /\ Len(h) \in Nat
        /\ Len(trollboxMessages') = Len(trollboxMessages) + Len(h)
        /\ \A i \in 1 .. Len(trollboxMessages) : trollboxMessages'[i] = trollboxMessages[i]
        /\ \A i \in 1 .. Len(h) : trollboxMessages'[Len(trollboxMessages) + i] = h[i]
        /\ \A x : ListedAt(h, x) => ListedAt(trollboxMessages', x)
    BY <1>6, ConcatFacts
  <1>8. \A i \in Places' : /\ IsMessage(i)' <=> IsMessage(i + 1)
                           /\ IsHistory(i)' <=> IsHistory(i + 1)
                           /\ i + 1 > 1 /\ down'[i].says = down[i + 1].says
    BY <1>3 DEF IsMessage, IsHistory
  <1>9. ASSUME NEW k \in 1 .. Len(trollboxMessages'), k \notin 1 .. Len(trollboxMessages)
        PROVE  /\ k - Len(trollboxMessages) \in 1 .. Len(h)
               /\ trollboxMessages'[k] = h[k - Len(trollboxMessages)]
    <2>0. k \in Int /\ Len(trollboxMessages) \in Int
      BY <1>7
    <2>1. PICK m \in Int : m = k - Len(trollboxMessages)
      BY <2>0
    <2>2. m \in 1 .. Len(h) /\ k = Len(trollboxMessages) + m
      BY <1>7, <1>9, <2>1
    <2> QED  BY <1>7, <2>1, <2>2
  <1>10. ListTypes'
    <2>1. ASSUME NEW k \in 1 .. Len(trollboxMessages') PROVE trollboxMessages'[k] \in 1 .. messages
      <3>1. CASE k \in 1 .. Len(trollboxMessages)
        BY <1>7, <3>1 DEF ListInv, ListTypes
      <3>2. CASE k \notin 1 .. Len(trollboxMessages)
        BY <1>5, <1>9, <3>2 DEF Rising
      <3> QED  BY <3>1, <3>2
    <2> QED  BY <1>2, <1>7, <2>1 DEF ListInv, ListTypes
  <1>11. AskedOnce'
    <2>1. previously_connected
      <3>1. connected
        BY <1>2, Arrival
      <3> QED  BY <3>1 DEF ListInv, AskedOnce
    <2> QED  BY <1>2, <1>5, <2>1 DEF ListInv, AskedOnce, Boxed
  <1>12. MessagesComing'
    <2>1. \A i, j \in Places' : i < j => i + 1 < j + 1
      BY <1>3
    <2> QED  BY <1>2, <1>3, <1>8, <2>1 DEF ListInv, MessagesComing
  <1>13. HistoryComing'
    <2>1. \A i \in Places' : ~IsHistory(i)'
      BY <1>3, <1>5, <1>8
    <2> QED  BY <2>1 DEF HistoryComing
  <1>14. \A x : Plain(x)' <=> Plain(x)
    BY <1>2 DEF Plain
  <1>15. ASSUME NEW k \in 1 .. Len(trollboxMessages'), Plain(trollboxMessages'[k])
         PROVE  k \notin 1 .. Len(trollboxMessages)
    BY <1>5, <1>7, <1>15 DEF Plain
  <1>16. HistoryThere'
    <2>1. ASSUME NEW k \in 1 .. Len(trollboxMessages'), NEW l \in 1 .. Len(trollboxMessages'), k < l,
                 Plain(trollboxMessages'[k]), Plain(trollboxMessages'[l])
          PROVE  trollboxMessages'[k] < trollboxMessages'[l]
      <3>1. k \notin 1 .. Len(trollboxMessages) /\ l \notin 1 .. Len(trollboxMessages)
        BY <1>15, <2>1
      <3>2. k - Len(trollboxMessages) < l - Len(trollboxMessages)
        BY <1>7, <2>1
      <3> QED  BY <1>5, <1>9, <3>1, <3>2 DEF Rising
    <2>2. ASSUME NEW j \in Places', NEW k \in 1 .. Len(trollboxMessages'),
                 IsMessage(j)', Plain(trollboxMessages'[k])
          PROVE  trollboxMessages'[k] < down'[j].says
      BY <1>3, <1>5, <1>8, <1>9, <1>15, <2>2
    <2>3. ASSUME NEW x \in 1 .. messages, Plain(x), ~ListedAt(trollboxMessages', x)
          PROVE  \E j \in Places' : IsMessage(j)' /\ down'[j].says = x
      <3>1. PICK j \in Places : IsMessage(j) /\ j > 1 /\ down[j].says = x
        BY <1>5, <1>7, <2>3
      <3>2. j - 1 \in Places' /\ (j - 1) + 1 = j
        BY <1>3, <3>1
      <3> QED  BY <1>8, <3>1, <3>2
    <2> QED  BY <1>2, <1>14, <2>1, <2>2, <2>3 DEF HistoryThere, ListedAt
  <1> QED  BY <1>10, <1>11, <1>12, <1>13, <1>16 DEF ListInv

\* A message arrives, and is put behind those that are listed.
LEMMA MessageKeepsLists ==
  ASSUME Carried, ListInv, handleTrollBoxMessage, UNCHANGED previously_connected
  PROVE  ListInv'
  <1>1. PICK m : m = Head(down).says
    OBVIOUS
  <1>2. PICK s : s = trollboxMessages'
    OBVIOUS
  <1>3. /\ Arrives("message") /\ down' = Tail(down) /\ s = Append(trollboxMessages, m)
        /\ UNCHANGED <<connected, socket_id, up, ChatHistory, chatSaves, messages, historyDue, mixed,
                       unheard, previously_connected>>
    BY <1>1, <1>2 DEF handleTrollBoxMessage
  <1>4. /\ 1 \in Places /\ Head(down) = down[1] /\ down[1].name = "message"
        /\ \A i \in Places' : i \in Nat /\ i > 0 /\ i + 1 \in Places /\ down'[i] = down[i + 1]
        /\ \A i \in Places : i \in Nat /\ (i # 1 => i > 1 /\ i - 1 \in Places' /\ down'[i - 1] = down[i])
    BY <1>3, OneNearer
  <1>5. IsMessage(1) /\ m = down[1].says /\ m \in 1 .. messages
    BY <1>1, <1>4 DEF IsMessage, ListInv, MessagesComing
  <1>6. /\ IsSeq(s) /\ Len(trollboxMessages) \in Nat /\ Len(s) = Len(trollboxMessages) + 1
        /\ \A i \in 1 .. Len(trollboxMessages) : s[i] = trollboxMessages[i]
        /\ s[Len(trollboxMessages) + 1] = m
    BY <1>3, AppendFacts DEF ListInv, ListTypes
  <1>7. \A k \in 1 .. Len(s) : k = Len(trollboxMessages) + 1 \/ k \in 1 .. Len(trollboxMessages)
    BY <1>6
  <1>8. \A i \in Places' : /\ IsMessage(i)' <=> IsMessage(i + 1)
                           /\ IsHistory(i)' <=> IsHistory(i + 1)
                           /\ i + 1 > 1 /\ down'[i].says = down[i + 1].says
    BY <1>4 DEF IsMessage, IsHistory
  <1>9. \A i, j \in Places' : (i < j => i + 1 < j + 1) /\ (j > i => j + 1 > i + 1) /\ (i + 1 = j + 1 => i = j)
    BY <1>4
  <1>10. \A x : Plain(x)' <=> Plain(x)
    BY <1>3 DEF Plain
  <1>11. ASSUME NEW x PROVE ListedAt(s, x) <=> ListedAt(trollboxMessages, x) \/ x = m
    <2>1. Len(trollboxMessages) + 1 \in 1 .. Len(s) /\ 1 .. Len(trollboxMessages) \subseteq 1 .. Len(s)
      BY <1>6
    <2> QED  BY <1>6, <1>7, <2>1 DEF ListedAt
  <1>12. ListTypes'
    <2>1. \A k \in 1 .. Len(s) : s[k] \in 1 .. messages
      BY <1>5, <1>6, <1>7 DEF ListInv, ListTypes
    <2> QED  BY <1>2, <1>3, <1>6, <2>1 DEF ListInv, ListTypes
  <1>13. AskedOnce' /\ (Boxed' <=> Boxed)
    BY <1>3 DEF ListInv, AskedOnce, Boxed
  <1>14. MessagesComing'
    <2>1. \A i \in Places' : IsMessage(i)' => down'[i].says \in 1 .. messages
      BY <1>4, <1>8 DEF ListInv, MessagesComing
    <2>2. ASSUME NEW i \in Places', NEW j \in Places', i < j, IsMessage(i)', IsMessage(j)'
          PROVE  down'[i].says < down'[j].says
      BY <1>4, <1>8, <1>9, <2>2 DEF ListInv, MessagesComing
    <2> QED  BY <1>3, <2>1, <2>2 DEF MessagesComing
  <1>15. HistoryComing'
    <2> SUFFICES ASSUME NEW i \in Places', IsHistory(i)'
                 PROVE  /\ historyDue' /\ ~Boxed' /\ Rising(down[i].says)'
                        /\ \A j \in Places' : IsHistory(j)' => j = i
                        /\ \A l \in 1 .. Len(trollboxMessages') : trollboxMessages'[l] \in mixed'
                        /\ \A j \in Places' : IsMessage(j)' /\ j < i => down'[j].says \in mixed'
                        /\ \A j \in Places', l \in 1 .. Len(down'[i].says) :
                             IsMessage(j)' /\ j > i => down'[i].says[l] < down'[j].says
                        /\ \A x \in 1 .. messages' : Plain(x)' =>
                             \/ ListedAt(down'[i].says, x)
                             \/ \E j \in Places' : IsMessage(j)' /\ j > i /\ down'[j].says = x
      BY DEF HistoryComing, ListedAt
    <2>1. PICK p \in Places : p = i + 1 /\ p > 1
      BY <1>4, <1>8
    <2>2. IsHistory(p) /\ down'[i] = down[p]
      BY <1>4, <1>8, <2>1
    <2>3. /\ historyDue /\ ~Boxed /\ Rising(down[p].says)
          /\ \A j \in Places : IsHistory(j) => j = p
          /\ \A l \in 1 .. Len(trollboxMessages) : trollboxMessages[l] \in mixed
          /\ \A j \in Places : IsMessage(j) /\ j < p => down[j].says \in mixed
          /\ \A j \in Places, l \in 1 .. Len(down[p].says) :
               IsMessage(j) /\ j > p => down[p].says[l] < down[j].says
          /\ \A x \in 1 .. messages : Plain(x) =>
               \/ ListedAt(down[p].says, x)
               \/ \E j \in Places : IsMessage(j) /\ j > p /\ down[j].says = x
      BY <2>2 DEF ListInv, HistoryComing
    <2>4. Rising(down[i].says)'
      BY <1>3, <2>2, <2>3 DEF Rising
    <2>5. m \in mixed
      BY <1>4, <1>5, <2>1, <2>3
    <2>6. \A l \in 1 .. Len(trollboxMessages') : trollboxMessages'[l] \in mixed'
      BY <1>2, <1>3, <1>6, <1>7, <2>3, <2>5
    <2>7. ASSUME NEW x \in 1 .. messages, Plain(x), ~ListedAt(down[p].says, x)
          PROVE  \E j \in Places' : IsMessage(j)' /\ j > i /\ down'[j].says = x
      <3>1. PICK j \in Places : IsMessage(j) /\ j > p /\ down[j].says = x
        BY <2>3, <2>7
      <3>2. PICK k \in Places' : k = j - 1
        BY <1>4, <2>1, <3>1
      <3>3. j = k + 1 /\ k > i
        BY <1>4, <2>1, <3>1, <3>2
      <3> QED  BY <1>8, <3>1, <3>2, <3>3
    <2>8. \A j \in Places' : IsHistory(j)' => j = i
      BY <1>4, <1>8, <1>9, <2>1, <2>3
    <2>9. ASSUME NEW j \in Places', IsMessage(j)', j < i PROVE down'[j].says \in mixed'
      <3>1. j + 1 \in Places /\ IsMessage(j + 1) /\ j + 1 < p /\ down'[j].says = down[j + 1].says
        BY <1>4, <1>8, <1>9, <2>1, <2>9
      <3> QED  BY <1>3, <2>3, <3>1
    <2>10. \A j \in Places', l \in 1 .. Len(down'[i].says) :
             IsMessage(j)' /\ j > i => down'[i].says[l] < down'[j].says
      BY <1>4, <1>8, <1>9, <2>1, <2>2, <2>3
    <2> QED  BY <1>3, <1>10, <1>13, <2>2, <2>3, <2>4, <2>6, <2>7, <2>8, <2>9, <2>10
  <1>16. HistoryThere'
    <2> SUFFICES ASSUME ~historyDue PROVE HistoryThere'
      BY <1>3 DEF HistoryThere
    <2>1. \A k \in 1 .. Len(s) : Plain(s[k]) /\ k \in 1 .. Len(trollboxMessages) => s[k] < m
      BY <1>4, <1>5, <1>6 DEF ListInv, HistoryThere
    <2>2. ASSUME NEW k \in 1 .. Len(s), NEW l \in 1 .. Len(s), k < l, Plain(s[k]), Plain(s[l])
          PROVE  s[k] < s[l]
      <3>1. k \in 1 .. Len(trollboxMessages)
        BY <1>6, <1>7, <2>2
      <3>2. CASE l = Len(trollboxMessages) + 1
        BY <1>6, <2>1, <2>2, <3>1, <3>2
      <3>3. CASE l \in 1 .. Len(trollboxMessages)
        BY <1>6, <2>2, <3>1, <3>3 DEF ListInv, HistoryThere
      <3> QED  BY <1>7, <3>2, <3>3
    <2>3. ASSUME NEW j \in Places', NEW k \in 1 .. Len(s), IsMessage(j)', Plain(s[k])
          PROVE  s[k] < down'[j].says
      <3>1. j + 1 \in Places /\ IsMessage(j + 1) /\ 1 < j + 1 /\ down'[j].says = down[j + 1].says
        BY <1>4, <1>8, <2>3
      <3>2. CASE k = Len(trollboxMessages) + 1
        BY <1>4, <1>5, <1>6, <3>1, <3>2 DEF ListInv, MessagesComing
      <3>3. CASE k \in 1 .. Len(trollboxMessages)
        BY <1>6, <2>3, <3>1, <3>3 DEF ListInv, HistoryThere
      <3> QED  BY <1>7, <3>2, <3>3
    <2>4. ASSUME NEW x \in 1 .. messages, Plain(x), ~ListedAt(s, x)
          PROVE  \E j \in Places' : IsMessage(j)' /\ down'[j].says = x
      <3>1. PICK j \in Places : IsMessage(j) /\ down[j].says = x
        BY <1>11, <2>4 DEF ListInv, HistoryThere
      <3>2. j # 1
        BY <1>5, <1>11, <2>4, <3>1
      <3>3. PICK k \in Places' : k = j - 1
        BY <1>4, <3>1, <3>2
      <3>4. j = k + 1
        BY <1>4, <3>1, <3>3
      <3> QED  BY <1>8, <3>1, <3>3, <3>4
    <2> QED  BY <1>2, <1>3, <1>10, <2>2, <2>3, <2>4 DEF HistoryThere, ListedAt
  <1> QED  BY <1>12, <1>13, <1>14, <1>15, <1>16 DEF ListInv

\* A break: what was on its way is not heard.  A history that was on its way does
\* not come any more.
LEMMA BreaksKeepLists ==
  ASSUME Carried, ListInv, Disconnect, UNCHANGED previously_connected
  PROVE  ListInv'
  <1>1. /\ connected' = FALSE /\ up' = <<>> /\ down' = <<>>
        /\ unheard' = unheard \union {e.says : e \in Coming("message")}
        /\ UNCHANGED <<ChatHistory, chatSaves, messages, trollboxMessages, historyDue, mixed,
                       previously_connected>>
    BY DEF Disconnect, ChatDisconnect
  <1>2. Places' = {} /\ ~Boxed' /\ 2 .. Len(up') = {}
    BY <1>1 DEF Places, Boxed
  <1>3. ListTypes' /\ AskedOnce' /\ MessagesComing' /\ HistoryComing'
    BY <1>1, <1>2 DEF ListInv, ListTypes, AskedOnce, MessagesComing, HistoryComing
  <1>4. \A x : Plain(x)' => Plain(x)
    BY <1>1 DEF Plain
  <1>5. ASSUME NEW j \in Places, IsMessage(j) PROVE down[j].says \in unheard'
    <2>1. DOMAIN down = Places
      <3>1. PICK S : down \in Seq(S)
        BY DEF Carried, IsSeq
      <3> QED  BY <3>1 DEF Places
    <2>2. down[j] \in Coming("message")
      BY <1>5, <2>1 DEF Coming, IsMessage
    <2>3. down[j].says \in {e.says : e \in Coming("message")}
      BY <2>2
    <2> QED  BY <1>1, <2>3
  <1>6. HistoryThere'
    <2>1. ASSUME ~historyDue, NEW x \in 1 .. messages, Plain(x)' PROVE ListedAt(trollboxMessages, x)
      <3>1. Plain(x)
        BY <1>4, <2>1
      <3>2. ListedAt(trollboxMessages, x) \/ \E j \in Places : IsMessage(j) /\ down[j].says = x
        BY <2>1, <3>1 DEF ListInv, HistoryThere
      <3>3. x \notin unheard'
        BY <2>1 DEF Plain
      <3> QED  BY <1>5, <3>2, <3>3
    <2> QED  BY <1>1, <1>2, <1>4, <2>1 DEF ListInv, HistoryThere, ListedAt
  <1> QED  BY <1>3, <1>6 DEF ListInv

\* Rooms that are not the chat's, behind others.
LEMMA OtherRooms ==
  ASSUME NEW a \in Seq(Rooms), NEW b \in Seq(Rooms), a # <<>>,
         \A i \in 2 .. Len(a) : a[i].prefix # "trollbox",
         \A i \in 1 .. Len(b) : b[i].prefix # "trollbox"
  PROVE  /\ a \o b \in Seq(Rooms) /\ a \o b # <<>>
         /\ \A i \in 2 .. Len(a \o b) : (a \o b)[i].prefix # "trollbox"
  <1>1. PICK c : c = a \o b
    OBVIOUS
  <1>2. /\ c \in Seq(Rooms) /\ Len(c) = Len(a) + Len(b) /\ Len(a) \in Nat \ {0} /\ Len(b) \in Nat
        /\ \A i \in 1 .. Len(a) : c[i] = a[i]
        /\ \A i \in 1 .. Len(b) : c[Len(a) + i] = b[i]
    <2> HIDE DEF Rooms
    <2> QED  BY <1>1
  <1> HIDE DEF Rooms
  <1>3. c # <<>>
    <2>1. Len(c) # 0
      BY <1>2
    <2> QED  BY <1>2, <2>1
  <1>4. ASSUME NEW i \in 2 .. Len(c) PROVE c[i].prefix # "trollbox"
    <2>1. CASE i \in 1 .. Len(a)
      <3>1. i \in 2 .. Len(a)
        BY <1>2, <2>1
      <3> QED  BY <1>2, <2>1, <3>1
    <2>2. CASE i \notin 1 .. Len(a)
      <3>1. i \in Int /\ Len(a) \in Int
        BY <1>2
      <3>2. PICK j \in Int : j = i - Len(a)
        BY <3>1
      <3>3. j \in 1 .. Len(b) /\ i = Len(a) + j
        BY <1>2, <2>2, <3>2
      <3> QED  BY <1>2, <3>3
    <2> QED  BY <2>1, <2>2
  <1> QED  BY <1>1, <1>2, <1>3, <1>4

\* The first connection asks for the chat ahead of all, and no other asks for it.
LEMMA ConnectingKeepsLists ==
  ASSUME Carried, ListInv, handleConnect
  PROVE  ListInv'
  <1>1. PICK first : first = ~previously_connected
    OBVIOUS
  <1>2. /\ ~connected /\ connected' = TRUE /\ previously_connected' = TRUE
        /\ up' = (IF first THEN <<Room("trollbox", None)>> \o Joined(Rswp) \o Joined(Tau) \o up ELSE up)
        /\ UNCHANGED <<down, messages, ChatHistory, chatSaves, trollboxMessages, historyDue, mixed,
                       unheard>>
    BY <1>1 DEF handleConnect, chatVars, listVars
  <1>3. down = <<>> /\ Places = {} /\ Places' = {}
    BY <1>2 DEF Carried, Places
  <1>4. ListTypes' /\ MessagesComing' /\ HistoryComing'
    BY <1>2, <1>3 DEF ListInv, ListTypes, MessagesComing, HistoryComing
  <1>5. HistoryThere'
    <2>1. \A x : Plain(x)' <=> Plain(x)
      BY <1>2 DEF Plain
    <2> QED  BY <1>2, <1>3, <2>1 DEF ListInv, HistoryThere, ListedAt
  <1>6. \A i \in 2 .. Len(up') : up'[i].prefix # "trollbox"
    <2>1. CASE ~first
      BY <1>2, <2>1 DEF ListInv, AskedOnce
    <2>2. CASE first
      <3>1. PICK c : c = <<Room("trollbox", None)>>
        OBVIOUS
      <3>2. PICK d : d = Joined(Rswp)
        OBVIOUS
      <3>3. PICK e : e = Joined(Tau)
        OBVIOUS
      <3>4. c \in Seq(Rooms) /\ Len(c) = 1 /\ c # <<>> /\ \A i \in 2 .. Len(c) : c[i].prefix # "trollbox"
        <4>1. PICK r \in Rooms : r = Room("trollbox", None)
          BY RoomFacts
        <4>2. c = <<r>> /\ c \in Seq(Rooms) /\ Len(c) = 1
          <5> HIDE DEF Rooms
          <5> QED  BY <3>1, <4>1
        <4> QED  BY <4>2
      <3>5. ASSUME NEW f \in Rows
            PROVE  Joined(f) \in Seq(Rooms) /\ \A i \in 1 .. Len(Joined(f)) : Joined(f)[i].prefix # "trollbox"
        <4>1. PICK r \in Rooms : r = Room("row", f) /\ r.prefix = "row"
          BY RoomFacts
        <4>2. /\ <<r>> \in Seq(Rooms) /\ Len(<<r>>) = 1 /\ <<r>>[1] = r
              /\ <<>> \in Seq(Rooms) /\ Len(<<>>) = 0
          <5> HIDE DEF Rooms
          <5> QED  BY <4>1
        <4>3. Joined(f) = IF f \in joinedFeeds THEN <<>> ELSE <<r>>
          BY <4>1 DEF Joined
        <4> QED  BY <4>1, <4>2, <4>3
      <3>6. Rswp \in Rows /\ Tau \in Rows
        BY FeedsAssumption DEF Rows
      <3>7. up \in Seq(Rooms) /\ \A i \in 1 .. Len(up) : up[i].prefix # "trollbox"
        <4>1. ~Boxed
          BY <1>1, <2>2 DEF ListInv, AskedOnce
        <4>2. up \in Seq(Rooms) /\ Len(up) \in Nat
          BY DEF Carried
        <4>3. ASSUME NEW i \in 1 .. Len(up) PROVE up[i].prefix # "trollbox"
          <5>1. up # <<>>
            BY <4>2, <4>3
          <5>2. i = 1 \/ i \in 2 .. Len(up)
            BY <4>2
          <5> QED  BY <4>1, <5>1, <5>2 DEF ListInv, AskedOnce, Boxed
        <4> QED  BY <4>2, <4>3
      <3>8. PICK g : g = c \o d
        OBVIOUS
      <3>9. g \in Seq(Rooms) /\ g # <<>> /\ \A i \in 2 .. Len(g) : g[i].prefix # "trollbox"
        BY <3>2, <3>4, <3>5, <3>6, <3>8, OtherRooms
      <3>10. PICK h : h = g \o e
        OBVIOUS
      <3>11. h \in Seq(Rooms) /\ h # <<>> /\ \A i \in 2 .. Len(h) : h[i].prefix # "trollbox"
        BY <3>3, <3>5, <3>6, <3>9, <3>10, OtherRooms
      <3>12. up' = h \o up
        BY <1>2, <2>2, <3>1, <3>2, <3>3, <3>8, <3>10
      <3> QED  BY <3>7, <3>11, <3>12, OtherRooms
    <2> QED  BY <2>1, <2>2
  <1>7. AskedOnce'
    <2>1. CASE first
      BY <1>1, <1>2, <1>6, <2>1 DEF ListInv, AskedOnce
    <2>2. CASE ~first
      BY <1>2, <1>6, <2>2 DEF ListInv, AskedOnce, Boxed
    <2> QED  BY <2>1, <2>2
  <1> QED  BY <1>4, <1>5, <1>7 DEF ListInv

\* At first there are no messages, and the history is waited for.
LEMMA InitLists == Init => ListInv
  <1> SUFFICES ASSUME Init PROVE ListInv
    OBVIOUS
  <1>1. /\ connected = FALSE /\ up = <<>> /\ down = <<>> /\ previously_connected = FALSE
        /\ ChatHistory = {} /\ chatSaves = {} /\ messages = 0
        /\ trollboxMessages = <<>> /\ historyDue = TRUE
    BY DEF Init, SocketInit, ChatInit
  <1>2. Places = {} /\ ~Boxed /\ 2 .. Len(up) = {} /\ 1 .. Len(trollboxMessages) = {}
    BY <1>1 DEF Places, Boxed
  <1>3. IsSeq(<<>>) /\ ChatHistory \union chatSaves = 1 .. messages
    <2>1. \A S : <<>> \in Seq(S)
      OBVIOUS
    <2> QED  BY <1>1, <2>1 DEF IsSeq
  <1> QED  BY <1>1, <1>2, <1>3 DEF ListInv, ListTypes, AskedOnce, MessagesComing, HistoryComing, HistoryThere

\* Every step keeps the list.
LEMMA NextLists == IInv /\ ListInv /\ [Next]_vars => ListInv'
  <1> SUFFICES ASSUME IInv, ListInv, [Next]_vars PROVE ListInv'
    OBVIOUS
  <1>1. Carried /\ Carried' /\ RowTypes
    BY NextIInv DEF IInv, RowsInv
  <1>2. CASE UNCHANGED vars
    <2>1. UNCHANGED <<socketVars, chatVars, previously_connected>>
      BY <1>2 DEF vars
    <2>2. /\ UNCHANGED <<connected, up, down, messages, trollboxMessages, historyDue, mixed, unheard,
                         ChatHistory, chatSaves>>
      BY <2>1 DEF socketVars, chatVars, listVars
    <2>3. (Boxed' => Boxed) /\ \A i \in 2 .. Len(up') : up'[i].prefix # "trollbox"
      BY <1>1, <2>2, BoxStands
    <2> QED  BY <1>1, <2>1, <2>2, <2>3, Stood, ListStands DEF ListAside
  <1>3. CASE handleConnect
    BY <1>1, <1>3, ConnectingKeepsLists
  <1>4. CASE Disconnect /\ UNCHANGED previously_connected
    BY <1>1, <1>4, BreaksKeepLists
  <1>5. CASE /\ UNCHANGED <<chatVars, previously_connected>>
             /\ RowsApi \/ TradesApi \/ RowsUser \/ TradesUser \/ FeedsStep
    BY <1>1, <1>5, FeedsKeepLists
  <1>6. CASE /\ UNCHANGED previously_connected
             /\ ChatUser \/ ChatOthers \/ Tomorrow \/ ChatStep
    <2>1. CASE ChatUser
      <3>1. CASE bearerToken # None /\ Speak(bearerToken)
        BY <1>1, <1>6, <3>1, TellingKeepsLists DEF Speak
      <3>2. CASE handleLogin /\ UNCHANGED <<socketVars, listVars>>
        BY <1>1, <1>6, <3>2, SignOnsKeepLists
      <3> QED  BY <2>1, <3>1, <3>2 DEF ChatUser, login, handleSendMessage
    <2>2. CASE ChatOthers
      <3>1. CASE OthersSpeak \/ \E token \in tokens : speakElsewhere(token)
        BY <1>1, <1>6, <3>1, TellingKeepsLists DEF OthersSpeak, speakElsewhere, Speak
      <3>2. CASE \E token \in tokens : refresh(token)
        BY <1>1, <1>6, <3>2, SignOnsKeepLists
      <3> QED  BY <2>2, <3>1, <3>2 DEF ChatOthers
    <2>3. CASE Tomorrow
      BY <1>1, <1>6, <2>3, SignOnsKeepLists
    <2>4. CASE ChatStep
      <3>1. CASE \/ success \/ error \/ authenticate \/ handleAuthResponse \/ handleTrollboxAuthCode
                 \/ \E m \in chatSaves : saveTrollChat(m)
        BY <1>1, <1>6, <3>1, SignOnsKeepLists
      <3>2. CASE handleJoinTrollBox
        BY <1>1, <1>6, <3>2, JoiningKeepsLists
      <3>3. CASE handleTrollboxHistory
        BY <1>1, <1>6, <3>3, HistoryKeepsLists
      <3>4. CASE handleTrollBoxMessage
        BY <1>1, <1>6, <3>4, MessageKeepsLists
      <3> QED  BY <2>4, <3>1, <3>2, <3>3, <3>4 DEF ChatStep
    <2> QED  BY <1>6, <2>1, <2>2, <2>3, <2>4
  <1> QED  BY <1>2, <1>3, <1>4, <1>5, <1>6 DEF Next, Spend

\* handleJoinTrollBox reads the history once, behind the messages that were told
\* before and ahead of those that are told later, all on one connection: what is
\* listed, what comes and what is lost make up all messages.
THEOREM ListsInductive == Spec => []ListInv
  <1>1. Init => ListInv
    BY InitLists
  <1>2. IInv /\ ListInv /\ [Next]_vars => ListInv'
    BY NextLists
  <1> QED  BY <1>1, <1>2, Inductive, PTL DEF Spec

\* handleTrollboxHistory and handleTrollBoxMessage: when nothing is on its way,
\* the page lists every message, once and in order, but for those around the
\* reading of the history and those told while it was not connected.
THEOREM MessagesAreListed == Spec => []ListedOnceInOrder
  <1>1. ListInv => ListedOnceInOrder
    <2> SUFFICES ASSUME ListInv, Quiet, ~historyDue
                 PROVE  LET plain == (1 .. messages) \ (mixed \union unheard) IN
                        /\ plain \subseteq ToSet(trollboxMessages)
                        /\ \A i, j \in DOMAIN trollboxMessages :
                             i < j /\ {trollboxMessages[i], trollboxMessages[j]} \subseteq plain =>
                               trollboxMessages[i] < trollboxMessages[j]
      BY DEF ListedOnceInOrder
    <2> DEFINE plain == (1 .. messages) \ (mixed \union unheard)
    <2>1. Places = {}
      BY DEF Quiet, Places
    <2>2. DOMAIN trollboxMessages = 1 .. Len(trollboxMessages)
      <3>1. PICK S : trollboxMessages \in Seq(S)
        BY DEF ListInv, ListTypes, IsSeq
      <3> QED  BY <3>1
    <2>3. \A x \in plain : x \in 1 .. messages /\ Plain(x)
      BY DEF Plain
    <2>4. ASSUME NEW x \in plain PROVE x \in ToSet(trollboxMessages)
      <3>1. ListedAt(trollboxMessages, x)
        BY <2>1, <2>3, <2>4 DEF ListInv, HistoryThere
      <3> QED  BY <2>2, <3>1 DEF ListedAt, ToSet
    <2>5. ASSUME NEW i \in DOMAIN trollboxMessages, NEW j \in DOMAIN trollboxMessages, i < j,
                 {trollboxMessages[i], trollboxMessages[j]} \subseteq plain
          PROVE  trollboxMessages[i] < trollboxMessages[j]
      <3>1. Plain(trollboxMessages[i]) /\ Plain(trollboxMessages[j])
        BY <2>3, <2>5
      <3> QED  BY <2>2, <2>5, <3>1 DEF ListInv, HistoryThere
    <2> QED  BY <2>4, <2>5
  <1> QED  BY <1>1, ListsInductive, PTL

-----------------------------------------------------------------------------
(* The circulating supplies *)

Outside(t) == Holders \union (IF t = AmmToken THEN {} ELSE StakingContracts)

\* What the wallets have of a token, in the table b.
Worth(b, t) == [w \in Wallets |-> IF b[t][w] = Unset THEN 0 ELSE b[t][w]]

Supply(b, t) == Net(Worth(b, t), Wallets)

\* The row of a transfer's receiver is still to be written.
Halfway == Len(balance_updates) = 1

BalancesTyped ==
  /\ balances \in [ToSet(Listed) -> [Wallets -> Int \union {Unset}]]
  /\ amm_meta_entity \in {AmmToken, Unset}

\* A transfer under way: both rows are to be written, or the receiver's.
TransferRows ==
  \/ balance_updates = <<>>
  \/ \E t \in ToSet(Listed), from, to \in Wallets :
       /\ from # to
       /\ \/ balance_updates = <<[token |-> t, vk |-> from, amount |-> Balance(t, from) - 1],
                                 [token |-> t, vk |-> to, amount |-> Balance(t, to) + 1]>>
          \/ /\ balance_updates = <<[token |-> t, vk |-> to, amount |-> Balance(t, to) + 1]>>
             /\ moved

\* The wallets have what there is of a token, but for the one on its way.
Conserved ==
  \A t \in ToSet(Listed) :
    Supply(balances, t) = base_supply - (IF Halfway /\ Head(balance_updates).token = t THEN 1 ELSE 0)

RoundTyped ==
  /\ capRound.left \in Seq(ToSet(Listed)) /\ capped \subseteq ToSet(Listed)
  /\ DOMAIN circulating = ToSet(Listed)
  /\ capRound = [left |-> capRound.left, read |-> capRound.read]
  /\ capRound.read # Unset => capRound.left # <<>>

\* What the round read and what it wrote is what the tables have.
RoundStands ==
  ~moved =>
    /\ capRound.read # Unset => capRound.read = balances[Head(capRound.left)][Developer]
    /\ \A t \in capped : circulating[t] = Net(Worth(balances, t), Outside(t))

CapsInv == BalancesTyped /\ TransferRows /\ Conserved /\ RoundTyped /\ RoundStands

\* There are finitely many wallets.
LEMMA WalletsFinite ==
  /\ IsFiniteSet(Wallets) /\ IsFiniteSet(StakingContracts) /\ IsFiniteSet(Holders)
  /\ \A t : IsFiniteSet(Outside(t)) /\ Outside(t) \in SUBSET Wallets
  <1>1. IsFiniteSet(StakingContracts) /\ IsFiniteSet(Holders) /\ IsFiniteSet({Developer})
    BY MetricsAssumption, FS_Singleton
  <1>2. IsFiniteSet(StakingContracts \union Holders)
    BY <1>1, FS_Union
  <1>3. IsFiniteSet({Developer} \union (StakingContracts \union Holders))
    BY <1>1, <1>2, FS_Union
  <1>4. Wallets = {Developer} \union (StakingContracts \union Holders)
    BY DEF Wallets
  <1>5. IsFiniteSet(Wallets)
    BY <1>3, <1>4
  <1>6. \A t : Outside(t) \in SUBSET Wallets
    BY DEF Outside, Wallets
  <1> QED  BY <1>1, <1>5, <1>6, FS_Subset

\* Balances are integers where there is a row.
LEMMA WorthInt ==
  ASSUME NEW b \in [ToSet(Listed) -> [Wallets -> Int \union {Unset}]], NEW t \in ToSet(Listed)
  PROVE  /\ Worth(b, t) \in [Wallets -> Int] /\ Supply(b, t) \in Int
         /\ \A w \in Wallets : Worth(b, t)[w] = IF b[t][w] = Unset THEN 0 ELSE b[t][w]
  <1>1. Worth(b, t) \in [Wallets -> Int]
    BY DEF Worth
  <1>2. Supply(b, t) \in Int
    BY <1>1, WalletsFinite, NetInt DEF Supply
  <1> QED  BY <1>1, <1>2 DEF Worth

\* updateBalance: one entry of the table b is another.
Written(c, b, t, w, n) == c = [b EXCEPT ![t][w] = n]

\* A row of a transfer changes one token's sum by what it changes in the row.
LEMMA RowWritten ==
  ASSUME NEW b \in [ToSet(Listed) -> [Wallets -> Int \union {Unset}]], NEW t \in ToSet(Listed),
         NEW w \in Wallets, NEW n \in Int, NEW c, Written(c, b, t, w, n)
  PROVE  /\ c \in [ToSet(Listed) -> [Wallets -> Int \union {Unset}]]
         /\ Supply(c, t) = Supply(b, t) - Worth(b, t)[w] + n
         /\ \A u \in ToSet(Listed) \ {t} : Supply(c, u) = Supply(b, u)
         /\ \A u \in Wallets \ {w} : Worth(c, t)[u] = Worth(b, t)[u]
  <1>1. PICK entries : entries = [b[t] EXCEPT ![w] = n]
    OBVIOUS
  <1>2. c = [b EXCEPT ![t] = entries]
    BY <1>1 DEF Written
  <1>3. entries \in [Wallets -> Int \union {Unset}] /\ entries[w] = n /\ \A u \in Wallets \ {w} : entries[u] = b[t][u]
    BY <1>1
  <1>4. /\ c \in [ToSet(Listed) -> [Wallets -> Int \union {Unset}]] /\ c[t] = entries
        /\ \A u \in ToSet(Listed) \ {t} : c[u] = b[u]
    BY <1>2, <1>3
  <1>5. \A u \in ToSet(Listed) \ {t} : Supply(c, u) = Supply(b, u)
    <2>1. ASSUME NEW u \in ToSet(Listed) \ {t} PROVE Worth(c, u) = Worth(b, u)
      BY <1>4 DEF Worth
    <2> QED  BY <2>1 DEF Supply
  <1>6. Worth(c, t)[w] = n
    BY <1>3, <1>4, MetricsAssumption DEF Worth
  <1>7. \A u \in Wallets \ {w} : Worth(c, t)[u] = Worth(b, t)[u]
    BY <1>3, <1>4 DEF Worth
  <1>8. Worth(c, t) \in [Wallets -> Int] /\ Worth(b, t) \in [Wallets -> Int]
    BY <1>4, WorthInt
  <1>9. Supply(c, t) = Supply(b, t) - Worth(b, t)[w] + n
    <2>1. PICK f : f = Worth(b, t)
      OBVIOUS
    <2>2. PICK g : g = Worth(c, t)
      OBVIOUS
    <2>3. /\ f \in [Wallets -> Int] /\ g \in [Wallets -> Int] /\ IsFiniteSet(Wallets)
          /\ \A u \in Wallets \ {w} : g[u] = f[u]
      BY <1>7, <1>8, <2>1, <2>2, WalletsFinite
    <2>4. Net(g, Wallets) = Net(f, Wallets) - f[w] + g[w]
      BY <2>3, NetUpdate
    <2> QED  BY <1>6, <2>1, <2>2, <2>4 DEF Supply
  <1> QED  BY <1>4, <1>5, <1>7, <1>9

\* What is there of a token is with the developer, the staking contracts and the others.
LEMMA SupplySplit ==
  ASSUME NEW f \in [Wallets -> Int]
  PROVE  /\ Net(f, Wallets) = f[Developer] + Net(f, StakingContracts \union Holders)
         /\ Net(f, StakingContracts \union Holders) = Net(f, StakingContracts) + Net(f, Holders)
         /\ Net(f, StakingContracts) \in Int /\ Net(f, Holders) \in Int /\ f[Developer] \in Int
  <1>1. PICK R : R = Wallets \ {Developer}
    OBVIOUS
  <1>2. R = StakingContracts \union Holders
    BY <1>1, MetricsAssumption DEF Wallets
  <1>3. Developer \in Wallets /\ StakingContracts \in SUBSET Wallets /\ Holders \in SUBSET Wallets
    BY DEF Wallets
  <1>4. Net(f, Wallets) = f[Developer] + Net(f, Wallets \ {Developer})
    BY <1>3, WalletsFinite, NetExtend, Wallets \in SUBSET Wallets
  <1>5. Net(f, StakingContracts \union Holders) = Net(f, StakingContracts) + Net(f, Holders)
    BY <1>3, WalletsFinite, MetricsAssumption, NetUnion
  <1>6. Net(f, StakingContracts) \in Int /\ Net(f, Holders) \in Int
    BY <1>3, WalletsFinite, NetInt
  <1> QED  BY <1>1, <1>2, <1>3, <1>4, <1>5, <1>6

\* The library's fold over some wallets is the sum over them.
LEMMA HeldSum ==
  ASSUME NEW t \in ToSet(Listed), BalancesTyped, NEW S \in SUBSET Wallets
  PROVE  MapThenSumSet(LAMBDA w : Balance(t, w), S) = Net(Worth(balances, t), S)
  <1>1. PICK f : f = [w \in S |-> Balance(t, w)]
    OBVIOUS
  <1> DEFINE Adds(iter) == iter = [s \in SUBSET S |->
                             IF s = {} THEN 0
                             ELSE Balance(t, CHOOSE x \in s : TRUE)
                                    + iter[s \ {CHOOSE x \in s : TRUE}]]
             sum == CHOOSE iter : Adds(iter)
  <1>2. f \in [S -> Int] /\ IsFiniteSet(S)
    BY <1>1, WalletsFinite, FS_Subset DEF BalancesTyped, Balance
  <1>3. ASSUME NEW iter PROVE Adds(iter) <=> IsSetSum(iter, f, S)
    <2>1. \A s \in SUBSET S : s # {} => f[CHOOSE x \in s : TRUE] = Balance(t, CHOOSE x \in s : TRUE)
      BY <1>1
    <2> QED  BY <2>1 DEF IsSetSum
  <1>4. Adds(sum)
    <2>1. \E iter : IsSetSum(iter, f, S)
      BY <1>2, NetSolves
    <2> HIDE DEF Adds
    <2> QED  BY <1>3, <2>1
  <1>5. sum[S] = Net(f, S)
    BY <1>2, <1>3, <1>4, SetSumIsNet
  <1>6. MapThenSumSet(LAMBDA w : Balance(t, w), S) = sum[S]
    BY DEF MapThenSumSet, MapThenFoldSet
  <1>7. \A w \in S : f[w] = Worth(balances, t)[w]
    BY <1>1 DEF Balance, Worth
  <1>8. Net(f, S) = Net(Worth(balances, t), S)
    BY <1>7, NetEqual
  <1> QED  BY <1>5, <1>6, <1>8

\* It holds before the first round.
LEMMA CapsInit == MetricsInit => CapsInv
  <1> SUFFICES ASSUME MetricsInit PROVE CapsInv
    OBVIOUS
  <1>1. PICK K : K = {[w \in Wallets |-> IF w = Developer THEN base_supply
                                        ELSE IF w \in Holders THEN 0 ELSE s] : s \in {0, Unset}}
    OBVIOUS
  <1>2. balances \in [ToSet(Listed) -> K]
    BY <1>1 DEF MetricsInit
  <1>3. BalancesTyped
    <2>1. K \subseteq [Wallets -> Int \union {Unset}]
      BY <1>1, MetricsAssumption
    <2> QED  BY <1>2, <2>1 DEF MetricsInit, BalancesTyped
  <1>4. balance_updates = <<>> /\ capRound.read = Unset /\ capRound.left = <<>> /\ capped = {}
    BY DEF MetricsInit, Idle
  <1>5. TransferRows
    BY <1>4 DEF TransferRows
  <1>6. Conserved
    <2> SUFFICES ASSUME NEW t \in ToSet(Listed) PROVE Supply(balances, t) = base_supply
      BY <1>4, MetricsAssumption DEF Conserved, Halfway
    <2>1. PICK f : f = Worth(balances, t)
      OBVIOUS
    <2>2. f \in [Wallets -> Int]
      BY <1>3, <2>1, WorthInt DEF BalancesTyped
    <2>3. f[Developer] = base_supply /\ \A w \in StakingContracts \union Holders : f[w] = 0
      <3>1. PICK s \in {0, Unset} :
              balances[t] = [w \in Wallets |-> IF w = Developer THEN base_supply
                                               ELSE IF w \in Holders THEN 0 ELSE s]
        BY <1>1, <1>2
      <3>2. base_supply \in Int /\ Developer \in Wallets /\ Developer \notin StakingContracts \union Holders
            /\ StakingContracts \union Holders \subseteq Wallets
        BY MetricsAssumption DEF Wallets
      <3>3. f[Developer] = base_supply
        BY <2>1, <3>1, <3>2, MetricsAssumption DEF Worth
      <3>4. ASSUME NEW w \in StakingContracts \union Holders PROVE f[w] = 0
        BY <2>1, <3>1, <3>2, <3>4, MetricsAssumption DEF Worth
      <3> QED  BY <3>3, <3>4
    <2>4. Net(f, StakingContracts \union Holders) = 0
      BY <2>3, NetZero
    <2>5. Net(f, Wallets) = f[Developer] + Net(f, StakingContracts \union Holders)
      BY <2>2, SupplySplit
    <2> QED  BY <2>1, <2>3, <2>4, <2>5, MetricsAssumption DEF Supply
  <1>7. RoundTyped /\ RoundStands
    BY <1>4 DEF RoundTyped, RoundStands, MetricsInit, Idle
  <1> QED  BY <1>3, <1>5, <1>6, <1>7 DEF CapsInv

\* What leaves the balances and the transfers under way alone leaves the sums.
LEMMA ConservedFrame ==
  ASSUME Conserved, UNCHANGED <<balances, balance_updates>> PROVE Conserved'
  <1> SUFFICES ASSUME NEW t \in ToSet(Listed)
               PROVE  (Supply(balances, t) = base_supply
                         - (IF Halfway /\ Head(balance_updates).token = t THEN 1 ELSE 0))'
    BY DEF Conserved
  <1>1. Supply(balances, t) = base_supply
                         - (IF Halfway /\ Head(balance_updates).token = t THEN 1 ELSE 0)
    BY DEF Conserved
  <1> QED  BY <1>1 DEF Halfway

\* What leaves the transfers under way alone leaves what they were to write.
LEMMA RowsFrame ==
  ASSUME TransferRows, UNCHANGED <<balances, balance_updates, moved>> PROVE TransferRows'
  BY DEF TransferRows, Balance

\* What leaves the balances and the round alone leaves what the round read.
LEMMA RoundFrame ==
  ASSUME RoundTyped, RoundStands, UNCHANGED <<balances, circulating, capRound, capped, moved>>
  PROVE  RoundTyped' /\ RoundStands'
  <1>1. RoundTyped'
    BY DEF RoundTyped
  <1>2. (capRound.read # Unset => capRound.read = balances[Head(capRound.left)][Developer])' \/ moved'
    BY DEF RoundStands
  <1>3. ASSUME ~moved', NEW t \in capped'
        PROVE  (circulating[t] = Net(Worth(balances, t), Outside(t)))'
    <2>1. circulating[t] = Net(Worth(balances, t), Outside(t))
      BY <1>3 DEF RoundStands
    <2> QED  BY <2>1
  <1> QED  BY <1>1, <1>2, <1>3 DEF RoundStands

\* Who changes neither balances nor rounds leaves the invariant.
LEMMA CapsFrame ==
  ASSUME CapsInv, amm_meta_entity' \in {AmmToken, Unset},
         UNCHANGED <<balances, balance_updates, moved, circulating, capRound, capped>>
  PROVE  CapsInv'
  <1>1. BalancesTyped'
    BY DEF CapsInv, BalancesTyped
  <1>2. TransferRows'
    BY RowsFrame DEF CapsInv
  <1> QED  BY <1>1, <1>2, ConservedFrame, RoundFrame DEF CapsInv

\* The queue comes to a transfer.
LEMMA CapsTransfer ==
  ASSUME CapsInv, NEW t \in ToSet(Listed), NEW from \in Wallets, NEW to \in Wallets,
         saveTransfer(t, from, to)
  PROVE  CapsInv'
  <1> USE DEF saveTransfer, volumeVars, capVars
  <1>1. BalancesTyped'
    BY DEF CapsInv, BalancesTyped
  <1>2. TransferRows'
    BY DEF CapsInv, TransferRows, Balance
  <1>3. Conserved'
    <2>1. SUFFICES ASSUME NEW u \in ToSet(Listed)
                   PROVE  (Supply(balances, u) = base_supply
                             - (IF Halfway /\ Head(balance_updates).token = u THEN 1 ELSE 0))'
      BY DEF Conserved
    <2>2. ~Halfway /\ ~Halfway'
      BY DEF Halfway
    <2>3. Supply(balances, u) = base_supply - 0
      BY <2>2 DEF CapsInv, Conserved
    <2> QED  BY <2>2, <2>3
  <1> QED  BY <1>1, <1>2, <1>3, RoundFrame DEF CapsInv

\* One row of a transfer is written: the sender's makes it half done, the
\* receiver's whole.
LEMMA CapsWritten ==
  ASSUME CapsInv, updateBalance PROVE CapsInv'
  <1> USE DEF updateBalance, volumeVars, capVars
  <1>1. PICK t \in ToSet(Listed), from \in Wallets, to \in Wallets :
          /\ from # to
          /\ \/ balance_updates = <<[token |-> t, vk |-> from, amount |-> Balance(t, from) - 1],
                                    [token |-> t, vk |-> to, amount |-> Balance(t, to) + 1]>>
             \/ balance_updates = <<[token |-> t, vk |-> to, amount |-> Balance(t, to) + 1]>>
    BY DEF CapsInv, TransferRows
  <1>2. PICK b : b = balances
    OBVIOUS
  <1>3. PICK c : c = balances'
    OBVIOUS
  <1>4. /\ b \in [ToSet(Listed) -> [Wallets -> Int \union {Unset}]]
        /\ \A w \in Wallets : Balance(t, w) = Worth(b, t)[w] /\ Worth(b, t)[w] \in Int
    BY <1>2, WorthInt DEF CapsInv, BalancesTyped, Balance
  <1>5. ASSUME NEW w \in Wallets, NEW d \in Int,
               Head(balance_updates) = [token |-> t, vk |-> w, amount |-> Worth(b, t)[w] + d]
        PROVE  /\ BalancesTyped'
               /\ Supply(c, t) = Supply(b, t) + d
               /\ \A u \in ToSet(Listed) \ {t} : Supply(c, u) = Supply(b, u)
               /\ \A u \in Wallets \ {w} : Worth(c, t)[u] = Worth(b, t)[u]
    <2>1. PICK n : n = Worth(b, t)[w] + d
      OBVIOUS
    <2>2. Written(c, b, t, w, n) /\ n \in Int
      <3>1. PICK dto : dto = Head(balance_updates)
        OBVIOUS
      <3>2. dto.token = t /\ dto.vk = w /\ dto.amount = n
        BY <1>5, <2>1, <3>1
      <3>3. c = [b EXCEPT ![dto.token][dto.vk] = dto.amount]
        BY <1>2, <1>3, <3>1
      <3> QED  BY <1>4, <2>1, <3>2, <3>3 DEF Written
    <2>3. /\ c \in [ToSet(Listed) -> [Wallets -> Int \union {Unset}]]
          /\ Supply(c, t) = Supply(b, t) - Worth(b, t)[w] + n
          /\ \A u \in ToSet(Listed) \ {t} : Supply(c, u) = Supply(b, u)
          /\ \A u \in Wallets \ {w} : Worth(c, t)[u] = Worth(b, t)[u]
      BY <1>4, <2>2, RowWritten
    <2>4. Supply(b, t) \in Int /\ Worth(b, t)[w] \in Int
      BY <1>4, WorthInt
    <2>5. BalancesTyped'
      BY <1>3, <2>3 DEF CapsInv, BalancesTyped
    <2> QED  BY <2>1, <2>3, <2>4, <2>5
  <1>6. RoundTyped' /\ RoundStands'
    BY DEF CapsInv, RoundTyped, RoundStands
  <1>7. CASE balance_updates = <<[token |-> t, vk |-> from, amount |-> Balance(t, from) - 1],
                                 [token |-> t, vk |-> to, amount |-> Balance(t, to) + 1]>>
    <2>1. /\ Head(balance_updates) = [token |-> t, vk |-> from, amount |-> Worth(b, t)[from] + (-1)]
          /\ balance_updates' = <<[token |-> t, vk |-> to, amount |-> Worth(b, t)[to] + 1]>>
          /\ ~Halfway
      BY <1>4, <1>7 DEF Halfway
    <2>2. /\ BalancesTyped' /\ Supply(c, t) = Supply(b, t) + (-1)
          /\ \A u \in ToSet(Listed) \ {t} : Supply(c, u) = Supply(b, u)
          /\ \A u \in Wallets \ {from} : Worth(c, t)[u] = Worth(b, t)[u]
      BY <1>5, <2>1
    <2>3. TransferRows'
      <3>1. Balance(t, to)' = Worth(b, t)[to]
        <4>1. Worth(c, t)[to] = Worth(b, t)[to]
          BY <1>1, <2>2
        <4>2. Balance(t, to)' = Worth(c, t)[to]
          BY <1>3 DEF Balance, Worth
        <4> QED  BY <4>1, <4>2
      <3> QED  BY <1>1, <2>1, <3>1 DEF TransferRows
    <2>4. Conserved'
      <3>1. SUFFICES ASSUME NEW u \in ToSet(Listed)
                     PROVE  (Supply(balances, u) = base_supply
                               - (IF Halfway /\ Head(balance_updates).token = u THEN 1 ELSE 0))'
        BY DEF Conserved
      <3>2. Supply(b, u) = base_supply
        BY <1>2, <2>1, MetricsAssumption DEF CapsInv, Conserved
      <3>3. (Halfway /\ Head(balance_updates).token = t)'
        <4>1. PICK dto : dto = [token |-> t, vk |-> to, amount |-> Worth(b, t)[to] + 1]
          OBVIOUS
        <4>2. balance_updates' = <<dto>> /\ dto.token = t
          BY <2>1, <4>1
        <4>3. Len(<<dto>>) = 1 /\ Head(<<dto>>) = dto
          OBVIOUS
        <4>4. Halfway'
          BY <4>2, <4>3 DEF Halfway
        <4>5. Head(balance_updates)' = dto
          BY <4>2, <4>3
        <4> QED  BY <4>2, <4>4, <4>5
      <3>4. Supply(c, u) = base_supply - (IF u = t THEN 1 ELSE 0)
        BY <2>2, <3>2, MetricsAssumption
      <3> QED  BY <1>3, <3>3, <3>4
    <2> QED  BY <1>6, <2>2, <2>3, <2>4 DEF CapsInv
  <1>8. CASE balance_updates = <<[token |-> t, vk |-> to, amount |-> Balance(t, to) + 1]>>
    <2>1. /\ Head(balance_updates) = [token |-> t, vk |-> to, amount |-> Worth(b, t)[to] + 1]
          /\ balance_updates' = <<>> /\ Halfway /\ ~Halfway'
      BY <1>4, <1>8 DEF Halfway
    <2>2. /\ BalancesTyped' /\ Supply(c, t) = Supply(b, t) + 1
          /\ \A u \in ToSet(Listed) \ {t} : Supply(c, u) = Supply(b, u)
      BY <1>5, <2>1
    <2>3. TransferRows'
      BY <2>1 DEF TransferRows
    <2>4. Conserved'
      <3>1. SUFFICES ASSUME NEW u \in ToSet(Listed)
                     PROVE  (Supply(balances, u) = base_supply
                               - (IF Halfway /\ Head(balance_updates).token = u THEN 1 ELSE 0))'
        BY DEF Conserved
      <3>2. Supply(b, u) = base_supply - (IF u = t THEN 1 ELSE 0)
        BY <1>2, <2>1 DEF CapsInv, Conserved
      <3>3. Supply(c, u) = base_supply
        BY <2>2, <3>2, MetricsAssumption
      <3> QED  BY <1>3, <2>1, <3>3, MetricsAssumption
    <2> QED  BY <1>6, <2>2, <2>3, <2>4 DEF CapsInv
  <1> QED  BY <1>1, <1>7, <1>8

\* A round begins, over all markets.
LEMMA CapsBegin == ASSUME CapsInv, updateMarketCaps PROVE CapsInv'
  <1> USE DEF updateMarketCaps, volumeVars
  <1>1. BalancesTyped'
    BY DEF CapsInv, BalancesTyped
  <1>2. TransferRows'
    <2>1. CASE balance_updates = <<>>
      BY <2>1 DEF TransferRows
    <2>2. CASE balance_updates # <<>>
      <3>1. moved'
        BY <2>2
      <3> QED  BY <2>2, <3>1 DEF CapsInv, TransferRows, Balance
    <2> QED  BY <2>1, <2>2
  <1>3. capRound'.left = Listed /\ capRound'.read = Unset /\ capped' = {}
    OBVIOUS
  <1>4. RoundTyped'
    BY <1>3, MetricsAssumption DEF CapsInv, RoundTyped
  <1>5. RoundStands'
    BY <1>3 DEF RoundStands
  <1> QED  BY <1>1, <1>2, <1>4, <1>5, ConservedFrame DEF CapsInv

\* A round reads the developer's wallet.
LEMMA CapsRead == ASSUME CapsInv, readDeveloper PROVE CapsInv'
  <1> USE DEF readDeveloper, volumeVars, marketVars
  <1>1. BalancesTyped'
    BY DEF CapsInv, BalancesTyped
  <1>2. TransferRows'
    BY RowsFrame DEF CapsInv
  <1>3. /\ capRound' = [left |-> capRound.left, read |-> balances[Head(capRound.left)][Developer]]
        /\ capRound'.left = capRound.left
        /\ capRound'.read = balances[Head(capRound.left)][Developer]
    BY DEF CapsInv, RoundTyped
  <1>4. RoundTyped'
    BY <1>3 DEF CapsInv, RoundTyped
  <1>5. RoundStands'
    <2>1. (capRound.read # Unset => capRound.read = balances[Head(capRound.left)][Developer])'
      BY <1>3
    <2>2. ASSUME ~moved', NEW t \in capped'
          PROVE  (circulating[t] = Net(Worth(balances, t), Outside(t)))'
      <3>1. circulating[t] = Net(Worth(balances, t), Outside(t))
        BY <2>2 DEF CapsInv, RoundStands
      <3> QED  BY <3>1
    <2> QED  BY <2>1, <2>2 DEF RoundStands
  <1> QED  BY <1>1, <1>2, <1>4, <1>5, ConservedFrame DEF CapsInv

\* A round writes a supply: what there is, less what the developer and the
\* staking contracts have.
LEMMA CapsSupply == ASSUME CapsInv, calculateCirculatingSupply PROVE CapsInv'
  <1> USE DEF calculateCirculatingSupply, volumeVars, marketVars
  <1>1. BalancesTyped'
    BY DEF CapsInv, BalancesTyped
  <1>2. TransferRows'
    BY RowsFrame DEF CapsInv
  <1>3. PICK t : t = Head(capRound.left)
    OBVIOUS
  <1>4. t \in ToSet(Listed) /\ Tail(capRound.left) \in Seq(ToSet(Listed))
    BY <1>3 DEF CapsInv, RoundTyped
  <1>5. PICK staked : staked = IF t = amm_meta_entity THEN StakingContracts ELSE {}
    OBVIOUS
  <1>6. CASE capRound' = Idle /\ UNCHANGED <<circulating, capped>>
    <2>1. capRound'.left = <<>> /\ capRound'.read = Unset /\ capRound' = [left |-> <<>>, read |-> Unset]
      BY <1>6 DEF Idle
    <2>2. RoundTyped'
      BY <1>6, <2>1 DEF CapsInv, RoundTyped
    <2>3. ASSUME ~moved', NEW u \in capped'
          PROVE  (circulating[u] = Net(Worth(balances, u), Outside(u)))'
      <3>1. circulating[u] = Net(Worth(balances, u), Outside(u))
        BY <1>6, <2>3 DEF CapsInv, RoundStands
      <3> QED  BY <1>6, <3>1
    <2>4. RoundStands'
      BY <2>1, <2>3 DEF RoundStands
    <2> QED  BY <1>1, <1>2, <2>2, <2>4, ConservedFrame DEF CapsInv
  <1>7. CASE /\ amm_meta_entity # Unset
             /\ circulating' = [circulating EXCEPT ![t] =
                  base_supply - capRound.read - MapThenSumSet(LAMBDA w : Balance(t, w), staked)]
             /\ capped' = capped \union {t}
             /\ capRound' = [left |-> Tail(capRound.left), read |-> Unset]
    <2>1. capRound'.left = Tail(capRound.left) /\ capRound'.read = Unset
      BY <1>7
    <2>2. RoundTyped'
      BY <1>4, <1>7, <2>1 DEF CapsInv, RoundTyped
    <2>3. PICK f : f = Worth(balances, t)
      OBVIOUS
    <2>4. f \in [Wallets -> Int] /\ base_supply \in Int
      BY <1>4, <2>3, WorthInt, MetricsAssumption DEF CapsInv, BalancesTyped
    <2>5. ASSUME ~moved PROVE circulating'[t] = Net(f, Outside(t))
      <3>1. Net(f, Wallets) = base_supply
        <4>1. ~Halfway
          BY <2>5 DEF CapsInv, TransferRows, Halfway
        <4>2. Supply(balances, t) = base_supply - 0
          BY <1>4, <4>1 DEF CapsInv, Conserved
        <4> QED  BY <2>3, <2>4, <4>2 DEF Supply
      <3>2. capRound.read = f[Developer]
        <4>1. capRound.read = balances[t][Developer] /\ capRound.read # Unset
          BY <1>3, <2>5 DEF CapsInv, RoundStands
        <4>2. Developer \in Wallets
          BY DEF Wallets
        <4> QED  BY <2>3, <4>1, <4>2 DEF Worth
      <3>3. MapThenSumSet(LAMBDA w : Balance(t, w), staked) = Net(f, staked)
        <4>1. staked \in SUBSET Wallets
          BY <1>5 DEF Wallets
        <4> QED  BY <1>4, <2>3, <4>1, HeldSum DEF CapsInv
      <3>4. circulating'[t] = base_supply - f[Developer] - Net(f, staked)
        BY <1>4, <1>7, <3>2, <3>3 DEF CapsInv, RoundTyped
      <3>5. /\ Net(f, Wallets) = f[Developer] + Net(f, StakingContracts \union Holders)
            /\ Net(f, StakingContracts \union Holders) = Net(f, StakingContracts) + Net(f, Holders)
            /\ Net(f, StakingContracts) \in Int /\ Net(f, Holders) \in Int /\ f[Developer] \in Int
        BY <2>4, SupplySplit
      <3>6. amm_meta_entity = AmmToken
        BY <1>7 DEF CapsInv, BalancesTyped
      <3>7. CASE t = AmmToken
        <4>1. staked = StakingContracts /\ Outside(t) = Holders
          BY <1>5, <3>6, <3>7 DEF Outside
        <4> QED  BY <2>4, <3>1, <3>4, <3>5, <4>1
      <3>8. CASE t # AmmToken
        <4>1. staked = {} /\ Outside(t) = StakingContracts \union Holders
          BY <1>5, <3>6, <3>8 DEF Outside
        <4>2. Net(f, staked) = 0
          BY <4>1, NetZero
        <4> QED  BY <2>4, <3>1, <3>4, <3>5, <4>1, <4>2
      <3> QED  BY <3>7, <3>8
    <2>6. ASSUME ~moved', NEW u \in capped'
          PROVE  (circulating[u] = Net(Worth(balances, u), Outside(u)))'
      <3>1. CASE u = t
        <4>1. circulating'[t] = Net(f, Outside(t))
          BY <2>5, <2>6
        <4> QED  BY <2>3, <3>1, <4>1
      <3>2. CASE u # t
        <4>1. circulating[u] = Net(Worth(balances, u), Outside(u))
          BY <1>7, <2>6, <3>2 DEF CapsInv, RoundStands
        <4>2. circulating'[u] = circulating[u]
          BY <1>7, <2>6, <3>2 DEF CapsInv, RoundTyped
        <4> QED  BY <4>1, <4>2
      <3> QED  BY <3>1, <3>2
    <2>7. RoundStands'
      BY <2>1, <2>6 DEF RoundStands
    <2> QED  BY <1>1, <1>2, <2>2, <2>7, ConservedFrame DEF CapsInv
  <1>8. CASE amm_meta_entity = Unset \/ \E w \in staked : ~HasRow(w)
    BY <1>3, <1>5, <1>6, <1>8
  <1>9. CASE ~(amm_meta_entity = Unset \/ \E w \in staked : ~HasRow(w))
    BY <1>3, <1>5, <1>7, <1>9
  <1> QED  BY <1>8, <1>9

\* Summaries of the markets, trades and hours do not touch it.
LEMMA CapsVolumes ==
  VolumesNext => UNCHANGED <<balances, balance_updates, amm_meta_entity, moved, circulating, capRound, capped>>
  BY DEF VolumesNext, saveTradeOf, HourPasses, updateDailyVolumes, getLastYesterdayTrade,
         getTradesLastDay, marketVars, capVars

\* The invariant of the rounds of market values.
THEOREM CapsInductive == MetricsSpec => []CapsInv
  <1>1. MetricsInit => CapsInv
    BY CapsInit
  <1>2. CapsInv /\ [VolumesNext \/ CapsNext]_metricsVars => CapsInv'
    <2> SUFFICES ASSUME CapsInv, [VolumesNext \/ CapsNext]_metricsVars PROVE CapsInv'
      OBVIOUS
    <2>1. CASE VolumesNext
      <3>1. amm_meta_entity' \in {AmmToken, Unset}
        BY <2>1, CapsVolumes DEF CapsInv, BalancesTyped
      <3> QED  BY <2>1, <3>1, CapsVolumes, CapsFrame
    <2>2. CASE UNCHANGED metricsVars
      <3>1. amm_meta_entity' \in {AmmToken, Unset}
        BY <2>2 DEF CapsInv, BalancesTyped, metricsVars, marketVars
      <3> QED  BY <2>2, <3>1, CapsFrame DEF metricsVars, marketVars, capVars
    <2>3. CASE updateAmmMeta
      BY <2>3, CapsFrame DEF updateAmmMeta, capVars
    <2>4. CASE \E t \in ToSet(Listed), from, to \in Wallets : saveTransfer(t, from, to)
      BY <2>4, CapsTransfer
    <2> QED  BY <2>1, <2>2, <2>3, <2>4, CapsWritten, CapsBegin, CapsRead, CapsSupply DEF CapsNext
  <1> QED  BY <1>1, <1>2, PTL DEF MetricsSpec

\* calculateCirculatingSupply: a round during which no transfer is written says
\* of each supply what is neither the developer's nor, of the AMM's token, staked.
THEOREM CirculatingIsWhatIsHeld == MetricsSpec => []CirculatingIsHeld
  <1>1. CapsInv => CirculatingIsHeld
    <2> SUFFICES ASSUME CapsInv, ~moved, NEW t \in capped
                 PROVE  circulating[t] = MapThenSumSet(LAMBDA w : Balance(t, w),
                          Holders \union (IF t = AmmToken THEN {} ELSE StakingContracts))
      BY DEF CirculatingIsHeld
    <2>1. t \in ToSet(Listed) /\ Outside(t) \in SUBSET Wallets
      BY WalletsFinite DEF CapsInv, RoundTyped
    <2>2. MapThenSumSet(LAMBDA w : Balance(t, w), Outside(t)) = Net(Worth(balances, t), Outside(t))
      BY <2>1, HeldSum DEF CapsInv
    <2>3. circulating[t] = Net(Worth(balances, t), Outside(t))
      BY DEF CapsInv, RoundStands
    <2> QED  BY <2>2, <2>3 DEF Outside
  <1> QED  BY <1>1, CapsInductive, PTL

-----------------------------------------------------------------------------
(* The summaries of a market's day *)

Sales == [market : ToSet(Listed), time : Int, price : Int]

\* How many markets the round has left behind.
Passed == Len(Listed) - Len(volumeRound.left)

\* What the round has to go through is the end of the list.
VolumesTyped ==
  /\ sales \in Seq(Sales) /\ hour \in Int
  /\ DOMAIN VolumeMetrics = ToSet(Listed)
  /\ summed = Unset \/ (summed \in Int /\ summed <= hour)
  /\ volumeRound = [left |-> volumeRound.left, read |-> volumeRound.read]
  /\ volumeRound.left \in Seq(ToSet(Listed)) /\ Len(volumeRound.left) <= Len(Listed)
  /\ \A k \in 1 .. Len(volumeRound.left) : volumeRound.left[k] = Listed[Passed + k]
  /\ volumeRound.read # Unset => volumeRound.read \in Int /\ volumeRound.left # <<>>

\* The i-th market has a summary of this hour, and its last price is between the extremes.
Summed(i) ==
  LET rec == VolumeMetrics[Listed[i]] IN
  rec # Unset /\ rec.TimeStamp = hour /\ rec.Low <= rec.Last /\ rec.Last <= rec.High

\* The round left summaries behind, and ends before its last market only
\* where that has no trade from before.
SummariesFollow ==
  summed = hour =>
    IF volumeRound.left # <<>> THEN \A i \in 1 .. Passed : Summed(i)
    ELSE \E p \in 0 .. Len(Listed) :
           /\ \A i \in 1 .. p : Summed(i)
           /\ p < Len(Listed) => Yesterday(Listed[p + 1]) = {}

VolumesInv == VolumesTyped /\ SummariesFollow

\* Among finitely many prices one is the highest.
LEMMA HighestExists ==
  ASSUME NEW n \in Nat, NEW f \in [1 .. n -> Int], NEW D \in SUBSET (1 .. n), D # {}
  PROVE  \E i \in D : \A j \in D : f[j] <= f[i]
  <1> DEFINE T == {k \in Nat : \A S \in SUBSET ((1 .. k) \cap (1 .. n)) :
                                 S # {} => \E i \in S : \A j \in S : f[j] <= f[i]}
  <1>1. 0 \in T
    <2>1. 1 .. 0 = {}
      OBVIOUS
    <2> QED  BY <2>1
  <1>2. ASSUME NEW k \in T PROVE k + 1 \in T
    <2>0. k + 1 \in Nat
      OBVIOUS
    <2> SUFFICES ASSUME NEW S \in SUBSET ((1 .. k + 1) \cap (1 .. n)), S # {}
                 PROVE  \E i \in S : \A j \in S : f[j] <= f[i]
      BY <2>0, Zenon
    <2>1. S \ {k + 1} \in SUBSET ((1 .. k) \cap (1 .. n))
      BY <1>2
    <2>2. \A j \in S : f[j] \in Int
      OBVIOUS
    <2>3. CASE S \ {k + 1} = {}
      <3>1. S = {k + 1}
        BY <2>3
      <3> QED  BY <2>2, <3>1
    <2>4. CASE S \ {k + 1} # {}
      <3>1. PICK i \in S \ {k + 1} : \A j \in S \ {k + 1} : f[j] <= f[i]
        BY <1>2, <2>1, <2>4
      <3> HIDE DEF T
      <3>2. CASE k + 1 \in S /\ f[k + 1] > f[i]
        <4>1. ASSUME NEW j \in S PROVE f[j] <= f[k + 1]
          <5>1. CASE j = k + 1
            BY <2>2, <5>1
          <5>2. CASE j # k + 1
            <6>1. f[j] <= f[i]
              BY <3>1, <5>2
            <6>2. f[j] \in Int /\ f[i] \in Int /\ f[k + 1] \in Int
              BY <2>2, <3>1, <3>2
            <6> QED  BY <3>2, <6>1, <6>2
          <5> QED  BY <5>1, <5>2
        <4> QED  BY <3>2, <4>1
      <3>3. CASE ~(k + 1 \in S /\ f[k + 1] > f[i])
        <4>1. ASSUME NEW j \in S PROVE f[j] <= f[i]
          <5>1. CASE j = k + 1
            <6>1. f[j] \in Int /\ f[i] \in Int
              BY <2>2, <3>1
            <6> QED  BY <3>3, <5>1, <6>1
          <5> QED  BY <3>1, <5>1
        <4> QED  BY <3>1, <4>1
      <3> QED  BY <3>2, <3>3
    <2> QED  BY <2>3, <2>4
  <1> HIDE DEF T
  <1>3. n \in T /\ (1 .. n) \cap (1 .. n) = 1 .. n
    BY <1>1, <1>2, NatSetInduction DEF T
  <1> QED  BY <1>3 DEF T

\* The extremes of some places' values are values, and the values are between.
LEMMA ExtremesOf ==
  ASSUME NEW n \in Nat, NEW f \in [1 .. n -> Int], NEW D \in SUBSET (1 .. n), D # {},
         NEW S, S = {f[i] : i \in D}
  PROVE  /\ Max(S) \in S /\ \A x \in S : x <= Max(S)
         /\ Min(S) \in S /\ \A x \in S : Min(S) <= x
  <1>1. S \subseteq Int
    OBVIOUS
  <1>2. \E x \in S : \A y \in S : x >= y
    <2>1. PICK i \in D : \A j \in D : f[j] <= f[i]
      BY HighestExists
    <2>2. f[i] \in S /\ \A y \in S : f[i] >= y
      BY <1>1, <2>1
    <2> QED  BY <2>2
  <1>3. \E x \in S : \A y \in S : x =< y
    <2>1. PICK g : g = [i \in 1 .. n |-> 0 - f[i]]
      OBVIOUS
    <2>2. g \in [1 .. n -> Int]
      BY <2>1
    <2>3. PICK i \in D : \A j \in D : g[j] <= g[i]
      BY <2>2, HighestExists
    <2>4. ASSUME NEW j \in D PROVE f[i] <= f[j]
      <3>1. g[j] <= g[i] /\ g[j] = 0 - f[j] /\ g[i] = 0 - f[i] /\ f[i] \in Int /\ f[j] \in Int
        BY <2>1, <2>3
      <3> QED  BY <3>1
    <2>5. f[i] \in S /\ \A y \in S : f[i] =< y
      BY <2>4
    <2> QED  BY <2>5
  <1>4. Max(S) \in S /\ \A x \in S : Max(S) >= x
    BY <1>2 DEF Max
  <1>5. Min(S) \in S /\ \A x \in S : Min(S) =< x
    BY <1>3 DEF Min
  <1> QED  BY <1>1, <1>4, <1>5

\* A market's trades are places in the table, and the latest is one of them.
LEMMA LatestOf ==
  ASSUME VolumesTyped, NEW D \in SUBSET (DOMAIN sales), D # {}
  PROVE  /\ Max(D) \in D
         /\ {sales[Max(D)].price, Max(PricesOf(D)), Min(PricesOf(D))} \subseteq Int
         /\ sales[Max(D)].price <= Max(PricesOf(D)) /\ Min(PricesOf(D)) <= sales[Max(D)].price
  <1>1. Len(sales) \in Nat /\ DOMAIN sales = 1 .. Len(sales)
        /\ \A i \in 1 .. Len(sales) : sales[i].price \in Int
    <2>1. sales \in Seq(Sales)
      BY DEF VolumesTyped
    <2>2. Len(sales) \in Nat /\ DOMAIN sales = 1 .. Len(sales)
          /\ \A i \in 1 .. Len(sales) : sales[i] \in Sales
      BY <2>1
    <2> QED  BY <2>2 DEF Sales
  <1>2. PICK f : f = [i \in 1 .. Len(sales) |-> sales[i].price]
    OBVIOUS
  <1>3. PICK g : g = [i \in 1 .. Len(sales) |-> i]
    OBVIOUS
  <1>4. f \in [1 .. Len(sales) -> Int] /\ g \in [1 .. Len(sales) -> Int] /\ D \in SUBSET (1 .. Len(sales))
    BY <1>1, <1>2, <1>3
  <1>5. D = {g[i] : i \in D}
    BY <1>1, <1>3
  <1>6. PricesOf(D) = {f[i] : i \in D}
    BY <1>1, <1>2 DEF PricesOf
  <1>7. Max(D) \in D
    BY <1>1, <1>4, <1>5, ExtremesOf
  <1>8. sales[Max(D)].price \in PricesOf(D)
    BY <1>7 DEF PricesOf
  <1>9. /\ \A x \in PricesOf(D) : x <= Max(PricesOf(D))
        /\ \A x \in PricesOf(D) : Min(PricesOf(D)) <= x
        /\ Max(PricesOf(D)) \in PricesOf(D) /\ Min(PricesOf(D)) \in PricesOf(D)
    BY <1>1, <1>4, <1>6, ExtremesOf
  <1>10. PricesOf(D) \subseteq Int
    BY <1>1 DEF PricesOf
  <1> QED  BY <1>7, <1>8, <1>9, <1>10

\* The volume of a day is a number.
LEMMA VolumeInt ==
  ASSUME VolumesTyped, NEW D \in SUBSET (DOMAIN sales)
  PROVE  Cardinality(D) \in Int /\ BaseVolume(D) \in Int
  <1>1. sales \in Seq(Sales)
    BY DEF VolumesTyped
  <1>2. DOMAIN sales = 1 .. Len(sales) /\ Len(sales) \in Nat
        /\ \A i \in DOMAIN sales : sales[i] \in Sales
    BY <1>1
  <1>3. IsFiniteSet(D)
    <2>1. IsFiniteSet(1 .. Len(sales)) /\ D \subseteq 1 .. Len(sales)
      BY <1>2, FS_Interval
    <2> QED  BY <2>1, FS_Subset
  <1>4. PICK f : f = [i \in D |-> sales[i].price]
    OBVIOUS
  <1> DEFINE Adds(iter) == iter = [s \in SUBSET D |->
                             IF s = {} THEN 0
                             ELSE sales[CHOOSE x \in s : TRUE].price
                                    + iter[s \ {CHOOSE x \in s : TRUE}]]
             sum == CHOOSE iter : Adds(iter)
  <1>5. f \in [D -> Int]
    BY <1>2, <1>4 DEF Sales
  <1>6. ASSUME NEW iter PROVE Adds(iter) <=> IsSetSum(iter, f, D)
    <2>1. \A s \in SUBSET D : s # {} => f[CHOOSE x \in s : TRUE] = sales[CHOOSE x \in s : TRUE].price
      BY <1>4
    <2> QED  BY <2>1 DEF IsSetSum
  <1>7. Adds(sum)
    <2>1. \E iter : IsSetSum(iter, f, D)
      BY <1>3, <1>5, NetSolves
    <2> HIDE DEF Adds
    <2> QED  BY <1>6, <2>1
  <1>8. sum[D] = Net(f, D) /\ Net(f, D) \in Int
    BY <1>3, <1>5, <1>6, <1>7, SetSumIsNet, NetInt
  <1>9. BaseVolume(D) = sum[D]
    BY DEF BaseVolume, MapThenSumSet, MapThenFoldSet
  <1>10. Cardinality(D) \in Int
    BY <1>3, FS_CardinalityType
  <1> QED  BY <1>8, <1>9, <1>10

\* A finite set as a sequence has its members.
LEMMA SequenceOf ==
  ASSUME NEW S, IsFiniteSet(S)
  PROVE  SetToSeq(S) \in Seq(S)
  <1>1. PICK n \in Nat : ExistsBijection(1 .. n, S)
    BY FS_NatBijection
  <1>2. Cardinality(S) = n
    BY <1>1, FS_CountingElements
  <1>3. PICK f \in Bijection(1 .. n, S) : TRUE
    BY <1>1 DEF ExistsBijection
  <1>4. f \in [1 .. Cardinality(S) -> S] /\ IsInjective(f)
    BY <1>2, <1>3 DEF Bijection, Injection, IsInjective
  <1>5. SetToSeq(S) \in [1 .. Cardinality(S) -> S]
    BY <1>4 DEF SetToSeq
  <1> QED  BY <1>2, <1>5, SeqDef

\* At the start a market has a trade or none, and nothing was summed up.
LEMMA VolumesInit == MetricsInit => VolumesInv
  <1> SUFFICES ASSUME MetricsInit PROVE VolumesInv
    OBVIOUS
  <1>1. PICK old \in SUBSET ToSet(Listed) :
          sales = SetToSeq({[market |-> m, time |-> 0, price |-> 1] : m \in old})
    BY DEF MetricsInit
  <1>2. PICK S : S = {[market |-> m, time |-> 0, price |-> 1] : m \in old}
    OBVIOUS
  <1>3. PICK n \in Nat : Listed \in [1 .. n -> ToSet(Listed)] /\ n = Len(Listed)
    BY MetricsAssumption, LenProperties
  <1>4. IsFiniteSet(old)
    <2>1. Listed \in Surjection(1 .. n, ToSet(Listed))
      BY <1>3 DEF Surjection, ToSet
    <2>2. IsFiniteSet(ToSet(Listed))
      BY <2>1, FS_NatSurjection DEF ExistsSurjection
    <2> QED  BY <2>2, FS_Subset
  <1>5. IsFiniteSet(S)
    <2>1. PICK f : f = [m \in old |-> [market |-> m, time |-> 0, price |-> 1]]
      OBVIOUS
    <2>2. f \in [old -> S] /\ \A x \in S : \E m \in old : f[m] = x
      BY <1>2, <2>1
    <2>3. f \in Surjection(old, S)
      BY <2>2 DEF Surjection
    <2> QED  BY <1>4, <2>3, FS_Surjection
  <1>6. sales \in Seq(Sales)
    <2>1. S \subseteq Sales
      BY <1>2 DEF Sales
    <2>2. sales \in Seq(S)
      BY <1>1, <1>2, <1>5, SequenceOf
    <2> QED  BY <2>1, <2>2, SeqDef
  <1>7. hour \in Int /\ summed = Unset /\ summed # hour
    BY MetricsAssumption DEF MetricsInit
  <1>8. volumeRound = [left |-> <<>>, read |-> Unset] /\ DOMAIN VolumeMetrics = ToSet(Listed)
    BY DEF MetricsInit, Idle
  <1>9. volumeRound.left = <<>> /\ volumeRound.read = Unset
    BY <1>8
  <1>10. VolumesTyped
    <2>1. volumeRound = [left |-> volumeRound.left, read |-> volumeRound.read]
      BY <1>8, <1>9
    <2>2. volumeRound.left \in Seq(ToSet(Listed)) /\ Len(volumeRound.left) = 0 /\ 1 .. 0 = {}
      BY <1>9
    <2>3. \A k \in 1 .. Len(volumeRound.left) : volumeRound.left[k] = Listed[Passed + k]
      BY <2>2
    <2> QED  BY <1>3, <1>6, <1>7, <1>8, <1>9, <2>1, <2>2, <2>3 DEF VolumesTyped
  <1> QED  BY <1>7, <1>10 DEF VolumesInv, SummariesFollow

\* What leaves trades, hours and summaries alone.
LEMMA VolumesFrame ==
  ASSUME VolumesInv, UNCHANGED <<hour, sales, volumeVars>> PROVE VolumesInv'
  BY DEF VolumesInv, VolumesTyped, SummariesFollow, Summed, Yesterday, Passed, volumeVars

\* A trade of this hour is not one of before.
LEMMA VolumesTrade ==
  ASSUME VolumesInv, NEW m \in ToSet(Listed), NEW price \in Prices, saveTradeOf(m, price)
  PROVE  VolumesInv'
  <1>1. PICK x : x = [market |-> m, time |-> hour, price |-> price]
    OBVIOUS
  <1>2. x \in Sales /\ hour \in Int /\ Day \in Nat /\ sales \in Seq(Sales)
    BY <1>1, MetricsAssumption DEF Sales, VolumesInv, VolumesTyped
  <1>3. sales' = Append(sales, x) /\ UNCHANGED <<hour, VolumeMetrics, volumeRound, summed>>
    BY <1>1 DEF saveTradeOf, volumeVars
  <1>4. sales' \in Seq(Sales) /\ Len(sales') = Len(sales) + 1
        /\ DOMAIN sales' = 1 .. Len(sales) + 1 /\ DOMAIN sales = 1 .. Len(sales) /\ Len(sales) \in Nat
        /\ sales'[Len(sales) + 1] = x /\ \A i \in 1 .. Len(sales) : sales'[i] = sales[i]
    BY <1>2, <1>3
  <1>5. ASSUME NEW c PROVE Yesterday(c)' = Yesterday(c)
    <2>1. ~(x.time < hour - Day)
      BY <1>1, <1>2
    <2> QED  BY <1>3, <1>4, <2>1 DEF Yesterday
  <1>6. VolumesTyped'
    BY <1>3, <1>4 DEF VolumesInv, VolumesTyped, Passed
  <1>7. SummariesFollow'
    BY <1>3, <1>5 DEF VolumesInv, SummariesFollow, Summed, Passed
  <1> QED  BY <1>6, <1>7 DEF VolumesInv

\* With another hour the summaries are old.
LEMMA VolumesHour == ASSUME VolumesInv, HourPasses PROVE VolumesInv'
  <1>1. hour' = hour + 1 /\ hour \in Int /\ UNCHANGED <<sales, VolumeMetrics, volumeRound, summed>>
    BY DEF HourPasses, volumeVars, VolumesInv, VolumesTyped
  <1>2. VolumesTyped'
    <2>1. hour' \in Int /\ (summed' = Unset \/ (summed' \in Int /\ summed' <= hour'))
      BY <1>1 DEF VolumesInv, VolumesTyped
    <2> QED  BY <1>1, <2>1 DEF VolumesInv, VolumesTyped, Passed
  <1>3. summed' # hour'
    BY <1>1, MetricsAssumption DEF VolumesInv, VolumesTyped
  <1> QED  BY <1>2, <1>3 DEF VolumesInv, SummariesFollow

\* A round has all markets to go through.
LEMMA VolumesBegin == ASSUME VolumesInv, updateDailyVolumes PROVE VolumesInv'
  <1>1. /\ volumeRound' = [left |-> Listed, read |-> Unset] /\ summed' = hour
        /\ UNCHANGED <<sales, hour, VolumeMetrics>>
    BY DEF updateDailyVolumes, marketVars
  <1>2. volumeRound'.left = Listed /\ volumeRound'.read = Unset /\ Passed' = 0
        /\ Listed \in Seq(ToSet(Listed)) /\ Len(Listed) \in Nat
    BY <1>1, MetricsAssumption DEF Passed
  <1>3. VolumesTyped'
    BY <1>1, <1>2 DEF VolumesInv, VolumesTyped
  <1>4. SummariesFollow'
    <2>1. CASE Listed # <<>>
      BY <1>2, <2>1 DEF SummariesFollow
    <2>2. CASE Listed = <<>>
      BY <1>2, <2>2 DEF SummariesFollow
    <2> QED  BY <2>1, <2>2
  <1> QED  BY <1>3, <1>4 DEF VolumesInv

\* The round goes on if the market has a trade from before.
LEMMA VolumesYesterday == ASSUME VolumesInv, getLastYesterdayTrade PROVE VolumesInv'
  <1>1. PICK m : m = Head(volumeRound.left)
    OBVIOUS
  <1>2. PICK left : left = volumeRound.left
    OBVIOUS
  <1>3. /\ left # <<>> /\ left \in Seq(ToSet(Listed)) /\ Len(left) <= Len(Listed) /\ Len(left) \in Nat \ {0}
        /\ Len(Listed) \in Nat /\ m = Listed[Passed + 1] /\ Passed \in 0 .. Len(Listed) - 1
        /\ volumeRound = [left |-> left, read |-> Unset]
        /\ UNCHANGED <<sales, hour, VolumeMetrics, summed>>
        /\ volumeRound' = IF Yesterday(m) = {} THEN Idle
                          ELSE [volumeRound EXCEPT !.read = sales[Max(Yesterday(m))].price]
    <2>1. left # <<>> /\ left \in Seq(ToSet(Listed)) /\ Len(left) <= Len(Listed)
          /\ volumeRound = [left |-> left, read |-> Unset]
          /\ \A k \in 1 .. Len(left) : left[k] = Listed[Passed + k]
      BY <1>2 DEF getLastYesterdayTrade, VolumesInv, VolumesTyped
    <2>2. Len(left) \in Nat \ {0} /\ Len(Listed) \in Nat /\ m = left[1]
      BY <1>1, <1>2, <2>1, MetricsAssumption, LenProperties, EmptySeq
    <2>3. Passed = Len(Listed) - Len(left)
      BY <1>2 DEF Passed
    <2> QED  BY <1>1, <2>1, <2>2, <2>3 DEF getLastYesterdayTrade, marketVars
  <1>4. CASE Yesterday(m) = {}
    <2>1. volumeRound' = [left |-> <<>>, read |-> Unset]
      BY <1>3, <1>4 DEF Idle
    <2>2. volumeRound'.left = <<>> /\ volumeRound'.read = Unset
      BY <2>1
    <2>3. VolumesTyped'
      <3>1. volumeRound'.left \in Seq(ToSet(Listed)) /\ Len(volumeRound'.left) = 0 /\ 1 .. 0 = {}
        BY <2>2
      <3>2. \A k \in 1 .. Len(volumeRound'.left) : volumeRound'.left[k] = Listed[Passed' + k]
        BY <3>1
      <3>3. volumeRound' = [left |-> volumeRound'.left, read |-> volumeRound'.read]
        BY <2>1, <2>2
      <3> QED  BY <1>3, <2>2, <3>1, <3>2, <3>3 DEF VolumesInv, VolumesTyped
    <2>4. Yesterday(m)' = {}
      BY <1>3, <1>4 DEF Yesterday
    <2>5. summed' = hour' => \A i \in 1 .. Passed : Summed(i)'
      BY <1>2, <1>3 DEF VolumesInv, SummariesFollow, Summed
    <2>6. SummariesFollow'
      BY <1>3, <2>2, <2>4, <2>5 DEF SummariesFollow
    <2> QED  BY <2>3, <2>6 DEF VolumesInv
  <1>5. CASE Yesterday(m) # {}
    <2>1. PICK price : price = sales[Max(Yesterday(m))].price
      OBVIOUS
    <2>2. price \in Int
      <3>1. Yesterday(m) \in SUBSET (DOMAIN sales)
        BY DEF Yesterday
      <3> QED  BY <1>5, <2>1, <3>1, LatestOf DEF VolumesInv
    <2>3. volumeRound' = [left |-> left, read |-> price]
      BY <1>3, <1>5, <2>1
    <2>4. volumeRound'.left = left /\ volumeRound'.read = price /\ Passed' = Passed
      BY <1>2, <2>3 DEF Passed
    <2>5. VolumesTyped'
      BY <1>2, <1>3, <2>2, <2>3, <2>4 DEF VolumesInv, VolumesTyped
    <2>6. SummariesFollow'
      BY <1>2, <1>3, <2>4 DEF VolumesInv, SummariesFollow, Summed
    <2> QED  BY <2>5, <2>6 DEF VolumesInv
  <1> QED  BY <1>4, <1>5

\* The market gets its summary.
LEMMA VolumesSummary == ASSUME VolumesInv, getTradesLastDay PROVE VolumesInv'
  <1>1. PICK m : m = Head(volumeRound.left)
    OBVIOUS
  <1>2. PICK left : left = volumeRound.left
    OBVIOUS
  <1>3. PICK price : price = volumeRound.read
    OBVIOUS
  <1>4. PICK rec : rec = calculateMetrics(LastDay(m), price)
    OBVIOUS
  <1>5. /\ left # <<>> /\ left \in Seq(ToSet(Listed)) /\ Len(left) <= Len(Listed) /\ Len(left) \in Nat \ {0}
        /\ Len(Listed) \in Nat /\ m = Listed[Passed + 1] /\ m \in ToSet(Listed)
        /\ Passed = Len(Listed) - Len(left) /\ \A k \in 1 .. Len(left) : left[k] = Listed[Passed + k]
    <2>1. left # <<>> /\ left \in Seq(ToSet(Listed)) /\ Len(left) <= Len(Listed)
          /\ \A k \in 1 .. Len(left) : left[k] = Listed[Passed + k]
      BY <1>2 DEF getTradesLastDay, VolumesInv, VolumesTyped
    <2>2. Len(left) \in Nat \ {0} /\ Len(Listed) \in Nat /\ m = left[1] /\ m \in ToSet(Listed)
      BY <1>1, <1>2, <2>1, MetricsAssumption, LenProperties, EmptySeq
    <2>3. Passed = Len(Listed) - Len(left)
      BY <1>2 DEF Passed
    <2> QED  BY <2>1, <2>2, <2>3
  <1>6. /\ price \in Int /\ UNCHANGED <<sales, hour, summed>> /\ hour \in Int
        /\ VolumeMetrics' = [VolumeMetrics EXCEPT ![m] = rec]
        /\ volumeRound' = [left |-> Tail(left), read |-> Unset]
        /\ DOMAIN VolumeMetrics = ToSet(Listed)
    BY <1>1, <1>2, <1>3, <1>4 DEF getTradesLastDay, VolumesInv, VolumesTyped, marketVars
  <1>7. rec \in Summaries /\ rec.TimeStamp = hour /\ rec.Low <= rec.Last /\ rec.Last <= rec.High
    <2>1. PICK D : D = LastDay(m)
      OBVIOUS
    <2>2. D \in SUBSET (DOMAIN sales)
      BY <2>1 DEF LastDay
    <2>3. rec = [PrevDay |-> price, TimeStamp |-> hour,
                 Volume |-> Cardinality(D), BaseVolume |-> BaseVolume(D),
                 High |-> IF D = {} THEN price ELSE Max(PricesOf(D)),
                 Low |-> IF D = {} THEN price ELSE Min(PricesOf(D)),
                 Last |-> IF D = {} THEN price ELSE sales[Max(D)].price]
      BY <1>4, <2>1 DEF calculateMetrics
    <2>4. PICK v, b : v = Cardinality(D) /\ b = BaseVolume(D)
      OBVIOUS
    <2>5. v \in Int /\ b \in Int
      BY <2>2, <2>4, VolumeInt DEF VolumesInv
    <2>6. /\ rec.TimeStamp = hour
          /\ rec.High = IF D = {} THEN price ELSE Max(PricesOf(D))
          /\ rec.Low = IF D = {} THEN price ELSE Min(PricesOf(D))
          /\ rec.Last = IF D = {} THEN price ELSE sales[Max(D)].price
      BY <2>3
    <2>7. CASE D = {}
      <3>1. rec = [PrevDay |-> price, TimeStamp |-> hour, Volume |-> v, BaseVolume |-> b,
                   High |-> price, Low |-> price, Last |-> price]
        BY <2>3, <2>4, <2>7
      <3> QED  BY <1>6, <2>5, <3>1 DEF Summaries
    <2>8. CASE D # {}
      <3>1. PICK h, l, last : h = Max(PricesOf(D)) /\ l = Min(PricesOf(D)) /\ last = sales[Max(D)].price
        OBVIOUS
      <3>2. {h, l, last} \subseteq Int /\ l <= last /\ last <= h
        BY <2>2, <2>8, <3>1, LatestOf DEF VolumesInv
      <3>3. rec = [PrevDay |-> price, TimeStamp |-> hour, Volume |-> v, BaseVolume |-> b,
                   High |-> h, Low |-> l, Last |-> last]
        BY <2>3, <2>4, <2>8, <3>1
      <3> QED  BY <1>6, <2>5, <3>2, <3>3 DEF Summaries
    <2> QED  BY <2>7, <2>8
  <1>8. ASSUME NEW i \in 1 .. Len(Listed), Summed(i) \/ Listed[i] = m
        PROVE  summed = hour => Summed(i)'
    <2>1. Listed[i] \in ToSet(Listed)
      BY MetricsAssumption DEF ToSet
    <2>2. rec # Unset
      BY <1>7, MetricsAssumption
    <2> QED  BY <1>6, <1>7, <1>8, <2>1, <2>2 DEF Summed
  <1>9. /\ volumeRound'.left = Tail(left) /\ volumeRound'.read = Unset
        /\ Tail(left) \in Seq(ToSet(Listed)) /\ Len(Tail(left)) = Len(left) - 1
        /\ \A k \in 1 .. Len(left) - 1 : Tail(left)[k] = left[k + 1]
        /\ Passed' = Passed + 1
    <2>1. volumeRound'.left = Tail(left) /\ volumeRound'.read = Unset
      BY <1>6
    <2>2. /\ Tail(left) \in Seq(ToSet(Listed)) /\ Len(Tail(left)) = Len(left) - 1
          /\ \A k \in 1 .. Len(left) - 1 : Tail(left)[k] = left[k + 1]
      BY <1>5
    <2>3. Passed' = Len(Listed) - (Len(left) - 1)
      BY <2>1, <2>2 DEF Passed
    <2> QED  BY <1>5, <2>1, <2>2, <2>3
  <1>10. VolumesTyped'
    <2>1. ASSUME NEW k \in 1 .. Len(left) - 1 PROVE Tail(left)[k] = Listed[Passed + 1 + k]
      <3>1. k + 1 \in 1 .. Len(left) /\ Passed + (k + 1) = Passed + 1 + k
        BY <1>5
      <3> QED  BY <1>5, <1>9, <3>1
    <2>2. DOMAIN VolumeMetrics' = ToSet(Listed)
      BY <1>6
    <2>3. summed' = Unset \/ (summed' \in Int /\ summed' <= hour')
      BY <1>6 DEF VolumesInv, VolumesTyped
    <2>4. sales' \in Seq(Sales) /\ hour' \in Int
      BY <1>6 DEF VolumesInv, VolumesTyped
    <2>5. volumeRound' = [left |-> volumeRound'.left, read |-> volumeRound'.read]
      BY <1>6, <1>9
    <2>6. Len(Tail(left)) <= Len(Listed)
      BY <1>5, <1>9
    <2> QED  BY <1>9, <2>1, <2>2, <2>3, <2>4, <2>5, <2>6 DEF VolumesTyped
  <1>11. SummariesFollow'
    <2> SUFFICES ASSUME summed' = hour'
                 PROVE  IF volumeRound'.left # <<>> THEN \A i \in 1 .. Passed' : Summed(i)'
                        ELSE \E p \in 0 .. Len(Listed) :
                               /\ \A i \in 1 .. p : Summed(i)'
                               /\ p < Len(Listed) => Yesterday(Listed[p + 1])' = {}
      BY DEF SummariesFollow
    <2>1. \A i \in 1 .. Passed : Summed(i)
      BY <1>2, <1>5, <1>6 DEF VolumesInv, SummariesFollow
    <2>2. ASSUME NEW i \in 1 .. Passed + 1 PROVE Summed(i)'
      <3>1. i \in 1 .. Len(Listed) /\ (i \in 1 .. Passed \/ i = Passed + 1)
        BY <1>5
      <3> QED  BY <1>5, <1>6, <1>8, <2>1, <3>1
    <2>3. CASE Tail(left) = <<>>
      <3>1. Passed + 1 = Len(Listed)
        <4>1. PICK rest : rest = Tail(left)
          OBVIOUS
        <4>2. rest = <<>> /\ Len(rest) = 0
          BY <2>3, <4>1
        <4> QED  BY <1>5, <1>9, <4>1, <4>2
      <3>2. Len(Listed) \in 0 .. Len(Listed) /\ \A i \in 1 .. Len(Listed) : Summed(i)'
        BY <1>5, <2>2, <3>1
      <3> QED  BY <1>9, <2>3, <3>2
    <2>4. CASE Tail(left) # <<>>
      BY <1>9, <2>2, <2>4
    <2> QED  BY <2>3, <2>4
  <1> QED  BY <1>10, <1>11 DEF VolumesInv

\* The other steps leave the summaries alone.
LEMMA VolumesCaps == CapsNext => UNCHANGED <<hour, sales, volumeVars>>
  BY DEF CapsNext, saveTransfer, updateBalance, updateAmmMeta, updateMarketCaps, readDeveloper,
         calculateCirculatingSupply, marketVars

\* The invariant of the rounds of summaries.
THEOREM VolumesInductive == MetricsSpec => []VolumesInv
  <1>1. MetricsInit => VolumesInv
    BY VolumesInit
  <1>2. VolumesInv /\ [VolumesNext \/ CapsNext]_metricsVars => VolumesInv'
    <2> SUFFICES ASSUME VolumesInv, [VolumesNext \/ CapsNext]_metricsVars PROVE VolumesInv'
      OBVIOUS
    <2>1. CASE CapsNext
      BY <2>1, VolumesCaps, VolumesFrame
    <2>2. CASE UNCHANGED metricsVars
      BY <2>2, VolumesFrame DEF metricsVars, marketVars
    <2>3. CASE \E m \in ToSet(Listed), price \in Prices : saveTradeOf(m, price)
      BY <2>3, VolumesTrade
    <2> QED  BY <2>1, <2>2, <2>3, VolumesHour, VolumesBegin, VolumesYesterday, VolumesSummary
             DEF VolumesNext
  <1> QED  BY <1>1, <1>2, PTL DEF MetricsSpec

\* updateDailyVolumes: a round gives a market a summary of its own day, unless it or
\* one listed before it has no trade older than a day.
THEOREM SummariesReachMarkets == MetricsSpec => []SummariesReach
  <1>1. VolumesInv => SummariesReach
    <2> SUFFICES ASSUME VolumesInv, volumeRound = Idle, summed = hour, NEW i \in DOMAIN Listed,
                        \A k \in 1 .. i : Yesterday(Listed[k]) # {}
                 PROVE  Summed(i)
      BY DEF SummariesReach, Summed
    <2>1. volumeRound.left = <<>>
      BY DEF Idle
    <2>2. PICK p \in 0 .. Len(Listed) : /\ \A k \in 1 .. p : Summed(k)
                                        /\ p < Len(Listed) => Yesterday(Listed[p + 1]) = {}
      BY <2>1 DEF VolumesInv, SummariesFollow
    <2>3. i \in 1 .. Len(Listed) /\ Len(Listed) \in Nat
      BY MetricsAssumption
    <2>4. i <= p
      BY <2>2, <2>3
    <2> QED  BY <2>2, <2>3, <2>4
  <1> QED  BY <1>1, VolumesInductive, PTL
=============================================================================
