--------------------------------- MODULE Chat ----------------------------------
(***************************************************************************)
(* The chat (troll box): signing on with a transaction whose secret is the *)
(* id of the page's connection, the tokens the API issues and refreshes    *)
(* (authentication/), messages, and the list a page shows of them          *)
(* (troll-box.svelte, ws.service.ts).  One account in one wallet, whose    *)
(* name the API has recorded; several accounts and wallets, log-ins and    *)
(* log-outs, tokens of earlier visits, and names that are not recorded yet *)
(* are in Session.  Others send messages with tokens of their own.         *)
(***************************************************************************)
EXTENDS Socket, FiniteSets

CONSTANTS
  AccessDays, RefreshDays,  \* how long tokens are valid: 30 and 7
  MessagesTaken             \* how many messages the history has at most: 50

TokenSet == [kind : {"access", "refresh"}, until : Nat]

ASSUME ChatAssumption ==
  /\ {AccessDays, RefreshDays} \subseteq Nat /\ None \notin TokenSet
  /\ MessagesTaken \in Nat \ {0}

VARIABLES
  (* the API *)
  day,               \* the time that tokens are about
  tokens,            \* issued to the account: kind and last day
  ChatHistory,       \* messages that are inserted
  chatSaves,         \* messages that are told and not yet inserted
  messages,          \* the number of messages
  (* the chain *)
  sending,           \* secrets of sign-on transactions of the page that have yet to run
  auths,             \* those that ran, and that the API has not seen yet
  (* the page *)
  inExtension,       \* lwc_info.walletAddress is the account's: not with a keystore
                     \* whose account the extension, if there is one, does not have
  ws_id,
  bearerToken,
  loggedIn,          \* the box takes messages
  trollboxMessages,
  historyDue,        \* trollbox_history is listened to
  (* ghosts *)
  unnamed,           \* a sign-on was sent before the page had the id of its connection
  spoke,             \* the days of the account's last message and of its sign-on
  signedOn,          \* the day of its last sign-on
  mixed,             \* messages around the reading of the history, or too old for it
  unheard            \* messages told while the page was not connected

authVars == <<day, tokens, sending, auths, inExtension, ws_id, bearerToken, loggedIn, unnamed,
              signedOn>>
listVars == <<ChatHistory, chatSaves, messages, trollboxMessages, historyDue, mixed, unheard, spoke>>
chatVars == <<authVars, listVars>>

ChatInit ==
  /\ day = 0 /\ tokens = {} /\ sending = <<>> /\ auths = <<>>
  /\ inExtension \in BOOLEAN /\ ws_id = None /\ bearerToken = None /\ loggedIn = FALSE
  /\ ChatHistory = {} /\ chatSaves = {} /\ messages = 0
  /\ trollboxMessages = <<>> /\ historyDue = TRUE
  /\ unnamed = FALSE /\ signedOn = 0 /\ spoke = [on |-> 0, since |-> 0]
  /\ mixed = {} /\ unheard = {}

-----------------------------------------------------------------------------
(* Signing on *)

generateAccessToken == [kind |-> "access", until |-> day + AccessDays]
generateRefreshToken == [kind |-> "refresh", until |-> day + RefreshDays]

\* handleLogin: the secret of a transaction is ws_id, which the page gets once,
\* whether it is there or not.
handleLogin ==
  /\ sending' = Append(sending, ws_id)
  /\ unnamed' = (unnamed \/ ws_id = None)

\* The button, which is there until the page is logged in.
login ==
  /\ ~loggedIn
  /\ handleLogin
  /\ UNCHANGED <<socketVars, day, tokens, auths, inExtension, ws_id, bearerToken, loggedIn,
                 signedOn, listVars>>

\* The transaction ran; the box opens before there is a token.
success ==
  /\ sending # <<>>
  /\ sending' = Tail(sending) /\ auths' = Append(auths, Head(sending)) /\ loggedIn' = TRUE
  /\ UNCHANGED <<socketVars, day, tokens, inExtension, ws_id, bearerToken, unnamed, signedOn,
                 listVars>>

error ==
  /\ sending # <<>>
  /\ sending' = Tail(sending)
  /\ UNCHANGED <<socketVars, day, tokens, auths, inExtension, ws_id, bearerToken, loggedIn, unnamed,
                 signedOn, listVars>>

\* The API sees the transaction: tokens are signed and sent to the connection
\* whose id was the secret, if it is still there.
authenticate ==
  /\ auths # <<>>
  /\ auths' = Tail(auths)
  /\ tokens' = tokens \union {generateAccessToken, generateRefreshToken}
  /\ signedOn' = day
  /\ down' = IF connected /\ Head(auths) = socket_id
             THEN Append(down, Event("auth_response", None, generateAccessToken)) ELSE down
  /\ UNCHANGED <<connected, socket_id, up, day, sending, inExtension, ws_id, bearerToken, loggedIn,
                 unnamed, listVars>>

\* Slip: the box is opened, and the token not kept.
handleAuthResponse_opensOnly ==
  /\ Arrives("auth_response")
  /\ loggedIn' = TRUE
  /\ down' = Tail(down)
  /\ UNCHANGED <<connected, socket_id, up, day, tokens, sending, auths, inExtension, ws_id,
                 bearerToken, unnamed, signedOn, listVars>>

\* setBearerToken without an account: the token is put away, and taken over for
\* the extension's account only.  With it the box is open.
handleAuthResponse ==
  /\ Arrives("auth_response")
  /\ \/ inExtension /\ bearerToken' = Head(down).says /\ loggedIn' = TRUE
     \/ ~inExtension /\ UNCHANGED <<bearerToken, loggedIn>>
  /\ down' = Tail(down)
  /\ UNCHANGED <<connected, socket_id, up, day, tokens, sending, auths, inExtension, ws_id, unnamed,
                 signedOn, listVars>>

\* Slip: the refresh token's time is not looked at.
resolveRefreshToken_anyAge(token) == token \in tokens /\ token.kind = "refresh"

\* JwtStrategy.validate, and the library's verifyAsync.
Valid(token) == day <= token.until

\* Its row is there and never revoked.
resolveRefreshToken(token) == token \in tokens /\ token.kind = "refresh" /\ Valid(token)

\* An access token for a refresh token, which stays as it is.
refresh(token) ==
  /\ resolveRefreshToken(token)
  /\ tokens' = tokens \union {generateAccessToken}
  /\ UNCHANGED <<socketVars, day, sending, auths, inExtension, ws_id, bearerToken, loggedIn,
                 unnamed, signedOn, listVars>>

Tomorrow ==
  /\ day' = day + 1
  /\ UNCHANGED <<socketVars, tokens, sending, auths, inExtension, ws_id, bearerToken, loggedIn,
                 unnamed, signedOn, listVars>>

-----------------------------------------------------------------------------
(* Messages *)

\* send_message: everybody is told, then the message is inserted.
send_message ==
  /\ messages' = messages + 1
  /\ down' = Emitted(Event("message", None, messages'))
  /\ chatSaves' = chatSaves \union {messages'}
  /\ unheard' = IF connected \/ historyDue THEN unheard ELSE unheard \union {messages'}
  /\ UNCHANGED <<connected, socket_id, up, ChatHistory, trollboxMessages, historyDue, mixed>>

\* Of somebody else.
OthersSpeak == send_message /\ UNCHANGED <<authVars, spoke>>

\* With a token of the account, of either kind, at the page or elsewhere.
Speak(token) ==
  /\ Valid(token)
  /\ send_message
  /\ spoke' = [on |-> day, since |-> signedOn]
  /\ UNCHANGED authVars

speakElsewhere(token) == token \in tokens /\ Speak(token)

\* The page's message: without a token, with an old one, or when the request
\* fails, it is lost and the page signs on instead.
handleSendMessage ==
  /\ loggedIn
  /\ \/ bearerToken # None /\ Speak(bearerToken)
     \/ /\ handleLogin
        /\ UNCHANGED <<socketVars, day, tokens, auths, inExtension, ws_id, bearerToken, loggedIn,
                       signedOn, listVars>>

saveTrollChat(m) ==
  /\ m \in chatSaves
  /\ ChatHistory' = ChatHistory \union {m} /\ chatSaves' = chatSaves \ {m}
  /\ UNCHANGED <<socketVars, authVars, messages, trollboxMessages, historyDue, mixed, unheard, spoke>>

\* Messages the page has been told in this connection.
Heard == ToSet(trollboxMessages) \union {e.says : e \in Coming("message")}

\* Numbers from the smallest on.
Ascending(S) ==
  CHOOSE s \in [1 .. Cardinality(S) -> S] : \A i, j \in DOMAIN s : i < j => s[i] < s[j]

LatestMessages ==
  {m \in ChatHistory : Cardinality({k \in ChatHistory : k > m}) < MessagesTaken}

\* Slip: the history is sent as the database has it, the last message first.
handleJoinTrollBox_lastFirst ==
  /\ Joins("trollbox")
  /\ down' = down \o <<Event("authcode", None, socket_id),
                       Event("chat_history", None, Reverse(Ascending(LatestMessages)))>>
  /\ up' = Tail(up)
  /\ mixed' = Heard \union chatSaves \union (ChatHistory \ LatestMessages)
  /\ UNCHANGED <<connected, socket_id, authVars, ChatHistory, chatSaves, messages,
                 trollboxMessages, historyDue, unheard, spoke>>

\* The id of the connection, and then the latest messages by time.
handleJoinTrollBox ==
  /\ Joins("trollbox")
  /\ down' = down \o <<Event("authcode", None, socket_id),
                       Event("chat_history", None, Ascending(LatestMessages))>>
  /\ up' = Tail(up)
  /\ mixed' = Heard \union chatSaves \union (ChatHistory \ LatestMessages)
  /\ UNCHANGED <<connected, socket_id, authVars, ChatHistory, chatSaves, messages,
                 trollboxMessages, historyDue, unheard, spoke>>

handleTrollboxAuthCode ==
  /\ Arrives("authcode")
  /\ ws_id' = Head(down).says
  /\ down' = Tail(down)
  /\ UNCHANGED <<connected, socket_id, up, day, tokens, sending, auths, inExtension, bearerToken,
                 loggedIn, unnamed, signedOn, listVars>>

\* The history is put behind what is there, once.
handleTrollboxHistory ==
  /\ Arrives("chat_history")
  /\ trollboxMessages' = IF historyDue THEN trollboxMessages \o Head(down).says ELSE trollboxMessages
  /\ historyDue' = FALSE
  /\ down' = Tail(down)
  /\ UNCHANGED <<connected, socket_id, up, authVars, ChatHistory, chatSaves, messages, mixed,
                 unheard, spoke>>

handleTrollBoxMessage ==
  /\ Arrives("message")
  /\ trollboxMessages' = Append(trollboxMessages, Head(down).says)
  /\ down' = Tail(down)
  /\ UNCHANGED <<connected, socket_id, up, authVars, ChatHistory, chatSaves, messages, historyDue,
                 mixed, unheard, spoke>>

-----------------------------------------------------------------------------
(* The connection *)

ChatDisconnect ==
  /\ unheard' = unheard \union {e.says : e \in Coming("message")}
  /\ UNCHANGED <<authVars, ChatHistory, chatSaves, messages, trollboxMessages, historyDue, mixed,
                 spoke>>

ChatUser == login \/ handleSendMessage

ChatOthers ==
  \/ OthersSpeak
  \/ \E token \in tokens : refresh(token) \/ speakElsewhere(token)

ChatStep ==
  \/ success \/ error \/ authenticate \/ handleAuthResponse
  \/ \E m \in chatSaves : saveTrollChat(m)
  \/ handleJoinTrollBox \/ handleTrollboxAuthCode \/ handleTrollboxHistory \/ handleTrollBoxMessage

-----------------------------------------------------------------------------
(* Properties *)

\* Once the history is there, the page lists every message once and in the order
\* of sending.  Not so for the messages around the reading of the history, which
\* come ahead of it, twice, or not at all, for those too old for it, and for those
\* told while the page was not connected.
ListedOnceInOrder ==
  LET plain == (1 .. messages) \ (mixed \union unheard) IN
  Quiet /\ ~historyDue =>
    /\ plain \subseteq ToSet(trollboxMessages)
    /\ \A i, j \in DOMAIN trollboxMessages :
         i < j /\ {trollboxMessages[i], trollboxMessages[j]} \subseteq plain =>
           trollboxMessages[i] < trollboxMessages[j]

\* A page of the extension's account whose box is open because it signed on has
\* its token as soon as the API has seen the transaction, as long as its first
\* connection lasts and unless it signed on before it had the id of that: the id
\* is asked for once, and with another connection no sign-on is answered any
\* more.  Where the account is in a keystore the box opens too, but
\* setBearerToken takes over no token, and every message signs on again.
SignOnAnswered ==
  Quiet /\ inExtension /\ socket_id = 1 /\ ~unnamed /\ loggedIn /\ auths = <<>> => bearerToken # None

\* Tokens refresh tokens, but not for ever: nobody speaks whose last sign-on is
\* longer ago than the two kinds are valid for, one after the other.
SpeaksWithin == spoke.on - spoke.since <= AccessDays + RefreshDays
===============================================================================
