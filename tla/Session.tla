-------------------------------- MODULE Session --------------------------------
(***************************************************************************)
(* The session of the web client: logging in with the extension or with a  *)
(* keystore and out again (wallet.service.ts and the wallet-connections    *)
(* components), the feeds of the account that ws.service.ts joins and      *)
(* leaves, and signing on to the chat with a Rocket id, which the contract *)
(* con_ipseity records and the API turns into a token                      *)
(* (authentication/, name.entity.ts).  Answers of the API and of the       *)
(* explorer come in any order, also after the user logged out.  The feeds  *)
(* of balances and of liquidity points are joined, filled and left         *)
(* together and stand as one; the feed of yields is in StakingIndex.       *)
(***************************************************************************)
EXTENDS ClientStore

CONSTANTS Rich, Poor  \* what an account holds, and what is left after it pays

ASSUME HoldingsAssumption == Rich \in Nat /\ Poor \in Nat

VARIABLES service,     \* wallet.service's keystore: its account, and whether it is open
          saved,       \* account of the keystore in the browser's storage
          connecting,  \* the timer that connects an opened keystore is running
          joined,      \* accounts whose feeds this client listens to
          answers,     \* questions about an account whose answers are due
          accountName, \* whose name is shown
          authToken,   \* user of the token in the browser's storage
          bearerToken, \* user of the token that signs messages
          auths,       \* secrets sent to the contract, of accounts
          naming,      \* the page polls for a name it has just registered
          wealth,      \* of each account: what it holds
          names,       \* key_to_name: accounts with a name
          nameRows,    \* NameEntity: accounts whose name the API has recorded
          moved        \* ghost: another account came in without a log-out between,
                       \* or the token of one that is not connected

sessionVars == <<lwc_info, keystore, tokenBalances, ammFuelTank, service, saved, connecting,
                 joined, answers, accountName, authToken, bearerToken, auths, naming, wealth,
                 names, nameRows, moved>>

Broken == "user undefined"   \* the user of a token for a key without a name
NoKeystore == [of |-> None, open |-> FALSE]
NoWallet == [walletAddress |-> None, approved |-> FALSE, locked |-> FALSE]

\* Slip: a token is taken over whoever it is for.
setAnyBearerToken(vk, stored) ==
  /\ bearerToken' = IF stored # None THEN stored ELSE bearerToken
  /\ authToken' = stored

\* The token in storage is used if it is the account's and removed if it is
\* another's.
setBearerToken(vk, stored) ==
  /\ bearerToken' = IF vk # None /\ stored = vk THEN vk ELSE bearerToken
  /\ authToken' = IF vk # None /\ stored # vk THEN None ELSE stored

\* What is asked about an account: by joining its feeds, and besides.
joinUserFeeds(vk) == {<<"balances", vk>>}
getIntialBalances(vk) == {<<"name", vk>>, <<"tank", vk>>}

Connected(vk) ==
  /\ joined' = joined \union {vk}
  /\ answers' = answers \union joinUserFeeds(vk) \union getIntialBalances(vk)
  /\ setBearerToken(vk, authToken)
  /\ moved' = (moved \/ joined \ {vk} # {})

\* The extension tells what it is set to; nothing new is not looked at.
handleWalletInfo(told) ==
  /\ told # lwc_info
  /\ lwc_info' = told
  /\ IF told.walletAddress # None /\ told.approved
     THEN Connected(told.walletAddress)
     ELSE /\ moved' = (moved \/ (lwc_info.approved /\ lwc_info.walletAddress # None))
          /\ UNCHANGED <<joined, answers, bearerToken, authToken>>
  /\ UNCHANGED <<keystore, tokenBalances, ammFuelTank, service, saved, connecting, accountName,
                 auths, naming, wealth, names, nameRows>>

\* A keystore file, its password and one of its wallets; the user may keep it.
login(vk, saveData) ==
  /\ walletAddress = None /\ service = NoKeystore
  /\ service' = [of |-> vk, open |-> TRUE] /\ keystore' = vk
  /\ saved' = IF saveData THEN vk ELSE saved
  /\ Connected(vk)
  /\ UNCHANGED <<lwc_info, tokenBalances, ammFuelTank, connecting, accountName, auths, naming,
                 wealth, names, nameRows>>

\* The keystore that was kept is opened; a second later its account connects.
decryptKeystore ==
  /\ walletAddress = None /\ service.of # None /\ ~service.open
  /\ service' = [service EXCEPT !.open = TRUE] /\ keystore' = service.of
  /\ connecting' = TRUE
  /\ UNCHANGED <<lwc_info, tokenBalances, ammFuelTank, saved, joined, answers, accountName,
                 authToken, bearerToken, auths, naming, wealth, names, nameRows, moved>>

\* Without a keystore it throws, in a timer.
conenctToKeystore ==
  /\ connecting
  /\ connecting' = FALSE
  /\ IF service.open THEN Connected(service.of)
     ELSE UNCHANGED <<joined, answers, bearerToken, authToken, moved>>
  /\ UNCHANGED <<lwc_info, keystore, tokenBalances, ammFuelTank, service, saved, accountName,
                 auths, naming, wealth, names, nameRows>>

removeKeystoreData == service' = NoKeystore /\ keystore' = None /\ saved' = None

\* The dialog that asks for the password can forget the keystore instead.
handleRemoveKeystoreData ==
  /\ walletAddress = None /\ service.of # None /\ ~service.open
  /\ removeKeystoreData
  /\ UNCHANGED <<lwc_info, tokenBalances, ammFuelTank, connecting, joined, answers, accountName,
                 authToken, bearerToken, auths, naming, wealth, names, nameRows, moved>>

leaveUserFeeds(vk) == joined' = joined \ {vk} /\ tokenBalances' = Nothing

\* The feeds of the account in use are left; the tank and the answers that are
\* due are left alone.
logout ==
  /\ walletAddress # None
  /\ leaveUserFeeds(walletAddress)
  /\ lwc_info' = [lwc_info EXCEPT !.walletAddress = None, !.approved = FALSE]
  /\ accountName' = None
  /\ removeKeystoreData
  /\ authToken' = None /\ bearerToken' = None
  /\ UNCHANGED <<ammFuelTank, connecting, answers, auths, naming, wealth, names, nameRows, moved>>

\* What the API sends to who joins the feeds.
handleJoinBalanceFeed(vk) == [of |-> vk, amount |-> wealth[vk]]

\* handleBalanceList and handleUserLpBalanceList, if anybody listens.
BalancesArrive(vk) ==
  /\ <<"balances", vk>> \in answers
  /\ answers' = answers \ {<<"balances", vk>>}
  /\ tokenBalances' = IF vk \in joined THEN handleJoinBalanceFeed(vk) ELSE tokenBalances
  /\ UNCHANGED <<lwc_info, keystore, ammFuelTank, service, saved, connecting, joined, accountName,
                 authToken, bearerToken, auths, naming, wealth, names, nameRows, moved>>

\* The explorer's answer to getAccountName, whoever is connected by then.
getAccountName(vk) ==
  /\ <<"name", vk>> \in answers
  /\ answers' = answers \ {<<"name", vk>>}
  /\ accountName' = IF vk \in names THEN vk ELSE accountName
  /\ UNCHANGED <<lwc_info, keystore, tokenBalances, ammFuelTank, service, saved, connecting, joined,
                 authToken, bearerToken, auths, naming, wealth, names, nameRows, moved>>

\* And to getAmmStakeDetails.
getAmmStakeDetails(vk) ==
  /\ <<"tank", vk>> \in answers
  /\ answers' = answers \ {<<"tank", vk>>}
  /\ ammFuelTank' = vk
  /\ UNCHANGED <<lwc_info, keystore, tokenBalances, service, saved, connecting, joined, accountName,
                 authToken, bearerToken, auths, naming, wealth, names, nameRows, moved>>

\* An account pays; the API tells everybody, and who listens takes it over.
BalanceUpdate(vk) ==
  /\ wealth[vk] = Rich
  /\ wealth' = [wealth EXCEPT ![vk] = Poor]
  /\ tokenBalances' = IF vk \in joined THEN [of |-> vk, amount |-> Poor] ELSE tokenBalances
  /\ UNCHANGED <<lwc_info, keystore, ammFuelTank, service, saved, connecting, joined, answers,
                 accountName, authToken, bearerToken, auths, naming, names, nameRows, moved>>

\* The wallet that signs: the keystore if one is open.
Signer == IF keystore # None THEN keystore ELSE walletAddress

\* The contract of the names: a signer has one, and leaves secrets.
key_to_name(vk) == names' = names \union {vk}
auth_codes(vk) == auths' = auths \union {vk}

\* setName goes to the chain; the page then polls for the name.
createAccountName ==
  /\ walletIsReady /\ accountName = None /\ bearerToken = None
  /\ key_to_name(Signer)
  /\ naming' = TRUE
  /\ UNCHANGED <<lwc_info, keystore, tokenBalances, ammFuelTank, service, saved, connecting, joined,
                 answers, accountName, authToken, bearerToken, auths, wealth, nameRows, moved>>

checkForName ==
  /\ naming
  /\ accountName' = IF walletAddress \in names THEN walletAddress ELSE accountName
  /\ naming' = (accountName' = None)
  /\ naming' = FALSE \/ accountName' # accountName
  /\ UNCHANGED <<lwc_info, keystore, tokenBalances, ammFuelTank, service, saved, connecting, joined,
                 answers, authToken, bearerToken, auths, wealth, names, nameRows, moved>>

\* The API's queue records the name.
setName(vk) ==
  /\ vk \in names \ nameRows
  /\ nameRows' = nameRows \union {vk}
  /\ UNCHANGED <<lwc_info, keystore, tokenBalances, ammFuelTank, service, saved, connecting, joined,
                 answers, accountName, authToken, bearerToken, auths, naming, wealth, names, moved>>

\* The secret of the socket goes to the contract, again with every message for
\* which no token is at hand.
sendAuth ==
  /\ walletIsReady /\ accountName # None /\ bearerToken = None
  /\ auth_codes(Signer)
  /\ UNCHANGED <<lwc_info, keystore, tokenBalances, ammFuelTank, service, saved, connecting, joined,
                 answers, accountName, authToken, bearerToken, naming, wealth, names, nameRows, moved>>

\* The API signs tokens for the user it has recorded.
authenticate(vk) == IF vk \in nameRows THEN vk ELSE Broken

\* The block reaches the API, which does not queue it: a name that is not yet
\* recorded gives a token for nobody.  The client takes it over only for the
\* account of the extension, and does so too when that one is not connected,
\* or no longer.
handleAuthResponse(vk) ==
  /\ vk \in auths
  /\ auths' = auths \ {vk}
  /\ setBearerToken(lwc_info.walletAddress, authenticate(vk))
  /\ moved' = (moved \/ bearerToken' \notin joined \union {None})
  /\ UNCHANGED <<lwc_info, keystore, tokenBalances, ammFuelTank, service, saved, connecting, joined,
                 answers, accountName, naming, wealth, names, nameRows>>

\* The page is loaded again: only what the browser keeps is left.
Reload ==
  /\ lwc_info' = NoWallet /\ keystore' = None /\ tokenBalances' = Nothing /\ ammFuelTank' = None
  /\ service' = [of |-> saved, open |-> FALSE]
  /\ connecting' = FALSE /\ joined' = {} /\ answers' = {} /\ accountName' = None
  /\ bearerToken' = None /\ auths' = {} /\ naming' = FALSE /\ moved' = FALSE
  /\ UNCHANGED <<saved, authToken, wealth, names, nameRows>>

-----------------------------------------------------------------------------
\* Nobody is connected, or the extension's account is, with its feeds.
SessionInit ==
  /\ wealth = [vk \in Accounts |-> Rich]
  /\ keystore = None /\ ammFuelTank = None
  /\ service = NoKeystore /\ saved = None /\ connecting = FALSE
  /\ answers = {} /\ accountName = None /\ authToken = None /\ bearerToken = None
  /\ auths = {} /\ naming = FALSE /\ names = {} /\ nameRows = {} /\ moved = FALSE
  /\ \/ lwc_info = NoWallet /\ joined = {} /\ tokenBalances = Nothing
     \/ \E vk \in Accounts :
          /\ lwc_info = [walletAddress |-> vk, approved |-> TRUE, locked |-> FALSE]
          /\ joined = {vk} /\ tokenBalances = [of |-> vk, amount |-> Rich]

SessionUser ==
  \/ \E vk \in Accounts, approved, locked \in BOOLEAN :
       handleWalletInfo([walletAddress |-> vk, approved |-> approved, locked |-> locked])
  \/ \E vk \in Accounts, saveData \in BOOLEAN : login(vk, saveData)
  \/ decryptKeystore \/ handleRemoveKeystoreData
  \/ logout
  \/ createAccountName \/ sendAuth

SessionWorld ==
  \/ conenctToKeystore \/ checkForName
  \/ \E vk \in Accounts :
       \/ BalancesArrive(vk) \/ getAccountName(vk) \/ getAmmStakeDetails(vk)
       \/ setName(vk) \/ handleAuthResponse(vk)

SessionOthers == \E vk \in Accounts : BalanceUpdate(vk)

\* Unless another account came in without a log-out between, or the token of
\* one that is not connected, the balances that are listed and the token that
\* signs messages are those of the account that is connected, whatever answers
\* and updates are still due from before.
SessionOfUser ==
  ~moved => {tokenBalances.of, bearerToken} \subseteq {None, walletAddress}
===============================================================================
