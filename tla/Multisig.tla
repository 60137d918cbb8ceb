------------------------------- MODULE Multisig -------------------------------
(***************************************************************************)
(* multisig.py: a wallet that several signers hold.  They propose, vote    *)
(* until the time of a proposal is over, and then anybody may have the     *)
(* result determined, which carries the proposal out.  proposal_details is *)
(* a sequence; its voters, and the votes that share the Hash sig with the  *)
(* signers, are kept apart, since a vote may come before the proposal.     *)
(* Shares are in percent.  A failed assert or call reverts everything.     *)
(***************************************************************************)
EXTENDS Ledger, FiniteSets, Sequences, FiniteSetsExt, Functions

CONSTANTS Signers, Outsiders, \* wallets that sign from the start, and others
          Transfers,          \* amounts proposed
          Funds,              \* what the wallet holds of the currency
          Percentages,        \* shares proposed
          Durations,          \* voting times, and minimums proposed, in days
          MaxProposals,       \* bound: proposals
          MaxVotes,           \* bound: votes on a proposal
          MaxDay              \* bound: days

Addresses == Signers \union Outsiders
Wallet == "this"

ASSUME WalletAssumption ==
  /\ IsFiniteSet(Signers) /\ IsFiniteSet(Outsiders) /\ Wallet \notin Addresses
  /\ Funds \in Nat /\ MaxProposals \in Nat
  /\ UNION {Transfers, Percentages, Durations} \subseteq Int

VARIABLES
  sig,              \* who signs
  number_of_sig,
  proposal_details, \* of each proposal: type, amount, reciever, end of the vote
  voters,           \* of each proposal: who voted, in order
  votes,            \* of each proposal and address: the last vote
  minimum_proposal_duration,
  required_approval_percentage,
  finished_proposals,
  currency,         \* balances
  now,
  passed,           \* ghost: of each proposal that passed: who approved, and who signed
  recounted         \* ghost: somebody was added who signed, or removed who did not

walletVars == <<sig, number_of_sig, proposal_details, voters, votes, minimum_proposal_duration,
                required_approval_percentage, finished_proposals, currency, now, passed, recounted>>
settingsOfWallet == <<sig, number_of_sig, minimum_proposal_duration,
                      required_approval_percentage, finished_proposals, currency, passed, recounted>>

Ids == 1 .. MaxProposals
NobodyYet == [accepted |-> FALSE, approvers |-> {}, signers |-> {}, once |-> FALSE, share |-> 0]
SignersNow == {a \in Addresses : sig[a]}

WalletInit ==
  /\ sig = [a \in Addresses |-> a \in Signers]
  /\ number_of_sig = Cardinality(Signers)
  /\ proposal_details = <<>>
  /\ voters = [i \in Ids |-> <<>>]
  /\ votes = [i \in Ids |-> [a \in Addresses |-> FALSE]]
  /\ minimum_proposal_duration = 0
  /\ required_approval_percentage = 50
  /\ finished_proposals = {}
  /\ currency = [a \in Addresses \union {Wallet} |-> IF a = Wallet THEN Funds ELSE 0]
  /\ now = 0
  /\ passed = [i \in Ids |-> NobodyYet] /\ recounted = FALSE

propose(caller, type, amount, reciever, duration) ==
  /\ duration >= minimum_proposal_duration
  /\ sig[caller]
  /\ Len(proposal_details) < MaxProposals
  /\ proposal_details' = Append(proposal_details,
       [type |-> type, amount |-> amount, reciever |-> reciever,
        ends |-> now + duration])
  /\ UNCHANGED <<voters, votes, now, settingsOfWallet>>

create_transfer_proposal(caller, amount, to, duration) ==
  propose(caller, "transfer", amount, to, duration)

create_signature_proposal(caller, address, duration) ==
  ~sig[address] /\ propose(caller, "add_signature", 0, address, duration)

remove_signature_proposal(caller, address, duration) ==
  sig[address] /\ propose(caller, "remove_signature", 0, address, duration)

change_approval_percentage(caller, percentage, duration) ==
  percentage <= 100 /\ propose(caller, "change_approval_percentage", percentage, Wallet, duration)

change_minimum_duration(caller, days, duration) ==
  days <= 365 /\ propose(caller, "change_minimum_duration", days, Wallet, duration)

\* On any proposal: one that is not made yet, or was voted on before.  Nothing
\* reads a vote on one that is finished, and they are left out.
vote(caller, i, result) ==
  /\ sig[caller]
  /\ i \notin finished_proposals
  /\ Len(voters[i]) < MaxVotes
  /\ votes' = [votes EXCEPT ![i][caller] = result]
  /\ voters' = [voters EXCEPT ![i] = Append(@, caller)]
  /\ UNCHANGED <<proposal_details, now, settingsOfWallet>>

\* Only the first voter is written; the others are appended to the list that
\* the node has in its cache, and go with it.
CacheDropped ==
  /\ voters' = [i \in Ids |-> IF voters[i] = <<>> \/ i \in finished_proposals
                            THEN voters[i] ELSE <<voters[i][1]>>]
  /\ voters' # voters
  /\ UNCHANGED <<proposal_details, votes, now, settingsOfWallet>>

\* Slip: whoever voted counts.
turnout(i) == Len(voters[i])

\* Of everybody in the list of voters, once per entry, those for it.
approvals(i) == Cardinality({n \in DOMAIN voters[i] : votes[i][voters[i][n]]})

Accepted(i) ==
  approvals(i) * 100 >= required_approval_percentage * number_of_sig

\* Slip: a transfer the wallet cannot pay is skipped.
TransferIfCovered(p) ==
  currency' = IF CanTransfer(currency, Wallet, p.amount)
              THEN Move(currency, Wallet, p.reciever, p.amount) ELSE currency

Transfer(p) ==
  /\ CanTransfer(currency, Wallet, p.amount)
  /\ currency' = Move(currency, Wallet, p.reciever, p.amount)

CarryOut(p) ==
  \/ /\ p.type = "transfer" /\ Transfer(p)
     /\ UNCHANGED <<sig, number_of_sig, minimum_proposal_duration,
                    required_approval_percentage, recounted>>
  \/ /\ p.type = "add_signature"
     /\ sig' = [sig EXCEPT ![p.reciever] = TRUE]
     /\ number_of_sig' = number_of_sig + 1
     /\ recounted' = (recounted \/ sig[p.reciever])
     /\ UNCHANGED <<minimum_proposal_duration, required_approval_percentage, currency>>
  \/ /\ p.type = "remove_signature"
     /\ sig' = [sig EXCEPT ![p.reciever] = FALSE]
     /\ number_of_sig' = number_of_sig - 1
     /\ recounted' = (recounted \/ ~sig[p.reciever])
     /\ UNCHANGED <<minimum_proposal_duration, required_approval_percentage, currency>>
  \/ /\ p.type = "change_approval_percentage"
     /\ required_approval_percentage' = p.amount
     /\ UNCHANGED <<sig, number_of_sig, minimum_proposal_duration, currency, recounted>>
  \/ /\ p.type = "change_minimum_duration"
     /\ minimum_proposal_duration' = p.amount
     /\ UNCHANGED <<sig, number_of_sig, required_approval_percentage, currency, recounted>>

\* Without a voter the loop over nobody fails, without a signer the division.
determine_results(i) ==
  LET p == proposal_details[i] IN
  /\ i \in DOMAIN proposal_details
  /\ p.ends <= now
  /\ i \notin finished_proposals
  /\ voters[i] # <<>> /\ number_of_sig # 0
  /\ finished_proposals' = finished_proposals \union {i}
  /\ IF Accepted(i)
     THEN /\ CarryOut(p)
          /\ passed' = [passed EXCEPT ![i] =
               [accepted |-> TRUE,
                approvers |-> {a \in Range(voters[i]) : votes[i][a]}, signers |-> SignersNow,
                once |-> \A m, n \in DOMAIN voters[i] : voters[i][m] = voters[i][n] => m = n,
                share |-> required_approval_percentage]]
     ELSE UNCHANGED <<sig, number_of_sig, minimum_proposal_duration,
                      required_approval_percentage, currency, passed, recounted>>
  /\ UNCHANGED <<proposal_details, voters, votes, now>>

NextDay == now < MaxDay /\ now' = now + 1
           /\ UNCHANGED <<proposal_details, voters, votes, settingsOfWallet>>

WalletNext ==
  \/ \E c \in Addresses, d \in Durations :
       \/ \E n \in Transfers, to \in Outsiders : create_transfer_proposal(c, n, to, d)
       \/ \E a \in Addresses : create_signature_proposal(c, a, d) \/ remove_signature_proposal(c, a, d)
       \/ \E n \in Percentages : change_approval_percentage(c, n, d)
       \/ \E n \in Durations \ {0} : change_minimum_duration(c, n, d)
  \/ \E c \in Addresses, i \in Ids, result \in BOOLEAN : vote(c, i, result)
  \/ CacheDropped
  \/ \E i \in Ids : determine_results(i)
  \/ NextDay

WalletSpec == WalletInit /\ [][WalletNext]_walletVars

-----------------------------------------------------------------------------
\* The wallet has paid the transfers that passed, each of them once, and no
\* other: one it could not pay stays open, however often its result was asked
\* for, whoever else was paid meanwhile.
PaidOrOpen ==
  currency[Wallet] =
    Funds - MapThenSumSet(LAMBDA i : proposal_details[i].amount,
              {i \in DOMAIN proposal_details : passed[i].accepted
                                               /\ proposal_details[i].type = "transfer"})

\* A proposal passes with the share of the wallets that sign when its result is
\* determined, whoever was added, removed or voted before it was made, unless
\* somebody voted twice or somebody was added or removed twice: the count of
\* the signers is then off, and one voter counts for several.
ApprovedByShare ==
  \A i \in Ids : passed[i].once /\ ~recounted =>
    Cardinality(passed[i].approvers) * 100 >= passed[i].share * Cardinality(passed[i].signers)
===============================================================================
