------------------------------ MODULE GovQueries ------------------------------
(***************************************************************************)
(* The gov Querier (keeper/queryable.go) over the state of Gov.            *)
(*                                                                         *)
(* A query is a state function: it reads the keeper and changes nothing,   *)
(* so it is modelled as an operator evaluated in every reachable state,    *)
(* not as an action.  A result is Ok(value) or Err(code).  The JSON        *)
(* decoding of the request and encoding of the answer are left out: the    *)
(* requests enumerated are the well-formed ones, and the answer is the     *)
(* value the code would encode (a list of deposits or votes is kept as a   *)
(* function from account to record; the store iterates it in key order).   *)
(***************************************************************************)
EXTENDS Gov

CONSTANTS
  QueryStatusStrings,  \* ProposalStatus strings sent to queryProposals
  QueryLimits          \* Limit values sent to queryProposals

Ok(v)     == [ok |-> v]
Err(code) == [err |-> code]
IsErr(r)  == "err" \in DOMAIN r

Finished(id) == proposals[id].status \in {"Passed", "Rejected"}

\* queryProposal (queryable.go:50-67).
queryProposal(id) ==
  IF ~GetProposal(Keeper, id).found THEN Err("UnknownProposal")
  ELSE Ok(GetProposal(Keeper, id).proposal)

\* queryDeposit (queryable.go:76-102): the deposit records of a Passed or
\* Rejected proposal have been deleted, so the query refuses it outright.
queryDeposit(id, depositor) ==
  IF ~GetProposal(Keeper, id).found THEN Err("UnknownProposal")
  ELSE IF Finished(id) THEN Err("DepositDeleted")
  ELSE IF ~GetDeposit(Keeper, id, depositor).found THEN Err("DepositNotExisted")
  ELSE Ok(GetDeposit(Keeper, id, depositor).deposit)

\* queryVote (queryable.go:111-133): no status test; votes are kept.
queryVote(id, voter) ==
  IF ~GetProposal(Keeper, id).found THEN Err("UnknownProposal")
  ELSE IF ~GetVote(Keeper, id, voter).found THEN Err("VoteNotExisted")
  ELSE Ok(GetVote(Keeper, id, voter).vote)

\* queryDeposits (queryable.go:141-171).
queryDeposits(id) ==
  IF ~GetProposal(Keeper, id).found THEN Err("UnknownProposal")
  ELSE IF Finished(id) THEN Err("DepositDeleted")
  ELSE Ok([a \in Depositors(Keeper, id) |-> deposits[id][a]])

\* queryVotes (queryable.go:179-209): with no vote it answers nil, nil.
queryVotes(id) ==
  LET voters == {a \in Accounts : votes[id][a] # NoVote}
  IN IF ~GetProposal(Keeper, id).found THEN Err("UnknownProposal")
     ELSE IF voters = {} THEN Ok("nil")
     ELSE Ok([a \in voters |-> votes[id][a]])

\* ProposalStatusFromString (enums.go:141-147).
ProposalStatusFromString(str) ==
  IF str \in Statuses THEN Ok(str) ELSE Err("InvalidProposalStatus")

\* queryProposals (queryable.go:220-238): an unknown status string is not
\* an error but StatusNil, which GetProposalsFiltered does not filter on.
queryProposals(voter, depositor, statusStr, limit) ==
  LET s      == ProposalStatusFromString(statusStr)
      status == IF IsErr(s) THEN "" ELSE s.ok
      ids    == GetProposalsFiltered(Keeper, voter, depositor, status, limit)
  IN Ok([i \in DOMAIN ids |-> proposals[ids[i]]])

\* queryTally (queryable.go:246-275): empty during the deposit period, the
\* stored result once finished, a fresh Keeper.Tally while voting.
queryTally(id) ==
  IF ~GetProposal(Keeper, id).found THEN Err("UnknownProposal")
  ELSE IF proposals[id].status = "DepositPeriod" THEN Ok(EmptyTallyResult)
  ELSE IF Finished(id) THEN Ok(proposals[id].tally)
  ELSE Ok(TallyOf(Keeper, id).tallyResults)

\* NewQuerier (queryable.go:21-42): the dispatch on the first path element.
\* A request carries a proposal id, an account and the proposals filters.
Querier(path, req) ==
  CASE path = "proposals" -> queryProposals(req.voter, req.depositor, req.status, req.limit)
    [] path = "proposal"  -> queryProposal(req.id)
    [] path = "deposits"  -> queryDeposits(req.id)
    [] path = "deposit"   -> queryDeposit(req.id, req.account)
    [] path = "votes"     -> queryVotes(req.id)
    [] path = "vote"      -> queryVote(req.id, req.account)
    [] path = "tally"     -> queryTally(req.id)
    [] OTHER              -> Err("UnknownRequest")

(***************************************************************************)
(* Properties.                                                             *)
(***************************************************************************)

\* The proposals query agrees with the single-item queries: with filters
\* voter, depositor, status and limit, it lists, in id order, exactly the
\* proposals among the latest limit ids (all when limit is 0) that the
\* proposal query finds, for which the vote query of the voter and the
\* deposit query of the depositor answer, and that have the status when the
\* string names one.  This ties the loop bounds and the filters of
\* GetProposalsFiltered to the records that handleMsgDeposit, handleMsgVote
\* and EndBlocker (which deletes the deposits of a finished proposal) keep.
ProposalsQueryAgreesWithItemQueries ==
  \A voter \in Accounts \cup {Absent}, depositor \in Accounts \cup {Absent},
     str \in QueryStatusStrings, limit \in QueryLimits :
    LET Listed(id) ==
          /\ ~IsErr(queryProposal(id))
          /\ limit # 0 => id >= nextID - limit
          /\ voter # Absent => ~IsErr(queryVote(id, voter))
          /\ depositor # Absent => ~IsErr(queryDeposit(id, depositor))
          /\ str \in Statuses => proposals[id].status = str
        expected == SelectSeq([i \in Ids |-> i], Listed)
        req == [voter |-> voter, depositor |-> depositor, status |-> str, limit |-> limit]
    IN Querier("proposals", req) = Ok([i \in DOMAIN expected |-> proposals[expected[i]]])

\* Once a proposal is Passed or Rejected, the tally query reports the tally
\* EndBlocker decided it with, and keeps reporting it, although the votes
\* and the bonded validators it was computed from may change afterwards
\* (abci.go stores it with SetTallyResult; queryTally stops recomputing).
TallyQueryShowsFinalTally ==
  [][\A id \in Ids :
       (id \in DOMAIN proposals' /\ proposals'[id].status \in {"Passed", "Rejected"}) =>
         queryTally(id)' = IF id \in DOMAIN proposals /\ Finished(id)
                           THEN queryTally(id)
                           ELSE Ok(TallyOf(Keeper, id).tallyResults)]_vars

=============================================================================
