-------------------------------- MODULE Tally --------------------------------
(***************************************************************************)
(* The stake-weighted vote tally of the governance keeper                  *)
(* (app/v1/gov/internal/keeper/tally.go, Keeper.Tally).                     *)
(*                                                                         *)
(* Pure operators.  Voting power is kept as integers: a validator's        *)
(* token-per-share ratio is an integer, so shares * TokenPerShare is exact *)
(* and the sdk.Dec rounding of Quo/Mul is not represented.  The outcome    *)
(* thresholds are fractions <<num, den>> compared by cross-multiplication. *)
(*                                                                         *)
(* Inputs of every operator:                                               *)
(*   votes  : [Accounts -> Options \cup {NoVote}]  the recorded votes      *)
(*   bonded : SUBSET Validators   the validators iterated as bonded        *)
(*   shares : [Accounts -> [Validators -> Nat]]  delegation shares (0: none)*)
(*   tps    : [Validators -> Nat \ {0}]  tokens per share of a validator   *)
(***************************************************************************)
EXTENDS Integers, FiniteSets, Sequences, FiniteSetsExt, SequencesExt

CONSTANTS
  Accounts,        \* account addresses (validator operators included)
  Validators,      \* validator operator addresses, a subset of Accounts
  Yes, Abstain, No, NoWithVeto,   \* types.VoteOption values
  NoVote,          \* no vote recorded by this account (GetVote not found)
  OptionEmpty,     \* types.OptionEmpty, the "has not voted" validator mark
  PASS, REJECT, REJECTVETO        \* types.ProposalResult values

ASSUME Validators \subseteq Accounts

Options == {Yes, Abstain, No, NoWithVeto}

ZeroResults == [o \in Options |-> 0]

\* validator.GetDelegatorShares(): the shares of all delegations to v.
DelegatorShares(v, shares) == MapThenSumSet(LAMBDA a : shares[a][v], Accounts)

\* validator.GetTokens() == DelegatorShares * TokenPerShare.
Tokens(v, shares, tps) == DelegatorShares(v, shares) * tps[v]

\* systemVotingPower: the tokens of every bonded validator (tally.go:31-41).
SystemVotingPower(bonded, shares, tps) ==
  MapThenSumSet(LAMBDA v : Tokens(v, shares, tps), bonded)

(***************************************************************************)
(* The implementation: the state the code builds while iterating the votes *)
(* (currValidators, results, totalVotingPower, votingVals), one TallyStep  *)
(* per vote, then the second loop over the validators.                     *)
(***************************************************************************)
InitAcc(bonded) ==
  [ results    |-> ZeroResults,
    total      |-> 0,
    valVote    |-> [v \in bonded |-> OptionEmpty],
    deductions |-> [v \in bonded |-> 0],
    votingVals |-> {} ]

\* Mutant: delegations are counted without looking the validator up
\* among the bonded ones.
CountedDelegationsAnyValidator(voter, bonded, shares) ==
  {v \in Validators \ {voter} : shares[voter][v] > 0}

\* The delegations of voter that the inner IterateDelegations callback
\* counts: to a bonded validator other than the voter itself.
CountedDelegations(voter, bonded, shares) ==
  {v \in bonded \ {voter} : shares[voter][v] > 0}

\* Mutant: the delegator's power is subtracted from its option.
TallyStepSubtract(bonded, shares, tps, acc, vote) ==
    LET voter == vote[1]
        opt   == vote[2]
        dels  == CountedDelegations(voter, bonded, shares)
        power == MapThenSumSet(LAMBDA v : shares[voter][v] * tps[v], dels)
    IN [acc EXCEPT
          !.valVote    = IF voter \in bonded THEN [@ EXCEPT ![voter] = opt] ELSE @,
          !.votingVals = IF voter \in bonded THEN @ \cup {voter} ELSE @,
          !.deductions = [v \in bonded |->
                            @[v] + (IF v \in dels THEN shares[voter][v] ELSE 0)],
          !.results    = [@ EXCEPT ![opt] = @ - power],
          !.total      = @ + power]

TallyStep(bonded, shares, tps, acc, vote) ==
    LET voter == vote[1]
        opt   == vote[2]
        dels  == CountedDelegations(voter, bonded, shares)
        power == MapThenSumSet(LAMBDA v : shares[voter][v] * tps[v], dels)
    IN [acc EXCEPT
          !.valVote    = IF voter \in bonded THEN [@ EXCEPT ![voter] = opt] ELSE @,
          !.votingVals = IF voter \in bonded THEN @ \cup {voter} ELSE @,
          !.deductions = [v \in bonded |->
                            @[v] + (IF v \in dels THEN shares[voter][v] ELSE 0)],
          !.results    = [@ EXCEPT ![opt] = @ + power],
          !.total      = @ + power]

\* Power a voting validator keeps: its shares not voted by delegators.
InheritedPower(acc, v, shares, tps) ==
  (DelegatorShares(v, shares) - acc.deductions[v]) * tps[v]

\* The loop over currValidators (tally.go:71-81); map order is irrelevant
\* because it only adds.
ApplyValidatorVotes(acc, bonded, shares, tps) ==
  LET voted == {v \in bonded : acc.valVote[v] # OptionEmpty}
  IN [acc EXCEPT
        !.results = [o \in Options |->
                       @[o] + MapThenSumSet(LAMBDA v : InheritedPower(acc, v, shares, tps),
                                            {v \in voted : acc.valVote[v] = o})],
        !.total   = @ + MapThenSumSet(LAMBDA v : InheritedPower(acc, v, shares, tps), voted)]

\* voteSeq: the recorded votes as <<voter, option>> in iteration order.
TallyImpl(voteSeq, bonded, shares, tps) ==
  ApplyValidatorVotes(FoldLeft(LAMBDA acc, vote : TallyStep(bonded, shares, tps, acc, vote),
                               InitAcc(bonded), voteSeq),
                      bonded, shares, tps)

(***************************************************************************)
(* The reference: every delegation to a bonded validator counts for the    *)
(* delegator's own vote if it voted, otherwise for the validator's vote,   *)
(* otherwise not at all.                                                   *)
(***************************************************************************)
Attributed(a, v, votes) ==
  IF votes[a] # NoVote THEN votes[a] ELSE votes[v]

RefPower(o, votes, bonded, shares, tps) ==
  MapThenSumSet(LAMBDA d : shares[d[1]][d[2]] * tps[d[2]],
                {d \in Accounts \X bonded : shares[d[1]][d[2]] > 0 /\ Attributed(d[1], d[2], votes) = o})

TallyRef(votes, bonded, shares, tps) ==
  LET res == [o \in Options |-> RefPower(o, votes, bonded, shares, tps)]
  IN [ results    |-> res,
       total      |-> MapThenSumSet(LAMBDA o : res[o], Options),
       votingVals |-> {v \in bonded : votes[v] # NoVote} ]

(***************************************************************************)
(* The outcome rules, evaluated in the code's order (tally.go:93-114).     *)
(* proc: [threshold, veto, participation |-> <<num, den>>].                 *)
(***************************************************************************)
\* x / y > <<n, d>>, for y > 0
FracGT(x, y, f) == x * f[2] > f[1] * y

Outcome(res, total, system, proc) ==
  IF total - res[Abstain] = 0 THEN REJECT
  ELSE IF proc.participation[1] * system > proc.participation[2] * total THEN REJECT
  ELSE IF FracGT(res[NoWithVeto], total, proc.veto) THEN REJECTVETO
  ELSE IF FracGT(res[Yes], total, proc.threshold) THEN PASS
  ELSE REJECT

=============================================================================
