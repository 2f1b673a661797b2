------------------------------- MODULE MCTally -------------------------------
(***************************************************************************)
(* Checks the tally algorithm of Tally over every small input: every vote  *)
(* assignment, bonded set, delegation table, token-per-share ratio and     *)
(* every order in which the votes are iterated.  The inputs are chosen in  *)
(* Init and never change; the properties are invariants over them.         *)
(***************************************************************************)
EXTENDS Tally, Functions

CONSTANTS
  SharesChoices,   \* possible share amounts of a delegation between two accounts
  SelfShares,      \* possible self-delegation shares of a validator
  TPSChoices,      \* possible token-per-share ratios
  Procedure        \* the tallying procedure of the level under test

\* A tallying procedure with the thresholds of the default Normal level
\* (threshold 1/2, veto 1/3, participation 1/2).
NormalProcedure ==
  [threshold |-> <<1, 2>>, veto |-> <<1, 3>>, participation |-> <<1, 2>>]

VARIABLES votes, bonded, shares, tps, order

vars == <<votes, bonded, shares, tps, order>>

Voters == {a \in Accounts : votes[a] # NoVote}

\* A validator always holds its own self-delegation; other accounts may
\* hold a delegation of any of SharesChoices.
ShareTables ==
  {s \in [Accounts -> [Validators -> SharesChoices \cup SelfShares]] :
     \A a \in Accounts, v \in Validators :
        IF a = v THEN s[a][v] \in SelfShares ELSE s[a][v] \in SharesChoices}

Init ==
  /\ votes \in [Accounts -> Options \cup {NoVote}]
  /\ bonded \in SUBSET Validators
  /\ shares \in ShareTables
  /\ tps \in [Validators -> TPSChoices]
  /\ order \in {f \in [1..Cardinality(Voters) -> Voters] : IsInjective(f)}

Next == UNCHANGED vars

Spec == Init /\ [][Next]_vars

VoteSeq == [i \in DOMAIN order |-> <<order[i], votes[order[i]]>>]

Impl == TallyImpl(VoteSeq, bonded, shares, tps)
Ref  == TallyRef(votes, bonded, shares, tps)
System == SystemVotingPower(bonded, shares, tps)

TypeOK ==
  /\ votes \in [Accounts -> Options \cup {NoVote}]
  /\ bonded \subseteq Validators
  /\ Impl.results \in [Options -> Nat]

\* The per-vote loop with delegator deductions (Keeper.Tally) gives, for
\* every iteration order of the votes, the same option totals, total
\* voting power and set of voting validators as the reference attribution
\* "a delegation counts for its delegator's vote, else for its validator's".
TallyMatchesReference ==
  /\ Impl.results = Ref.results
  /\ Impl.total = Ref.total
  /\ Impl.votingVals = Ref.votingVals

\* The comment in Keeper.Tally (tally.go:108) says a proposal passes "if
\* more than 1/2 of non-abstaining voters vote Yes": whenever participation
\* is met and veto is not, a Yes share of the non-abstaining power above
\* the threshold should make the outcome PASS.
NonAbstainingMajorityPasses ==
  LET res == Impl.results
      t   == Impl.total
  IN /\ t - res[Abstain] > 0
     /\ ~(Procedure.participation[1] * System > Procedure.participation[2] * t)
     /\ ~FracGT(res[NoWithVeto], t, Procedure.veto)
     /\ FracGT(res[Yes], t - res[Abstain], Procedure.threshold)
     => Outcome(res, t, System, Procedure) = PASS

=============================================================================
