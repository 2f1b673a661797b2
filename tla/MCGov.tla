-------------------------------- MODULE MCGov --------------------------------
(***************************************************************************)
(* Instantiates Gov for TLC: one validator and one delegator, the level   *)
(* table intended by the code (the table the source ships is empty, see    *)
(* README), small deposits, short periods.  The kinds are set per run.     *)
(***************************************************************************)
EXTENDS Gov

\* ProposalKind.GetProposalLevel as intended by types/enums.go:36-43.
MCKindLevel == [k \in Kinds |->
                  CASE k = "SystemHalt"        -> Critical
                    [] k = "Parameter"         -> Important
                    [] k = "SoftwareUpgrade"   -> Critical
                    [] k = "CommunityTaxUsage" -> Important
                    [] k = "PlainText"         -> Normal]

MCMinDeposit    == [l \in Levels |-> 2]
MCDepositPeriod == [l \in Levels |-> 2]
MCVotingPeriod  == [l \in Levels |-> 2]
MCMaxNum        == [l \in Levels |-> 1]

\* Threshold 1/2, veto 1/3, participation 1/2 at every level.
MCProcedure == [l \in Levels |->
                  [threshold |-> <<1, 2>>, veto |-> <<1, 3>>, participation |-> <<1, 2>>]]

\* Each validator is self-delegated one share; d1 delegates one share to v1.
MCShares == [a \in Accounts |-> [v \in Validators |->
               IF a = v \/ (a = "d1" /\ v = "v1") THEN 1 ELSE 0]]
MCTPS == [v \in Validators |-> 1]

\* The validator can fund a proposal alone; the delegator adds one coin.
MCInitialBalance == [a \in Accounts |-> [d \in Denoms |->
                       IF a = "v1" THEN 3 ELSE 1]]
MCDepositAmounts == {StakeCoins(1), StakeCoins(2)}

\* Deposits of stake, possibly with one coin of another denomination
\* (MsgDeposit.ValidateBasic accepts any valid coins).
MCDepositAmountsMixed == {Plus(StakeCoins(n), [d \in Denoms |-> IF d = Stake THEN 0 ELSE m]) :
                            n \in {1, 2}, m \in {0, 1}}

\* Deposits of 0, 1 or 2 stake: an empty deposit passes ValidateBasic.
MCDepositAmountsWithZero == {StakeCoins(0), StakeCoins(1), StakeCoins(2)}

\* A MinDeposit of 10 stake, whose 20% burn (2 stake) survives the rounding
\* of RefundDeposits at two decimal digits; the initial minimum is 3.
MCMinDepositLarge == [l \in Levels |-> 10]
MCDepositAmountsLarge == {StakeCoins(3)}
MCInitialBalanceLarge == [a \in Accounts |-> [d \in Denoms |->
                            IF a = "v1" THEN 3 ELSE 0]]

=============================================================================
