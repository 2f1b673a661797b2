CONSTANTS
  Accounts = {"v1", "d1"}
  Validators = {"v1"}
  Yes = Yes
  Abstain = Abstain
  No = No
  NoWithVeto = NoWithVeto
  NoVote = NoVote
  OptionEmpty = OptionEmpty
  PASS = PASS
  REJECT = REJECT
  REJECTVETO = REJECTVETO
  Denoms = {"iris-atto"}
  Stake = "iris-atto"
  Kinds = {"SoftwareUpgrade", "SystemHalt"}
  Critical = Critical
  Important = Important
  Normal = Normal
  Absent = Absent
  Profilers = {"v1"}
  InitialTrustees = {"d1"}
  UpgradeVersions = {1}
  SwitchHeights = {1, 4}
  TaxUsages = {"Burn"}
  TaxDestinations = {"d1"}
  SystemHaltPeriod = 1
  ExportsGenesis = TRUE
  KindLevel <- MCKindLevel
  MinDeposit <- MCMinDeposit
  DepositPeriod <- MCDepositPeriod
  VotingPeriod <- MCVotingPeriod
  MaxNum <- MCMaxNum
  Procedure <- MCProcedure
  Shares <- MCShares
  TPS <- MCTPS
  InitialBalance <- MCInitialBalance
  DepositAmounts <- MCDepositAmountsWithZero
  DecPrecision = 2
  CounterBits = 3
  MaxProposals = 2
  MaxTime = 5
  VoteChoices = {Yes}

SPECIFICATION FairSpec

INVARIANT UpgradeConfigNotStale
INVARIANT OpenProposalsHoldStake
 
PROPERTY SystemHaltTakesEffect
