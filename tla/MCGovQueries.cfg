CONSTANTS
  Accounts = {"v1", "d1"}
  Validators = {"v1"}
  Yes = Yes
  Abstain = Abstain
  No = No
  NoWithVeto = NoWithVeto
  NoVote = NoVote
  OptionEmpty = OptionEmpty
  PASS = PASS
  REJECT = REJECT
  REJECTVETO = REJECTVETO
  Denoms = {"iris-atto"}
  Stake = "iris-atto"
  Kinds = {"PlainText"}
  Critical = Critical
  Important = Important
  Normal = Normal
  Absent = Absent
  Profilers = {}
  InitialTrustees = {}
  UpgradeVersions = {0}
  SwitchHeights = {0}
  TaxUsages = {"Burn"}
  TaxDestinations = {"d1"}
  SystemHaltPeriod = 1
  ExportsGenesis = FALSE
  KindLevel <- MCKindLevel
  MinDeposit <- MCMinDeposit
  DepositPeriod <- MCDepositPeriod
  VotingPeriod <- MCVotingPeriod
  MaxNum <- MCMaxNum
  Procedure <- MCProcedure
  Shares <- MCShares
  TPS <- MCTPS
  InitialBalance <- MCInitialBalance
  DepositAmounts <- MCDepositAmounts
  DecPrecision = 2
  CounterBits = 3
  MaxProposals = 2
  MaxTime = 3
  VoteChoices = {Yes, NoWithVeto}
  QueryStatusStrings <- MCQueryStatusStrings
  QueryLimits <- MCQueryLimits

INIT Init
NEXT Next

INVARIANT ProposalsQueryAgreesWithItemQueries
PROPERTY TallyQueryShowsFinalTally
