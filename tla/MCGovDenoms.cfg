CONSTANTS
  Accounts = {"v1", "d1"}
  Validators = {"v1"}
  Yes = Yes
  Abstain = Abstain
  No = No
  NoWithVeto = NoWithVeto
  NoVote = NoVote
  OptionEmpty = OptionEmpty
  PASS = PASS
  REJECT = REJECT
  REJECTVETO = REJECTVETO
  Denoms = {"iris-atto", "btc"}
  Stake = "iris-atto"
  Kinds = {"PlainText"}
  Critical = Critical
  Important = Important
  Normal = Normal
  Absent = Absent
  Profilers = {}
  InitialTrustees = {}
  UpgradeVersions = {0}
  SwitchHeights = {0}
  TaxUsages = {"Burn"}
  TaxDestinations = {"d1"}
  SystemHaltPeriod = 1
  ExportsGenesis = FALSE
  KindLevel <- MCKindLevel
  MinDeposit <- MCMinDeposit
  DepositPeriod <- MCDepositPeriod
  VotingPeriod <- MCVotingPeriod
  MaxNum <- MCMaxNum
  Procedure <- MCProcedure
  Shares <- MCShares
  TPS <- MCTPS
  InitialBalance <- MCInitialBalance
  DepositAmounts <- MCDepositAmountsMixed
  DecPrecision = 2
  CounterBits = 3
  MaxProposals = 2
  MaxTime = 4
  VoteChoices = {Yes, NoWithVeto}

INIT Init
NEXT Next

INVARIANT DepositsBackedByEscrow
