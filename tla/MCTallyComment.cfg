CONSTANTS
  Accounts = {v1, v2, d1}
  Validators = {v1, v2}
  Yes = Yes
  Abstain = Abstain
  No = No
  NoWithVeto = NoWithVeto
  NoVote = NoVote
  OptionEmpty = OptionEmpty
  PASS = PASS
  REJECT = REJECT
  REJECTVETO = REJECTVETO
  SharesChoices = {0, 1}
  SelfShares = {1}
  TPSChoices = {1, 2}
  Procedure <- NormalProcedure

INIT Init
NEXT Next




INVARIANT NonAbstainingMajorityPasses
