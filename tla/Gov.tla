--------------------------------- MODULE Gov ---------------------------------
(***************************************************************************)
(* The proposal lifecycle of the governance keeper: submission, deposits,  *)
(* activation of the voting period, votes, and the per-block EndBlocker    *)
(* that drops expired unfunded proposals and tallies, refunds or burns,    *)
(* executes, slashes and finalises expired voting proposals; the system   *)
(* halt height and its tag; the pre-export refund of open proposals.      *)
(*   app/v1/gov/internal/keeper/keeper.go   (Keeper)                        *)
(*   app/v1/gov/abci.go                     (EndBlocker)                    *)
(*   app/v1/gov/handler.go                  (message routing)               *)
(*   app/v1/gov/internal/keeper/proposal_software_upgrade.go,               *)
(*   proposal_community_tax_usage.go, proposals.go (Validate, Execute)      *)
(*   app/v1/gov/genesis.go                  (PrepForZeroHeightGenesis)      *)
(*                                                                         *)
(* Every message handler is one atomic step: a handler that returns an     *)
(* error leaves no state behind (the host discards the transaction's       *)
(* cache), so only successful calls are steps.  The keeper's store is the  *)
(* record Keeper; every action computes the store after the whole handler *)
(* and commits it.  The stake module (bonded validators), the guardian    *)
(* registry (trustees), the protocol keeper (version, upgrade switch) and *)
(* the block clock are the environment.  Block height and block time are  *)
(* the same counter: one block per time unit.                              *)
(***************************************************************************)
EXTENDS Tally, Naturals, FiniteSets, Sequences, SequencesExt, FiniteSetsExt, TLC

CONSTANTS
  Denoms, Stake,          \* coin denominations; Stake is stakeTypes.StakeDenom
  Kinds,                  \* proposal kinds that can be submitted
  KindLevel,              \* [Kinds -> Levels]: ProposalKind.GetProposalLevel
  Critical, Important, Normal,    \* types.ProposalLevel values
  MinDeposit,             \* [Levels -> Nat]: MinDeposit (stake) of a level
  DepositPeriod,          \* [Levels -> Nat]: MaxDepositPeriod of a level
  VotingPeriod,           \* [Levels -> Nat]: VotingPeriod of a level
  MaxNum,                 \* [Levels -> Nat]: CriticalMaxNum, ImportantMaxNum, NormalMaxNum
  Procedure,              \* [Levels -> tallying procedure] (see Tally!Outcome)
  Shares, TPS,            \* delegation shares and validator token-per-share
  InitialBalance,         \* [Accounts -> Coins]
  DepositAmounts,         \* the coin amounts offered in deposits
  VoteChoices,            \* the vote options cast (a subset of Options)
  DecPrecision,           \* decimal digits of sdk.Dec (10 in the code)
  CounterBits,            \* width of the uint64 proposal counters
  MaxProposals,           \* bound: number of proposal ids allocated
  MaxTime,                \* bound: last block time explored
  Absent,                 \* a store key that is not set
  Profilers,              \* guardian profilers: may propose software upgrades
  InitialTrustees,        \* guardian trustees at genesis
  UpgradeVersions,        \* protocol versions a SoftwareUpgrade may name
  SwitchHeights,          \* switch heights a SoftwareUpgrade may name
  TaxUsages,              \* usage types a CommunityTaxUsage may name
  TaxDestinations,        \* destination addresses a CommunityTaxUsage may name
  SystemHaltPeriod,       \* parameter SystemHaltPeriod
  ExportsGenesis          \* whether the operator may export the chain

Levels == {Critical, Important, Normal}

ASSUME KindLevel \in [Kinds -> Levels]

CounterMod == 2^CounterBits
Ids == 1..MaxProposals

(***************************************************************************)
(* Coins (sdk.Coins) as a vector over Denoms.                               *)
(***************************************************************************)
ZeroCoins == [d \in Denoms |-> 0]
Plus(a, b) == [d \in Denoms |-> a[d] + b[d]]
Minus(a, b) == [d \in Denoms |-> a[d] - b[d]]
StakeCoins(n) == [d \in Denoms |-> IF d = Stake THEN n ELSE 0]
\* Coins.IsAllGTE: every denomination of b is covered by a.
IsAllGTE(a, b) == \A d \in Denoms : a[d] >= b[d]
SumCoins(S, f(_)) == [d \in Denoms |-> MapThenSumSet(LAMBDA x : f(x)[d], S)]

\* sdk.Dec rounding (chopPrecisionAndRound): n / d rounded half to even.
RoundHalfEven(n, d) ==
  LET q == n \div d
      r == n % d
  IN IF 2 * r > d THEN q + 1
     ELSE IF 2 * r < d THEN q
     ELSE q + (q % 2)

DecOne == 10^DecPrecision

\* Mutant: the initial minimum computed with truncating integer division.
MinInitialDepositTruncated(level) == StakeCoins((MinDeposit[level] * 3) \div 10)

\* getMinInitialDeposit: MinDeposit * MinDepositRate (0.3), RoundInt.
MinInitialDeposit(level) == StakeCoins(RoundHalfEven(MinDeposit[level] * 3, 10))

MinDepositCoins(level) == StakeCoins(MinDeposit[level])

Statuses == {"DepositPeriod", "VotingPeriod", "Passed", "Rejected"}

VARIABLES
  nextID,          \* KeyNextProposalID
  proposals,       \* KeyProposal(id): the stored proposal records
  deposits,        \* KeyDeposit(id, addr): ZeroCoins when absent
  votes,           \* KeyVote(id, addr): NoVote when absent
  inactiveQueue,   \* KeyInactiveProposalQueueProposal(time, id) entries
  activeQueue,     \* KeyActiveProposalQueueProposal(time, id) entries
  valSnapshot,     \* KeyValidatorSet(id): validators bonded at activation
  criticalID,      \* KeyCriticalProposal
  importantNum,    \* KeyImportantProposalNum
  normalNum,       \* KeyNormalProposalNum
  balance,         \* bank: account balances
  escrow,          \* bank: balance of auth.GovDepositCoinsAccAddr
  burned,          \* bank: coins burnt by BurnCoins
  slashes,         \* stake: calls Slash(validator) made for a proposal
  upgradeConfig,   \* protocol: the pending upgrade config, or Absent
  taxAllocations,  \* distribution: AllocateFeeTax calls, <<id, dest, burn>>
  haltHeight,      \* KeySystemHaltHeight (Absent for the -1 sentinel)
  halted,          \* the host received the halt tag and stopped
  exported,        \* PrepForZeroHeightGenesis ran; the chain is exported
  bonded,          \* stake: the bonded validators
  trustees,        \* guardian: the trustee addresses
  appVersion,      \* protocol: the current protocol version
  blockTime        \* ctx.BlockHeader().Time of the current block

keeperVars == <<nextID, proposals, deposits, votes, inactiveQueue, activeQueue,
                valSnapshot, criticalID, importantNum, normalNum, balance,
                escrow, burned, slashes, upgradeConfig, taxAllocations,
                haltHeight>>
envVars == <<bonded, trustees, appVersion, blockTime, halted, exported>>
vars == <<keeperVars, envVars>>

Keeper ==
  [ nextID |-> nextID, proposals |-> proposals, deposits |-> deposits,
    votes |-> votes, inactiveQueue |-> inactiveQueue,
    activeQueue |-> activeQueue, valSnapshot |-> valSnapshot,
    criticalID |-> criticalID, importantNum |-> importantNum,
    normalNum |-> normalNum, balance |-> balance, escrow |-> escrow,
    burned |-> burned, slashes |-> slashes, upgradeConfig |-> upgradeConfig,
    taxAllocations |-> taxAllocations, haltHeight |-> haltHeight ]

Commit(k) ==
  /\ nextID' = k.nextID
  /\ proposals' = k.proposals
  /\ deposits' = k.deposits
  /\ votes' = k.votes
  /\ inactiveQueue' = k.inactiveQueue
  /\ activeQueue' = k.activeQueue
  /\ valSnapshot' = k.valSnapshot
  /\ criticalID' = k.criticalID
  /\ importantNum' = k.importantNum
  /\ normalNum' = k.normalNum
  /\ balance' = k.balance
  /\ escrow' = k.escrow
  /\ burned' = k.burned
  /\ slashes' = k.slashes
  /\ upgradeConfig' = k.upgradeConfig
  /\ taxAllocations' = k.taxAllocations
  /\ haltHeight' = k.haltHeight

Level(k, id) == KindLevel[k.proposals[id].kind]

(***************************************************************************)
(* Store accessors (keeper.go).  Each reads or writes one key of the KV    *)
(* store; the codec round trip is the identity on these values.            *)
(***************************************************************************)
\* getNewProposalID: InitGenesis always sets the key, so its error path is
\* never taken.
GetNewProposalID(k) == [k |-> [k EXCEPT !.nextID = @ + 1], id |-> k.nextID]

\* peekCurrentProposalID: likewise never the error path.
peekCurrentProposalID(k) == k.nextID

\* GetProposal: nil when the key is missing.
GetProposal(k, id) ==
  [found |-> id \in DOMAIN k.proposals,
   proposal |-> IF id \in DOMAIN k.proposals THEN k.proposals[id] ELSE Absent]

SetProposal(k, id, p) == [k EXCEPT !.proposals = (id :> p) @@ @]
DeleteProposal(k, id) == [k EXCEPT !.proposals = [i \in DOMAIN @ \ {id} |-> @[i]]]

GetVote(k, id, voter) == [found |-> k.votes[id][voter] # NoVote, vote |-> k.votes[id][voter]]
setVote(k, id, voter, option) == [k EXCEPT !.votes[id][voter] = option]

GetDeposit(k, id, depositor) ==
  [found |-> k.deposits[id][depositor] # ZeroCoins, deposit |-> k.deposits[id][depositor]]
setDeposit(k, id, depositor, amount) == [k EXCEPT !.deposits[id][depositor] = amount]

InsertActiveProposalQueue(k, end, id) == [k EXCEPT !.activeQueue = @ \cup {<<end, id>>}]
RemoveFromActiveProposalQueue(k, end, id) == [k EXCEPT !.activeQueue = @ \ {<<end, id>>}]
InsertInactiveProposalQueue(k, end, id) == [k EXCEPT !.inactiveQueue = @ \cup {<<end, id>>}]
RemoveFromInactiveProposalQueue(k, end, id) == [k EXCEPT !.inactiveQueue = @ \ {<<end, id>>}]

\* SetValidatorSet snapshots the bonded validators; DeleteValidatorSet.
SetValidatorSet(k, id) == [k EXCEPT !.valSnapshot = (id :> bonded) @@ @]
GetValidatorSet(k, id) == IF id \in DOMAIN k.valSnapshot THEN k.valSnapshot[id] ELSE {}
DeleteValidatorSet(k, id) == [k EXCEPT !.valSnapshot = [i \in DOMAIN @ \ {id} |-> @[i]]]

\* Absent stands for the -1 GetSystemHaltHeight returns for a missing key.
SetSystemHaltHeight(k, height) == [k EXCEPT !.haltHeight = height]
GetSystemHaltHeight(k) == IF k.haltHeight = Absent THEN -1 ELSE k.haltHeight

\* The per-level parameter getters (their Nil-level panic is the one of
\* GetDepositProcedure, modelled in Messages).
GetVotingProcedure(level) == VotingPeriod[level]
GetMaxNumByProposalLevel(level) == MaxNum[level]
GetTallyingProcedure(level) == Procedure[level]

(***************************************************************************)
(* Open-proposal counters (keeper.go:601-667, 811-855).  The getters write: *)
(* GetImportantProposalNum stores 0 when its key is absent, and            *)
(* GetNormalProposalNum stores 0 under the *Important* key when the Normal *)
(* key is absent.                                                           *)
(***************************************************************************)
GetImportantProposalNum(k) ==
  [ k   |-> IF k.importantNum = Absent THEN [k EXCEPT !.importantNum = 0] ELSE k,
    num |-> IF k.importantNum = Absent THEN 0 ELSE k.importantNum ]

GetNormalProposalNum(k) ==
  [ k   |-> IF k.normalNum = Absent THEN [k EXCEPT !.importantNum = 0] ELSE k,
    num |-> IF k.normalNum = Absent THEN 0 ELSE k.normalNum ]

GetCriticalProposalNum(k) == IF k.criticalID = Absent THEN 0 ELSE 1

\* HasReachedTheMaxProposalNum: the debug log reads all three counters,
\* then the level's counter is compared with "==".
HasReachedTheMaxProposalNum(k, level) ==
  LET k1 == GetImportantProposalNum(k).k
      k2 == GetNormalProposalNum(k1).k
      r  == CASE level = Critical  -> [k |-> k2, num |-> GetCriticalProposalNum(k2)]
              [] level = Important -> GetImportantProposalNum(k2)
              [] level = Normal    -> GetNormalProposalNum(k2)
  IN [k |-> r.k, reached |-> r.num = GetMaxNumByProposalLevel(level)]

\* The per-level adders and subtractors (keeper.go:608-667): a counter is
\* read with its getter, which may first store a default, and written back
\* as a uint64, so subtracting from 0 wraps.
AddCriticalProposalNum(k, id) == [k EXCEPT !.criticalID = id]

SubCriticalProposalNum(k) == [k EXCEPT !.criticalID = Absent]

AddImportantProposalNum(k) ==
  LET g == GetImportantProposalNum(k)
  IN [g.k EXCEPT !.importantNum = (g.num + 1) % CounterMod]

SubImportantProposalNum(k) ==
  LET g == GetImportantProposalNum(k)
  IN [g.k EXCEPT !.importantNum = (g.num + CounterMod - 1) % CounterMod]

AddNormalProposalNum(k) ==
  LET g == GetNormalProposalNum(k)
  IN [g.k EXCEPT !.normalNum = (g.num + 1) % CounterMod]

SubNormalProposalNum(k) ==
  LET g == GetNormalProposalNum(k)
  IN [g.k EXCEPT !.normalNum = (g.num + CounterMod - 1) % CounterMod]

AddProposalNum(k, level, id) ==
  CASE level = Critical  -> AddCriticalProposalNum(k, id)
    [] level = Important -> AddImportantProposalNum(k)
    [] level = Normal    -> AddNormalProposalNum(k)

SubProposalNum(k, level) ==
  CASE level = Critical  -> SubCriticalProposalNum(k)
    [] level = Important -> SubImportantProposalNum(k)
    [] level = Normal    -> SubNormalProposalNum(k)

(***************************************************************************)
(* Deposits (keeper.go:268-278, 383-425).                                   *)
(***************************************************************************)
\* Mutant: the queue move forgets RemoveFromInactiveProposalQueue.
ActivateVotingPeriodKeepInactive(k, id) ==
  LET end == blockTime + VotingPeriod[Level(k, id)]
  IN [k EXCEPT
        !.proposals   = [@ EXCEPT ![id].status = "VotingPeriod", ![id].votingEnd = end],
        !.activeQueue = @ \cup {<<end, id>>},
        !.valSnapshot = (id :> bonded) @@ @]

\* activateVotingPeriod: status, voting end, queue move, validator snapshot.
ActivateVotingPeriod(k, id) ==
  LET p   == k.proposals[id]
      end == blockTime + GetVotingProcedure(Level(k, id))
      k1  == SetProposal(k, id, [p EXCEPT !.status = "VotingPeriod", !.votingEnd = end])
      k2  == RemoveFromInactiveProposalQueue(k1, p.depositEnd, id)
  IN SetValidatorSet(InsertActiveProposalQueue(k2, end, id), id)

\* AddDeposit after its checks (proposal present, in DepositPeriod, and
\* SendCoins succeeding): escrow transfer, total update, activation when
\* the total covers MinDeposit, deposit record upsert.
AddDeposit(k, id, depositor, amount) ==
  LET k1 == [k EXCEPT
               !.balance   = [@ EXCEPT ![depositor] = Minus(@, amount)],
               !.escrow    = Plus(@, amount),
               !.proposals = [@ EXCEPT ![id].totalDeposit = Plus(@, amount)]]
      k2 == IF IsAllGTE(k1.proposals[id].totalDeposit, MinDepositCoins(Level(k, id)))
            THEN ActivateVotingPeriod(k1, id)
            ELSE k1
  IN setDeposit(k2, id, depositor, Plus(k.deposits[id][depositor], amount))

\* Mutant: the SendCoins balance check is lost.
DepositAllowedNoFunds(k, id, depositor, amount) ==
  /\ GetProposal(k, id).found
  /\ k.proposals[id].status = "DepositPeriod"

DepositAllowed(k, id, depositor, amount) ==
  /\ GetProposal(k, id).found
  /\ k.proposals[id].status = "DepositPeriod"
  /\ IsAllGTE(k.balance[depositor], amount)

(***************************************************************************)
(* Finalisation of deposits (keeper.go:434-493).                            *)
(***************************************************************************)
Depositors(k, id) == {a \in Accounts : k.deposits[id][a] # ZeroCoins}

\* DeleteDeposits: burn every deposit in full and delete the records.
DeleteDeposits(k, id) ==
  LET sum == SumCoins(Depositors(k, id), LAMBDA a : k.deposits[id][a])
  IN [k EXCEPT !.escrow   = Minus(@, sum),
               !.burned   = Plus(@, sum),
               !.deposits = [@ EXCEPT ![id] = [a \in Accounts |-> ZeroCoins]]]

\* RefundDeposits: BurnRate (0.2) of the level's MinDeposit is burnt,
\* spread over the depositors in proportion to their stake deposits; each
\* refund is rounded half to even; the remainder of the stake sum is burnt.
\* Only the Stake denomination is refunded or burnt.
RefundAmount(k, id, a) ==
  LET sum  == MapThenSumSet(LAMBDA x : k.deposits[id][x][Stake], Depositors(k, id))
      rate == RoundHalfEven(MinDeposit[Level(k, id)] * 2 * (DecOne \div 10), sum)
      amt  == k.deposits[id][a][Stake]
  IN RoundHalfEven(amt * DecOne - amt * rate, DecOne)

\* Mutant: the deposit records are not deleted while iterating.
RefundDepositsKeepRecords(k, id) ==
  LET ds     == Depositors(k, id)
      sum    == MapThenSumSet(LAMBDA a : k.deposits[id][a][Stake], ds)
      refund == [a \in Accounts |-> IF a \in ds THEN RefundAmount(k, id, a) ELSE 0]
      total  == MapThenSumSet(LAMBDA a : refund[a], ds)
  IN [k EXCEPT !.balance = [a \in Accounts |-> Plus(@[a], StakeCoins(refund[a]))],
               !.escrow  = Minus(@, StakeCoins(sum)),
               !.burned  = Plus(@, StakeCoins(sum - total))]

RefundDeposits(k, id) ==
  LET ds     == Depositors(k, id)
      sum    == MapThenSumSet(LAMBDA a : k.deposits[id][a][Stake], ds)
      refund == [a \in Accounts |-> IF a \in ds THEN RefundAmount(k, id, a) ELSE 0]
      total  == MapThenSumSet(LAMBDA a : refund[a], ds)
  IN [k EXCEPT !.balance  = [a \in Accounts |-> Plus(@[a], StakeCoins(refund[a]))],
               !.escrow   = Minus(@, StakeCoins(sum)),
               !.burned   = Plus(@, StakeCoins(sum - total)),
               !.deposits = [@ EXCEPT ![id] = [a \in Accounts |-> ZeroCoins]]]

(***************************************************************************)
(* Tally and slashing of one proposal (tally.go).                           *)
(***************************************************************************)
VoteSeqOf(k, id) ==
  LET voters == SetToSeq({a \in Accounts : k.votes[id][a] # NoVote})
  IN [i \in DOMAIN voters |-> <<voters[i], k.votes[id][voters[i]]>>]

\* The TallyResult the code stores (tally.go:85-91): the power of each
\* option and the system voting power (the atto scaling is left out).
EmptyTallyResult == [results |-> ZeroResults, system |-> 0]

TallyOf(k, id) ==
  LET acc == TallyImpl(VoteSeqOf(k, id), bonded, Shares, TPS)
      sys == SystemVotingPower(bonded, Shares, TPS)
  IN [ result       |-> Outcome(acc.results, acc.total, sys, GetTallyingProcedure(Level(k, id))),
       tallyResults |-> [results |-> acc.results, system |-> sys],
       votingVals   |-> acc.votingVals ]

\* Mutant: the voters are not excluded from the snapshot.
SlashAllSnapshot(k, id, votingVals) ==
  [k EXCEPT !.slashes = @ \cup {<<id, v>> : v \in GetValidatorSet(k, id) \cap bonded}]

\* Slash: every snapshot validator that did not vote and is still bonded.
Slash(k, id, votingVals) ==
  [k EXCEPT !.slashes = @ \cup {<<id, v>> : v \in (GetValidatorSet(k, id) \ votingVals) \cap bonded}]

(***************************************************************************)
(* Kind-specific validation and execution.                                  *)
(***************************************************************************)
\* The payload of a proposal of each kind (proposal_util.go builders):
\* SoftwareUpgrade carries a version and switch height, CommunityTaxUsage
\* a usage and destination; the other kinds carry none.
NoPayload == [version |-> 0, switchHeight |-> 0, usage |-> "-", dest |-> "-"]

Payloads(kind) ==
  CASE kind = "SoftwareUpgrade" ->
         [version : UpgradeVersions, switchHeight : SwitchHeights,
          usage : {"-"}, dest : {"-"}]
    [] kind = "CommunityTaxUsage" ->
         [version : {0}, switchHeight : {0}, usage : TaxUsages, dest : TaxDestinations]
    [] OTHER -> {NoPayload}

\* ProtocolKeeper.IsValidVersion: the version that follows the current one.
IsValidVersion(v) == v = appVersion + 1

\* SoftwareUpgradeProposal.Validate after BasicProposal.Validate
\* (proposal_software_upgrade.go:28-43).
ValidateUpgrade(k, pd, proposer) ==
  /\ IsValidVersion(pd.version)
  /\ blockTime <= pd.switchHeight
  /\ proposer \in Profilers
  /\ k.upgradeConfig = Absent

\* CommunityTaxUsageProposal.Validate after BasicProposal.Validate
\* (proposal_community_tax_usage.go:32-37).
ValidateTaxUsage(pd) == pd.usage = "Burn" \/ pd.dest \in trustees

\* The checks Validate adds when verify is true; Parameter, SystemHalt and
\* PlainText add none.
KindValid(k, kind, pd, proposer) ==
  CASE kind = "SoftwareUpgrade"   -> ValidateUpgrade(k, pd, proposer)
    [] kind = "CommunityTaxUsage" -> ValidateTaxUsage(pd)
    [] OTHER -> TRUE

\* Mutant: Execute installs the config without re-checking the height.
ExecuteUpgradeNoHeightCheck(k, id) ==
  LET pd == k.proposals[id].payload IN
  IF k.upgradeConfig # Absent \/ ~IsValidVersion(pd.version) THEN k
  ELSE [k EXCEPT !.upgradeConfig = [id |-> id, version |-> pd.version,
                                    height |-> pd.switchHeight]]

\* SoftwareUpgradeProposal.Execute (proposal_software_upgrade.go:47-69): a
\* pending config, an invalid version or a switch height not beyond the
\* next block makes it a silent no-op; otherwise SetUpgradeConfig.
ExecuteUpgrade(k, id) ==
  LET pd == k.proposals[id].payload IN
  IF \/ k.upgradeConfig # Absent
     \/ ~IsValidVersion(pd.version)
     \/ blockTime + 1 >= pd.switchHeight
  THEN k
  ELSE [k EXCEPT !.upgradeConfig = [id |-> id, version |-> pd.version,
                                    height |-> pd.switchHeight]]

\* Mutant: Execute allocates without re-validating the destination.
ExecuteTaxUsageNoRevalidate(k, id) ==
  LET pd == k.proposals[id].payload IN
  [k EXCEPT !.taxAllocations = @ \cup {<<id, pd.dest, pd.usage = "Burn">>}]

\* CommunityTaxUsageProposal.Execute (proposal_community_tax_usage.go:
\* 41-54): Validate(verify = false) re-checks the trustee; on error
\* nothing is allocated (EndBlocker ignores the error), otherwise
\* AllocateFeeTax(dest, percent, burn).
ExecuteTaxUsage(k, id) ==
  LET pd == k.proposals[id].payload IN
  IF ~ValidateTaxUsage(pd) THEN k
  ELSE [k EXCEPT !.taxAllocations = @ \cup {<<id, pd.dest, pd.usage = "Burn">>}]

\* Mutant: the halt height is the current block plus the period minus one.
ExecuteSystemHaltOffByOne(k) ==
  IF k.haltHeight = Absent
  THEN [k EXCEPT !.haltHeight = blockTime + SystemHaltPeriod - 1]
  ELSE k

\* SystemHaltProposal.Execute: set the halt height SystemHaltPeriod blocks
\* ahead unless one is already set.
ExecuteSystemHalt(k) ==
  IF k.haltHeight = Absent
  THEN SetSystemHaltHeight(k, blockTime + SystemHaltPeriod)
  ELSE k

\* p.Execute for a passed proposal (abci.go:45).  PlainText does nothing.
Execute(k, id) ==
  CASE k.proposals[id].kind = "SoftwareUpgrade"   -> ExecuteUpgrade(k, id)
    [] k.proposals[id].kind = "CommunityTaxUsage" -> ExecuteTaxUsage(k, id)
    [] k.proposals[id].kind = "SystemHalt"        -> ExecuteSystemHalt(k)
    [] OTHER -> k

(***************************************************************************)
(* EndBlocker callbacks (abci.go:23-71).                                    *)
(***************************************************************************)
\* Mutant: the dropped proposal's counter is not decremented.
DropProposalNoSub(k, e) ==
  LET id == e[2]
      k1 == DeleteDeposits(k, id)
      k2 == [k1 EXCEPT !.proposals = [i \in DOMAIN @ \ {id} |-> @[i]]]
  IN [k2 EXCEPT !.inactiveQueue = @ \ {<<k.proposals[id].depositEnd, id>>}]

\* Mutant: the dropped proposal is stored as Rejected instead of deleted.
DropProposalAsRejected(k, e) ==
  LET id == e[2]
      k1 == DeleteDeposits(k, id)
      k2 == [k1 EXCEPT !.proposals = [@ EXCEPT ![id].status = "Rejected"]]
      k3 == SubProposalNum(k2, Level(k, id))
  IN [k3 EXCEPT !.inactiveQueue = @ \ {<<k.proposals[id].depositEnd, id>>}]

\* PopInactiveProposal callback: burn deposits, delete the proposal,
\* decrement the level's counter, remove the queue entry.
DropProposal(k, e) ==
  LET id == e[2]
      k3 == SubProposalNum(DeleteProposal(DeleteDeposits(k, id), id), Level(k, id))
  IN RemoveFromInactiveProposalQueue(k3, k.proposals[id].depositEnd, id)

\* Mutant: SetTallyResult is not called; the stored result stays empty.
FinaliseProposalNoTally(k, e) ==
  LET id == e[2]
      t  == TallyOf(k, id)
      k1 == IF t.result = REJECTVETO THEN DeleteDeposits(k, id) ELSE RefundDeposits(k, id)
      st == IF t.result = PASS THEN "Passed" ELSE "Rejected"
      kx == IF t.result = PASS THEN Execute(k1, id) ELSE k1
      k2 == [kx EXCEPT !.proposals = [@ EXCEPT ![id].status = st]]
      k3 == SubProposalNum(Slash(k2, id, t.votingVals), Level(k, id))
  IN [k3 EXCEPT !.valSnapshot   = [i \in DOMAIN @ \ {id} |-> @[i]],
                !.activeQueue   = @ \ {<<k.proposals[id].votingEnd, id>>}]

\* PopActiveProposal callback: tally, refund or burn, set status, execute
\* a passed proposal, store, slash, decrement the counter, delete the
\* snapshot, remove the entry.
FinaliseProposal(k, e) ==
  LET id == e[2]
      t  == TallyOf(k, id)
      k1 == IF t.result = REJECTVETO THEN DeleteDeposits(k, id) ELSE RefundDeposits(k, id)
      st == IF t.result = PASS THEN "Passed" ELSE "Rejected"
      kx == IF t.result = PASS THEN Execute(k1, id) ELSE k1
      k2 == SetProposal(kx, id, [kx.proposals[id] EXCEPT !.status = st, !.tally = t.tallyResults])
      k3 == SubProposalNum(Slash(k2, id, t.votingVals), Level(k, id))
  IN RemoveFromActiveProposalQueue(DeleteValidatorSet(k3, id), k.proposals[id].votingEnd, id)

\* Queue keys sort by time, then by id (big-endian encoding).
KeyLess(a, b) == a[1] < b[1] \/ (a[1] = b[1] /\ a[2] < b[2])

\* ActiveProposalQueueIterator (and the same iterator in the Pop functions):
\* the given entries in key order.
QueueIterator(entries) == IF entries = {} THEN <<>> ELSE SetToSortSeq(entries, KeyLess)

Expired(queue) == QueueIterator({e \in queue : e[1] <= blockTime})

EndBlocker(k) ==
  LET k1 == FoldLeft(DropProposal, k, Expired(k.inactiveQueue))
  IN FoldLeft(FinaliseProposal, k1, Expired(k1.activeQueue))

(***************************************************************************)
(* Actions.                                                                 *)
(***************************************************************************)
Init ==
  /\ nextID = 1
  /\ proposals = <<>>
  /\ deposits = [i \in Ids |-> [a \in Accounts |-> ZeroCoins]]
  /\ votes = [i \in Ids |-> [a \in Accounts |-> NoVote]]
  /\ inactiveQueue = {}
  /\ activeQueue = {}
  /\ valSnapshot = <<>>
  /\ criticalID = Absent
  /\ importantNum = Absent
  /\ normalNum = Absent
  /\ balance = InitialBalance
  /\ escrow = ZeroCoins
  /\ burned = ZeroCoins
  /\ slashes = {}
  /\ upgradeConfig = Absent
  /\ taxAllocations = {}
  /\ haltHeight = Absent
  /\ halted = FALSE
  /\ exported = FALSE
  /\ bonded \in SUBSET Validators
  /\ trustees = InitialTrustees
  /\ appVersion = 0
  /\ blockTime = 0

\* The host delivers transactions and blocks until it halts or exports.
Running == ~halted /\ ~exported

\* Keeper.SubmitProposal: initial deposit check, Validate (open-proposal
\* cap and the kind's checks), id allocation, store, inactive queue,
\* AddDeposit, counter.
SubmitProposal(proposer, kind, initialDeposit, pd) ==
  LET level == KindLevel[kind]
      v     == HasReachedTheMaxProposalNum(Keeper, level)
      g     == GetNewProposalID(v.k)
      id    == g.id
      p     == [kind |-> kind, status |-> "DepositPeriod", totalDeposit |-> ZeroCoins,
                depositEnd |-> blockTime + DepositPeriod[level], votingEnd |-> 0,
                payload |-> pd, tally |-> EmptyTallyResult]
      k1    == InsertInactiveProposalQueue(SetProposal(g.k, id, p), p.depositEnd, id)
  IN /\ Running
     /\ nextID <= MaxProposals
     /\ IsAllGTE(initialDeposit, MinInitialDeposit(level))
     /\ ~v.reached
     /\ KindValid(Keeper, kind, pd, proposer)
     /\ IsAllGTE(balance[proposer], initialDeposit)
     /\ Commit(AddProposalNum(AddDeposit(k1, id, proposer, initialDeposit), level, id))
     /\ UNCHANGED envVars

\* handleMsgDeposit -> Keeper.AddDeposit
Deposit(id, depositor, amount) ==
  /\ Running
  /\ DepositAllowed(Keeper, id, depositor, amount)
  /\ Commit(AddDeposit(Keeper, id, depositor, amount))
  /\ UNCHANGED envVars

\* IsValidatorOrDelegator: a validator record exists, or a delegation.
IsValidatorOrDelegator(a) == a \in Validators \/ \E v \in Validators : Shares[a][v] > 0

\* handleMsgVote -> Keeper.AddVote
AddVote(id, voter, option) ==
  LET k == Keeper
      p == GetProposal(k, id)
  IN /\ Running
     /\ p.found
     /\ p.proposal.status = "VotingPeriod"
     /\ IsValidatorOrDelegator(voter)
     /\ ~GetVote(k, id, voter).found
     /\ Commit(setVote(k, id, voter, option))
     /\ UNCHANGED envVars

\* The upgrade module's end of block after gov's: at the switch height the
\* pending config is consumed, and the protocol moves to its version when
\* enough validators signalled it (success) or stays (failure).
UpgradeEndBlocker(k) ==
  IF k.upgradeConfig # Absent /\ k.upgradeConfig.height = blockTime
  THEN [k EXCEPT !.upgradeConfig = Absent]
  ELSE k

SwitchedVersion(k, success) ==
  IF k.upgradeConfig # Absent /\ k.upgradeConfig.height = blockTime /\ success
  THEN k.upgradeConfig.version ELSE appVersion

\* The block's end: gov's EndBlocker, which first emits the halt tag when
\* the height equals the stored halt height (abci.go:17-20), then the
\* upgrade module's; the host stops on the halt tag, otherwise the next
\* block begins.
EndBlock ==
  /\ Running
  /\ blockTime < MaxTime
  /\ LET k == EndBlocker(Keeper) IN
       /\ Commit(UpgradeEndBlocker(k))
       /\ appVersion' \in {SwitchedVersion(k, success) : success \in BOOLEAN}
  /\ halted' = (blockTime = GetSystemHaltHeight(Keeper))
  /\ blockTime' = blockTime + 1
  /\ UNCHANGED <<bonded, trustees, exported>>

\* ValidProposalStatus (enums.go:150-153): the status has a name in
\* pStatusMap.  Statuses are kept by name; StatusNil, whose String() is "",
\* is the empty string.
ValidProposalStatus(status) == status \in Statuses

\* Mutant: the loop runs from maxProposalID - numLatest + 1 to maxProposalID.
GetProposalsFilteredShifted(k, voter, depositor, status, numLatest) ==
  LET maxID == peekCurrentProposalID(k)
      n     == IF numLatest = 0 \/ maxID < numLatest THEN maxID ELSE numLatest
      Keep(id) ==
        /\ GetProposal(k, id).found
        /\ voter # Absent => k.votes[id][voter] # NoVote
        /\ depositor # Absent => k.deposits[id][depositor] # ZeroCoins
        /\ ValidProposalStatus(status) => k.proposals[id].status = status
  IN SelectSeq([i \in 1..n |-> maxID - n + i], Keep)

\* GetProposalsFiltered (keeper.go:179-221): the ids nextID - n .. nextID - 1,
\* n being numLatest or, when that is 0 or exceeds nextID, nextID.  An id is
\* kept when the proposal is stored, the voter (if given) has a vote, the
\* depositor (if given) a deposit record, and, when status is valid, the
\* proposal has it.  The tests are independent; the stored-proposal test is
\* first so that id 0 is never looked up.  Absent is the nil address.
GetProposalsFiltered(k, voter, depositor, status, numLatest) ==
  LET maxID == peekCurrentProposalID(k)
      n     == IF numLatest = 0 \/ maxID < numLatest THEN maxID ELSE numLatest
      Keep(id) ==
        /\ GetProposal(k, id).found
        /\ voter # Absent => GetVote(k, id, voter).found
        /\ depositor # Absent => GetDeposit(k, id, depositor).found
        /\ ValidProposalStatus(status) => k.proposals[id].status = status
  IN SelectSeq([i \in 1..n |-> maxID - n + i - 1], Keep)

\* PrepForZeroHeightGenesis (genesis.go:71-83): RefundDeposits for every
\* DepositPeriod proposal, then for every VotingPeriod proposal; the chain
\* is then exported.
PrepForZeroHeightGenesis ==
  LET k1 == FoldLeft(RefundDeposits, Keeper, GetProposalsFiltered(Keeper, Absent, Absent, "DepositPeriod", 0))
  IN /\ Running
     /\ Commit(FoldLeft(RefundDeposits, k1, GetProposalsFiltered(k1, Absent, Absent, "VotingPeriod", 0)))
     /\ exported' = TRUE
     /\ UNCHANGED <<bonded, trustees, appVersion, blockTime, halted>>

\* The stake module bonds or unbonds a validator.
ChangeBonded(v) ==
  /\ bonded' = IF v \in bonded THEN bonded \ {v} ELSE bonded \cup {v}
  /\ UNCHANGED <<keeperVars, trustees, appVersion, blockTime, halted, exported>>

\* The guardian module adds or deletes a trustee.
ChangeTrustee(a) ==
  /\ Running
  /\ trustees' = IF a \in trustees THEN trustees \ {a} ELSE trustees \cup {a}
  /\ UNCHANGED <<keeperVars, bonded, appVersion, blockTime, halted, exported>>

Next ==
  \/ \E a \in Accounts, kind \in Kinds, amt \in DepositAmounts :
       \E pd \in Payloads(kind) : SubmitProposal(a, kind, amt, pd)
  \/ \E id \in Ids, a \in Accounts, amt \in DepositAmounts : Deposit(id, a, amt)
  \/ \E id \in Ids, a \in Accounts, o \in VoteChoices : AddVote(id, a, o)
  \/ EndBlock
  \/ ExportsGenesis /\ PrepForZeroHeightGenesis
  \/ \E v \in Validators : ChangeBonded(v)
  \/ "CommunityTaxUsage" \in Kinds /\ \E a \in TaxDestinations : ChangeTrustee(a)

Spec == Init /\ [][Next]_vars

\* The host keeps producing blocks until it halts: EndBlock is weakly fair.
\* Only EndBlock advances blockTime, and EndBlock is enabled exactly when
\* Running /\ blockTime < MaxTime (the rest of it is assignments), so the
\* fairness is stated on that step as BlockProduced, whose enabledness TLC
\* evaluates without recomputing EndBlocker.  Transactions and the
\* environment get no fairness.
BlockProduced == Running /\ blockTime < MaxTime /\ blockTime' = blockTime + 1

FairSpec == Spec /\ WF_blockTime(BlockProduced)

(***************************************************************************)
(* Properties.                                                              *)
(***************************************************************************)
Open(id) == proposals[id].status \in {"DepositPeriod", "VotingPeriod"}
OpenOfLevel(l) == {id \in DOMAIN proposals : Open(id) /\ KindLevel[proposals[id].kind] = l}
CounterValue(c) == IF c = Absent THEN 0 ELSE c

TypeOK ==
  /\ nextID \in 1..MaxProposals + 1
  /\ DOMAIN proposals \subseteq 1..nextID - 1
  /\ \A id \in DOMAIN proposals :
       /\ proposals[id].kind \in Kinds
       /\ proposals[id].status \in Statuses
       /\ proposals[id].totalDeposit \in [Denoms -> Nat]
  /\ deposits \in [Ids -> [Accounts -> [Denoms -> Nat]]]
  /\ votes \in [Ids -> [Accounts -> Options \cup {NoVote}]]
  /\ criticalID \in Ids \cup {Absent}
  /\ importantNum \in (0..CounterMod - 1) \cup {Absent}
  /\ normalNum \in (0..CounterMod - 1) \cup {Absent}
  /\ balance \in [Accounts -> [Denoms -> Nat]]
  /\ escrow \in [Denoms -> Nat]
  /\ burned \in [Denoms -> Nat]
  /\ bonded \subseteq Validators
  /\ upgradeConfig \in {Absent} \cup [id : Ids, version : UpgradeVersions, height : SwitchHeights]
  /\ haltHeight \in {Absent} \cup Nat
  /\ halted \in BOOLEAN /\ exported \in BOOLEAN
  /\ trustees \subseteq Accounts

\* Queue membership follows the status (activateVotingPeriod moves the
\* entry, the EndBlocker callbacks remove it under the stored end time):
\* a DepositPeriod proposal is in the inactive queue under its deposit end
\* time, a VotingPeriod one in the active queue under its voting end time
\* with a validator snapshot, every entry names such a proposal, and no
\* entry is left behind past its time by EndBlocker.
QueuesMatchStatus ==
  /\ \A e \in inactiveQueue :
       /\ e[2] \in DOMAIN proposals
       /\ proposals[e[2]].status = "DepositPeriod"
       /\ proposals[e[2]].depositEnd = e[1]
  /\ \A e \in activeQueue :
       /\ e[2] \in DOMAIN proposals
       /\ proposals[e[2]].status = "VotingPeriod"
       /\ proposals[e[2]].votingEnd = e[1]
  /\ \A id \in DOMAIN proposals :
       /\ proposals[id].status = "DepositPeriod" => <<proposals[id].depositEnd, id>> \in inactiveQueue
       /\ proposals[id].status = "VotingPeriod" => <<proposals[id].votingEnd, id>> \in activeQueue
  /\ DOMAIN valSnapshot = {id \in DOMAIN proposals : proposals[id].status = "VotingPeriod"}
  /\ \A e \in inactiveQueue \cup activeQueue : e[1] >= blockTime

SupplyOf(denom) ==
  MapThenSumSet(LAMBDA a : balance[a][denom], Accounts) + escrow[denom] + burned[denom]

\* The escrow account holds exactly the recorded deposits (AddDeposit,
\* RefundDeposits and DeleteDeposits move coins and records together),
\* every open proposal's totalDeposit is the sum of its deposit records,
\* finalised and dropped proposals keep no record, and no coin is created
\* or lost: refunds plus burns equal what was deposited.  Once exported,
\* PrepForZeroHeightGenesis has deleted the records of open proposals too.
DepositsBackedByEscrow ==
  /\ \A d \in Denoms :
       /\ escrow[d] = MapThenSumSet(LAMBDA x : deposits[x[1]][x[2]][d], Ids \X Accounts)
       /\ SupplyOf(d) = MapThenSumSet(LAMBDA a : InitialBalance[a][d], Accounts)
  /\ \A id \in Ids :
       IF id \in DOMAIN proposals /\ Open(id) /\ ~exported
       THEN proposals[id].totalDeposit = SumCoins(Accounts, LAMBDA a : deposits[id][a])
       ELSE \A a \in Accounts : deposits[id][a] = ZeroCoins

\* The Critical slot (KeyCriticalProposal) names the one open Critical
\* proposal, and the Normal counter equals the number of open Normal
\* proposals, across submissions, drops and tallies in any order.
CriticalAndNormalCountersTrackOpen ==
  /\ IF OpenOfLevel(Critical) = {} THEN criticalID = Absent ELSE OpenOfLevel(Critical) = {criticalID}
  /\ CounterValue(normalNum) = Cardinality(OpenOfLevel(Normal))

\* The per-level counters are "running counts of in-flight proposals"
\* used to cap them (spec section 3): each counter equals the number of
\* open proposals of its level, which never exceeds the level's MaxNum.
ProposalNumCountsOpen ==
  /\ CounterValue(importantNum) = Cardinality(OpenOfLevel(Important))
  /\ CounterValue(normalNum) = Cardinality(OpenOfLevel(Normal))
  /\ \A l \in Levels : Cardinality(OpenOfLevel(l)) <= MaxNum[l]

\* Slash after a tally hits only validators of the proposal's snapshot
\* that did not vote on it: a validator whose vote Keeper.Tally counted
\* is never slashed for that proposal.
SlashedOnlyAbsentees ==
  \A s \in slashes : votes[s[1]][s[2]] = NoVote

\* A pending upgrade config installed by SoftwareUpgradeProposal.Execute
\* never has its switch height in the past: the switch height, validated
\* only against the submission block, is re-checked against the execution
\* block (proposal_software_upgrade.go:58), so the upgrade module reaches
\* it and a pending config cannot block later upgrades for ever.
UpgradeConfigNotStale ==
  upgradeConfig # Absent => upgradeConfig.height >= blockTime

\* Fee tax is allocated only to an address that is a trustee when the
\* passed CommunityTaxUsage proposal executes, or burnt: a trustee removed
\* between submission and execution receives nothing
\* (proposal_community_tax_usage.go:43).
TaxAllocatedToTrustees ==
  [][\A x \in taxAllocations' \ taxAllocations : x[3] \/ x[2] \in trustees]_vars

\* Every open proposal holds a positive stake deposit, so RefundDeposits,
\* which divides the burn amount by the stake sum (keeper.go:450-451), never
\* divides by zero, whether EndBlocker or PrepForZeroHeightGenesis calls it.
\* (After the export the records are refunded and the chain stops.)
OpenProposalsHoldStake ==
  \A id \in DOMAIN proposals :
     Open(id) /\ ~exported => MapThenSumSet(LAMBDA a : deposits[id][a][Stake], Accounts) > 0

\* PrepForZeroHeightGenesis refunds (does not burn) all deposits of every
\* proposal still in DepositPeriod or VotingPeriod (spec section 6).
GenesisRefundsInFull ==
  [][exported' /\ ~exported => burned' = burned]_vars

(***************************************************************************)
(* The lifecycle abstraction (GovLifecycle) implemented by this module.    *)
(***************************************************************************)
AbstractStatus ==
  [id \in Ids |->
     IF id \in DOMAIN proposals
     THEN CASE proposals[id].status = "DepositPeriod" -> "deposit"
            [] proposals[id].status = "VotingPeriod" -> "voting"
            [] proposals[id].status = "Passed" -> "passed"
            [] proposals[id].status = "Rejected" -> "rejected"
     ELSE IF id < nextID THEN "dropped" ELSE "none"]

Lifecycle == INSTANCE GovLifecycle WITH status <- AbstractStatus

LifecycleRefinement == Lifecycle!Spec

\* Every proposal whose deposit and voting periods both end before the
\* last explored block is eventually, and from then on, dropped, passed or
\* rejected, unless the chain stopped (halt or export): EndBlocker pops
\* every queue entry whose time has come.
ClosesInTime(id) ==
  /\ id \in DOMAIN proposals
  /\ proposals[id].depositEnd + VotingPeriod[Level(Keeper, id)] < MaxTime

SystemHaltTakesEffect ==
  <>[](haltHeight # Absent /\ haltHeight < MaxTime => ~Running)

=============================================================================
