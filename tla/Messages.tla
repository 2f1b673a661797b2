------------------------------ MODULE Messages ------------------------------
(***************************************************************************)
(* The path of a gov message from its decoding to the keeper:   *)
(* the proposal-kind table pTypeMap and its conversions (enums.go), the    *)
(* stateless ValidateBasic checks (msgs.go), the handler's routing          *)
(* (handler.go), the proposal factory (proposal_util.go) and the kind and  *)
(* tag steps of Keeper.SubmitProposal that do not depend on the store     *)
(* (keeper.go:82-84, 133-146).  Everything here is a pure operator; the   *)
(* store-dependent middle of SubmitProposal is modelled by Gov.            *)
(*                                                                         *)
(* Strings are abstracted to their lengths, coins to valid/invalid, and    *)
(* sdk.Dec thresholds and percents to hundredths.                          *)
(***************************************************************************)
EXTENDS Naturals, FiniteSets

CONSTANTS
  KindNames,   \* the keys of pTypeMap: "PlainText", "Parameter", ...
  TypeMap,     \* pTypeMap: [KindNames -> [type : KindBytes, level : LevelBytes]]
  Malformed    \* a JSON value that is not a string

\* ProposalKind bytes (enums.go:20-28).
ProposalTypeNil               == 0
ProposalTypeParameter         == 1
ProposalTypeSoftwareUpgrade   == 2
ProposalTypeSystemHalt        == 3
ProposalTypeCommunityTaxUsage == 4
ProposalTypePlainText         == 5
ProposalTypeTokenAddition     == 6
KindBytes == 0..6
InvalidKind == 255     \* ProposalKind(0xff)

\* ProposalLevel bytes (enums.go:255-260).
ProposalLevelNil       == 0
ProposalLevelCritical  == 1
ProposalLevelImportant == 2
ProposalLevelNormal    == 3
LevelBytes == 0..3

\* UsageType bytes (enums.go:277-281).
UsageTypeBurn       == 1
UsageTypeDistribute == 2
UsageTypeGrant      == 3

\* ProposalTypeFromString (enums.go:46-52): the Type field of the entry, or
\* 0xff with an error for a name that is not a key.
ProposalTypeFromString(str) ==
  IF str \in KindNames THEN [kind |-> TypeMap[str].type, err |-> FALSE]
                       ELSE [kind |-> InvalidKind, err |-> TRUE]

\* ProposalKind.String (enums.go:93-100) ranges over the Go map, whose
\* iteration order is unspecified: it returns any key whose Type is pt, and
\* "" when there is none.  The result is the set of possible returns.
KindString(pt) ==
  LET keys == {k \in KindNames : TypeMap[k].type = pt}
  IN IF keys = {} THEN {""} ELSE keys

\* Mutant: a kind check that only tests the byte is in the enum's range.
ValidProposalTypeAnyByte(pt) == pt \in KindBytes

\* ValidProposalType (enums.go:55-58): the name String returns is a key.
\* Every possible return agrees, so the result is deterministic.
ValidProposalType(pt) == \A s \in KindString(pt) : s \in KindNames

\* ProposalKind.GetProposalLevel (enums.go:114-116): the Level of the entry
\* String names; the zero value ProposalLevelNil when it names none.  The
\* set of possible results, as String is nondeterministic.
GetProposalLevel(pt) ==
  {IF s \in KindNames THEN TypeMap[s].level ELSE ProposalLevelNil :
     s \in KindString(pt)}

\* ProposalKind.UnmarshalJSON (enums.go:77-90): a JSON value that is not a
\* string is ignored, leaving the zero value; an unknown name is an error.
KindFromJSON(v) ==
  IF v = Malformed THEN [kind |-> ProposalTypeNil, err |-> FALSE]
                   ELSE ProposalTypeFromString(v)

\* The decoded ProposalType of a message: binary (amino) encoding carries
\* the byte itself (Unmarshal, enums.go:66-69), JSON carries the name.
Decode(msg) ==
  IF msg.encoding = "binary" THEN [kind |-> msg.kindByte, err |-> FALSE]
                             ELSE KindFromJSON(msg.kindName)

\* ValidUsageType (enums.go:298-305).
ValidUsageType(ut) == ut \in {UsageTypeBurn, UsageTypeDistribute, UsageTypeGrant}

\* Mutant: EnsureLength without the description limit.
EnsureLengthTitleOnly(msg) ==
  IF msg.title > 70 THEN "ErrInvalidLength" ELSE "ok"

\* MsgSubmitProposal.EnsureLength (msgs.go:330-339).
EnsureLength(msg) ==
  CASE msg.title > 70 -> "ErrInvalidLength"
    [] msg.description > 280 -> "ErrInvalidLength"
    [] OTHER -> "ok"

\* MsgSubmitProposal.ValidateBasic (msgs.go:70-101) of a message whose kind
\* decoded to pt; the first failing check names the error.
ValidateBasicSubmit(msg, pt) ==
  CASE msg.title = 0 -> "ErrInvalidTitle"
    [] msg.description = 0 -> "ErrInvalidDescription"
    [] ~ValidProposalType(pt) -> "ErrInvalidProposalType"
    [] ~msg.proposer -> "ErrInvalidAddress"
    [] ~msg.depositValid -> "ErrInvalidCoins"
    [] EnsureLength(msg) # "ok" -> EnsureLength(msg)
    [] pt = ProposalTypeParameter /\ msg.params = 0 -> "ErrEmptyParam"
    [] pt = ProposalTypeParameter /\ msg.params > 1 -> "ErrInvalidParamNum"
    [] OTHER -> "ok"

\* MsgSubmitSoftwareUpgradeProposal.ValidateBasic (msgs.go:144-160): the
\* threshold must lie in [0.80, 1).
ValidateBasicUpgrade(msg, pt) ==
  LET base == ValidateBasicSubmit(msg, pt) IN
  CASE base # "ok" -> base
    [] msg.software > 70 -> "ErrInvalidLength"
    [] msg.threshold < 80 \/ msg.threshold >= 100 -> "ErrInvalidUpgradeThreshold"
    [] OTHER -> "ok"

\* MsgSubmitCommunityTaxUsageProposal.ValidateBasic (msgs.go:186-201).
ValidateBasicTaxUsage(msg, pt) ==
  LET base == ValidateBasicSubmit(msg, pt) IN
  CASE base # "ok" -> base
    [] ~ValidUsageType(msg.usage) -> "ErrInvalidUsageType"
    [] msg.usage # UsageTypeBurn /\ ~msg.dest -> "ErrInvalidAddress"
    [] msg.percent <= 0 \/ msg.percent > 100 -> "ErrInvalidPercent"
    [] OTHER -> "ok"

\* MsgSubmitTokenAdditionProposal.ValidateBasic (msgs.go:363-371): the
\* token fields are checked by the asset module's ValidateMsgIssueToken,
\* whose verdict is the message field tokenValid.
ValidateBasicTokenAddition(msg, pt) ==
  LET base == ValidateBasicSubmit(msg, pt) IN
  CASE base # "ok" -> base
    [] ~msg.tokenValid -> "ErrInvalidToken"
    [] OTHER -> "ok"

\* MsgDeposit.ValidateBasic (msgs.go:233-247): proposer is the depositor's
\* address and depositValid the verdict of Amount.IsValid and
\* IsNotNegative.  ProposalID is a uint64, so its test `< 0' never fails.
ValidateBasicDeposit(msg) ==
  CASE ~msg.proposer -> "ErrInvalidAddress"
    [] ~msg.depositValid -> "ErrInvalidCoins"
    [] OTHER -> "ok"

\* MsgVote.ValidateBasic (msgs.go:294-305): proposer is the voter's
\* address and optionValid the verdict of ValidVoteOption.
ValidateBasicVote(msg) ==
  CASE ~msg.proposer -> "ErrInvalidAddress"
    [] ~msg.optionValid -> "ErrInvalidVote"
    [] OTHER -> "ok"

\* The message types routed to handleMsgSubmitProposal (handler.go:13-18).
SubmitClasses == {"MsgSubmitProposal", "MsgSubmitSoftwareUpgradeProposal",
                  "MsgSubmitCommunityTaxUsageProposal",
                  "MsgSubmitTokenAdditionProposal"}

\* The ValidateBasic of the message's Go type, which the ante handler runs.
ValidateBasic(msg, pt) ==
  CASE msg.class = "MsgDeposit" -> ValidateBasicDeposit(msg)
    [] msg.class = "MsgVote" -> ValidateBasicVote(msg)
    [] msg.class = "MsgSubmitSoftwareUpgradeProposal" -> ValidateBasicUpgrade(msg, pt)
    [] msg.class = "MsgSubmitCommunityTaxUsageProposal" -> ValidateBasicTaxUsage(msg, pt)
    [] msg.class = "MsgSubmitTokenAdditionProposal" -> ValidateBasicTokenAddition(msg, pt)
    [] OTHER -> ValidateBasicSubmit(msg, pt)

\* The Go type of the proposal each router entry builds (proposal_util.go:
\* 18-29): TokenAddition is routed to createPlainTextInfo.
FactoryRouter ==
  [k \in {ProposalTypePlainText, ProposalTypeParameter,
          ProposalTypeSoftwareUpgrade, ProposalTypeSystemHalt,
          ProposalTypeCommunityTaxUsage, ProposalTypeTokenAddition} |->
     CASE k = ProposalTypeParameter -> "ParameterProposal"
       [] k = ProposalTypeSoftwareUpgrade -> "SoftwareUpgradeProposal"
       [] k = ProposalTypeSystemHalt -> "SystemHaltProposal"
       [] k = ProposalTypeCommunityTaxUsage -> "CommunityTaxUsageProposal"
       [] OTHER -> "PlainTextProposal"]

\* The message type a builder casts its content to (proposal_util.go:61,
\* 90); the others read only the shared fields (buildProposal, 119-130).
BuilderCast ==
  [s \in {"SoftwareUpgradeProposal", "CommunityTaxUsageProposal"} |->
     IF s = "SoftwareUpgradeProposal" THEN "MsgSubmitSoftwareUpgradeProposal"
                                      ELSE "MsgSubmitCommunityTaxUsageProposal"]

\* ProposalFactory.create (proposal_util.go:31-37 with the builders): the
\* Go type of the built proposal, or a panic for an unrouted kind or a
\* failed type assertion on the content.
Create(msg, pt) ==
  IF pt \notin DOMAIN FactoryRouter THEN "PanicUnknownKind"
  ELSE LET s == FactoryRouter[pt] IN
       IF s \in DOMAIN BuilderCast /\ msg.class # BuilderCast[s]
       THEN "PanicCast" ELSE s

\* GetDepositProcedure (keeper.go:721-741) panics on a level that is not
\* Critical, Important or Normal; getMinInitialDeposit calls it right after
\* the factory (keeper.go:84-87).
LevelKnown(level) ==
  level \in {ProposalLevelCritical, ProposalLevelImportant, ProposalLevelNormal}

\* The tag switch at the end of SubmitProposal (keeper.go:133-146): the
\* TokenAddition case asserts the proposal is a *TokenAdditionProposal.
TagSwitch(struct, pt) ==
  IF pt = ProposalTypeTokenAddition /\ struct # "TokenAdditionProposal"
  THEN "PanicCast" ELSE "ok"

\* NewHandler (handler.go:12-28): the handle function of a message type.
Handler(class) ==
  CASE class \in SubmitClasses -> "handleMsgSubmitProposal"
    [] class = "MsgDeposit" -> "handleMsgDeposit"
    [] class = "MsgVote" -> "handleMsgVote"
    [] OTHER -> "ErrUnknownRequest"

\* The outcome of delivering a message.  A deposit or vote carries no
\* proposal kind: after its ValidateBasic it goes to AddDeposit or AddVote,
\* whose result is keeperErr.  For a submission keeperErr is the result of
\* the store-dependent middle of SubmitProposal (initial deposit, cap, id,
\* AddDeposit), "ok" when it succeeds.  A decode error rejects the transaction before
\* the ante handler; a panic aborts DeliverTx.
Deliver(msg, keeperErr) ==
  IF Handler(msg.class) \in {"handleMsgDeposit", "handleMsgVote"}
  THEN IF ValidateBasic(msg, ProposalTypeNil) # "ok" THEN ValidateBasic(msg, ProposalTypeNil)
       ELSE keeperErr
  ELSE IF Handler(msg.class) = "ErrUnknownRequest" THEN "ErrUnknownRequest"
  ELSE LET d == Decode(msg) IN
  IF d.err THEN "ErrTxDecode"
  ELSE LET vb == ValidateBasic(msg, d.kind) IN
  IF vb # "ok" THEN vb
  ELSE LET s == Create(msg, d.kind) IN
  IF s \in {"PanicUnknownKind", "PanicCast"} THEN s
  ELSE IF \E l \in GetProposalLevel(d.kind) : ~LevelKnown(l) THEN "PanicNoLevel"
  ELSE IF keeperErr # "ok" THEN keeperErr
  ELSE TagSwitch(s, d.kind)

=============================================================================
