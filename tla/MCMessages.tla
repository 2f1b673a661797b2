----------------------------- MODULE MCMessages -----------------------------
(***************************************************************************)
(* Checks the delivery path of Messages over every small message: each    *)
(* gov message type, kind given as a byte (binary) or as a name (JSON),   *)
(* title, description, address, coins, parameter count, vote option and   *)
(* the fields of the message type, with the keeper call either succeeding *)
(* or failing.  The message is chosen in Init and never changes; the      *)
(* properties are invariants over it.                                      *)
(***************************************************************************)
EXTENDS Messages

\* The six keys of pTypeMap (enums.go:36-43).
MCKindNames == {"PlainText", "Parameter", "SoftwareUpgrade", "SystemHalt",
                "CommunityTaxUsage", "TokenAddition"}

\* pTypeMap as shipped: every entry is the zero pTypeInfo{}.
ShippedTypeMap == [n \in MCKindNames |-> [type |-> 0, level |-> 0]]

\* pTypeMap as the constants and the rest of the code intend it: each name
\* maps to its ProposalKind byte and to the level that the Critical,
\* Important and Normal parameters are named for.
IntendedTypeMap ==
  [n \in MCKindNames |->
     CASE n = "Parameter"         -> [type |-> 1, level |-> 2]
       [] n = "SoftwareUpgrade"   -> [type |-> 2, level |-> 1]
       [] n = "SystemHalt"        -> [type |-> 3, level |-> 1]
       [] n = "CommunityTaxUsage" -> [type |-> 4, level |-> 2]
       [] n = "PlainText"         -> [type |-> 5, level |-> 3]
       [] n = "TokenAddition"     -> [type |-> 6, level |-> 2]]

\* Field values on both sides of every limit the checks test.
TitleLengths == {0, 70, 71}
DescriptionLengths == {0, 280, 281}
ParamCounts == {0, 1, 2}
SoftwareLengths == {70, 71}
Thresholds == {79, 80, 99, 100}
Usages == {0, UsageTypeBurn, UsageTypeGrant}
Percents == {0, 100, 101}

\* How the kind travels: a byte, or a JSON value that is a key, an unknown
\* name or not a string at all.
KindFields ==
  [encoding : {"binary"}, kindByte : KindBytes, kindName : {"-"}]
  \cup [encoding : {"json"}, kindByte : {0},
        kindName : MCKindNames \cup {"Unknown", Malformed}]

\* The fields of each message type; the fields a type does not have are
\* fixed to a default that no check reads.
ClassFields ==
  [class : {"MsgSubmitProposal"}, software : {0}, threshold : {0},
   usage : {0}, dest : {FALSE}, percent : {0}, tokenValid : {FALSE},
   optionValid : {FALSE}]
  \cup [class : {"MsgSubmitSoftwareUpgradeProposal"}, software : SoftwareLengths,
        threshold : Thresholds, usage : {0}, dest : {FALSE}, percent : {0},
        tokenValid : {FALSE}, optionValid : {FALSE}]
  \cup [class : {"MsgSubmitCommunityTaxUsageProposal"}, software : {0},
        threshold : {0}, usage : Usages, dest : BOOLEAN, percent : Percents,
        tokenValid : {FALSE}, optionValid : {FALSE}]
  \cup [class : {"MsgSubmitTokenAdditionProposal"}, software : {0},
        threshold : {0}, usage : {0}, dest : {FALSE}, percent : {0},
        tokenValid : BOOLEAN, optionValid : {FALSE}]
  \cup [class : {"MsgDeposit"}, software : {0}, threshold : {0}, usage : {0},
        dest : {FALSE}, percent : {0}, tokenValid : {FALSE}, optionValid : {FALSE}]
  \cup [class : {"MsgVote"}, software : {0}, threshold : {0}, usage : {0},
        dest : {FALSE}, percent : {0}, tokenValid : {FALSE}, optionValid : BOOLEAN]

BaseFields ==
  [title : TitleLengths, description : DescriptionLengths,
   proposer : BOOLEAN, depositValid : BOOLEAN, params : ParamCounts]

\* A record of one field set per group, merged.
Merge(a, b, c) == [f \in DOMAIN a \cup DOMAIN b \cup DOMAIN c |->
                     IF f \in DOMAIN a THEN a[f]
                     ELSE IF f \in DOMAIN b THEN b[f] ELSE c[f]]

Messages == {Merge(k, c, b) : k \in KindFields, c \in ClassFields, b \in BaseFields}

\* The errors the store-dependent middle of SubmitProposal can return.
KeeperResults == {"ok", "ErrNotEnoughInitialDeposit"}

VARIABLES msg, keeperErr

vars == <<msg, keeperErr>>

Init == msg \in Messages /\ keeperErr \in KeeperResults

Next == UNCHANGED vars

Spec == Init /\ [][Next]_vars

\* The kind the message decodes to.
Kind == Decode(msg).kind

\* The kind the sender meant: the byte it put in a binary message, or the
\* kind its JSON name stands for.
MeantKind ==
  IF msg.encoding = "binary" THEN msg.kindByte
  ELSE IF msg.kindName \in MCKindNames THEN IntendedTypeMap[msg.kindName].type
  ELSE InvalidKind

\* The message type that carries the payload of each kind.
PayloadClass(k) ==
  CASE k = ProposalTypeSoftwareUpgrade   -> "MsgSubmitSoftwareUpgradeProposal"
    [] k = ProposalTypeCommunityTaxUsage -> "MsgSubmitCommunityTaxUsageProposal"
    [] k = ProposalTypeTokenAddition     -> "MsgSubmitTokenAdditionProposal"
    [] OTHER -> "MsgSubmitProposal"

\* A submission the spec calls valid (spec.md section 3 and the message
\* taxonomy): a known kind, title of at most 70 and description of at most
\* 280 characters, both present, a proposer, valid coins, one parameter
\* change for a Parameter proposal, and the payload rules of its type, an
\* upgrade threshold being at least lo hundredths and below 1.  The spec
\* gives no lower bound; the comment at msgs.go:154 says 0.85 and the
\* check on the next line 0.80 (see README).
FieldsWellFormed(lo) ==
  /\ MeantKind \in KindBytes \ {ProposalTypeNil}
  /\ msg.title \in 1..70 /\ msg.description \in 1..280
  /\ msg.proposer /\ msg.depositValid
  /\ MeantKind = ProposalTypeParameter => msg.params = 1
  /\ msg.class = "MsgSubmitSoftwareUpgradeProposal" =>
        msg.software <= 70 /\ msg.threshold \in lo..99
  /\ msg.class = "MsgSubmitCommunityTaxUsageProposal" =>
        /\ msg.usage \in {UsageTypeBurn, UsageTypeDistribute, UsageTypeGrant}
        /\ msg.usage # UsageTypeBurn => msg.dest
        /\ msg.percent \in 1..100
  /\ msg.class = "MsgSubmitTokenAdditionProposal" => msg.tokenValid

\* A deposit names its depositor and valid coins; a vote names its voter
\* and one of the four options (spec.md, the message taxonomy).
DepositOrVoteWellFormed ==
  /\ msg.proposer
  /\ msg.class = "MsgDeposit" => msg.depositValid
  /\ msg.class = "MsgVote" => msg.optionValid

\* Well formed, and the kinds whose builder reads a payload come in the
\* message type that carries it.
SubmissionWellFormed(lo) ==
  /\ FieldsWellFormed(lo)
  /\ MeantKind \in {ProposalTypeSoftwareUpgrade, ProposalTypeCommunityTaxUsage,
                    ProposalTypeTokenAddition} => msg.class = PayloadClass(MeantKind)

WellFormed(lo) ==
  IF msg.class \in SubmitClasses THEN SubmissionWellFormed(lo) ELSE DepositOrVoteWellFormed

Outcome == Deliver(msg, keeperErr)

Outcomes == {"ok", "ErrTxDecode", "PanicUnknownKind", "PanicCast",
             "PanicNoLevel", "ErrInvalidTitle", "ErrInvalidDescription",
             "ErrInvalidProposalType", "ErrInvalidAddress", "ErrInvalidCoins",
             "ErrInvalidLength", "ErrEmptyParam", "ErrInvalidParamNum",
             "ErrInvalidUpgradeThreshold", "ErrInvalidUsageType",
             "ErrInvalidPercent", "ErrInvalidToken", "ErrInvalidVote"} \cup KeeperResults

TypeOK ==
  /\ msg \in Messages
  /\ keeperErr \in KeeperResults
  /\ Outcome \in Outcomes

\* Whatever the encoding, a kind that ValidateBasic accepts
\* (ValidProposalType, msgs.go:76) has an entry in the proposal factory's
\* router and a Critical, Important or Normal level, so that
\* ProposalFactory.create and GetDepositProcedure, which run next in
\* SubmitProposal, do not panic.
ValidatedKindIsRoutable ==
  msg.class \in SubmitClasses /\ ~Decode(msg).err /\ ValidateBasic(msg, Kind) = "ok" =>
     /\ Kind \in DOMAIN FactoryRouter
     /\ \A l \in GetProposalLevel(Kind) : LevelKnown(l)

\* A message that the handler accepts is well formed: for submissions,
\* ValidateBasic, the factory's type assertions and the tag switch together
\* refuse every malformed message, whichever message type and encoding
\* carries it; deposits and votes are refused by their ValidateBasic.  The
\* disputed lower bound of the upgrade threshold is not asserted (lo = 0).
OnlyWellFormedAccepted ==
  Outcome = "ok" => WellFormed(0)

\* Every well-formed message reaches its keeper call and returns its
\* result: a deposit or vote passes its ValidateBasic, and a submission of
\* any kind is neither rejected nor aborted by a panic in the factory, the
\* level lookup or the tag switch (keeper.go:81-146).
\* The threshold is taken at the commented 0.85, which both the comment and
\* the check accept.
WellFormedReachesKeeper ==
  WellFormed(85) => Outcome = keeperErr

=============================================================================
