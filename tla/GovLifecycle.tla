------------------------------ MODULE GovLifecycle ------------------------------
(***************************************************************************)
(* What the governance module promises about one proposal id: ids are     *)
(* handed out in increasing order, a proposal starts in the deposit phase *)
(* or directly in voting, leaves the deposit phase by being funded into   *)
(* voting or by being dropped, and leaves voting once, as passed or       *)
(* rejected.  Final states never change.                                  *)
(***************************************************************************)
EXTENDS Naturals

CONSTANTS MaxProposals

VARIABLE status

Ids == 1..MaxProposals
States == {"none", "deposit", "voting", "passed", "rejected", "dropped"}

Init == status = [id \in Ids |-> "none"]

\* Submission takes the smallest unused id.
Submit(id) ==
  /\ status[id] = "none"
  /\ \A j \in Ids : j < id => status[j] # "none"
  /\ \E s \in {"deposit", "voting"} : status' = [status EXCEPT ![id] = s]

\* One step funds or drops deposit-phase proposals and decides voting ones;
\* several change at once because EndBlocker handles every expired one.
Step ==
  /\ status' # status
  /\ \A id \in Ids :
       \/ status'[id] = status[id]
       \/ status[id] = "deposit" /\ status'[id] \in {"voting", "dropped"}
       \/ status[id] = "voting" /\ status'[id] \in {"passed", "rejected"}

Next == (\E id \in Ids : Submit(id)) \/ Step

Spec == Init /\ [][Next]_status

TypeOK == status \in [Ids -> States]

=============================================================================
