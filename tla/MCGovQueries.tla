----------------------------- MODULE MCGovQueries -----------------------------
(***************************************************************************)
(* Instantiates GovQueries with the constants of MCGov.                    *)
(***************************************************************************)
EXTENDS MCGov, GovQueries

\* Two status names, and one string that names no status (StatusNil).
MCQueryStatusStrings == {"VotingPeriod", "Passed", "Open"}

\* No limit, the latest proposal only, and a limit past the next id.
MCQueryLimits == {0, 1, MaxProposals + 2}

=============================================================================
