------------------------------ MODULE MCLocal ------------------------------
(***************************************************************************)
(* What runs on one machine beside the bridge and Rojo, in one run: the    *)
(* local art ledger, the command line's releases, the operator's Open      *)
(* Cloud execution and the desktop's Roblox session.  They share nothing;  *)
(* part tells which of them a behaviour is about.                          *)
(***************************************************************************)
EXTENDS MCLocalLedger, MCLocalReleases, OperatorExecution, RobloxOAuth

VARIABLE part

allVars == <<ledgerVars, releaseVars, vars, oauthVars, part>>

MCInit ==
    /\ LedgerInit /\ ReleasesInit /\ Init /\ OAuthInit
    /\ part \in {"ledger", "releases", "execution", "session"}

Executing(A) == part = "execution" /\ A /\ UNCHANGED <<ledgerVars, releaseVars, oauthVars, part>>
MCNext ==
    \/ part = "ledger" /\ LedgerNext /\ UNCHANGED <<releaseVars, vars, oauthVars, part>>
    \/ part = "releases" /\ ReleasesNext /\ UNCHANGED <<ledgerVars, vars, oauthVars, part>>
    \/ Executing(Next)
    \/ part = "session" /\ OAuthNext /\ UNCHANGED <<ledgerVars, releaseVars, vars, part>>

\* The fairness of OperatorExecution; none of the others'.
MCSpec ==
    /\ MCInit /\ [][MCNext]_allVars
    /\ WF_allVars(Executing(Process)) /\ WF_allVars(Executing(Tick))

\* Whatever is lost and however often its process is restarted, an execution comes to an end:
\* its deadline and its polls are bounded (native_execution.rs:286).
ExecutionEnds == part = "execution" => Ends
=============================================================================
