----------------------------- MODULE HubReleases -----------------------------
(***************************************************************************)
(* Builds and releases recorded by the Hub.  A release is created with a   *)
(* request hash that never changes; approvals bind that hash; an approved  *)
(* release is started and may be rolled back.  A build is created queued   *)
(* and takes the status of every attempt that is recorded for it.          *)
(***************************************************************************)
EXTENDS HubMembers, Sequences

CONSTANTS Requests,     \* hashes of create_release bodies
          MaxReleaseRows, MaxBuildRows, MaxAttempts  \* bounds on the tables

ASSUME ReleasesAssumption ==
    {MaxReleaseRows, MaxBuildRows, MaxAttempts} \subseteq Nat

VARIABLES releases,   \* releases table, in the order of its ids
          approvals,  \* release_approvals table
          builds      \* builds table, with the attempts of each build

releaseVars == <<releases, approvals, builds>>
hubReleaseVars == <<memberVars, releaseVars>>

ReleaseStates ==
    {"draft", "approved", "running", "succeeded", "failed", "rollback_required", "rolled_back"}
AttemptStatuses == {"running", "succeeded", "failed", "cancelled"}

Release == [request: Requests, state: ReleaseStates]
Approval == [release: Nat \ {0}, by: Principals, request: Requests]
Build == [status: AttemptStatuses \cup {"queued"}, attempts: Seq(AttemptStatuses)]

Bound(r) == {a \in approvals : a.release = r /\ a.request = releases[r].request}

-----------------------------------------------------------------------------
\* create_build
CreateBuild(p) ==
    /\ May(p, "Build")
    /\ Len(builds) < MaxBuildRows
    /\ builds' = Append(builds, [status |-> "queued", attempts |-> <<>>])
    /\ UNCHANGED <<memberVars, releases, approvals>>

\* add_build_attempt, and cancel_build with status "cancelled": whatever the build's status.
AddBuildAttempt(p, b, status) ==
    /\ May(p, "Build")
    /\ Len(builds[b].attempts) < MaxAttempts
    /\ builds' = [builds EXCEPT ![b].status = status, ![b].attempts = Append(@, status)]
    /\ UNCHANGED <<memberVars, releases, approvals>>

\* create_release
CreateRelease(p, request) ==
    /\ May(p, "ExecuteRelease")
    /\ Len(releases) < MaxReleaseRows
    /\ releases' = Append(releases, [request |-> request, state |-> "draft"])
    /\ UNCHANGED <<memberVars, approvals, builds>>

\* Mutant: the approval is stored for the hash the approver sent, never compared.
ApproveUnbound(p, r, request) ==
    /\ May(p, "ApproveRelease")
    /\ releases[r].state \in {"draft", "approved"}
    /\ ~\E a \in approvals : a.release = r /\ a.by = p /\ a.request = request
    /\ approvals' = approvals \cup {[release |-> r, by |-> p, request |-> request]}
    /\ releases' = [releases EXCEPT ![r].state = "approved"]
    /\ UNCHANGED <<memberVars, builds>>

\* approve_release: a principal approves a release once (UNIQUE(release_id, principal_id,
\* request_hash)), before it starts, naming the hash approved.
ApproveRelease(p, r, request) ==
    /\ May(p, "ApproveRelease")
    /\ releases[r].state \in {"draft", "approved"}
    /\ request = releases[r].request
    /\ ~\E a \in Bound(r) : a.by = p
    /\ approvals' = approvals \cup {[release |-> r, by |-> p, request |-> request]}
    /\ releases' = [releases EXCEPT ![r].state = "approved"]
    /\ UNCHANGED <<memberVars, builds>>

\* The transitions release_action knows: where an action is allowed and where it leads.
\* No code writes "succeeded", "failed" or "rollback_required" into a release.
Transition(action) ==
    CASE action = "start"    -> [from |-> {"approved"}, to |-> "running"]
      [] action = "resume"   -> [from |-> {"failed", "rollback_required"}, to |-> "running"]
      [] action = "rollback" -> [from |-> {"running", "failed", "rollback_required", "succeeded"},
                                 to |-> "rolled_back"]

\* release_action
ReleaseAction(p, r, action, expected) ==
    /\ May(p, "ExecuteRelease")
    /\ releases[r].request = expected
    /\ releases[r].state \in Transition(action).from
    /\ action = "start" => Bound(r) # {}
    /\ releases' = [releases EXCEPT ![r].state = Transition(action).to]
    /\ UNCHANGED <<memberVars, approvals, builds>>

-----------------------------------------------------------------------------
ReleasesInit ==
    /\ MembersInit
    /\ releases = <<>> /\ approvals = {} /\ builds = <<>>

ReleasesNext ==
    \/ MembersNext /\ UNCHANGED releaseVars
    \/ \E p \in Principals :
         \/ CreateBuild(p)
         \/ \E b \in DOMAIN builds, s \in AttemptStatuses : AddBuildAttempt(p, b, s)
         \/ \E request \in Requests :
              \/ CreateRelease(p, request)
              \/ \E r \in DOMAIN releases :
                   \/ ApproveRelease(p, r, request)
                   \/ \E action \in {"start", "resume", "rollback"} :
                        ReleaseAction(p, r, action, request)

ReleasesSpec == ReleasesInit /\ [][ReleasesNext]_hubReleaseVars

-----------------------------------------------------------------------------
ReleasesTypeOK ==
    /\ MembersTypeOK
    /\ releases \in Seq(Release)
    /\ approvals \subseteq Approval
    /\ builds \in Seq(Build)

\* Past draft, a release has an approval of exactly its request, given by somebody: also
\* after members have left, and when the approver named another release's hash
\* (hub.rs:3731, 3832).
PastDraftIsApproved ==
    \A r \in DOMAIN releases : releases[r].state # "draft" => Bound(r) # {}

=============================================================================
