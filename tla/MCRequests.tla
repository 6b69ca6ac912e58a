----------------------------- MODULE MCRequests -----------------------------
(***************************************************************************)
(* What the Hub is asked to do once, in one run: its mutations, releases   *)
(* that several members approve and start, events on its socket, GitHub's  *)
(* webhooks, and check runs sent to GitHub.  part tells which of them a    *)
(* behaviour is about; the others stand still.                             *)
(***************************************************************************)
EXTENDS HubIdempotency, HubReleases, HubStream, GithubApp, TLC

CONSTANTS r1, r2, n1, n2, n3

VARIABLE part

MCInit ==
    /\ Init /\ ReleasesInit /\ StreamInit /\ GithubInit
    /\ binding = r1 /\ nameOf = (r1 :> n1) @@ (r2 :> n2)   \* up to renaming
    /\ part \in {"mutations", "releases", "socket", "webhooks", "checks"}
MCNext ==
    \/ part = "mutations" /\ Next /\ UNCHANGED <<hubReleaseVars, streamVars, githubVars, part>>
    \/ part = "releases" /\ ReleasesNext /\ UNCHANGED <<vars, streamVars, githubVars, part>>
    \/ part = "socket" /\ StreamNext /\ UNCHANGED <<vars, hubReleaseVars, githubVars, part>>
    \/ part = "webhooks" /\ HookNext /\ UNCHANGED <<vars, hubReleaseVars, streamVars, part>>
    \/ part = "checks" /\ CheckNext /\ UNCHANGED <<vars, hubReleaseVars, streamVars, part>>
MCSpec == MCInit /\ [][MCNext]_<<vars, hubReleaseVars, streamVars, githubVars, part>>

\* Principals and hashes of requests are only compared.
Symmetry == Permutations(Principals) \cup Permutations(Requests)
=============================================================================
