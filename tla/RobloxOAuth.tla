---------------------------- MODULE RobloxOAuth ----------------------------
(***************************************************************************)
(* The desktop's Roblox session: interactive sign-in through a loopback    *)
(* callback, rotation of the refresh token, sign-out, and the resource     *)
(* commands that read with the session.  The session is one record in the  *)
(* credential vault; the public status and the resources shown are memory. *)
(* The commands are asynchronous and share nothing but these three, each   *)
(* read or written in a step of its own; the application may be restarted. *)
(* The account panel awaits each of its commands before the next.          *)
(***************************************************************************)
EXTENDS Integers, Sequences, FiniteSets, SequencesExt

CONSTANTS Accounts,       \* Roblox accounts the user can sign in with
          Tasks,          \* rotations and queries under way at the same time
          MaxFlows, MaxTokens, MaxQueries, MaxRestarts  \* bounds

VARIABLES vault,      \* the refresh token of the stored record, 0 for none
          public,     \* OAuthInternal.public
          resources,  \* the accounts the inventory and the selection shown were read with
          flow,       \* the sign-ins, by number
          canceller,  \* the flow whose cancel sender is registered, 0 for none
          panel,      \* the command the account panel is waiting for
          task,       \* rotations and queries
          issued,     \* the account of each refresh token the provider has issued
          consumed,   \* tokens the provider has exchanged for a successor
          orphaned,   \* consumed tokens whose successor the vault would not take
          reused,     \* orphaned tokens presented again
          crossed,    \* a sign-in, sign-out or rotation began or ended during another of these
          mixed,      \* a query overlapped a sign-in or a sign-out
          queries, restarts

memory == <<public, resources, flow, canceller, panel, task>>
provider == <<issued, consumed, orphaned, reused>>
history == <<crossed, mixed, queries, restarts>>
oauthVars == <<vault, memory, provider, history>>

NoAccount == "none"
Owner(t) == IF t = 0 THEN NoAccount ELSE issued[t]
NoResources == [inventory |-> NoAccount, selection |-> NoAccount]
Shown(phase) == [phase |-> phase, account |-> NoAccount]
SignedIn(a) == [phase |-> "signed_in", account |-> a]
Busy == public.phase \in {"waiting", "exchanging"}
Resting == [at |-> "idle", why |-> "none", token |-> 0, next |-> 0]

\* finish_oauth owns the listener until it returns or is dropped.
Listening(f) == flow[f].at \in {"waiting", "called", "granted", "stored"}
Underway(f) == Listening(f) \/ flow[f].at = "failing"
Rotating(t) == task[t].at \in {"asking", "presenting", "granted", "verified", "stored", "failing"}
Querying(t) == task[t].why = "query"
SigningIn == panel = "starting" \/ \E f \in DOMAIN flow : Underway(f)
SigningOut == panel \in {"revoking", "clearing"}

Overlap == Cardinality({x \in {<<"in", SigningIn>>, <<"out", SigningOut>>,
                               <<"rotate", \E t \in Tasks : Rotating(t)>>} : x[2]}) > 1
Mixture == (SigningIn \/ SigningOut) /\ \E t \in Tasks : Querying(t)

\* Every step notes what overlaps in the state it leads to.
Noted == crossed' = (crossed \/ Overlap') /\ mixed' = (mixed \/ Mixture') /\ UNCHANGED queries
Quiet == UNCHANGED <<provider, restarts>>

-----------------------------------------------------------------------------
(* Sign-in *)

\* start_roblox_oauth as far as the bind: the phase is looked at, and a stale flow told to stop.
StartChecks ==
    /\ panel = "idle" /\ Len(flow) < MaxFlows
    /\ ~Busy
    /\ panel' = "starting"
    /\ flow' = IF canceller = 0 THEN flow ELSE [flow EXCEPT ![canceller].cancelled = TRUE]
    /\ canceller' = 0
    /\ UNCHANGED <<vault, public, resources, task>> /\ Noted /\ Quiet

Waits ==
    /\ flow' = Append(flow, [at |-> "waiting", token |-> 0, cancelled |-> FALSE])
    /\ public' = Shown("waiting")
    /\ canceller' = Len(flow) + 1

\* Mutant: the callback port is not exclusive.
StartBindsAnyway ==
    /\ panel = "starting" /\ panel' = "idle"
    /\ Waits /\ resources' = NoResources
    /\ UNCHANGED <<vault, task>> /\ Noted /\ Quiet

\* Mutant: the resources read for the last session stay.
StartKeepsResources ==
    /\ panel = "starting" /\ panel' = "idle"
    /\ ~\E f \in DOMAIN flow : Listening(f)
    /\ Waits
    /\ UNCHANGED <<vault, resources, task>> /\ Noted /\ Quiet

\* The rest of it: one fixed port for the callback, and the sender registered once the
\* browser is open.
StartBinds ==
    /\ panel = "starting" /\ panel' = "idle"
    /\ ~\E f \in DOMAIN flow : Listening(f)
    /\ Waits /\ resources' = NoResources
    /\ UNCHANGED <<vault, task>> /\ Noted /\ Quiet

StartFails ==
    /\ panel = "starting" /\ panel' = "idle"
    /\ \/ UNCHANGED <<public, resources>>                              \* the port is taken
       \/ /\ ~\E f \in DOMAIN flow : Listening(f)
          /\ public' = Shown("failed") /\ resources' = NoResources         \* no browser
    /\ UNCHANGED <<vault, flow, canceller, task>> /\ Noted /\ Quiet

Becomes(f, from, to) == flow[f].at = from /\ flow' = [flow EXCEPT ![f].at = to]

\* finish_oauth: the callback answered, a code exchanged and its answers verified.
Callback(f) ==
    /\ Becomes(f, "waiting", "called")
    /\ public' = Shown("exchanging")
    /\ UNCHANGED <<vault, resources, canceller, panel, task>> /\ Noted /\ Quiet

Exchange(f, a) ==
    /\ flow[f].at = "called" /\ Len(issued) < MaxTokens
    /\ issued' = Append(issued, a)
    /\ flow' = [flow EXCEPT ![f].at = "granted", ![f].token = Len(issued) + 1]
    /\ UNCHANGED <<vault, public, resources, canceller, panel, task, consumed, orphaned, reused, restarts>>
    /\ Noted

StoreGrant(f) ==
    /\ Becomes(f, "granted", "stored")
    /\ vault' = flow[f].token
    /\ UNCHANGED <<public, resources, canceller, panel, task>> /\ Noted /\ Quiet

\* A callback that is not the expected one, a provider's error or answer that does not verify,
\* the vault's refusal, 300 seconds gone.
FlowErrs(f) ==
    /\ Listening(f) /\ flow[f].at # "stored"
    /\ flow' = [flow EXCEPT ![f].at = "failing"]
    /\ UNCHANGED <<vault, public, resources, canceller, panel, task>> /\ Noted /\ Quiet

Released(f) == canceller' = IF canceller = f THEN 0 ELSE canceller

\* The flow's task sets the status and takes its own sender away.
FlowEnds(f) ==
    /\ \/ Becomes(f, "stored", "done") /\ public' = SignedIn(Owner(flow[f].token))
       \/ Becomes(f, "failing", "done") /\ public' = Shown("failed")
    /\ Released(f)
    /\ UNCHANGED <<vault, resources, panel, task>> /\ Noted /\ Quiet

\* The cancel signal wins the select: finish_oauth is dropped wherever it is waiting.
FlowDropped(f) ==
    /\ Listening(f) /\ flow[f].cancelled
    /\ flow' = [flow EXCEPT ![f].at = "done"]
    /\ Released(f)
    /\ UNCHANGED <<vault, public, resources, panel, task>> /\ Noted /\ Quiet

\* cancel_roblox_oauth
Cancel ==
    /\ panel = "idle"
    /\ flow' = IF canceller = 0 THEN flow ELSE [flow EXCEPT ![canceller].cancelled = TRUE]
    /\ canceller' = 0
    /\ public' = IF Busy THEN Shown("signed_out") ELSE public
    /\ resources' = NoResources
    /\ UNCHANGED <<vault, panel, task>> /\ Noted /\ Quiet

-----------------------------------------------------------------------------
(* Sign-out: logout_roblox *)

\* The stored token is revoked if the provider can be reached.
Logout ==
    /\ panel = "idle" /\ panel' = "revoking"
    /\ UNCHANGED <<vault, public, resources, flow, canceller, task>> /\ Noted /\ Quiet

\* NoResources stored, or a vault that refuses: the command fails and changes nothing.
LogoutDeletes ==
    /\ panel = "revoking"
    /\ \/ vault # 0 /\ vault' = 0 /\ panel' = "clearing"
       \/ UNCHANGED vault /\ panel' = "idle"
    /\ UNCHANGED <<public, resources, flow, canceller, task>> /\ Noted /\ Quiet

LogoutClears ==
    /\ panel = "clearing" /\ panel' = "idle"
    /\ public' = Shown("signed_out") /\ resources' = NoResources
    /\ UNCHANGED <<vault, flow, canceller, task>> /\ Noted /\ Quiet

-----------------------------------------------------------------------------
(* Rotation: refresh_oauth_state, of its own or for a query near the token's expiry *)

Rotates(t, why) ==
    /\ ~Busy
    /\ public' = Shown("exchanging")
    /\ task' = [task EXCEPT ![t] = [at |-> IF vault = 0 THEN "failing" ELSE "asking",
                                    why |-> why, token |-> vault, next |-> 0]]

RotateStarts(t) ==
    /\ task[t].at = "idle"
    /\ Rotates(t, "rotate")
    /\ UNCHANGED <<vault, resources, flow, canceller, panel>> /\ Noted /\ Quiet

Turns(t, from, to) == task[t].at = from /\ task' = [task EXCEPT ![t].at = to]
OnlyTasks == UNCHANGED <<vault, public, resources, flow, canceller, panel>>

\* The provider's endpoints are looked up; no token leaves before they have verified.
RotateDiscovers(t) ==
    /\ Turns(t, "asking", "presenting") \/ Turns(t, "asking", "failing")
    /\ OnlyTasks /\ Noted /\ Quiet

\* The token is presented, and has been exchanged before: an error of the provider.
RotateRefused(t) ==
    /\ Turns(t, "presenting", "failing")
    /\ task[t].token \in consumed
    /\ reused' = reused \cup ({task[t].token} \cap orphaned)
    /\ OnlyTasks /\ UNCHANGED <<issued, consumed, orphaned, restarts>> /\ Noted

\* The token is exchanged for a new one.
Rotated(t) ==
    /\ task[t].at = "presenting" /\ task[t].token \notin consumed /\ Len(issued) < MaxTokens
    /\ issued' = Append(issued, Owner(task[t].token))
    /\ consumed' = consumed \cup {task[t].token}
    /\ OnlyTasks /\ UNCHANGED <<orphaned, reused, restarts>> /\ Noted

RotateGranted(t) ==
    /\ task' = [task EXCEPT ![t].at = "granted", ![t].next = Len(issued) + 1]
    /\ Rotated(t)

\* The answer is lost, late or too long, or is no bearer token with the scopes and a new
\* refresh token.
RotateAnswerLost(t) == Turns(t, "presenting", "failing") /\ Rotated(t)

\* Userinfo and the identity token, if there is one, must name the stored subject.
RotateVerifies(t) ==
    /\ Turns(t, "granted", "verified") \/ Turns(t, "granted", "failing")
    /\ OnlyTasks /\ Noted /\ Quiet

\* The vault takes the rotated record or refuses it.
RotateStores(t) ==
    /\ task[t].at = "verified"
    /\ \/ /\ vault' = task[t].next
          /\ task' = [task EXCEPT ![t].at = "stored"]
          /\ UNCHANGED orphaned
       \/ /\ orphaned' = orphaned \cup {task[t].token}
          /\ task' = [task EXCEPT ![t].at = "failing"]
          /\ UNCHANGED vault
    /\ UNCHANGED <<public, resources, flow, canceller, panel, issued, consumed, reused, restarts>> /\ Noted

\* A query whose rotation failed fails with it; one whose rotation succeeded reads the vault again.
RotateEnds(t) ==
    /\ \/ /\ task[t].at = "stored"
          /\ public' = SignedIn(Owner(task[t].token))
          /\ task' = [task EXCEPT ![t] = IF Querying(t) THEN [@ EXCEPT !.at = "reading"] ELSE Resting]
          /\ UNCHANGED resources
       \/ /\ task[t].at = "failing"
          /\ public' = Shown("failed")
          /\ task' = [task EXCEPT ![t] = Resting]
          /\ resources' = IF Querying(t) THEN NoResources ELSE resources
    /\ UNCHANGED <<vault, flow, canceller, panel>> /\ Noted /\ Quiet

-----------------------------------------------------------------------------
(* Resources: refresh_roblox_resources, probe_roblox_universe, select_roblox_place *)

\* Only the first says that it is loading, and forgets what was shown.
QueryStarts(t) ==
    /\ task[t].at = "idle" /\ queries < MaxQueries /\ queries' = queries + 1
    /\ resources' \in {NoResources, resources}
    /\ \/ task' = [task EXCEPT ![t] = [at |-> "reading", why |-> "query", token |-> 0, next |-> 0]] /\ UNCHANGED public
       \/ vault # 0 /\ Rotates(t, "query")
    /\ UNCHANGED <<vault, flow, canceller, panel>>
    /\ crossed' = (crossed \/ Overlap') /\ mixed' = (mixed \/ Mixture') /\ Quiet

\* protected_roblox_resource_session reads the record, unless there is none, it cannot be read,
\* or it is to be rotated while another command is active.
QueryReads(t) ==
    /\ task[t].at = "reading"
    /\ \/ vault # 0 /\ task' = [task EXCEPT ![t].at = "reads", ![t].token = vault] /\ UNCHANGED resources
       \/ task' = [task EXCEPT ![t] = Resting] /\ resources' = NoResources
    /\ UNCHANGED <<vault, public, flow, canceller, panel>> /\ Noted /\ Quiet

\* discover and probe_universe bring an inventory, read_selection a selection that is put
\* beside the inventory shown by then.
Inventory(t) == [inventory |-> Owner(task[t].token), selection |-> NoAccount]
Selection(t) == [resources EXCEPT !.selection = Owner(task[t].token)]

QueryEnds(t) ==
    /\ task[t].at = "reads"
    /\ task' = [task EXCEPT ![t] = Resting]
    /\ resources' \in {Inventory(t), Selection(t)}
    /\ UNCHANGED <<vault, public, flow, canceller, panel>> /\ Noted /\ Quiet

\* No grant for the universe, a place of another one, an error of Roblox: both are cleared.
QueryErrs(t) ==
    /\ task[t].at = "reads"
    /\ task' = [task EXCEPT ![t] = Resting]
    /\ resources' = NoResources
    /\ UNCHANGED <<vault, public, flow, canceller, panel>> /\ Noted /\ Quiet

\* clear_roblox_resource_selection
ClearSelection ==
    /\ resources.selection # NoAccount
    /\ resources' = [resources EXCEPT !.selection = NoAccount]
    /\ UNCHANGED <<vault, public, flow, canceller, panel, task>> /\ Noted /\ Quiet

-----------------------------------------------------------------------------
\* The application starts: restore_oauth_status shows what the vault holds, if it can be read.
Restored == {IF vault = 0 THEN Shown("signed_out") ELSE SignedIn(Owner(vault)), Shown("failed")}

Restart ==
    /\ restarts < MaxRestarts /\ restarts' = restarts + 1
    /\ public' \in Restored
    /\ resources' = NoResources
    /\ flow' = [f \in DOMAIN flow |-> [flow[f] EXCEPT !.at = "done"]]
    /\ canceller' = 0 /\ panel' = "idle"
    /\ task' = [t \in Tasks |-> Resting]
    /\ crossed' = FALSE /\ mixed' = FALSE
    /\ UNCHANGED <<vault, provider, queries>>

OAuthInit ==
    /\ vault = 0 /\ public = Shown("signed_out") /\ resources = NoResources
    /\ flow = <<>> /\ canceller = 0 /\ panel = "idle"
    /\ task = [t \in Tasks |-> Resting]
    /\ issued = <<>> /\ consumed = {} /\ orphaned = {} /\ reused = {}
    /\ crossed = FALSE /\ mixed = FALSE /\ queries = 0 /\ restarts = 0

OAuthNext ==
    \/ StartChecks \/ StartBinds \/ StartFails \/ Cancel
    \/ \E f \in DOMAIN flow :
         \/ Callback(f) \/ StoreGrant(f) \/ FlowErrs(f) \/ FlowEnds(f) \/ FlowDropped(f)
         \/ \E a \in Accounts : Exchange(f, a)
    \/ Logout \/ LogoutDeletes \/ LogoutClears
    \/ \E t \in Tasks :
         \/ RotateStarts(t) \/ RotateDiscovers(t) \/ RotateRefused(t) \/ RotateGranted(t)
         \/ RotateAnswerLost(t) \/ RotateVerifies(t) \/ RotateStores(t) \/ RotateEnds(t)
         \/ QueryStarts(t) \/ QueryReads(t) \/ QueryEnds(t) \/ QueryErrs(t)
    \/ ClearSelection \/ Restart

OAuthSpec == OAuthInit /\ [][OAuthNext]_oauthVars

-----------------------------------------------------------------------------
\* As long as sign-in, sign-out and rotation do not overlap, the account shown as signed in is
\* the one of the stored session, whichever of several sign-ins, cancelled or not, ended last
\* (neuman_desktop.rs:1334).
SignedInIsStored ==
    public.phase = "signed_in" /\ ~crossed /\ ~SigningOut => public.account = Owner(vault)

\* As long as no query overlaps a sign-in or sign-out, an inventory or selection that is shown
\* beside a signed-in account was read with the session of that account (neuman_desktop.rs:1077).
ResourcesAreTheAccounts ==
    public.phase = "signed_in" /\ ~crossed /\ ~mixed /\ ~SigningOut =>
        {resources.inventory, resources.selection} \subseteq {NoAccount, Owner(vault)}

\* "if the rotated credential cannot be committed, the operation fails closed and requires
\* interactive reauthorization rather than risking [...] reuse of a single-use token"
\* (docs/guides/ROBLOX_OAUTH_REFRESH.md:63): such a token is not presented again.
FailsClosed == reused = {}
=============================================================================
