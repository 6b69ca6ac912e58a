------------------------------ MODULE GithubApp ------------------------------
(***************************************************************************)
(* The GitHub App's primitives in the hands of a control plane: webhook    *)
(* deliveries that GitHub sends again and that travel damaged, with a      *)
(* secret that is rotated on both ends at different times, and check runs  *)
(* written to a repository that is known by its number but addressed by    *)
(* its name, while repositories are renamed and the project is bound to    *)
(* another one.  Callers may keep tokens and identities for as long as     *)
(* they like; the library itself keeps nothing but the delivery records.   *)
(***************************************************************************)
EXTENDS Integers, Sequences, FiniteSets, FiniteSetsExt

CONSTANTS Repositories,   \* numeric repository identifiers
          Names,          \* owner/name
          Deliveries, Payloads, Events, AllowedEvents,
          Damaged,        \* a body that no sender has written
          MaxRotations, MaxSends, MaxRenames, MaxRebinds, MaxRequests, TokenTtl, MaxClock

ASSUME GithubAssumption ==
    /\ AllowedEvents \subseteq Events /\ AllowedEvents # {}
    /\ Damaged \notin Payloads
    /\ TokenTtl \in Nat \ {0}

VARIABLES
    verifier,      \* WebhookVerifier: the current secret and the previous one (0 = none)
    githubSecret,  \* the secret GitHub signs with
    occurred,      \* GitHub: deliveries so far, [body, event]
    wire,          \* messages under way
    seen,          \* DeliveryReplayStore, durable
    accepted,      \* deliveries handed on for processing
    sends,
    binding,       \* the project's RepositoryBinding, by repository
    tokens,        \* InstallationTokens the callers hold
    identities,    \* RepositoryIdentity values the callers hold
    nameOf, closed, \* GitHub: the repositories' names, the archived ones
    requests,      \* check run requests under way
    checks,        \* GitHub: check runs, in the order of their identifiers
    clock, renames, rebinds

hookVars == <<verifier, githubSecret, occurred, wire, seen, accepted, sends>>
checkVars == <<binding, tokens, identities, nameOf, closed, requests, checks, clock, renames, rebinds>>
githubVars == <<hookVars, checkVars>>

-----------------------------------------------------------------------------
(* Webhooks *)

\* GitHub signs the raw body, and nothing but the body; it sends a delivery again under the
\* same identifier, signed with the secret of the day.
GithubSends(d) ==
    /\ sends < MaxSends
    /\ sends' = sends + 1
    /\ \E p \in Payloads, e \in Events :
         LET what == IF d \in DOMAIN occurred THEN occurred[d] ELSE [body |-> p, event |-> e]
         IN  /\ occurred' = [x \in DOMAIN occurred \cup {d} |-> IF x = d THEN what ELSE occurred[x]]
             /\ \E body \in {what.body, Damaged} :
                  wire' = wire \cup {[id |-> d, event |-> what.event, body |-> body,
                                      secret |-> githubSecret, signed |-> what.body]}
    /\ UNCHANGED <<verifier, githubSecret, seen, accepted, checkVars>>

Lose(m) == wire' = wire \ {m} /\ UNCHANGED <<verifier, githubSecret, occurred, seen, accepted, sends, checkVars>>

\* The operator rotates: first the verifier learns the new secret and keeps the old one for
\* the overlap, then GitHub is told, and at last the old one is dropped.
RotateVerifier ==
    /\ verifier.current = githubSecret /\ githubSecret < MaxRotations
    /\ verifier' = [current |-> verifier.current + 1, previous |-> verifier.current]
    /\ UNCHANGED <<githubSecret, occurred, wire, seen, accepted, sends, checkVars>>
RotateGithub ==
    /\ githubSecret' = verifier.current
    /\ githubSecret # verifier.current
    /\ UNCHANGED <<verifier, occurred, wire, seen, accepted, sends, checkVars>>
DropPrevious ==
    /\ verifier.previous # 0 /\ githubSecret = verifier.current
    /\ verifier' = [verifier EXCEPT !.previous = 0]
    /\ UNCHANGED <<githubSecret, occurred, wire, seen, accepted, sends, checkVars>>

\* Mutant: the signature is compared without hashing the body that arrived.
VerifiesAnyBody(m) == m.event \in AllowedEvents /\ m.secret \in {verifier.current, verifier.previous}

\* WebhookVerifier::verify: an allowed event, and the MAC of the body that arrived under the
\* current or the previous secret.
Verifies(m) ==
    /\ m.event \in AllowedEvents
    /\ m.signed = m.body
    /\ m.secret \in {verifier.current, verifier.previous} \ {0}

Identity(m) == [body |-> m.body, event |-> m.event]

\* reserve: one step under the store's lock.
Reserve(m) ==
    CASE m.id \notin DOMAIN seen -> "accepted"
      [] m.id \in DOMAIN seen /\ seen[m.id] = Identity(m) -> "duplicate"
      [] OTHER -> "conflict"

\* verify, then reserve_verified_delivery; the store may fail, and then nothing is recorded
\* and GitHub is not answered.
Receive(m) ==
    /\ m \in wire
    /\ IF Verifies(m) /\ Reserve(m) = "accepted"
       THEN \/ /\ seen' = [x \in DOMAIN seen \cup {m.id} |-> IF x = m.id THEN Identity(m) ELSE seen[x]]
               /\ accepted' = Append(accepted, [id |-> m.id, what |-> Identity(m)])
            \/ UNCHANGED <<seen, accepted>>
       ELSE UNCHANGED <<seen, accepted>>
    /\ wire' = wire \ {m}
    /\ UNCHANGED <<verifier, githubSecret, occurred, sends, checkVars>>

-----------------------------------------------------------------------------
(* Check runs *)

\* The transport's answer may be an error of any class at every call: nothing changes then.

\* mint_repository_token: scoped to the bound repository; one that ends within the minute is
\* refused.
MintRepositoryToken ==
    /\ \E ttl \in 1 .. TokenTtl : tokens' = tokens \cup {[repository |-> binding, expires |-> clock + ttl]}
    /\ UNCHANGED <<hookVars, binding, identities, nameOf, closed, requests, checks, clock, renames, rebinds>>

\* Mutant: a token minted for an earlier binding will do.
AnyTokenFits(t) == t \in tokens

\* ensure_token_binding
TokenFits(t) == t.repository = binding

GithubTakes(t, repository) == t.repository = repository /\ clock < t.expires

\* verify_repository: by number; the answer carries today's name.
VerifyRepository(t) ==
    /\ TokenFits(t) /\ GithubTakes(t, binding)
    /\ identities' = identities \cup {[id |-> binding, name |-> nameOf[binding], archived |-> binding \in closed]}
    /\ UNCHANGED <<hookVars, binding, tokens, nameOf, closed, requests, checks, clock, renames, rebinds>>

\* ensure_mutation_binding
MutationAllowed(t, r) == TokenFits(t) /\ r.id = binding /\ ~r.archived

\* create_check_run and update_check_run up to the request: the path is built from the
\* identity's name, whatever it is called by now.  target 0 creates.
SendCheck(t, r, target) ==
    /\ Cardinality(requests) + Len(checks) < MaxRequests
    /\ MutationAllowed(t, r)
    /\ requests' = requests \cup {[token |-> t, name |-> r.name, intended |-> binding, target |-> target]}
    /\ UNCHANGED <<hookVars, binding, tokens, identities, nameOf, closed, checks, clock, renames, rebinds>>

\* The repositories GitHub lets the request write to: the one of that name, if the token's
\* scope has it.
Reached(q) == {r \in Repositories : nameOf[r] = q.name /\ GithubTakes(q.token, r)}

\* GitHub answers: archived repositories refuse, a check run of another repository is not
\* found.  The answer may be lost, so the caller can send the same again.
GithubChecks(q) ==
    /\ q \in requests
    /\ \E keep \in BOOLEAN : requests' = IF keep THEN requests ELSE requests \ {q}
    /\ \E r \in Reached(q) \ closed :
         CASE q.target = 0 -> Len(checks) < MaxRequests /\ checks' = Append(checks, [at |-> r, intended |-> {q.intended}])
           [] q.target \in DOMAIN checks /\ checks[q.target].at = r ->
                checks' = [checks EXCEPT ![q.target].intended = @ \cup {q.intended}]
           [] OTHER -> UNCHANGED checks
    /\ UNCHANGED <<hookVars, binding, tokens, identities, nameOf, closed, clock, renames, rebinds>>

GithubRefuses(q) ==
    /\ q \in requests
    /\ Reached(q) \ closed = {}
    /\ requests' = requests \ {q}
    /\ UNCHANGED <<hookVars, binding, tokens, identities, nameOf, closed, checks, clock, renames, rebinds>>

\* A name that is free, also one another repository had before.
Rename(r, name) ==
    /\ renames < MaxRenames /\ \A other \in Repositories : nameOf[other] # name
    /\ nameOf' = [nameOf EXCEPT ![r] = name] /\ renames' = renames + 1
    /\ UNCHANGED <<hookVars, binding, tokens, identities, closed, requests, checks, clock, rebinds>>
Archive(r) ==
    /\ closed' = closed \cup {r}
    /\ UNCHANGED <<hookVars, binding, tokens, identities, nameOf, requests, checks, clock, renames, rebinds>>
Rebind(r) ==
    /\ rebinds < MaxRebinds /\ r # binding
    /\ binding' = r /\ rebinds' = rebinds + 1
    /\ UNCHANGED <<hookVars, tokens, identities, nameOf, closed, requests, checks, clock, renames>>
Advance ==
    /\ clock < MaxClock /\ clock' = clock + 1
    /\ UNCHANGED <<hookVars, binding, tokens, identities, nameOf, closed, requests, checks, renames, rebinds>>

-----------------------------------------------------------------------------
GithubInit ==
    /\ verifier = [current |-> 1, previous |-> 0] /\ githubSecret = 1
    /\ occurred = <<>> /\ wire = {} /\ seen = <<>> /\ accepted = <<>> /\ sends = 0
    /\ binding \in Repositories /\ tokens = {} /\ identities = {}
    /\ nameOf \in {f \in [Repositories -> Names] : \A r, s \in Repositories : r # s => f[r] # f[s]}
    /\ closed = {} /\ requests = {} /\ checks = <<>> /\ clock = 0 /\ renames = 0 /\ rebinds = 0

HookNext ==
    \/ \E d \in Deliveries : GithubSends(d)
    \/ \E m \in wire : Lose(m) \/ Receive(m)
    \/ RotateVerifier \/ RotateGithub \/ DropPrevious

CheckNext ==
    \/ MintRepositoryToken \/ Advance
    \/ \E t \in tokens : VerifyRepository(t)
    \/ \E t \in tokens, r \in identities, target \in {0} \cup DOMAIN checks : SendCheck(t, r, target)
    \/ \E q \in requests : GithubChecks(q) \/ GithubRefuses(q)
    \/ \E r \in Repositories : Archive(r) \/ Rebind(r) \/ \E n \in Names : Rename(r, n)

GithubNext == HookNext \/ CheckNext
GithubSpec == GithubInit /\ [][GithubNext]_githubVars

-----------------------------------------------------------------------------
\* However often GitHub sends a delivery, under however many secrets, it is handed on at most
\* once, and then with the bytes GitHub wrote and under the event it stands for
\* (github_app.rs:344-399, 440-475).
HandedOnOnce ==
    /\ \A i, j \in DOMAIN accepted : accepted[i].id = accepted[j].id => i = j
    /\ \A i \in DOMAIN accepted : accepted[i].what = occurred[accepted[i].id]

\* A check run is only ever written in the repository the project was bound to when it was
\* sent, although it is addressed by a name that another repository may have taken, with a
\* token and an identity of any age (github_app.rs:969-1024, 1101-1135).
ChecksStayAtHome == \A i \in DOMAIN checks : checks[i].intended = {checks[i].at}
=============================================================================
