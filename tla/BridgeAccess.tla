---------------------------- MODULE BridgeAccess ----------------------------
(***************************************************************************)
(* Who may talk to the loopback bridge: pairing challenges, the human who  *)
(* approves a Studio installation from the prompts the bridge's events     *)
(* put in front of him, the credentials a pairing gives out, revocation,   *)
(* and the sessions a credential opens.  Clients send what they like; the  *)
(* answer to any of them may be lost.  A plugin has the credentials it was *)
(* given, those whose answer was lost included: only more is possible.     *)
(***************************************************************************)
EXTENDS Integers, Sequences, FiniteSets, SequencesExt

CONSTANTS Plugins,         \* plugin installation ids
          Codes,           \* six-digit codes
          Connections,     \* WebSocket connections; one that is over is free for the next
          ChallengeTtl,    \* 30 s
          CredentialTtl,   \* 30 days
          MaxAttempts,     \* 5
          EventCapacity,   \* of the broadcast channel, 256
          MaxChallenges,   \* bound on the discovery requests
          MaxTime          \* bound on the clock

ASSUME AccessAssumption ==
    /\ {ChallengeTtl, CredentialTtl, MaxAttempts, EventCapacity} \subseteq Nat \ {0}
    /\ {MaxChallenges, MaxTime} \subseteq Nat

VARIABLES now,          \* the clock
          challenges,   \* every challenge issued
          known,        \* PairingRegistry::challenges
          credentials,  \* PairingRegistry::credentials, by issue
          conn,         \* WebSocket connections
          events,       \* bridge events the desktop has not received
          prompts,      \* pending_pairings of the desktop: challenge and plugin
          approvals,    \* what the human approved, so far
          barred        \* how many credentials there were when a plugin was last revoked

registry == <<challenges, known, credentials>>
desktopVars == <<events, prompts>>
history == <<approvals, barred>>
accessVars == <<now, registry, conn, desktopVars, history>>

Open(c) == c \in known /\ ~challenges[c].used /\ challenges[c].expires > now

\* A receiver that is EventCapacity behind loses the oldest event.
Emit(e) ==
    LET all == Append(events, e)
    IN  events' = IF Len(all) > EventCapacity THEN Tail(all) ELSE all

Goto(k, next) == conn' = [conn EXCEPT ![k] = next]
Closed == [at |-> "none"]

-----------------------------------------------------------------------------
(***************************************************************************)
(* Discovery and pairing                                                   *)
(***************************************************************************)

\* Every discovery request issues a challenge with a code of its own.
IssueChallenge(code) ==
    /\ Len(challenges) < MaxChallenges
    /\ challenges' = Append(challenges, [code |-> code, expires |-> now + ChallengeTtl,
           attempts |-> [p \in Plugins |-> 0], approved |-> {}, used |-> FALSE])
    /\ known' = {c \in known : Open(c)} \cup {Len(challenges) + 1}
    /\ UNCHANGED <<now, credentials, conn, desktopVars, history>>

\* complete_pairing: a challenge that counts attempts, and the answers.
Attempt(c, p) == [challenges[c] EXCEPT !.attempts[p] = @ + 1]
MayTry(c, p) == Open(c) /\ challenges[c].attempts[p] < MaxAttempts

PairDenied(k, p, c) ==
    /\ conn[k].at = "first-frame"
    /\ ~MayTry(c, p)
    /\ Goto(k, Closed)
    /\ UNCHANGED <<now, registry, desktopVars, history>>

PairMismatch(k, p, c, code) ==
    /\ conn[k].at = "first-frame"
    /\ MayTry(c, p) /\ code # challenges[c].code
    /\ challenges' = [challenges EXCEPT ![c] = Attempt(c, p)]
    /\ Goto(k, Closed)
    /\ UNCHANGED <<now, known, credentials, desktopVars, history>>

PairPending(k, p, c, code) ==
    /\ conn[k].at = "first-frame"
    /\ MayTry(c, p) /\ code = challenges[c].code
    /\ p \notin challenges[c].approved
    /\ challenges' = [challenges EXCEPT ![c] = Attempt(c, p)]
    /\ Emit([kind |-> "requested", challenge |-> c, plugin |-> p])
    /\ Goto(k, Closed)
    /\ UNCHANGED <<now, known, credentials, prompts, history>>

\* Mutant: the challenge stays usable when the answer was lost.
PairSucceededAgain(k, p, c, code) ==
    /\ conn[k].at = "first-frame"
    /\ MayTry(c, p) /\ code = challenges[c].code
    /\ p \in challenges[c].approved
    /\ challenges' = [challenges EXCEPT ![c] = Attempt(c, p)]
    /\ credentials' = Append(credentials, [plugin |-> p, challenge |-> c,
           expires |-> now + CredentialTtl, revoked |-> FALSE])
    /\ Emit([kind |-> "paired", challenge |-> c, plugin |-> p])
    /\ Goto(k, Closed)
    /\ UNCHANGED <<now, known, prompts, history>>

PairSucceeded(k, p, c, code) ==
    /\ conn[k].at = "first-frame"
    /\ MayTry(c, p) /\ code = challenges[c].code
    /\ p \in challenges[c].approved
    /\ challenges' = [challenges EXCEPT ![c] = [Attempt(c, p) EXCEPT !.used = TRUE]]
    /\ credentials' = Append(credentials, [plugin |-> p, challenge |-> c,
           expires |-> now + CredentialTtl, revoked |-> FALSE])
    /\ Emit([kind |-> "paired", challenge |-> c, plugin |-> p])
    /\ Goto(k, Closed)
    /\ UNCHANGED <<now, known, prompts, history>>

Pair(k, p, c, code) ==
    \/ PairDenied(k, p, c)
    \/ PairMismatch(k, p, c, code)
    \/ PairPending(k, p, c, code)
    \/ PairSucceeded(k, p, c, code)

-----------------------------------------------------------------------------
(***************************************************************************)
(* The desktop                                                             *)
(***************************************************************************)

\* record_bridge_event; a pairing removes every prompt of its plugin.
ReceiveEvent ==
    /\ events # <<>>
    /\ events' = Tail(events)
    /\ LET e == Head(events)
       IN  prompts' = IF e.kind = "requested" THEN prompts \cup {<<e.challenge, e.plugin>>}
                      ELSE {x \in prompts : x[2] # e.plugin}
    /\ UNCHANGED <<now, registry, conn, history>>

\* The desktop approves what it has a prompt for.  The prompt may be of a
\* challenge that is gone: nothing happens then.
Prompted(c, p) == <<c, p>> \in prompts

Approve(c, p) ==
    /\ Prompted(c, p)
    /\ Open(c)
    /\ challenges' = [challenges EXCEPT ![c].approved = @ \cup {p}]
    /\ approvals' = approvals \cup {<<c, p>>}
    /\ UNCHANGED <<now, known, credentials, conn, desktopVars, barred>>

\* Mutant: the newest credential only, an older pairing keeps its own.
RevokeNewest(p) ==
    /\ \E i \in DOMAIN credentials : credentials[i].plugin = p
    /\ credentials' = [credentials EXCEPT
           ![Max({i \in DOMAIN credentials : credentials[i].plugin = p})].revoked = TRUE]
    /\ barred' = [barred EXCEPT ![p] = Len(credentials)]
    /\ UNCHANGED <<now, challenges, known, conn, desktopVars, approvals>>

Revoke(p) ==
    /\ \E i \in DOMAIN credentials : credentials[i].plugin = p
    /\ credentials' = [i \in DOMAIN credentials |->
           IF credentials[i].plugin = p THEN [credentials[i] EXCEPT !.revoked = TRUE]
           ELSE credentials[i]]
    /\ barred' = [barred EXCEPT ![p] = Len(credentials)]
    /\ UNCHANGED <<now, challenges, known, conn, desktopVars, approvals>>

-----------------------------------------------------------------------------
(***************************************************************************)
(* Connections.  stale is set when the credential a connection presents    *)
(* had been barred, or had expired, before.                                *)
(***************************************************************************)

Valid(i) == ~credentials[i].revoked /\ credentials[i].expires > now
Stale(i) == i <= barred[credentials[i].plugin] \/ credentials[i].expires <= now
Authenticated(i) == [at |-> "authenticated", stale |-> Stale(i)]

\* The upgrade request with header authentication; without, or with one that
\* fails, the client has its first frame to say who it is.
Dial(k) ==
    /\ conn[k].at = "none"
    /\ Goto(k, [at |-> "first-frame"])
    /\ UNCHANGED <<now, registry, desktopVars, history>>

DialAuthenticated(k, i) ==
    /\ conn[k].at = "none"
    /\ Valid(i)
    /\ Goto(k, Authenticated(i))
    /\ UNCHANGED <<now, registry, desktopVars, history>>

\* session.authenticate, within the first 5 s.
Authenticate(k, i) ==
    /\ conn[k].at = "first-frame"
    /\ Goto(k, IF Valid(i) THEN Authenticated(i) ELSE Closed)
    /\ UNCHANGED <<now, registry, desktopVars, history>>

\* Another frame, or none in time.
FirstFrameFails(k) ==
    /\ conn[k].at = "first-frame"
    /\ Goto(k, Closed)
    /\ UNCHANGED <<now, registry, desktopVars, history>>

\* session.authenticated was sent; the session is in the directory.
Join(k) ==
    /\ conn[k].at = "authenticated"
    /\ Goto(k, [conn[k] EXCEPT !.at = "session"])
    /\ UNCHANGED <<now, registry, desktopVars, history>>

\* The socket closes, or sending session.authenticated failed.
Leave(k) ==
    /\ conn[k].at \in {"authenticated", "session"}
    /\ Goto(k, Closed)
    /\ UNCHANGED <<now, registry, desktopVars, history>>

Tick ==
    /\ now < MaxTime
    /\ now' = now + 1
    /\ UNCHANGED <<registry, conn, desktopVars, history>>

AccessInit ==
    /\ now = 0
    /\ challenges = <<>> /\ known = {} /\ credentials = <<>>
    /\ conn = [k \in Connections |-> [at |-> "none"]]
    /\ events = <<>> /\ prompts = {}
    /\ approvals = {} /\ barred = [p \in Plugins |-> 0]

AccessNext ==
    \/ \E code \in Codes : IssueChallenge(code)
    \/ \E k \in Connections, p \in Plugins, c \in DOMAIN challenges, code \in Codes : Pair(k, p, c, code)
    \/ ReceiveEvent
    \/ \E c \in DOMAIN challenges, p \in Plugins : Approve(c, p)
    \/ \E p \in Plugins : Revoke(p)
    \/ \E k \in Connections, i \in DOMAIN credentials : DialAuthenticated(k, i) \/ Authenticate(k, i)
    \/ \E k \in Connections : Dial(k) \/ FirstFrameFails(k) \/ Join(k) \/ Leave(k)
    \/ Tick

AccessSpec == AccessInit /\ [][AccessNext]_accessVars

-----------------------------------------------------------------------------
\* complete_pairing (bridge.rs:1655, 1683): a credential exists for nothing but a
\* plugin the human approved for that very challenge, and a challenge yields
\* one, however often the plugin asks again because an answer was lost.
OneCredentialPerApproval ==
    /\ \A i \in DOMAIN credentials : <<credentials[i].challenge, credentials[i].plugin>> \in approvals
    /\ \A i, j \in DOMAIN credentials :
           credentials[i].challenge = credentials[j].challenge => i = j

\* "Revocation is immediate for future sessions" (revoke_plugin, bridge.rs:530; the
\* bridge's guide), as far as the code keeps it: no credential that had expired, or that a
\* plugin had from any of its pairings when it was revoked, authenticates a session,
\* whatever is paired before and after.  Two ways in stay open and are not excluded: a
\* connection that authenticated before the revocation, and a challenge that was approved
\* before it and gives a new credential.
RevokedStaysOut ==
    \A k \in Connections : conn[k].at = "session" => ~conn[k].stale
=============================================================================
