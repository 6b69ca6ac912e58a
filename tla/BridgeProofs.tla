---------------------------- MODULE BridgeProofs ----------------------------
(***************************************************************************)
(* Proofs about the Studio bridge, for every set of plugins, connections,  *)
(* sessions, transfers and workspaces and every bound: who gets a          *)
(* credential and a session, also with the plugin's own way of pairing,    *)
(* what one session's messages do, who is told to apply a revision, and    *)
(* where a capture lands.                                                  *)
(***************************************************************************)
EXTENDS StudioBridge, StudioPairing, BridgeWire, SequenceTheorems, TLAPS

-----------------------------------------------------------------------------
(***************************************************************************)
(* Access: credentials follow approvals                                    *)
(***************************************************************************)

Challenge == [code : Codes, expires : Nat, attempts : [Plugins -> Nat],
              approved : SUBSET Plugins, used : BOOLEAN]
Credential == [plugin : Plugins, challenge : Nat, expires : Nat, revoked : BOOLEAN]

\* An authenticated connection presented a credential that was good.
ConnState == [at : {"none", "first-frame"}]
             \cup [at : {"authenticated", "session"}, stale : {FALSE}]

AccessTypes ==
    /\ now \in Nat
    /\ challenges \in Seq(Challenge)
    /\ credentials \in Seq(Credential)
    /\ conn \in [Connections -> ConnState]
    /\ barred \in [Plugins -> Nat]

ApprovedByHuman ==
    \A c \in DOMAIN challenges, p \in Plugins :
        p \in challenges[c].approved => <<c, p>> \in approvals

\* A credential uses its challenge up; no two have one challenge.
FromUsedChallenges ==
    \A i \in DOMAIN credentials :
        /\ credentials[i].challenge \in DOMAIN challenges
        /\ challenges[credentials[i].challenge].used
        /\ <<credentials[i].challenge, credentials[i].plugin>> \in approvals

OnePerChallenge ==
    \A i, j \in DOMAIN credentials :
        credentials[i].challenge = credentials[j].challenge => i = j

BarredAreRevoked ==
    /\ \A p \in Plugins : barred[p] <= Len(credentials)
    /\ \A i \in DOMAIN credentials :
           i <= barred[credentials[i].plugin] => credentials[i].revoked

AccessInv ==
    /\ AccessTypes /\ ApprovedByHuman /\ FromUsedChallenges
    /\ OnePerChallenge /\ BarredAreRevoked

\* A bridge that just started has issued nothing.
LEMMA AccessInitInv == AccessInit => AccessInv
<1> SUFFICES ASSUME AccessInit PROVE AccessInv
  OBVIOUS
<1>1. AccessTypes
  BY DEF AccessInit, AccessTypes, ConnState
<1> QED
  BY <1>1 DEF AccessInit, AccessInv, ApprovedByHuman, FromUsedChallenges, OnePerChallenge,
              BarredAreRevoked

\* A new challenge, which nobody has approved yet (issue_challenge).
LEMMA IssueKeeps ==
  ASSUME AccessInv, NEW code \in Codes, IssueChallenge(code)
  PROVE  AccessInv'
<1> DEFINE fresh == [code |-> code, expires |-> now + ChallengeTtl,
                     attempts |-> [p \in Plugins |-> 0], approved |-> {}, used |-> FALSE]
<1>1. challenges' = Append(challenges, fresh) /\ challenges \in Seq(Challenge)
  BY DEF IssueChallenge, AccessInv, AccessTypes
<1>2. fresh \in Challenge /\ fresh.approved = {}
  BY AccessAssumption DEF AccessInv, AccessTypes, Challenge
<1> HIDE DEF fresh
<1>3. /\ challenges' \in Seq(Challenge)
      /\ DOMAIN challenges \subseteq DOMAIN challenges'
      /\ \A c \in DOMAIN challenges : challenges'[c] = challenges[c]
      /\ \A c \in DOMAIN challenges' \ DOMAIN challenges : challenges'[c] = fresh
  BY <1>1, <1>2, AppendProperties
<1>4. UNCHANGED <<now, credentials, conn, approvals, barred>>
  BY DEF IssueChallenge, desktopVars, history
<1>5. AccessTypes'
  BY <1>3, <1>4 DEF AccessInv, AccessTypes
<1>6. ApprovedByHuman'
  BY <1>2, <1>3, <1>4 DEF AccessInv, ApprovedByHuman
<1>7. FromUsedChallenges'
  BY <1>3, <1>4 DEF AccessInv, FromUsedChallenges
<1> QED
  BY <1>4, <1>5, <1>6, <1>7 DEF AccessInv, OnePerChallenge, BarredAreRevoked

\* Changing one challenge: its approvals are the human's, and a used one stays used.
ChallengeChanges(c, next) ==
    /\ challenges' = [challenges EXCEPT ![c] = next]
    /\ next \in Challenge
    /\ challenges[c].used => next.used
    /\ \A p \in Plugins : p \in next.approved => <<c, p>> \in approvals'
    /\ approvals \subseteq approvals'

\* A challenge that changes legally stays approved by a human and, once used, used.
LEMMA ChangeKeeps ==
  ASSUME AccessInv, NEW c \in DOMAIN challenges, NEW next, ChallengeChanges(c, next)
  PROVE  /\ challenges' \in Seq(Challenge)
         /\ DOMAIN challenges' = DOMAIN challenges
         /\ ApprovedByHuman'
         /\ \A d \in DOMAIN challenges : challenges[d].used => challenges'[d].used
         /\ challenges'[c] = next
<1>1. challenges \in Seq(Challenge) /\ next \in Challenge
  BY DEF AccessInv, AccessTypes, ChallengeChanges
<1>2. challenges' = [challenges EXCEPT ![c] = next]
  BY DEF ChallengeChanges
<1>3. /\ challenges' \in Seq(Challenge)
      /\ DOMAIN challenges' = DOMAIN challenges
      /\ \A d \in DOMAIN challenges : challenges'[d] = IF d = c THEN next ELSE challenges[d]
  BY <1>1, <1>2, ExceptSeq
<1>4. ApprovedByHuman'
  BY <1>3 DEF AccessInv, ApprovedByHuman, ChallengeChanges
<1>5. \A d \in DOMAIN challenges : challenges[d].used => challenges'[d].used
  BY <1>3 DEF ChallengeChanges
<1> QED
  BY <1>3, <1>4, <1>5

\* An attempt is counted, and nothing else changes (complete_pairing).
LEMMA AttemptCounts ==
  ASSUME AccessInv, NEW c \in DOMAIN challenges, NEW p \in Plugins
  PROVE  /\ Attempt(c, p) \in Challenge
         /\ Attempt(c, p).approved = challenges[c].approved
         /\ Attempt(c, p).used = challenges[c].used
<1>1. challenges[c] \in Challenge
  BY DEF AccessInv, AccessTypes
<1> QED
  BY <1>1 DEF Attempt, Challenge

\* A pairing that is denied, mismatched or still waits for the human.
LEMMA UnpairedKeeps ==
  ASSUME AccessInv, NEW k \in Connections, NEW p \in Plugins, NEW c \in DOMAIN challenges,
         NEW code \in Codes,
         PairDenied(k, p, c) \/ PairMismatch(k, p, c, code) \/ PairPending(k, p, c, code)
  PROVE  AccessInv'
<1>1. UNCHANGED <<now, credentials, approvals, barred>>
  BY DEF PairDenied, PairMismatch, PairPending, registry, desktopVars, history
<1>2. conn' \in [Connections -> ConnState]
  <2>1. conn' = [conn EXCEPT ![k] = Closed]
    BY DEF PairDenied, PairMismatch, PairPending, Goto
  <2>2. Closed \in ConnState
    BY DEF Closed, ConnState
  <2> QED
    BY <2>1, <2>2 DEF AccessInv, AccessTypes
<1>3. CASE UNCHANGED challenges
  BY <1>1, <1>2, <1>3 DEF AccessInv, AccessTypes, ApprovedByHuman, FromUsedChallenges,
                          OnePerChallenge, BarredAreRevoked
<1>4. CASE challenges' = [challenges EXCEPT ![c] = Attempt(c, p)]
  <2>1. ChallengeChanges(c, Attempt(c, p))
    BY <1>1, <1>4, AttemptCounts DEF ChallengeChanges, AccessInv, ApprovedByHuman
  <2>2. /\ challenges' \in Seq(Challenge) /\ DOMAIN challenges' = DOMAIN challenges
        /\ ApprovedByHuman'
        /\ \A d \in DOMAIN challenges : challenges[d].used => challenges'[d].used
    BY <2>1, ChangeKeeps
  <2> QED
    BY <1>1, <1>2, <2>2 DEF AccessInv, AccessTypes, FromUsedChallenges, OnePerChallenge,
                            BarredAreRevoked
<1> QED
  BY <1>3, <1>4 DEF PairDenied, PairMismatch, PairPending, registry

\* The one step that gives out a credential: its challenge was open and approved, and
\* is used up.
LEMMA PairedKeeps ==
  ASSUME AccessInv, NEW k \in Connections, NEW p \in Plugins, NEW c \in DOMAIN challenges,
         NEW code \in Codes, PairSucceeded(k, p, c, code)
  PROVE  AccessInv'
<1> DEFINE next == [Attempt(c, p) EXCEPT !.used = TRUE]
           cred == [plugin |-> p, challenge |-> c, expires |-> now + CredentialTtl, revoked |-> FALSE]
<1>1. UNCHANGED <<now, approvals, barred>>
  BY DEF PairSucceeded, history
<1>2. conn' \in [Connections -> ConnState]
  BY DEF PairSucceeded, AccessInv, AccessTypes, Goto, Closed, ConnState
<1>3. ~challenges[c].used /\ p \in challenges[c].approved
  BY DEF PairSucceeded, MayTry, Open
<1>4. next \in Challenge /\ next.used /\ next.approved = challenges[c].approved
  <2>1. Attempt(c, p) \in Challenge /\ Attempt(c, p).approved = challenges[c].approved
    BY AttemptCounts
  <2>2. \A r \in Challenge : /\ [r EXCEPT !.used = TRUE] \in Challenge
                             /\ [r EXCEPT !.used = TRUE].used
                             /\ [r EXCEPT !.used = TRUE].approved = r.approved
    BY DEF Challenge
  <2> QED
    BY <2>1, <2>2, Zenon
<1>5. challenges' = [challenges EXCEPT ![c] = next] /\ credentials' = Append(credentials, cred)
  BY DEF PairSucceeded
<1>6. /\ cred \in Credential /\ cred.plugin = p /\ cred.challenge = c
  BY AccessAssumption DEF AccessInv, AccessTypes, Credential
<1> HIDE DEF next, cred
<1>7. ChallengeChanges(c, next)
  BY <1>1, <1>4, <1>5 DEF ChallengeChanges, AccessInv, ApprovedByHuman
<1>8. /\ challenges' \in Seq(Challenge) /\ DOMAIN challenges' = DOMAIN challenges
      /\ ApprovedByHuman'
      /\ \A d \in DOMAIN challenges : challenges[d].used => challenges'[d].used
      /\ challenges'[c] = next
  BY <1>7, ChangeKeeps
<1>9. /\ credentials' \in Seq(Credential)
      /\ Len(credentials') = Len(credentials) + 1
      /\ DOMAIN credentials' = DOMAIN credentials \cup {Len(credentials) + 1}
      /\ \A i \in DOMAIN credentials : credentials'[i] = credentials[i]
      /\ credentials'[Len(credentials) + 1] = cred
      /\ DOMAIN credentials = 1 .. Len(credentials) /\ Len(credentials) \in Nat
  <2>1. credentials \in Seq(Credential)
    BY DEF AccessInv, AccessTypes
  <2> QED
    BY <2>1, <1>5, <1>6, AppendProperties
<1>10. <<c, p>> \in approvals
  BY <1>3 DEF AccessInv, ApprovedByHuman
<1>11. FromUsedChallenges'
  BY <1>1, <1>4, <1>6, <1>8, <1>9, <1>10 DEF AccessInv, FromUsedChallenges
<1>12. OnePerChallenge'
  <2>1. \A i \in DOMAIN credentials : credentials[i].challenge # c
    BY <1>3 DEF AccessInv, FromUsedChallenges
  <2> QED
    BY <2>1, <1>6, <1>9 DEF AccessInv, OnePerChallenge
<1>13. BarredAreRevoked'
  <2>1. barred \in [Plugins -> Nat] /\ \A q \in Plugins : barred[q] <= Len(credentials)
    BY DEF AccessInv, AccessTypes, BarredAreRevoked
  <2>2. ~(Len(credentials) + 1 <= barred[p])
    BY <2>1, <1>9
  <2> QED
    BY <2>1, <2>2, <1>1, <1>6, <1>9 DEF AccessInv, BarredAreRevoked
<1> QED
  BY <1>1, <1>2, <1>8, <1>9, <1>11, <1>12, <1>13 DEF AccessInv, AccessTypes

\* Only the desktop approves, on behalf of the human (approve_pairing).
LEMMA ApproveKeeps ==
  ASSUME AccessInv, NEW c \in DOMAIN challenges, NEW p \in Plugins, Approve(c, p)
  PROVE  AccessInv'
<1> DEFINE next == [challenges[c] EXCEPT !.approved = @ \cup {p}]
<1>1. UNCHANGED <<now, credentials, conn, barred>> /\ approvals' = approvals \cup {<<c, p>>}
  BY DEF Approve, desktopVars
<1>2. challenges[c] \in Challenge
  BY DEF AccessInv, AccessTypes
<1>3. next \in Challenge /\ next.approved = challenges[c].approved \cup {p} /\ next.used = challenges[c].used
  BY <1>2 DEF Challenge
<1>4. challenges' = [challenges EXCEPT ![c] = next]
  BY DEF Approve
<1> HIDE DEF next
<1>5. ChallengeChanges(c, next)
  BY <1>1, <1>3, <1>4 DEF ChallengeChanges, AccessInv, ApprovedByHuman
<1>6. /\ challenges' \in Seq(Challenge) /\ DOMAIN challenges' = DOMAIN challenges
      /\ ApprovedByHuman'
      /\ \A d \in DOMAIN challenges : challenges[d].used => challenges'[d].used
  BY <1>5, ChangeKeeps
<1> QED
  BY <1>1, <1>6 DEF AccessInv, AccessTypes, FromUsedChallenges, OnePerChallenge, BarredAreRevoked

\* Every credential of the plugin is revoked (revoke_plugin).
LEMMA RevokeKeeps ==
  ASSUME AccessInv, NEW p \in Plugins, Revoke(p)
  PROVE  AccessInv'
<1>1. UNCHANGED <<now, challenges, conn, approvals>> /\ barred' = [barred EXCEPT ![p] = Len(credentials)]
  BY DEF Revoke
<1>2. credentials \in Seq(Credential) /\ barred \in [Plugins -> Nat]
  BY DEF AccessInv, AccessTypes
<1>3. \A i \in DOMAIN credentials :
          /\ credentials[i] \in Credential
          /\ [credentials[i] EXCEPT !.revoked = TRUE] \in Credential
          /\ [credentials[i] EXCEPT !.revoked = TRUE].plugin = credentials[i].plugin
          /\ [credentials[i] EXCEPT !.revoked = TRUE].challenge = credentials[i].challenge
          /\ [credentials[i] EXCEPT !.revoked = TRUE].revoked
  <2>1. \A r \in Credential :
            /\ [r EXCEPT !.revoked = TRUE] \in Credential
            /\ [r EXCEPT !.revoked = TRUE].plugin = r.plugin
            /\ [r EXCEPT !.revoked = TRUE].challenge = r.challenge
            /\ [r EXCEPT !.revoked = TRUE].revoked
    BY DEF Credential
  <2>2. \A i \in DOMAIN credentials : credentials[i] \in Credential
    BY <1>2
  <2> QED
    BY <2>1, <2>2, Zenon
<1>4. credentials' = [i \in DOMAIN credentials |->
           IF credentials[i].plugin = p THEN [credentials[i] EXCEPT !.revoked = TRUE]
           ELSE credentials[i]]
  BY DEF Revoke
<1>5. DOMAIN credentials = 1 .. Len(credentials) /\ Len(credentials) \in Nat
  BY <1>2
<1>6. /\ DOMAIN credentials' = DOMAIN credentials
      /\ \A i \in DOMAIN credentials :
            /\ credentials'[i] \in Credential
            /\ credentials'[i].plugin = credentials[i].plugin
            /\ credentials'[i].challenge = credentials[i].challenge
            /\ credentials[i].revoked \/ credentials[i].plugin = p => credentials'[i].revoked
  BY <1>3, <1>4
<1>7. credentials' \in Seq(Credential) /\ Len(credentials') = Len(credentials)
  <2>1. credentials' \in [1 .. Len(credentials) -> Credential]
    BY <1>4, <1>5, <1>6
  <2> QED
    BY <2>1, <1>5, SeqDef, LenProperties
<1>8. BarredAreRevoked'
  <2>1. \A q \in Plugins : barred'[q] = IF q = p THEN Len(credentials) ELSE barred[q]
    BY <1>1, <1>2
  <2>2. \A i \in DOMAIN credentials : credentials[i].plugin \in Plugins
    <3>1. \A r \in Credential : r.plugin \in Plugins
      BY DEF Credential
    <3>2. \A i \in DOMAIN credentials : credentials[i] \in Credential
      BY <1>2
    <3> QED
      BY <3>1, <3>2, Zenon
  <2>3. \A q \in Plugins : barred'[q] <= Len(credentials')
    BY <2>1, <1>5, <1>7 DEF AccessInv, BarredAreRevoked
  <2>4. ASSUME NEW i \in DOMAIN credentials, i <= barred'[credentials'[i].plugin]
        PROVE  credentials'[i].revoked
    BY <2>1, <2>2, <2>4, <1>6 DEF AccessInv, BarredAreRevoked
  <2> QED
    BY <2>3, <2>4, <1>6 DEF BarredAreRevoked
<1>9. FromUsedChallenges' /\ OnePerChallenge'
  BY <1>1, <1>6 DEF AccessInv, FromUsedChallenges, OnePerChallenge
<1> QED
  BY <1>1, <1>2, <1>5, <1>7, <1>8, <1>9 DEF AccessInv, AccessTypes, ApprovedByHuman

\* A connection authenticates with a credential that is valid now, so not barred before.
LEMMA ValidIsNotStale ==
  ASSUME AccessInv, NEW i \in DOMAIN credentials, Valid(i)
  PROVE  Authenticated(i) \in ConnState
<1>1. credentials[i] \in Credential /\ now \in Nat
  BY DEF AccessInv, AccessTypes
<1>2. Stale(i) = FALSE
  BY <1>1 DEF AccessInv, BarredAreRevoked, Valid, Stale, Credential
<1> QED
  BY <1>2 DEF Authenticated, ConnState

\* What a connection does changes nothing but its own state.
LEMMA ConnectionKeeps ==
  ASSUME AccessInv, NEW k \in Connections,
         \/ Dial(k) \/ FirstFrameFails(k) \/ Join(k) \/ Leave(k)
         \/ \E i \in DOMAIN credentials : DialAuthenticated(k, i) \/ Authenticate(k, i)
  PROVE  AccessInv'
<1>1. UNCHANGED <<now, challenges, credentials, approvals, barred>>
  BY DEF Dial, FirstFrameFails, Join, Leave, DialAuthenticated, Authenticate, registry, history
<1>2. \E next \in ConnState : conn' = [conn EXCEPT ![k] = next]
  <2>1. Closed \in ConnState /\ [at |-> "first-frame"] \in ConnState
    BY DEF Closed, ConnState
  <2>2. CASE Dial(k) \/ FirstFrameFails(k) \/ Leave(k)
    BY <2>1, <2>2 DEF Dial, FirstFrameFails, Leave, Goto
  <2>3. CASE Join(k)
    <3>1. conn[k] \in ConnState /\ conn[k].at = "authenticated"
      BY <2>3 DEF Join, AccessInv, AccessTypes
    <3>2. [conn[k] EXCEPT !.at = "session"] \in ConnState
      BY <3>1 DEF ConnState
    <3> QED
      BY <3>2, <2>3 DEF Join, Goto
  <2>4. ASSUME NEW i \in DOMAIN credentials, DialAuthenticated(k, i) \/ Authenticate(k, i)
        PROVE  \E next \in ConnState : conn' = [conn EXCEPT ![k] = next]
    <3>1. CASE Valid(i)
      BY <3>1, <2>4, ValidIsNotStale DEF DialAuthenticated, Authenticate, Goto
    <3>2. CASE ~Valid(i)
      BY <3>2, <2>1, <2>4 DEF DialAuthenticated, Authenticate, Goto
    <3> QED
      BY <3>1, <3>2
  <2> QED
    BY <2>2, <2>3, <2>4
<1>3. conn' \in [Connections -> ConnState]
  BY <1>2 DEF AccessInv, AccessTypes
<1> QED
  BY <1>1, <1>3 DEF AccessInv, AccessTypes, ApprovedByHuman, FromUsedChallenges, OnePerChallenge,
                    BarredAreRevoked

\* Every step of the bridge keeps the invariant.
LEMMA AccessStepInv == AccessInv /\ [AccessNext]_accessVars => AccessInv'
<1> SUFFICES ASSUME AccessInv, [AccessNext]_accessVars PROVE AccessInv'
  OBVIOUS
<1>1. ASSUME UNCHANGED <<challenges, credentials, conn, approvals, barred>>, now' \in Nat
      PROVE  AccessInv'
  BY <1>1 DEF AccessInv, AccessTypes, ApprovedByHuman, FromUsedChallenges, OnePerChallenge,
              BarredAreRevoked
<1>2. ASSUME NEW k \in Connections, NEW p \in Plugins, NEW c \in DOMAIN challenges,
             NEW code \in Codes, Pair(k, p, c, code)
      PROVE  AccessInv'
  BY <1>2, UnpairedKeeps, PairedKeeps DEF Pair
<1>3. CASE ReceiveEvent \/ Tick \/ UNCHANGED accessVars
  <2>1. now' \in Nat /\ UNCHANGED <<challenges, credentials, conn, approvals, barred>>
    BY <1>3 DEF ReceiveEvent, Tick, accessVars, registry, history, AccessInv, AccessTypes
  <2> QED
    BY <1>1, <2>1
<1> QED
  BY <1>2, <1>3, IssueKeeps, ApproveKeeps, RevokeKeeps, ConnectionKeeps DEF AccessNext

\* A credential is only ever given to a plugin a human approved for that very challenge,
\* and a challenge yields at most one (complete_pairing, bridge.rs:1655).
THEOREM OneCredentialPerApprovalHolds == AccessSpec => []OneCredentialPerApproval
<1>1. AccessInv => OneCredentialPerApproval
  BY DEF AccessInv, FromUsedChallenges, OnePerChallenge, OneCredentialPerApproval
<1> QED
  BY <1>1, AccessInitInv, AccessStepInv, PTL DEF AccessSpec

\* No credential issued before the revocation of its plugin opens a session after it,
\* whatever is paired again in between, unless the connection had authenticated before
\* (revoke_plugin, bridge.rs:530).
THEOREM RevokedStaysOutHolds == AccessSpec => []RevokedStaysOut
<1>1. AccessInv => RevokedStaysOut
  BY DEF AccessInv, AccessTypes, ConnState, RevokedStaysOut
<1> QED
  BY <1>1, AccessInitInv, AccessStepInv, PTL DEF AccessSpec

-----------------------------------------------------------------------------
(***************************************************************************)
(* The plugin as a client of the pairing                                   *)
(***************************************************************************)

\* A plugin pairs only with a challenge it was told of; a code is typed only once it knows one.
Informed(c) ==
    /\ c.challenge \in 0 .. Len(challenges)
    /\ c.typed \in Codes \cup {NoCode}
    /\ c.typed # NoCode => c.challenge # 0

ClientInv ==
    /\ AccessInv
    /\ DOMAIN client = Plugins
    /\ \A p \in Plugins : Informed(client[p])

\* One plugin's state changes; challenges are never forgotten.
LEMMA ClientChanges ==
  ASSUME ClientInv, AccessInv', Len(challenges') >= Len(challenges), Len(challenges') \in Nat,
         NEW p \in Plugins, NEW rec, Show(p, rec), Informed(rec)'
  PROVE  ClientInv'
<1>1. DOMAIN client' = Plugins /\ client'[p] = rec /\ \A q \in Plugins \ {p} : client'[q] = client[q]
  BY DEF ClientInv, Show
<1>2. Len(challenges) \in Nat
  BY DEF ClientInv, AccessInv, AccessTypes
<1>3. \A q \in Plugins : Informed(client[q])'
  BY <1>1, <1>2 DEF ClientInv, Informed
<1>4. QED BY <1>1, <1>3 DEF ClientInv, Informed

\* No step of the bridge makes challenges fewer.
LEMMA ChallengesStay ==
  ASSUME AccessInv, [AccessNext]_accessVars
  PROVE  Len(challenges') >= Len(challenges) /\ Len(challenges) \in Nat /\ Len(challenges') \in Nat
<1>1. challenges \in Seq(Challenge) /\ challenges' \in Seq(Challenge)
  BY AccessStepInv DEF AccessInv, AccessTypes
<1>2. Len(challenges) \in Nat /\ Len(challenges') \in Nat
  BY <1>1
<1>3. ASSUME NEW c \in DOMAIN challenges, NEW ch, challenges' = [challenges EXCEPT ![c] = ch]
      PROVE  Len(challenges') = Len(challenges)
  BY <1>1, <1>3
<1>4. ASSUME NEW code, IssueChallenge(code) PROVE Len(challenges') = Len(challenges) + 1
  BY <1>1, <1>4 DEF IssueChallenge
<1>5. ASSUME NEW k \in Connections, NEW p \in Plugins, NEW c \in DOMAIN challenges, NEW code \in Codes,
             Pair(k, p, c, code)
      PROVE  Len(challenges') = Len(challenges)
  <2>1. UNCHANGED challenges \/ \E ch : challenges' = [challenges EXCEPT ![c] = ch]
    BY <1>5 DEF Pair, PairDenied, PairMismatch, PairPending, PairSucceeded, registry
  <2>2. QED BY <1>3, <2>1
<1>6. ASSUME NEW c \in DOMAIN challenges, NEW p \in Plugins, Approve(c, p)
      PROVE  Len(challenges') = Len(challenges)
  <2>1. challenges' = [challenges EXCEPT ![c] = [challenges[c] EXCEPT !.approved = @ \cup {p}]]
    BY <1>6 DEF Approve
  <2>2. QED BY <1>3, <2>1
<1>7. CASE \/ ReceiveEvent \/ (\E p \in Plugins : Revoke(p)) \/ Tick \/ UNCHANGED accessVars
           \/ \E k \in Connections, i \in DOMAIN credentials : DialAuthenticated(k, i) \/ Authenticate(k, i)
           \/ \E k \in Connections : Dial(k) \/ FirstFrameFails(k) \/ Join(k) \/ Leave(k)
  <2>1. UNCHANGED challenges
    BY <1>7, Zenon DEF ReceiveEvent, Revoke, Tick, accessVars, registry, DialAuthenticated, Authenticate,
                       Dial, FirstFrameFails, Join, Leave
  <2>2. QED BY <1>2, <2>1
<1>8. QED BY <1>2, <1>4, <1>5, <1>6, <1>7 DEF AccessNext

\* Discovery, on connecting and again on the click.
LEMMA DiscoverKeeps ==
  ASSUME ClientInv, NEW p \in Plugins, ConnectUnpaired(p) \/ ClickPair(p)
  PROVE  ClientInv' /\ AccessNext
<1>1. PICK code \in Codes : IssueChallenge(code)
  BY DEF ConnectUnpaired, ClickPair
<1>2. AccessNext
  BY <1>1 DEF AccessNext
<1>3. AccessInv' /\ Len(challenges') >= Len(challenges) /\ Len(challenges') \in Nat
  BY <1>2, AccessStepInv, ChallengesStay DEF ClientInv
<1>4. challenges \in Seq(Challenge) /\ Len(challenges) \in Nat
  BY DEF ClientInv, AccessInv, AccessTypes
<1>5. Len(challenges') # 0
  <2>1. challenges' = Append(challenges, [code |-> code, expires |-> now + ChallengeTtl,
           attempts |-> [q \in Plugins |-> 0], approved |-> {}, used |-> FALSE])
    BY <1>1 DEF IssueChallenge
  <2>2. QED BY <1>4, <2>1
<1>6. CASE ConnectUnpaired(p)
  <2>1. PICK rec : rec = [client[p] EXCEPT !.challenge = Len(challenges')]
    OBVIOUS
  <2>2. Show(p, rec)
    BY <1>6, <2>1 DEF ConnectUnpaired
  <2>3. client[p].typed = NoCode
    BY <1>6 DEF ConnectUnpaired
  <2>4. rec.typed = NoCode /\ rec.challenge \in {Len(challenges'), client[p].challenge}
    BY <2>1, <2>3
  <2>5. client[p].challenge \in 0 .. Len(challenges)
    BY DEF ClientInv, Informed
  <2>6. Informed(rec)'
    BY <1>3, <1>4, <2>4, <2>5 DEF Informed
  <2>7. QED BY <1>2, <1>3, <2>2, <2>6, ClientChanges
<1>7. CASE ClickPair(p)
  <2>1. PICK rec : rec = [challenge |-> Len(challenges'), typed |-> challenges[client[p].challenge].code,
                          answer |-> "none"]
    OBVIOUS
  <2>2. Show(p, rec) /\ client[p].challenge # 0
    BY <1>7, <2>1 DEF ClickPair
  <2>3. client[p].challenge \in DOMAIN challenges
    BY <1>4, <2>2 DEF ClientInv, Informed
  <2>4. challenges[client[p].challenge].code \in Codes
    <3>1. challenges[client[p].challenge] \in Challenge
      BY <1>4, <2>3
    <3>2. QED BY <3>1 DEF Challenge
  <2>5. Informed(rec)'
    BY <1>3, <1>5, <2>1, <2>4 DEF Informed
  <2>6. QED BY <1>2, <1>3, <2>2, <2>5, ClientChanges
<1>8. QED BY <1>2, <1>6, <1>7

\* The pairing itself.
LEMMA ClickedKeeps ==
  ASSUME ClientInv, NEW k \in Connections, NEW p \in Plugins, PairClicked(k, p)
  PROVE  ClientInv' /\ AccessNext
<1>1. client[p].typed # NoCode
  BY DEF PairClicked
<1>2. challenges \in Seq(Challenge) /\ Len(challenges) \in Nat
  BY DEF ClientInv, AccessInv, AccessTypes
<1>3. PICK c : c = client[p].challenge
  OBVIOUS
<1>4. c \in DOMAIN challenges /\ client[p].typed \in Codes
  BY <1>1, <1>2, <1>3 DEF ClientInv, Informed
<1>5. Pair(k, p, c, client[p].typed)
      /\ \E a \in {"pair.failed", "pair.pending", "pair.succeeded"} :
            Show(p, [challenge |-> c, typed |-> NoCode, answer |-> a])
  BY <1>3 DEF PairClicked, Pair
<1>6. AccessNext
  BY <1>4, <1>5 DEF AccessNext
<1>7. AccessInv' /\ Len(challenges') >= Len(challenges) /\ Len(challenges') \in Nat
  BY <1>6, AccessStepInv, ChallengesStay DEF ClientInv
<1>8. PICK rec : /\ Show(p, rec) /\ rec.challenge = c /\ rec.typed = NoCode
  BY <1>5
<1>9. Informed(rec)'
  BY <1>2, <1>4, <1>7, <1>8 DEF Informed
<1>10. QED BY <1>6, <1>7, <1>8, <1>9, ClientChanges

\* The plugin uses the bridge as any client may: so a credential still follows an approval, and
\* revocation still holds, with the plugin's own way of discovering and pairing (BridgeClient:pair,
\* studio_plugin.luau:945; that its pairing can be refused all the same is MCPairing's finding).
THEOREM PairingKeepsAccess == PairingSpec => AccessSpec
<1>1. PairingInit => AccessInit /\ ClientInv
  <2>1. SUFFICES ASSUME PairingInit PROVE AccessInit /\ ClientInv
    OBVIOUS
  <2>2. AccessInit /\ AccessInv
    BY <2>1, AccessInitInv DEF PairingInit
  <2>3. Len(challenges) = 0
    BY <2>2 DEF AccessInit
  <2>4. DOMAIN client = Plugins /\ \A p \in Plugins : client[p].challenge = 0 /\ client[p].typed = NoCode
    BY <2>1 DEF PairingInit
  <2>5. QED BY <2>2, <2>3, <2>4 DEF ClientInv, Informed
<1>2. ClientInv /\ [PairingNext]_pairingVars => ClientInv' /\ [AccessNext]_accessVars
  <2>1. SUFFICES ASSUME ClientInv, [PairingNext]_pairingVars PROVE ClientInv' /\ [AccessNext]_accessVars
    OBVIOUS
  <2>2. ASSUME [AccessNext]_accessVars, UNCHANGED client
        PROVE  ClientInv'
    <3>1. AccessInv' /\ Len(challenges') >= Len(challenges) /\ Len(challenges) \in Nat /\ Len(challenges') \in Nat
      BY <2>1, <2>2, AccessStepInv, ChallengesStay DEF ClientInv
    <3>2. QED BY <2>1, <2>2, <3>1 DEF ClientInv, Informed
  <2>3. CASE /\ \/ \E k \in Connections : Dial(k)
                \/ ReceiveEvent
                \/ \E c \in DOMAIN challenges, p \in Plugins : Approve(c, p)
             /\ UNCHANGED client
    BY <2>2, <2>3 DEF AccessNext
  <2>4. CASE UNCHANGED pairingVars
    BY <2>2, <2>4 DEF pairingVars
  <2>5. QED BY <2>1, <2>3, <2>4, DiscoverKeeps, ClickedKeeps DEF PairingNext
<1>3. QED BY <1>1, <1>2, PTL DEF PairingSpec, AccessSpec

-----------------------------------------------------------------------------
(***************************************************************************)
(* The wire: one session's messages                                        *)
(***************************************************************************)

\* The guard has counted exactly the messages that were acted upon.
CountedAll ==
    /\ guard.expected \in Nat \ {0}
    /\ handled = [i \in 1 .. guard.expected - 1 |-> i]

\* A message that is let through has the number that was expected, so it is new even if
\* the guard has forgotten its id.
LEMMA AcceptCounts ==
  ASSUME CountedAll, NEW id, NEW seq, NEW same, Accept(id, seq, same)
  PROVE  CountedAll'
<1>1. seq = guard.expected
  BY DEF Accept, Verdict
<1>2. guard'.expected = guard.expected + 1
  BY DEF Accept, Remember
<1>3. handled' = Append(handled, guard.expected)
  BY <1>1 DEF Accept
<1> DEFINE n == guard.expected - 1
<1>4. n \in Nat /\ guard.expected = n + 1 /\ handled = [i \in 1 .. n |-> i]
  BY DEF CountedAll
<1> HIDE DEF n
<1>5. handled \in Seq(Nat) /\ Len(handled) = n
  <2>1. handled \in [1 .. n -> Nat]
    BY <1>4
  <2> QED
    BY <2>1, <1>4, SeqDef, LenProperties
<1>6. handled' = [i \in 1 .. n + 1 |-> i]
  <2>1. /\ handled' \in Seq(Nat) /\ Len(handled') = n + 1
        /\ \A i \in 1 .. n : handled'[i] = handled[i]
        /\ handled'[n + 1] = n + 1
    BY <1>3, <1>4, <1>5, AppendProperties
  <2>2. \A i \in 1 .. n + 1 : handled'[i] = i
    BY <2>1, <1>4
  <2>3. handled' = [i \in 1 .. Len(handled') |-> handled'[i]]
    BY <2>1
  <2> QED
    BY <2>1, <2>2, <2>3
<1> QED
  BY <1>2, <1>4, <1>6 DEF CountedAll

\* Whatever the session does, the guard has counted all it acted upon.
LEMMA WireStepCounts == CountedAll /\ [WireNext]_wireVars => CountedAll'
<1> SUFFICES ASSUME CountedAll, [WireNext]_wireVars PROVE CountedAll'
  OBVIOUS
<1>1. CASE Message
  <2>1. PICK m \in Messages : Violation(m.id, m.seq, m.same) \/ Accept(m.id, m.seq, m.same)
    BY <1>1 DEF Message
  <2> QED
    BY <2>1, AcceptCounts DEF Violation, CountedAll
<1>2. CASE \/ \E id \in 1 .. guard.expected : Duplicate(id)
           \/ Heartbeat \/ LeaveSession \/ IssueTicket \/ MoveBinding
           \/ \E i \in DOMAIN tickets : Download(i) \/ ExpireTicket(i)
           \/ UNCHANGED wireVars
  BY <1>2 DEF Duplicate, Heartbeat, LeaveSession, IssueTicket, MoveBinding, Download,
              ExpireTicket, wireVars, CountedAll
<1> QED
  BY <1>1, <1>2 DEF WireNext

\* Every message is acted upon once and in the order of its number, however few the ids
\* are that the guard remembers (SequenceGuard::check, bridge.rs:1306).
THEOREM HandledOnceInOrderHolds == WireSpec => []HandledOnceInOrder
<1>1. WireInit => CountedAll
  <2> SUFFICES ASSUME WireInit PROVE CountedAll
    OBVIOUS
  <2>1. guard.expected = 1 /\ handled = <<>>
    BY DEF WireInit
  <2> QED
    BY <2>1 DEF CountedAll
<1>2. CountedAll => HandledOnceInOrder
  BY DEF CountedAll, HandledOnceInOrder
<1> QED
  BY <1>1, <1>2, WireStepCounts, PTL DEF WireSpec

\* What is recorded as verified is what is on disk; the tables have all transfers.
VerifiedOnDisk ==
    /\ DOMAIN stored = TransferIds
    /\ DOMAIN disk = {"partial", "stored"} /\ DOMAIN disk.stored = TransferIds
    /\ \A t \in TransferIds : stored[t] # Nothing => disk.stored[t] = stored[t].content

\* A step leaves the verified transfers alone, records and files.
SameStore == stored' = stored /\ disk'.stored = disk.stored /\ DOMAIN disk' = DOMAIN disk

\* One transfer is verified that was not, and its bytes are what was offered.
Verifies(t) ==
    /\ stored[t] = Nothing
    /\ stored' = [stored EXCEPT ![t] = [content |-> incoming.content, context |-> context]]
    /\ disk'.stored = [disk.stored EXCEPT ![t] = incoming.content]
    /\ DOMAIN disk' = DOMAIN disk

\* Ending a session gives up its upload only.
LEMMA EndKeepsStore ==
  ASSUME NEW why, End(why), UNCHANGED stored
  PROVE  SameStore
BY DEF End, SameStore

\* The only handler that touches a verified transfer is the one that verifies it.
LEMMA HandleStores ==
  ASSUME VerifiedOnDisk, Handle
  PROVE  SameStore \/ \E t \in TransferIds : Verifies(t)
<1>1. CASE Plain \/ Pong
  BY <1>1 DEF Plain, Pong, transfer, SameStore
<1>2. ASSUME NEW t \in TransferIds, NEW content \in Contents, OfferTransfer(t, content)
      PROVE  SameStore
  BY <1>2 DEF OfferTransfer, SameStore
<1>3. ASSUME NEW t \in TransferIds, NEW i \in Slots, NEW data \in Bytes, ReceiveChunk(t, i, data)
      PROVE  SameStore
  BY <1>3 DEF ReceiveChunk, SameStore
<1>4. ASSUME NEW t \in TransferIds, NEW i \in Slots, NEW data \in Bytes, ReceiveChunkAgain(t, i, data)
      PROVE  SameStore
  <2>1. CASE Plain
    BY <2>1 DEF Plain, transfer, SameStore
  <2>2. CASE End("replay") /\ UNCHANGED stored
    BY <2>2, EndKeepsStore
  <2> QED
    BY <2>1, <2>2, <1>4 DEF ReceiveChunkAgain
<1>5. ASSUME NEW t \in TransferIds, CompleteTransfer(t)
      PROVE  SameStore \/ Verifies(t)
  <2>1. CASE disk.partial[t] = incoming.content
    <3>1. /\ stored[t] = Nothing
          /\ stored' = [stored EXCEPT ![t] = [content |-> incoming.content, context |-> context]]
          /\ disk' = [partial |-> [disk.partial EXCEPT ![t] = Nothing],
                      stored |-> [disk.stored EXCEPT ![t] = disk.partial[t]]]
      BY <2>1, <1>5 DEF CompleteTransfer
    <3>2. disk'.stored = [disk.stored EXCEPT ![t] = incoming.content]
      BY <3>1, <2>1
    <3>3. DOMAIN disk' = DOMAIN disk
      BY <3>1 DEF VerifiedOnDisk
    <3> QED
      BY <3>1, <3>2, <3>3, Zenon DEF Verifies
  <2>2. CASE disk.partial[t] # incoming.content
    <3>1. disk' = [disk EXCEPT !.partial[t] = Nothing] /\ UNCHANGED stored
      BY <2>2, <1>5 DEF CompleteTransfer
    <3> QED
      BY <3>1 DEF SameStore, VerifiedOnDisk
  <2> QED
    BY <2>1, <2>2
<1>6. ASSUME NEW t \in TransferIds, CompleteFails(t) \/ CancelTransfer(t)
      PROVE  SameStore
  <2>1. CASE CompleteFails(t)
    BY <2>1 DEF CompleteFails, SameStore
  <2>2. CASE CancelTransfer(t)
    BY <2>2 DEF CancelTransfer, SameStore
  <2> QED
    BY <1>6, <2>1, <2>2
<1>7. ASSUME NEW c \in Commands, NEW payload \in Payloads, Receipt(c, payload)
      PROVE  SameStore
  <2>1. CASE UNCHANGED transfer
    BY <2>1 DEF transfer, SameStore
  <2>2. CASE End("replay") /\ UNCHANGED stored
    BY <2>2, EndKeepsStore
  <2> QED
    BY <2>1, <2>2, <1>7 DEF Receipt, Plain
<1> QED
  BY <1>1, <1>2, <1>3, <1>4, <1>5, <1>6, <1>7 DEF Handle

\* So for every step of the session.
LEMMA WireStores ==
  ASSUME VerifiedOnDisk, [WireNext]_wireVars
  PROVE  SameStore \/ \E t \in TransferIds : Verifies(t)
<1>1. CASE Message
  <2>1. PICK m \in Messages : \/ Violation(m.id, m.seq, m.same)
                              \/ Accept(m.id, m.seq, m.same) /\ Handle
    BY <1>1 DEF Message
  <2>2. CASE Violation(m.id, m.seq, m.same)
    BY <2>2, EndKeepsStore DEF Violation
  <2> QED
    BY <2>1, <2>2, HandleStores
<1>2. CASE Heartbeat
  <2>1. UNCHANGED stored /\ (UNCHANGED disk \/ End("silent"))
    BY <1>2 DEF Heartbeat
  <2> QED
    BY <2>1, EndKeepsStore DEF SameStore
<1>3. CASE LeaveSession
  BY <1>3, EndKeepsStore DEF LeaveSession
<1>4. CASE \/ \E id \in 1 .. guard.expected : Duplicate(id)
           \/ IssueTicket \/ MoveBinding
           \/ \E i \in DOMAIN tickets : Download(i) \/ ExpireTicket(i)
           \/ UNCHANGED wireVars
  BY <1>4 DEF Duplicate, IssueTicket, MoveBinding, Download, ExpireTicket, wireVars, transfer,
              SameStore
<1> QED
  BY <1>1, <1>2, <1>3, <1>4 DEF WireNext

\* The record and the file of a verified transfer agree, and both stay.
LEMMA WireStepStores ==
  ASSUME VerifiedOnDisk, [WireNext]_wireVars
  PROVE  /\ VerifiedOnDisk'
         /\ \A t \in TransferIds : stored[t] # Nothing =>
               stored'[t] = stored[t] /\ disk'.stored[t] = stored[t].content
<1>1. CASE SameStore
  BY <1>1 DEF SameStore, VerifiedOnDisk
<1>2. ASSUME NEW t \in TransferIds, Verifies(t)
      PROVE  /\ VerifiedOnDisk'
             /\ \A u \in TransferIds : stored[u] # Nothing =>
                   stored'[u] = stored[u] /\ disk'.stored[u] = stored[u].content
  <2>1. /\ \A u \in TransferIds \ {t} : stored'[u] = stored[u] /\ disk'.stored[u] = disk.stored[u]
        /\ stored'[t].content = disk'.stored[t]
        /\ DOMAIN stored' = DOMAIN stored /\ DOMAIN disk'.stored = DOMAIN disk.stored
        /\ stored[t] = Nothing
    BY <1>2 DEF Verifies, VerifiedOnDisk
  <2> QED
    BY <2>1, <1>2 DEF Verifies, VerifiedOnDisk
<1> QED
  BY <1>1, <1>2, WireStores

\* What was verified under an id is never replaced, neither its record nor its bytes
\* (TransferManager::complete, bridge.rs:2357).
THEOREM VerifiedStaysHolds == WireSpec => VerifiedStays
<1>1. WireInit => VerifiedOnDisk
  BY DEF WireInit, VerifiedOnDisk, NoFiles
<1>2. VerifiedOnDisk /\ [WireNext]_wireVars
        => [\A t \in TransferIds : stored[t] # Nothing =>
               stored'[t] = stored[t] /\ disk'.stored[t] = stored[t].content]_wireVars
  BY WireStepStores
<1>3. VerifiedOnDisk /\ [WireNext]_wireVars => VerifiedOnDisk'
  BY WireStepStores
<1> QED
  BY <1>1, <1>2, <1>3, PTL DEF WireSpec, VerifiedStays

-----------------------------------------------------------------------------
(***************************************************************************)
(* Orchestration: the binding, the desktop's gate and the workspace        *)
(***************************************************************************)

\* There is a workspace, and no change of it is under way.
Current == desktop.at \in {"idle", "waiting", "bound"} /\ workspace # None

\* The workspace is the binding's; a generation that waits is newer than the binding's.
DesktopInv ==
    /\ places \in Seq(Workspaces)
    /\ desktop.at \in {"idle", "waiting", "unbound", "swap", "bound"}
    /\ desktop.at # "idle" =>
          /\ desktop = [at |-> desktop.at, version |-> desktop.version, head |-> desktop.head]
          /\ desktop.version \in DOMAIN places
    /\ binding # None => Current /\ binding = [version |-> binding.version, head |-> binding.head]
    /\ Current => binding.version \in DOMAIN places /\ workspace = places[binding.version]
    /\ Current /\ desktop.at = "waiting" => binding.version < desktop.version

\* A generation is never taken back.
LEMMA SelectKeeps ==
  ASSUME DesktopInv, NEW w \in Workspaces, Select(w)
  PROVE  /\ DesktopInv' /\ (Current' <=> Current)
         /\ DOMAIN places \subseteq DOMAIN places'
         /\ \A v \in DOMAIN places : places'[v] = places[v] /\ v < desktop'.version
<1>1. /\ places' = Append(places, w) /\ places \in Seq(Workspaces)
      /\ UNCHANGED <<binding, workspace>>
      /\ desktop.at = "idle"
      /\ desktop' = [at |-> "waiting", version |-> Len(places) + 1, head |-> LedgerHead(w)]
  BY DEF Select, DesktopInv
<1>2. /\ places' \in Seq(Workspaces)
      /\ DOMAIN places = 1 .. Len(places) /\ Len(places) \in Nat
      /\ DOMAIN places' = 1 .. Len(places) + 1
      /\ \A v \in DOMAIN places : places'[v] = places[v]
  BY <1>1, AppendProperties
<1>3. /\ desktop'.at = "waiting" /\ desktop'.version = Len(places) + 1
      /\ desktop' = [at |-> desktop'.at, version |-> desktop'.version, head |-> desktop'.head]
  BY <1>1
<1>4. Current' <=> Current
  BY <1>1, <1>3 DEF Current
<1> QED
  BY <1>1, <1>2, <1>3, <1>4 DEF DesktopInv

\* The other steps of the desktop.
LEMMA DesktopKeeps ==
  ASSUME DesktopInv, Unbind \/ ClearAfterUnbind \/ Bind \/ ClearAfterBind
  PROVE  DesktopInv'
<1>1. CASE Unbind
  <2>1. desktop' = [desktop EXCEPT !.at = "unbound"] /\ binding' = None /\ UNCHANGED places
        /\ desktop.at # "idle"
    BY <1>1 DEF Unbind
  <2>2. /\ desktop'.at = "unbound" /\ desktop'.version = desktop.version
        /\ desktop' = [at |-> desktop'.at, version |-> desktop'.version, head |-> desktop'.head]
    BY <2>1 DEF DesktopInv
  <2> QED
    BY <2>1, <2>2 DEF DesktopInv, Current
<1>2. CASE ClearAfterUnbind
  <2>1. desktop' = [desktop EXCEPT !.at = "swap"] /\ UNCHANGED <<binding, places>>
        /\ desktop.at = "unbound"
    BY <1>2 DEF ClearAfterUnbind
  <2>2. /\ desktop'.at = "swap" /\ desktop'.version = desktop.version
        /\ desktop' = [at |-> desktop'.at, version |-> desktop'.version, head |-> desktop'.head]
    BY <2>1 DEF DesktopInv
  <2> QED
    BY <2>1, <2>2 DEF DesktopInv, Current
<1>3. CASE Bind
  <2>1. /\ desktop' = [desktop EXCEPT !.at = "bound"] /\ UNCHANGED places
        /\ binding' = [version |-> desktop.version, head |-> desktop.head]
        /\ workspace' = places[desktop.version]
        /\ desktop.at = "swap"
    BY <1>3 DEF Bind
  <2>2. /\ desktop'.at = "bound" /\ desktop'.version = desktop.version
        /\ desktop' = [at |-> desktop'.at, version |-> desktop'.version, head |-> desktop'.head]
    BY <2>1 DEF DesktopInv
  <2>3. desktop.version \in DOMAIN places /\ places[desktop.version] \in Workspaces
    BY <2>1 DEF DesktopInv
  <2>4. Current'
    BY <2>1, <2>2, <2>3, BridgeAssumption DEF Current
  <2>5. binding'.version = desktop.version
        /\ binding' = [version |-> binding'.version, head |-> binding'.head]
    BY <2>1
  <2> QED
    BY <2>1, <2>2, <2>3, <2>4, <2>5 DEF DesktopInv
<1>4. CASE ClearAfterBind
  BY <1>4 DEF ClearAfterBind, DesktopInv, Current, Idle
<1> QED
  BY <1>1, <1>2, <1>3, <1>4

\* A session only moves the head of the binding, and not its generation.
LEMMA HeadKeeps ==
  ASSUME DesktopInv, NEW s \in Sessions, MoveHead(s)
  PROVE  /\ DesktopInv' /\ UNCHANGED <<places, workspace, desktop>>
         /\ binding'.version = binding.version
<1>1. UNCHANGED <<places, workspace, desktop>>
  BY DEF MoveHead
<1>2. CASE binding = None
  BY <1>1, <1>2 DEF MoveHead, DesktopInv, Current
<1>3. CASE binding # None
  <2>1. binding' = [binding EXCEPT !.head = op[s].revision]
    BY <1>3 DEF MoveHead
  <2>2. /\ binding'.version = binding.version
        /\ binding' = [version |-> binding'.version, head |-> binding'.head]
    BY <1>3, <2>1 DEF DesktopInv
  <2> QED
    BY <1>1, <1>3, <2>2 DEF DesktopInv, Current
<1> QED
  BY <1>2, <1>3

\* Every step keeps the workspace the binding's.
LEMMA DesktopStepInv ==
  ASSUME DesktopInv, [Next]_vars
  PROVE  DesktopInv'
<1>1. CASE UNCHANGED shared
  BY <1>1 DEF shared, DesktopInv, Current
<1>2. ASSUME NEW s \in Sessions, SessionStep(s)
      PROVE  DesktopInv'
  <2>1. CASE MoveHead(s)
    BY <2>1, HeadKeeps
  <2>2. CASE ~MoveHead(s)
    <3>1. UNCHANGED shared
      BY <1>2, <2>2 DEF SessionStep, Connect, Disconnect, Drain, Hello, EnterHello, Offer,
            CompleteAgain, Capture, Cancel, Complete, Ingest, CommitCapture, FanOut, Send
    <3> QED
      BY <3>1, <1>1
  <2> QED
    BY <2>1, <2>2
<1>3. CASE DesktopStep
  BY <1>3, SelectKeeps, DesktopKeeps DEF DesktopStep
<1> QED
  BY <1>1, <1>2, <1>3 DEF Next, vars, shared

-----------------------------------------------------------------------------
(***************************************************************************)
(* Orchestration: who is told to apply a revision                          *)
(***************************************************************************)

Generations == Nat \ {0}
Push == [kind : {"apply"}, version : Generations] \cup [kind : {"changed"}]

QueueOk(s) ==
    /\ queue[s] \in Seq(Push)
    /\ \A i \in 1 .. Len(queue[s]) :
           queue[s][i].kind = "apply" => <<s, queue[s][i].version>> \in validated

\* What a session is doing with a generation: it read one, or sends to its listeners.
HelloOk(o) == o.at = "hello" /\ o.seen # None => o.seen.version \in Generations
SendOk(o) ==
    o.at = "send" =>
        /\ o = [at |-> "send", revision |-> o.revision, version |-> o.version, to |-> o.to]
        /\ o.version \in Generations
        /\ \A r \in o.to : <<r, o.version>> \in validated

ListenInv ==
    /\ DOMAIN op = Sessions /\ DOMAIN queue = Sessions
    /\ bound \in [Sessions -> Nat]
    /\ \A s \in Sessions : bound[s] # 0 => <<s, bound[s]>> \in validated
    /\ \A s \in Sessions : QueueOk(s) /\ HelloOk(op[s]) /\ SendOk(op[s])

\* A session starts its next step; the others are where they were.
LEMMA TurnTaken ==
  ASSUME DOMAIN op = Sessions, NEW s \in Sessions, NEW next, Turn(s, next)
  PROVE  /\ DOMAIN op' = Sessions /\ op'[s] = next
         /\ \A r \in Sessions \ {s} : op'[r] = op[r]
BY DEF Turn

\* A step that leaves the queues and the sessions' generations alone.
LEMMA QuietStep ==
  ASSUME ListenInv, NEW s \in Sessions, NEW next, Turn(s, next), HelloOk(next), SendOk(next),
         UNCHANGED <<bound, queue, validated>>
  PROVE  ListenInv'
<1>1. /\ DOMAIN op' = Sessions /\ op'[s] = next
      /\ \A r \in Sessions \ {s} : op'[r] = op[r]
  BY TurnTaken DEF ListenInv
<1>2. \A r \in Sessions : HelloOk(op'[r]) /\ SendOk(op'[r])
  BY <1>1 DEF ListenInv
<1>3. \A r \in Sessions : HelloOk(op[r])' /\ SendOk(op[r])'
  BY <1>2 DEF HelloOk, SendOk
<1> QED
  BY <1>1, <1>3 DEF ListenInv, QueueOk

\* A new push joins a queue whose session may be told so.
LEMMA PushedQueue ==
  ASSUME NEW s \in Sessions, QueueOk(s), NEW push \in Push,
         push.kind = "apply" => <<s, push.version>> \in validated,
         queue'[s] = Append(queue[s], push), validated \subseteq validated'
  PROVE  QueueOk(s)'
<1>1. queue[s] \in Seq(Push)
  BY DEF QueueOk
<1>2. /\ queue'[s] \in Seq(Push) /\ Len(queue'[s]) = Len(queue[s]) + 1
      /\ \A i \in 1 .. Len(queue[s]) : queue'[s][i] = queue[s][i]
      /\ queue'[s][Len(queue[s]) + 1] = push
      /\ Len(queue[s]) \in Nat
  BY <1>1, AppendProperties
<1>3. ASSUME NEW i \in 1 .. Len(queue'[s]), queue'[s][i].kind = "apply"
      PROVE  <<s, queue'[s][i].version>> \in validated'
  <2>1. CASE i \in 1 .. Len(queue[s])
    <3>1. queue'[s][i] = queue[s][i]
      BY <1>2, <2>1
    <3> QED
      BY <3>1, <2>1, <1>3 DEF QueueOk
  <2>2. CASE i = Len(queue[s]) + 1
    <3>1. queue'[s][i] = push
      BY <1>2, <2>2
    <3>2. push.kind = "apply"
      BY <3>1, <1>3
    <3>3. <<s, push.version>> \in validated'
      BY <3>2
    <3> QED
      BY <3>1, <3>3
  <2>3. i \in 1 .. Len(queue[s]) \/ i = Len(queue[s]) + 1
    BY <1>2
  <2> QED
    BY <2>1, <2>2, <2>3
<1> QED
  BY <1>2, <1>3 DEF QueueOk

\* fanout_accepted_revision copies the sessions bound to the generation it read.
LEMMA FanOutListens ==
  ASSUME DesktopInv, ListenInv, NEW s \in Sessions, FanOut(s)
  PROVE  ListenInv'
<1>1. UNCHANGED <<bound, queue, validated>>
  BY DEF FanOut, directory
<1>2. CASE binding = None
  BY <1>1, <1>2, QuietStep DEF FanOut, Idle, HelloOk, SendOk
<1>3. CASE binding # None
  <2> DEFINE next == [at |-> "send", revision |-> op[s].revision, version |-> binding.version,
                      to |-> Listeners(s, binding)]
  <2>1. Turn(s, next)
    BY <1>3 DEF FanOut
  <2>2. binding.version \in Generations
    BY <1>3 DEF DesktopInv, Generations
  <2>3. \A r \in Listeners(s, binding) : <<r, binding.version>> \in validated
    BY <2>2 DEF Listeners, ListenInv, Generations
  <2>4. HelloOk(next) /\ SendOk(next)
    BY <2>2, <2>3 DEF HelloOk, SendOk
  <2> HIDE DEF next
  <2> QED
    BY <1>1, <2>1, <2>4, QuietStep
<1> QED
  BY <1>2, <1>3

\* One listener is sent its push.
LEMMA SendListens ==
  ASSUME ListenInv, NEW s \in Sessions, NEW r \in Sessions, Send(s, r)
  PROVE  ListenInv'
<1> DEFINE next == [op[s] EXCEPT !.to = @ \ {r}]
           push == [kind |-> "apply", version |-> op[s].version]
<1>1. /\ op[s].at = "send" /\ r \in op[s].to /\ Turn(s, next) /\ UNCHANGED <<bound, validated>>
      /\ queue' = queue \/ queue' = [queue EXCEPT ![r] = Append(queue[r], push)]
  BY DEF Send
<1>2. /\ op[s] = [at |-> "send", revision |-> op[s].revision, version |-> op[s].version, to |-> op[s].to]
      /\ op[s].version \in Generations /\ \A q \in op[s].to : <<q, op[s].version>> \in validated
  BY <1>1 DEF ListenInv, SendOk
<1>3. next = [at |-> "send", revision |-> op[s].revision, version |-> op[s].version, to |-> op[s].to \ {r}]
  BY <1>2
<1>4. HelloOk(next) /\ SendOk(next)
  BY <1>2, <1>3 DEF HelloOk, SendOk
<1>5. push \in Push /\ push.kind = "apply" /\ push.version = op[s].version
  BY <1>2 DEF Push
<1> HIDE DEF next, push
<1>6. DOMAIN queue' = Sessions /\ \A q \in Sessions : QueueOk(q)'
  <2>1. CASE queue' = queue
    BY <1>1, <2>1 DEF ListenInv, QueueOk
  <2>2. CASE queue' = [queue EXCEPT ![r] = Append(queue[r], push)]
    <3>1. queue'[r] = Append(queue[r], push) /\ \A q \in Sessions \ {r} : queue'[q] = queue[q]
      BY <2>2 DEF ListenInv
    <3>2. QueueOk(r)'
      BY <3>1, <1>1, <1>2, <1>5, PushedQueue DEF ListenInv
    <3>3. \A q \in Sessions \ {r} : QueueOk(q)'
      BY <3>1, <1>1 DEF ListenInv, QueueOk
    <3> QED
      BY <2>2, <3>2, <3>3 DEF ListenInv
  <2> QED
    BY <1>1, <2>1, <2>2
<1>7. /\ DOMAIN op' = Sessions /\ op'[s] = next
      /\ \A q \in Sessions \ {s} : op'[q] = op[q]
  BY <1>1, TurnTaken DEF ListenInv
<1>8. \A q \in Sessions : HelloOk(op[q])' /\ SendOk(op[q])'
  BY <1>1, <1>4, <1>7 DEF ListenInv, HelloOk, SendOk
<1> QED
  BY <1>1, <1>6, <1>7, <1>8 DEF ListenInv

\* session.hello, in its two steps.
LEMMA HelloListens ==
  ASSUME DesktopInv, ListenInv, NEW s \in Sessions,
         EnterHello(s) \/ \E p \in Projects : Hello(s, p)
  PROVE  ListenInv'
<1>1. ASSUME NEW p \in Projects, Hello(s, p)
      PROVE  ListenInv'
  <2> DEFINE next == [at |-> "hello", project |-> p, seen |-> binding]
  <2>1. Turn(s, next) /\ UNCHANGED <<bound, queue, validated>>
    BY <1>1 DEF Hello, directory
  <2>2. HelloOk(next) /\ SendOk(next)
    BY DEF HelloOk, SendOk, DesktopInv, Generations
  <2> HIDE DEF next
  <2> QED
    BY <2>1, <2>2, QuietStep
<1>2. CASE EnterHello(s)
  <2>1. \E n \in Nat : /\ bound' = [bound EXCEPT ![s] = n]
                       /\ validated \subseteq validated'
                       /\ n # 0 => <<s, n>> \in validated'
    <3> DEFINE b == op[s].seen
               compatible == b # None /\ Matches(op[s].project, b)
    <3>1. bound' = [bound EXCEPT ![s] = IF compatible THEN b.version ELSE 0]
      BY <1>2 DEF EnterHello
    <3>2. validated' = IF compatible THEN validated \cup {<<s, b.version>>} ELSE validated
      BY <1>2 DEF EnterHello
    <3>3. compatible => b.version \in Nat
      BY <1>2 DEF EnterHello, ListenInv, HelloOk, Generations
    <3> HIDE DEF b, compatible
    <3>4. CASE compatible
      BY <3>1, <3>2, <3>3, <3>4
    <3>5. CASE ~compatible
      BY <3>1, <3>2, <3>5
    <3> QED
      BY <3>4, <3>5
  <2>2. Turn(s, Idle) /\ UNCHANGED queue
    BY <1>2 DEF EnterHello
  <2>3. /\ DOMAIN op' = Sessions /\ op'[s] = Idle
        /\ \A q \in Sessions \ {s} : op'[q] = op[q]
    BY <2>2, TurnTaken DEF ListenInv
  <2>4. \A q \in Sessions : HelloOk(op[q])' /\ SendOk(op[q])'
    BY <2>1, <2>3 DEF ListenInv, HelloOk, SendOk, Idle
  <2>5. \A q \in Sessions : QueueOk(q)'
    BY <2>1, <2>2 DEF ListenInv, QueueOk
  <2> QED
    BY <2>1, <2>2, <2>3, <2>4, <2>5 DEF ListenInv
<1> QED
  BY <1>1, <1>2

\* A queue is read or lost, and a session that leaves is bound to nothing.
LEMMA DrainListens ==
  ASSUME ListenInv, NEW s \in Sessions, Drain(s) \/ Disconnect(s)
  PROVE  ListenInv'
<1>1. /\ \/ queue' = [queue EXCEPT ![s] = Tail(queue[s])] /\ queue[s] # <<>>
         \/ queue' = [queue EXCEPT ![s] = <<>>]
      /\ bound' = bound \/ bound' = [bound EXCEPT ![s] = 0]
      /\ op' = op \/ Turn(s, [at |-> "gone"])
      /\ UNCHANGED validated
  BY DEF Drain, Disconnect
<1>2. queue[s] \in Seq(Push)
  BY DEF ListenInv, QueueOk
<1>3. /\ queue'[s] \in Seq(Push) /\ Len(queue'[s]) \in Nat
      /\ \A i \in 1 .. Len(queue'[s]) : \E j \in 1 .. Len(queue[s]) : queue'[s][i] = queue[s][j]
      /\ \A r \in Sessions \ {s} : queue'[r] = queue[r]
      /\ DOMAIN queue' = Sessions
  <2>1. CASE queue' = [queue EXCEPT ![s] = Tail(queue[s])] /\ queue[s] # <<>>
    <3>1. queue'[s] = Tail(queue[s])
      BY <2>1 DEF ListenInv
    <3>2. /\ Tail(queue[s]) \in Seq(Push) /\ Len(Tail(queue[s])) = Len(queue[s]) - 1
          /\ Len(queue[s]) \in Nat
          /\ \A i \in 1 .. Len(Tail(queue[s])) : Tail(queue[s])[i] = queue[s][i + 1]
      BY <2>1, <1>2, HeadTailProperties, LenProperties
    <3> QED
      BY <3>1, <3>2, <2>1 DEF ListenInv
  <2>2. CASE queue' = [queue EXCEPT ![s] = <<>>]
    BY <2>2 DEF ListenInv
  <2> QED
    BY <1>1, <2>1, <2>2
<1>4. \A r \in Sessions : QueueOk(r)'
  <2>1. \A r \in Sessions \ {s} : QueueOk(r)'
    BY <1>1, <1>3 DEF ListenInv, QueueOk
  <2>2. ASSUME NEW i \in 1 .. Len(queue'[s]), queue'[s][i].kind = "apply"
        PROVE  <<s, queue'[s][i].version>> \in validated'
    <3>1. PICK j \in 1 .. Len(queue[s]) : queue'[s][i] = queue[s][j]
      BY <1>3
    <3>2. QueueOk(s)
      BY DEF ListenInv
    <3>3. <<s, queue[s][j].version>> \in validated
      BY <3>1, <3>2, <2>2 DEF QueueOk
    <3> QED
      BY <3>1, <3>3, <1>1
  <2>3. QueueOk(s)'
    BY <1>3, <2>2 DEF QueueOk
  <2> QED
    BY <2>1, <2>3
<1>5. DOMAIN op' = Sessions /\ \A r \in Sessions : op'[r] = op[r] \/ op'[r].at = "gone"
  BY <1>1, TurnTaken DEF ListenInv
<1>6. \A r \in Sessions : HelloOk(op[r])' /\ SendOk(op[r])'
  BY <1>1, <1>5 DEF ListenInv, HelloOk, SendOk
<1> QED
  BY <1>1, <1>3, <1>4, <1>5, <1>6 DEF ListenInv

\* The desktop only takes generations away and tells so.
LEMMA DesktopListens ==
  ASSUME ListenInv, DesktopStep
  PROVE  ListenInv'
<1>1. CASE UNCHANGED <<bound, queue, op, validated>>
  BY <1>1 DEF ListenInv, QueueOk, HelloOk, SendOk
<1>2. CASE ClearSessions /\ UNCHANGED <<op, validated>>
  <2>1. bound' = [s \in Sessions |-> 0] /\ DOMAIN queue' = Sessions
    BY <1>2 DEF ClearSessions
  <2>2. \A s \in Sessions : queue'[s] = queue[s] \/ queue'[s] = Append(queue[s], [kind |-> "changed"])
    BY <1>2 DEF ClearSessions
  <2>3. [kind |-> "changed"] \in Push /\ [kind |-> "changed"].kind # "apply"
    BY DEF Push
  <2>4. \A s \in Sessions : QueueOk(s)'
    <3> SUFFICES ASSUME NEW s \in Sessions PROVE QueueOk(s)'
      OBVIOUS
    <3>1. QueueOk(s)
      BY DEF ListenInv
    <3>2. CASE queue'[s] = queue[s]
      BY <3>1, <3>2, <1>2 DEF QueueOk
    <3>3. CASE queue'[s] = Append(queue[s], [kind |-> "changed"])
      BY <3>1, <3>3, <1>2, <2>3, PushedQueue
    <3> QED
      BY <2>2, <3>2, <3>3
  <2> QED
    BY <1>2, <2>1, <2>4 DEF ListenInv, HelloOk, SendOk
<1> QED
  BY <1>1, <1>2 DEF DesktopStep, Select, Unbind, ClearAfterUnbind, Bind, ClearAfterBind, directory

\* Every step of the bridge and the desktop.
LEMMA ListenStepInv ==
  ASSUME DesktopInv, ListenInv, [Next]_vars
  PROVE  ListenInv'
<1>1. CASE UNCHANGED vars
  BY <1>1 DEF vars, directory, ListenInv, QueueOk, HelloOk, SendOk
<1>2. ASSUME NEW s \in Sessions, SessionStep(s)
      PROVE  ListenInv'
  <2>1. CASE Connect(s) \/ Ingest(s) \/ MoveHead(s)
    <3>1. Turn(s, Idle) /\ UNCHANGED <<bound, queue, validated>>
      BY <2>1 DEF Connect, Ingest, MoveHead, directory
    <3> QED
      BY <3>1, QuietStep DEF Idle, HelloOk, SendOk
  <2>2. ASSUME NEW t \in Transfers, CompleteAgain(s, t) \/ Capture(s, t)
        PROVE  ListenInv'
    <3>1. \E a \in {"ingest", "capture"} : Turn(s, [at |-> a, transfer |-> t])
      BY <2>2 DEF CompleteAgain, Capture
    <3>2. UNCHANGED <<bound, queue, validated>>
      BY <2>2 DEF CompleteAgain, Capture, directory
    <3> QED
      BY <3>1, <3>2, QuietStep DEF HelloOk, SendOk
  <2>3. CASE Complete(s)
    <3>1. Turn(s, [at |-> "ingest", transfer |-> upload[s].id]) /\ UNCHANGED <<bound, queue, validated>>
      BY <2>3 DEF Complete, directory
    <3> QED
      BY <3>1, QuietStep DEF HelloOk, SendOk
  <2>4. CASE CommitCapture(s)
    <3>1. /\ Turn(s, Idle) \/ \E i : Turn(s, [at |-> "accepted", revision |-> i])
          /\ UNCHANGED <<bound, queue, validated>>
      BY <2>4 DEF CommitCapture, directory
    <3> QED
      BY <3>1, QuietStep DEF Idle, HelloOk, SendOk
  <2>5. CASE Cancel(s) \/ \E t \in Transfers : Offer(s, t)
    BY <2>5 DEF Cancel, Offer, directory, ListenInv, QueueOk, HelloOk, SendOk
  <2> QED
    BY <1>2, <2>1, <2>2, <2>3, <2>4, <2>5, FanOutListens, SendListens, HelloListens,
       DrainListens DEF SessionStep
<1> QED
  BY <1>1, <1>2, DesktopListens DEF Next

\* The bridge starts with no workspace and no session.
LEMMA BridgeInitInv == Init => DesktopInv /\ ListenInv
<1> SUFFICES ASSUME Init PROVE DesktopInv /\ ListenInv
  OBVIOUS
<1>1. DesktopInv
  BY DEF Init, DesktopInv, Current, Idle
<1>2. \A s \in Sessions : queue[s] = <<>> /\ op[s] = [at |-> "new"] /\ bound[s] = 0
  BY DEF Init
<1>3. \A s \in Sessions : QueueOk(s) /\ HelloOk(op[s]) /\ SendOk(op[s])
  <2> SUFFICES ASSUME NEW s \in Sessions PROVE QueueOk(s) /\ HelloOk(op[s]) /\ SendOk(op[s])
    OBVIOUS
  <2>1. queue[s] = <<>> /\ op[s].at = "new"
    BY <1>2
  <2>2. QueueOk(s)
    BY <2>1 DEF QueueOk
  <2> QED
    BY <2>1, <2>2 DEF HelloOk, SendOk
<1>4. ListenInv
  BY <1>3 DEF Init, ListenInv
<1> QED
  BY <1>1, <1>4

\* A session is told to apply a revision only in a generation it has said a matching hello
\* in, however hellos, changes of workspace and fan-outs interleave (bridge.rs:788).
THEOREM AppliesAreForBoundSessionsHolds == Spec => []AppliesAreForBoundSessions
<1>1. ListenInv => AppliesAreForBoundSessions
  <2> SUFFICES ASSUME ListenInv, NEW s \in Sessions, NEW i \in 1 .. QueueSize,
                      i <= Len(queue[s]), queue[s][i].kind = "apply"
               PROVE  <<s, queue[s][i].version>> \in validated
    BY DEF AppliesAreForBoundSessions
  <2>1. QueueOk(s)
    BY DEF ListenInv
  <2>2. Len(queue[s]) \in Nat
    BY <2>1 DEF QueueOk
  <2>3. i \in 1 .. Len(queue[s])
    BY <2>2, BridgeAssumption
  <2> QED
    BY <2>1, <2>3 DEF QueueOk
<1>2. DesktopInv /\ ListenInv /\ [Next]_vars => DesktopInv' /\ ListenInv'
  BY DesktopStepInv, ListenStepInv
<1> QED
  BY <1>1, <1>2, BridgeInitInv, PTL DEF Spec

-----------------------------------------------------------------------------
(***************************************************************************)
(* Orchestration: where a capture lands                                    *)
(***************************************************************************)

VerifiedIn(s, t) == verified[s][t].version
Offered(s, t) == verified[s][t] # None

\* A verified transfer has the generation it was offered in, which is not in the future.
VerifiedOk ==
    /\ DOMAIN verified = Sessions /\ \A s \in Sessions : DOMAIN verified[s] = Transfers
    /\ \A s \in Sessions, t \in Transfers : Offered(s, t) =>
          /\ VerifiedIn(s, t) \in DOMAIN places
          /\ Current => VerifiedIn(s, t) <= binding.version
          /\ desktop.at \in {"waiting", "unbound", "swap"} => VerifiedIn(s, t) < desktop.version

\* An upload is of a transfer that is not verified yet.
UploadOk ==
    /\ DOMAIN upload = Sessions
    /\ \A s \in Sessions : upload[s] # None =>
          upload[s].id \in Transfers /\ ~Offered(s, upload[s].id)

\* What is in another ledger than the one it was offered in got there in a later
\* generation: no session can capture it in its own any more.
IngestedOk ==
    \A s \in Sessions, t \in Transfers, w \in Workspaces : <<s, t, w>> \in ingested =>
        /\ Offered(s, t)
        /\ w # places[VerifiedIn(s, t)] /\ Current => VerifiedIn(s, t) < binding.version

TurnOk(s) ==
    /\ op[s].at = "ingest" => op[s].transfer \in Transfers /\ Offered(s, op[s].transfer)
    /\ op[s].at = "capture" =>
          LET t == op[s].transfer
          IN  /\ t \in Transfers /\ Offered(s, t)
              /\ \A w \in Workspaces : <<s, t, w>> \in ingested => w = places[VerifiedIn(s, t)]

Revision == [session : Sessions, transfer : Transfers, workspace : Workspaces]
RevisionsOk ==
    /\ revisions \in Seq(Revision)
    /\ \A i \in DOMAIN revisions :
          /\ Offered(revisions[i].session, revisions[i].transfer)
          /\ revisions[i].workspace = places[VerifiedIn(revisions[i].session, revisions[i].transfer)]

CaptureInv ==
    /\ DOMAIN op = Sessions
    /\ VerifiedOk /\ UploadOk /\ IngestedOk /\ RevisionsOk
    /\ \A s \in Sessions : TurnOk(s)
    /\ ingested \subseteq Sessions \X Transfers \X Workspaces

\* A step that leaves the transfers and the ledgers alone and takes no generation on.
LEMMA TransfersAlone ==
  ASSUME CaptureInv, NEW s \in Sessions, NEW next, op' = op \/ Turn(s, next),
         next.at \notin {"ingest", "capture"},
         UNCHANGED <<places, workspace, desktop, verified, ledgers>>, binding'.version = binding.version,
         upload' = upload \/ upload' = [upload EXCEPT ![s] = None]
  PROVE  CaptureInv'
<1>1. DOMAIN op' = Sessions /\ \A r \in Sessions : op'[r] = op[r] \/ op'[r] = next
  BY TurnTaken DEF CaptureInv
<1>2. Current' <=> Current
  BY DEF Current
<1>3. \A r \in Sessions : TurnOk(r)'
  BY <1>1 DEF CaptureInv, TurnOk, Offered, VerifiedIn, ledgers
<1>4. VerifiedOk' /\ IngestedOk' /\ RevisionsOk'
  BY <1>2 DEF CaptureInv, VerifiedOk, IngestedOk, RevisionsOk, Offered, VerifiedIn, ledgers
<1>5. UploadOk'
  BY DEF CaptureInv, UploadOk, Offered
<1> QED
  BY <1>1, <1>3, <1>4, <1>5 DEF CaptureInv, ledgers

\* A transfer is offered that was not verified.
LEMMA OfferKeeps ==
  ASSUME CaptureInv, NEW s \in Sessions, NEW t \in Transfers, Offer(s, t)
  PROVE  CaptureInv'
<1>1. /\ UNCHANGED <<shared, verified, op, ledgers>> /\ verified[s][t] = None
      /\ upload' = [upload EXCEPT ![s] = [id |-> t, binding |-> binding]]
  BY DEF Offer
<1>2. UploadOk'
  BY <1>1 DEF CaptureInv, UploadOk, Offered
<1> QED
  BY <1>1, <1>2 DEF CaptureInv, shared, ledgers, Current, VerifiedOk, IngestedOk, RevisionsOk,
                    TurnOk, Offered, VerifiedIn

\* transfer.complete: what it verifies was verified, ingested and captured nowhere.
LEMMA CompleteKeeps ==
  ASSUME DesktopInv, CaptureInv, NEW s \in Sessions, Complete(s)
  PROVE  CaptureInv'
<1> DEFINE u == upload[s].id
<1>1. /\ UNCHANGED <<shared, ledgers>> /\ upload[s] # None
      /\ binding # None
      /\ verified' = [verified EXCEPT ![s][u] = binding]
      /\ upload' = [upload EXCEPT ![s] = None]
      /\ Turn(s, [at |-> "ingest", transfer |-> u])
  BY DEF Complete, BoundContext
<1>2. u \in Transfers /\ verified[s][u] = None
  BY <1>1 DEF CaptureInv, UploadOk, Offered
<1> HIDE DEF u
<1>3. /\ DOMAIN verified' = Sessions /\ \A r \in Sessions : DOMAIN verified'[r] = Transfers
      /\ verified'[s][u] = binding
      /\ \A r \in Sessions, t \in Transfers : verified[r][t] # None => verified'[r][t] = verified[r][t]
      /\ \A r \in Sessions, t \in Transfers : <<r, t>> # <<s, u>> => verified'[r][t] = verified[r][t]
  BY <1>1, <1>2 DEF CaptureInv, VerifiedOk
<1>4. /\ binding.version \in DOMAIN places /\ Current /\ desktop.at \notin {"unbound", "swap"}
      /\ desktop.at = "waiting" => binding.version < desktop.version
  BY <1>1 DEF DesktopInv, Current
<1>5. DOMAIN op' = Sessions /\ op'[s] = [at |-> "ingest", transfer |-> u]
      /\ \A r \in Sessions \ {s} : op'[r] = op[r]
  BY <1>1, TurnTaken DEF CaptureInv
<1>6. VerifiedOk'
  <2>1. binding.version <= binding.version
    BY <1>4 DEF DesktopInv
  <2>2. ASSUME NEW r \in Sessions, NEW t \in Transfers, verified'[r][t] # None
        PROVE  /\ verified'[r][t].version \in DOMAIN places
               /\ Current => verified'[r][t].version <= binding.version
               /\ desktop.at \in {"waiting", "unbound", "swap"} => verified'[r][t].version < desktop.version
    <3>1. CASE <<r, t>> = <<s, u>>
      <4>1. verified'[r][t] = binding
        BY <1>3, <3>1
      <4> QED
        BY <4>1, <2>1, <1>4
    <3>2. CASE <<r, t>> # <<s, u>>
      <4>1. verified'[r][t] = verified[r][t]
        BY <1>3, <3>2
      <4> QED
        BY <4>1, <2>2 DEF CaptureInv, VerifiedOk, Offered, VerifiedIn
    <3> QED
      BY <3>1, <3>2
  <2> QED
    BY <1>1, <1>3, <2>2 DEF VerifiedOk, Offered, VerifiedIn, shared, Current
<1>7. UploadOk'
  BY <1>1, <1>3 DEF CaptureInv, UploadOk, Offered
<1>8. IngestedOk' /\ RevisionsOk'
  BY <1>1, <1>2, <1>3 DEF CaptureInv, IngestedOk, RevisionsOk, Revision, Offered, VerifiedIn, shared,
                          ledgers, Current
<1>9. \A r \in Sessions : TurnOk(r)'
  <2>1. TurnOk(s)'
    BY <1>1, <1>2, <1>3, <1>5 DEF TurnOk, Offered
  <2>2. \A r \in Sessions \ {s} : TurnOk(r)'
    BY <1>1, <1>3, <1>5 DEF CaptureInv, TurnOk, Offered, VerifiedIn, shared, ledgers
  <2> QED
    BY <2>1, <2>2
<1> QED
  BY <1>1, <1>5, <1>6, <1>7, <1>8, <1>9 DEF CaptureInv, ledgers

\* A capture or a repeated completion starts with a transfer of the current generation.
LEMMA StartKeeps ==
  ASSUME DesktopInv, CaptureInv, NEW s \in Sessions, NEW t \in Transfers,
         CompleteAgain(s, t) \/ Capture(s, t)
  PROVE  CaptureInv'
<1>1. /\ UNCHANGED <<shared, transferVars, ledgers>>
      /\ binding # None /\ verified[s][t] # None /\ verified[s][t] = binding
      /\ \E a \in {"ingest", "capture"} : Turn(s, [at |-> a, transfer |-> t])
  BY DEF CompleteAgain, Capture, BoundContext
<1>2. DOMAIN op' = Sessions /\ op'[s].transfer = t /\ \A r \in Sessions \ {s} : op'[r] = op[r]
  BY <1>1, TurnTaken DEF CaptureInv
<1>3. Current /\ VerifiedIn(s, t) = binding.version /\ ~(binding.version < binding.version)
  BY <1>1 DEF DesktopInv, VerifiedIn
<1>4. \A w \in Workspaces : <<s, t, w>> \in ingested => w = places[VerifiedIn(s, t)]
  BY <1>3 DEF CaptureInv, IngestedOk
<1>5. TurnOk(s)'
  BY <1>1, <1>2, <1>4 DEF TurnOk, Offered, VerifiedIn, shared, transferVars, ledgers
<1>6. \A r \in Sessions \ {s} : TurnOk(r)'
  BY <1>1, <1>2 DEF CaptureInv, TurnOk, Offered, VerifiedIn, shared, transferVars, ledgers
<1> QED
  BY <1>1, <1>2, <1>5, <1>6 DEF CaptureInv, shared, transferVars, ledgers, Current, VerifiedOk,
            UploadOk, IngestedOk, RevisionsOk, Offered, VerifiedIn

\* transfer_verified: another ledger than the offer's is one of a later generation.
LEMMA IngestKeeps ==
  ASSUME DesktopInv, CaptureInv, NEW s \in Sessions, Ingest(s)
  PROVE  CaptureInv'
<1> DEFINE t == op[s].transfer
<1>1. /\ UNCHANGED <<shared, transferVars, revisions>> /\ Turn(s, Idle) /\ op[s].at = "ingest" /\ GateFree
      /\ \/ ingested' = ingested
         \/ workspace # None /\ ingested' = ingested \cup {<<s, t, workspace>>}
  BY DEF Ingest
<1>2. t \in Transfers /\ Offered(s, t)
  BY <1>1 DEF CaptureInv, TurnOk
<1>3. DOMAIN op' = Sessions /\ op'[s] = Idle /\ \A r \in Sessions \ {s} : op'[r] = op[r]
  BY <1>1, TurnTaken DEF CaptureInv
<1> HIDE DEF t
<1>4. workspace # None =>
          /\ workspace = places[binding.version] /\ workspace \in Workspaces
          /\ workspace # places[VerifiedIn(s, t)] => VerifiedIn(s, t) < binding.version
  <2> SUFFICES ASSUME workspace # None
               PROVE  /\ workspace = places[binding.version] /\ workspace \in Workspaces
                      /\ workspace # places[VerifiedIn(s, t)] => VerifiedIn(s, t) < binding.version
    OBVIOUS
  <2>1. Current
    BY <1>1 DEF Current, GateFree
  <2>2. /\ binding.version \in DOMAIN places /\ workspace = places[binding.version]
        /\ places \in Seq(Workspaces)
    BY <2>1 DEF DesktopInv
  <2>3. VerifiedIn(s, t) \in DOMAIN places /\ VerifiedIn(s, t) <= binding.version
    BY <1>2, <2>1 DEF CaptureInv, VerifiedOk
  <2> QED
    BY <2>2, <2>3
<1>5. \A x \in ingested' \ ingested : x = <<s, t, workspace>> /\ workspace # None
  BY <1>1
<1>6. IngestedOk'
  <2> SUFFICES ASSUME NEW r \in Sessions, NEW v \in Transfers, NEW w \in Workspaces,
                      <<r, v, w>> \in ingested'
               PROVE  Offered(r, v) /\ (w # places[VerifiedIn(r, v)] /\ Current
                                           => VerifiedIn(r, v) < binding.version)
    BY <1>1 DEF IngestedOk, Offered, VerifiedIn, shared, transferVars, Current
  <2>1. CASE <<r, v, w>> \in ingested
    BY <2>1 DEF CaptureInv, IngestedOk
  <2>2. CASE <<r, v, w>> \notin ingested
    BY <2>2, <1>2, <1>4, <1>5
  <2> QED
    BY <2>1, <2>2
<1>7. ingested' \subseteq Sessions \X Transfers \X Workspaces
  BY <1>1, <1>2, <1>4 DEF CaptureInv
<1>8. \A r \in Sessions : TurnOk(r)'
  <2>1. TurnOk(s)'
    BY <1>3 DEF TurnOk, Idle
  <2>2. ASSUME NEW r \in Sessions \ {s} PROVE TurnOk(r)'
    <3>1. \A v, w : <<r, v, w>> \in ingested' => <<r, v, w>> \in ingested
      BY <1>5
    <3> QED
      BY <3>1, <1>1, <1>3 DEF CaptureInv, TurnOk, Offered, VerifiedIn, shared, transferVars
  <2> QED
    BY <2>1, <2>2
<1> QED
  BY <1>1, <1>3, <1>6, <1>7, <1>8 DEF CaptureInv, shared, transferVars, Current, VerifiedOk, UploadOk,
            RevisionsOk, Offered, VerifiedIn

\* capture_proposal: the ledger has the transfer only if it was offered there.
LEMMA CommitKeeps ==
  ASSUME CaptureInv, NEW s \in Sessions, CommitCapture(s)
  PROVE  CaptureInv'
<1> DEFINE t == op[s].transfer
           this == [session |-> s, transfer |-> t, workspace |-> workspace]
<1>1. /\ UNCHANGED <<shared, transferVars, ingested>> /\ op[s].at = "capture"
      /\ \/ UNCHANGED revisions
         \/ <<s, t, workspace>> \in ingested /\ revisions' = Append(revisions, this)
      /\ Turn(s, Idle) \/ \E i : Turn(s, [at |-> "accepted", revision |-> i])
  BY DEF CommitCapture
<1>2. DOMAIN op' = Sessions /\ op'[s].at \in {"idle", "accepted"}
      /\ \A r \in Sessions \ {s} : op'[r] = op[r]
  <2>1. CASE Turn(s, Idle)
    BY <2>1, TurnTaken DEF CaptureInv, Idle
  <2>2. ASSUME NEW i, Turn(s, [at |-> "accepted", revision |-> i])
        PROVE  DOMAIN op' = Sessions /\ op'[s].at = "accepted"
               /\ \A r \in Sessions \ {s} : op'[r] = op[r]
    BY <2>2, TurnTaken DEF CaptureInv
  <2> QED
    BY <1>1, <2>1, <2>2
<1>3. \A r \in Sessions : TurnOk(r)'
  BY <1>1, <1>2 DEF CaptureInv, TurnOk, Offered, VerifiedIn, shared, transferVars
<1>4. RevisionsOk'
  <2>1. CASE UNCHANGED revisions
    BY <1>1, <2>1 DEF CaptureInv, RevisionsOk, Offered, VerifiedIn, shared, transferVars
  <2>2. CASE <<s, t, workspace>> \in ingested /\ revisions' = Append(revisions, this)
    <3>1. t \in Transfers /\ workspace \in Workspaces
      BY <2>2 DEF CaptureInv
    <3>2. Offered(s, t) /\ workspace = places[VerifiedIn(s, t)]
      BY <1>1, <2>2, <3>1 DEF CaptureInv, TurnOk
    <3>3. this \in Revision /\ this.session = s /\ this.transfer = t /\ this.workspace = workspace
      BY <3>1 DEF Revision
    <3> HIDE DEF this, t
    <3>4. /\ revisions' \in Seq(Revision)
          /\ DOMAIN revisions' = DOMAIN revisions \cup {Len(revisions) + 1}
          /\ \A i \in DOMAIN revisions : revisions'[i] = revisions[i]
          /\ revisions'[Len(revisions) + 1] = this
      <4>1. revisions \in Seq(Revision)
        BY DEF CaptureInv, RevisionsOk
      <4> QED
        BY <4>1, <2>2, <3>3, AppendProperties
    <3> QED
      BY <1>1, <3>2, <3>3, <3>4 DEF CaptureInv, RevisionsOk, Offered, VerifiedIn, shared, transferVars
  <2> QED
    BY <1>1, <2>1, <2>2
<1> QED
  BY <1>1, <1>2, <1>3, <1>4 DEF CaptureInv, shared, transferVars, Current, VerifiedOk, UploadOk,
            IngestedOk, Offered, VerifiedIn

\* The desktop's steps: a new generation is newer than what was verified.
LEMMA DesktopCaptures ==
  ASSUME DesktopInv, CaptureInv, DesktopStep
  PROVE  CaptureInv'
<1>1. UNCHANGED <<transferVars, ledgers, op>>
  BY DEF DesktopStep, Select, Unbind, ClearAfterUnbind, Bind, ClearAfterBind
<1>2. /\ DOMAIN places \subseteq DOMAIN places'
      /\ \A v \in DOMAIN places : places'[v] = places[v]
  BY SelectKeeps DEF DesktopStep, Unbind, ClearAfterUnbind, Bind, ClearAfterBind
<1>3. ASSUME NEW v \in DOMAIN places,
             Current => v <= binding.version,
             desktop.at \in {"waiting", "unbound", "swap"} => v < desktop.version
      PROVE  /\ Current' => v <= binding'.version
             /\ desktop'.at \in {"waiting", "unbound", "swap"} => v < desktop'.version
  <2>1. ASSUME NEW w \in Workspaces, Select(w)
        PROVE  /\ Current' => v <= binding'.version
               /\ desktop'.at \in {"waiting", "unbound", "swap"} => v < desktop'.version
    BY <2>1, <1>3, SelectKeeps DEF Select
  <2>2. CASE Unbind
    BY <2>2, <1>3 DEF Unbind, DesktopInv, Current
  <2>3. CASE ClearAfterUnbind
    BY <2>3, <1>3 DEF ClearAfterUnbind, DesktopInv, Current
  <2>4. CASE Bind
    BY <2>4, <1>3 DEF Bind, DesktopInv
  <2>5. CASE ClearAfterBind
    BY <2>5, <1>3 DEF ClearAfterBind, DesktopInv, Current, Idle
  <2> QED
    BY <2>1, <2>2, <2>3, <2>4, <2>5 DEF DesktopStep
<1>4. ASSUME NEW v \in DOMAIN places,
             Current => v < binding.version,
             desktop.at \in {"waiting", "unbound", "swap"} => v < desktop.version
      PROVE  Current' => v < binding'.version
  <2>1. ASSUME NEW w \in Workspaces, Select(w)
        PROVE  Current' => v < binding'.version
    BY <2>1, <1>4, SelectKeeps DEF Select
  <2>2. CASE Unbind
    BY <2>2, <1>4 DEF Unbind, DesktopInv, Current
  <2>3. CASE ClearAfterUnbind
    BY <2>3, <1>4 DEF ClearAfterUnbind, DesktopInv, Current
  <2>4. CASE Bind
    BY <2>4, <1>4 DEF Bind, DesktopInv
  <2>5. CASE ClearAfterBind
    BY <2>5, <1>4 DEF ClearAfterBind, DesktopInv, Current, Idle
  <2> QED
    BY <2>1, <2>2, <2>3, <2>4, <2>5 DEF DesktopStep
<1>5. VerifiedOk'
  BY <1>1, <1>2, <1>3 DEF CaptureInv, VerifiedOk, Offered, VerifiedIn, transferVars
<1>6. IngestedOk'
  BY <1>1, <1>2, <1>4 DEF CaptureInv, VerifiedOk, IngestedOk, Offered, VerifiedIn, transferVars, ledgers
<1>7. RevisionsOk'
  <2>1. \A i \in DOMAIN revisions : revisions[i].session \in Sessions /\ revisions[i].transfer \in Transfers
    <3>1. \A i \in DOMAIN revisions : revisions[i] \in Revision
      BY DEF CaptureInv, RevisionsOk
    <3> QED
      BY <3>1 DEF Revision
  <2> QED
    BY <1>1, <1>2, <2>1 DEF CaptureInv, VerifiedOk, RevisionsOk, Offered, VerifiedIn, transferVars, ledgers
<1>8. \A s \in Sessions : TurnOk(s)'
  BY <1>1, <1>2 DEF CaptureInv, VerifiedOk, TurnOk, Offered, VerifiedIn, transferVars, ledgers
<1> QED
  BY <1>1, <1>5, <1>6, <1>7, <1>8 DEF CaptureInv, UploadOk, Offered, transferVars, ledgers

\* Every step of the bridge and the desktop.
LEMMA CaptureStepInv ==
  ASSUME DesktopInv, CaptureInv, [Next]_vars
  PROVE  CaptureInv'
<1>1. CASE UNCHANGED vars
  BY <1>1 DEF vars, shared, transferVars, ledgers, CaptureInv, VerifiedOk, UploadOk, IngestedOk,
     RevisionsOk, TurnOk, Offered, VerifiedIn, Current
<1>2. ASSUME NEW s \in Sessions, SessionStep(s)
      PROVE  CaptureInv'
  <2>1. CASE \/ Connect(s) \/ Disconnect(s) \/ Drain(s) \/ EnterHello(s) \/ Cancel(s) \/ FanOut(s)
             \/ MoveHead(s) \/ (\E p \in Projects : Hello(s, p)) \/ (\E r \in Sessions : Send(s, r))
    <3>1. UNCHANGED <<places, workspace, desktop, verified, ledgers>>
      BY <2>1 DEF Connect, Disconnect, Drain, EnterHello, Cancel, FanOut, MoveHead, Hello, Send,
                  shared, transferVars
    <3>2. binding'.version = binding.version
      BY <2>1, HeadKeeps DEF Connect, Disconnect, Drain, EnterHello, Cancel, FanOut, Hello, Send, shared
    <3>3. upload' = upload \/ upload' = [upload EXCEPT ![s] = None]
      BY <2>1 DEF Connect, Disconnect, Drain, EnterHello, Cancel, FanOut, MoveHead, Hello, Send,
                  transferVars
    <3>4. \E next : next.at \notin {"ingest", "capture"} /\ (op' = op \/ Turn(s, next))
      <4>1. CASE Connect(s) \/ EnterHello(s) \/ MoveHead(s) \/ Drain(s) \/ Cancel(s)
        BY <4>1 DEF Connect, EnterHello, MoveHead, Drain, Cancel, Idle
      <4>2. CASE Disconnect(s)
        BY <4>2 DEF Disconnect
      <4>3. ASSUME NEW p \in Projects, Hello(s, p)
            PROVE  \E next : next.at \notin {"ingest", "capture"} /\ Turn(s, next)
        BY <4>3 DEF Hello
      <4>4. CASE FanOut(s)
        BY <4>4 DEF FanOut, Idle
      <4>5. ASSUME NEW r \in Sessions, Send(s, r)
            PROVE  \E next : next.at \notin {"ingest", "capture"} /\ Turn(s, next)
        <5>1. op[s].at = "send" /\ Turn(s, [op[s] EXCEPT !.to = @ \ {r}])
          BY <4>5 DEF Send
        <5>2. [op[s] EXCEPT !.to = @ \ {r}].at = op[s].at
          OBVIOUS
        <5> QED
          BY <5>1, <5>2
      <4> QED
        BY <2>1, <4>1, <4>2, <4>3, <4>4, <4>5
    <3> QED
      BY <3>1, <3>2, <3>3, <3>4, TransfersAlone
  <2> QED
    BY <1>2, <2>1, OfferKeeps, CompleteKeeps, StartKeeps, IngestKeeps, CommitKeeps DEF SessionStep
<1> QED
  BY <1>1, <1>2, DesktopCaptures DEF Next

\* Nothing is offered yet.
LEMMA CaptureInitInv == Init => CaptureInv
<1> SUFFICES ASSUME Init PROVE CaptureInv
  OBVIOUS
<1>1. \A s \in Sessions : op[s].at = "new" /\ upload[s] = None
  BY DEF Init
<1>2. \A s \in Sessions, t \in Transfers : verified[s][t] = None
  BY DEF Init
<1>3. \A s \in Sessions : TurnOk(s)
  BY <1>1 DEF TurnOk
<1>4. VerifiedOk /\ UploadOk /\ IngestedOk /\ RevisionsOk
  BY <1>1, <1>2 DEF Init, VerifiedOk, UploadOk, IngestedOk, RevisionsOk, Offered
<1> QED
  BY <1>3, <1>4 DEF Init, CaptureInv

\* A capture lands in the ledger of the workspace its transfer was offered in, although the
\* binding is read before the gate is taken and the workspace may be changed in between
\* (bridge.rs:1851, neuman_desktop.rs:133).
THEOREM CapturedWhereOfferedHolds == Spec => []CapturedWhereOffered
<1>1. CaptureInv => CapturedWhereOffered
  BY DEF CaptureInv, RevisionsOk, VerifiedIn, CapturedWhereOffered
<1>2. DesktopInv /\ CaptureInv /\ [Next]_vars => DesktopInv' /\ CaptureInv'
  BY DesktopStepInv, CaptureStepInv
<1> QED
  BY <1>1, <1>2, BridgeInitInv, CaptureInitInv, PTL DEF Spec
=============================================================================
