-------------------------- MODULE HubRequestsProofs --------------------------
(***************************************************************************)
(* For every set of callers, routes, keys and releases: a keyed mutation   *)
(* executes once in the lifetime of its record and is answered with its    *)
(* own effect, and no release leaves draft without an approval of its      *)
(* request, while memberships change as they do alone.  GitHub's           *)
(* deliveries are handed on once, and check runs stay in the repository    *)
(* they were meant for.                                                    *)
(***************************************************************************)
EXTENDS HubIdempotency, HubReleases, GithubApp, SequenceTheorems, TLAPS

(***************************************************************************)
(* Idempotency records                                                     *)
(***************************************************************************)

\* A record speaks of an effect of the request it was made for, and an effect whose record
\* has not run out still has it: maintenance only deletes what has.
RecordsTrue ==
    \A r \in records : /\ Same(effects[r.effect].request, r)
                       /\ effects[r.effect].request.body = r.body

Remembered(i) ==
    \E r \in records : /\ Same(effects[i].request, r)
                       /\ r.expires = effects[i].at + RecordTTL

EffectsRemembered ==
    \A i \in DOMAIN effects : now < effects[i].at + RecordTTL => Remembered(i)

Inv ==
    /\ TypeOK
    /\ RecordsTrue
    /\ EffectsRemembered
    /\ AtMostOnce
    /\ AnswersAgree

-----------------------------------------------------------------------------
\* A Hub without records satisfies the invariant.
LEMMA InitInv == Init => Inv
<1> SUFFICES ASSUME Init PROVE Inv
  OBVIOUS
<1>1. effects = <<>> /\ records = {} /\ answers = {} /\ now = 0
  BY DEF Init
<1>2. effects \in Seq(Effect) /\ DOMAIN effects = {}
  BY <1>1
<1>3. QED
  BY <1>1, <1>2 DEF Inv, TypeOK, RecordsTrue, EffectsRemembered, AtMostOnce, AnswersAgree

\* What an execution appends.
LEMMA Appended ==
  ASSUME effects \in Seq(Effect), NEW q \in Request, now \in Nat,
         effects' = Append(effects, [request |-> q, at |-> now])
  PROVE  /\ effects' \in Seq(Effect)
         /\ Len(effects) \in Nat /\ Len(effects') = Len(effects) + 1
         /\ DOMAIN effects = 1 .. Len(effects) /\ DOMAIN effects' = 1 .. Len(effects')
         /\ \A i \in DOMAIN effects : effects'[i] = effects[i] /\ effects[i] \in Effect
         /\ effects'[Len(effects')].request = q
         /\ effects'[Len(effects')].at = now
<1> DEFINE e == [request |-> q, at |-> now]
<1>1. e \in Effect /\ e.request = q /\ e.at = now
  BY DEF Effect
<1> HIDE DEF e
<1>2. effects' = Append(effects, e)
  BY DEF e
<1>3. QED BY <1>1, <1>2

\* A request without a live record adds one effect and the record that names it.
LEMMA ExecuteStep ==
  ASSUME Inv, NEW q \in Request, Execute(q)
  PROVE  Inv'
<1> DEFINE new == Len(effects')
           r == [by |-> q.by, route |-> q.route, key |-> q.key, body |-> q.body,
                 effect |-> new, expires |-> now + RecordTTL]
           a == [request |-> q, effect |-> new]
<1>1. /\ records' = records \cup {r} /\ answers' = answers \cup {a} /\ now' = now
      /\ Found(q) = {}
      /\ effects' = Append(effects, [request |-> q, at |-> now])
  BY DEF Execute, Answered
<1>2. /\ effects \in Seq(Effect) /\ now \in Nat /\ RecordTTL \in Nat
      /\ \A x \in records \cup answers : x.effect \in DOMAIN effects
      /\ records \subseteq Record /\ answers \subseteq Answer
  BY IdempotencyAssumption DEF Inv, TypeOK
<1>3. /\ effects' \in Seq(Effect)
      /\ Len(effects) \in Nat /\ new = Len(effects) + 1
      /\ DOMAIN effects = 1 .. Len(effects) /\ DOMAIN effects' = 1 .. new
      /\ \A i \in DOMAIN effects : effects'[i] = effects[i] /\ effects[i] \in Effect
      /\ effects'[new].request = q /\ effects'[new].at = now
  BY <1>1, <1>2, Appended
<1>4. /\ r.by = q.by /\ r.route = q.route /\ r.key = q.key /\ r.body = q.body
      /\ r.effect = new /\ r.expires = now + RecordTTL
      /\ a.request = q /\ a.effect = new
  OBVIOUS
<1>5. r \in Record /\ a \in Answer
  <2>1. new \in Nat /\ now + RecordTTL \in Nat
    BY <1>2, <1>3
  <2> HIDE DEF new
  <2>2. QED BY <2>1 DEF Record, Answer, Request
<1> HIDE DEF new, r, a
<1>6. TypeOK'
  <2>1. \A x \in records' \cup answers' : x.effect \in DOMAIN effects'
    BY <1>1, <1>2, <1>3, <1>4
  <2>2. QED BY <1>1, <1>2, <1>3, <1>5, <2>1 DEF TypeOK
<1>7. RecordsTrue'
  BY <1>1, <1>2, <1>3, <1>4 DEF Inv, RecordsTrue, Same
<1>8. AnswersAgree'
  BY <1>1, <1>2, <1>3, <1>4 DEF Inv, AnswersAgree, Same
<1>9. EffectsRemembered'
  <2>1. SUFFICES ASSUME NEW i \in DOMAIN effects', now' < effects'[i].at + RecordTTL
                 PROVE  Remembered(i)'
    BY DEF EffectsRemembered
  <2>2. CASE i = new
    BY <1>1, <1>3, <1>4, <2>2 DEF Remembered, Same
  <2>3. CASE i # new
    <3>1. i \in DOMAIN effects /\ effects'[i] = effects[i]
      BY <1>3, <2>3
    <3>2. Remembered(i)
      BY <1>1, <2>1, <3>1 DEF Inv, EffectsRemembered
    <3>3. QED BY <1>1, <3>1, <3>2 DEF Remembered
  <2>4. QED BY <2>2, <2>3
<1>10. AtMostOnce'
  <2>1. SUFFICES ASSUME NEW i \in DOMAIN effects', NEW j \in DOMAIN effects', i < j,
                        Same(effects'[i].request, effects'[j].request)
                 PROVE  effects'[j].at >= effects'[i].at + RecordTTL
    BY DEF AtMostOnce, Same
  <2>2. i \in DOMAIN effects /\ effects'[i] = effects[i] /\ effects[i].at \in Nat
    BY <1>3, <2>1 DEF Effect
  <2>3. CASE j # new
    <3>1. j \in DOMAIN effects /\ effects'[j] = effects[j]
      BY <1>3, <2>3
    <3>2. QED BY <2>1, <2>2, <3>1 DEF Inv, AtMostOnce
  <2>4. CASE j = new
    <3>1. ~ Remembered(i)
      BY <1>1, <1>3, <2>1, <2>2, <2>4 DEF Remembered, Found, Same
    <3>2. ~ (now < effects[i].at + RecordTTL)
      BY <2>2, <3>1 DEF Inv, EffectsRemembered
    <3>3. QED BY <1>2, <1>3, <2>2, <2>4, <3>2
  <2>5. QED BY <2>3, <2>4
<1>11. QED BY <1>6, <1>7, <1>8, <1>9, <1>10 DEF Inv

\* A replayed answer is that of the record, and so of the same request.
LEMMA ReplayStep ==
  ASSUME Inv, NEW q \in Request, Replay(q)
  PROVE  Inv'
<1>1. PICK r \in Found(q) :
        /\ r.body = q.body
        /\ answers' = answers \cup {[request |-> q, effect |-> r.effect]}
        /\ UNCHANGED <<records, effects, now>>
  BY DEF Replay, Answered
<1> DEFINE a == [request |-> q, effect |-> r.effect]
<1>2. r \in records /\ r.by = q.by /\ r.route = q.route /\ r.key = q.key
  BY DEF Found
<1>3. a.request = q /\ a.effect = r.effect /\ a \in Answer /\ r.effect \in DOMAIN effects
  BY <1>2 DEF Inv, TypeOK, Record, Answer
<1>4. answers' = answers \cup {a}
  BY <1>1
<1> HIDE DEF a
<1>5. TypeOK'
  BY <1>1, <1>3, <1>4 DEF Inv, TypeOK
<1>6. AnswersAgree'
  BY <1>1, <1>2, <1>3, <1>4 DEF Inv, AnswersAgree, RecordsTrue, Same
<1>7. (RecordsTrue /\ EffectsRemembered /\ AtMostOnce)'
  BY <1>1 DEF Inv, RecordsTrue, EffectsRemembered, Remembered, AtMostOnce, Same
<1>8. QED BY <1>5, <1>6, <1>7 DEF Inv

\* Only records whose lifetime is over are deleted.
LEMMA MaintainStep ==
  ASSUME Inv, Maintain
  PROVE  Inv'
<1>1. /\ records' = {r \in records : r.expires > now}
      /\ effects' = effects /\ answers' = answers /\ now' = now
  BY DEF Maintain
<1>2. TypeOK' /\ RecordsTrue' /\ AtMostOnce' /\ AnswersAgree'
  BY <1>1 DEF Inv, TypeOK, RecordsTrue, AtMostOnce, AnswersAgree, Same
<1>3. EffectsRemembered'
  BY <1>1 DEF Inv, EffectsRemembered, Remembered
<1>4. QED BY <1>2, <1>3 DEF Inv

\* Time only lets records expire.
LEMMA TickStep ==
  ASSUME Inv, Tick
  PROVE  Inv'
<1>1. now' = now + 1 /\ UNCHANGED <<records, effects, answers>>
  BY DEF Tick
<1>2. TypeOK' /\ RecordsTrue' /\ AtMostOnce' /\ AnswersAgree'
  BY <1>1 DEF Inv, TypeOK, RecordsTrue, AtMostOnce, AnswersAgree, Same
<1>3. EffectsRemembered'
  <2>1. SUFFICES ASSUME NEW i \in DOMAIN effects, now' < effects[i].at + RecordTTL
                 PROVE  Remembered(i)'
    BY <1>1 DEF EffectsRemembered
  <2>2. effects[i].at \in Nat /\ now \in Nat /\ RecordTTL \in Nat
    <3>1. effects \in Seq(Effect) /\ now \in Nat
      BY DEF Inv, TypeOK
    <3>2. effects[i] \in Effect
      BY <3>1
    <3>3. QED BY <3>1, <3>2, IdempotencyAssumption DEF Effect
  <2>3. Remembered(i)
    BY <1>1, <2>1, <2>2 DEF Inv, EffectsRemembered
  <2>4. QED BY <1>1, <2>3 DEF Remembered, Same
<1>4. QED BY <1>2, <1>3 DEF Inv

\* Every step of the Hub and its callers keeps the invariant.
LEMMA InvStep == Inv /\ [Next]_vars => Inv'
<1> SUFFICES ASSUME Inv, [Next]_vars PROVE Inv'
  OBVIOUS
<1>1. CASE \E q \in Request : Replay(q) \/ Execute(q)
  BY <1>1, ReplayStep, ExecuteStep
<1>2. CASE Maintain
  BY <1>2, MaintainStep
<1>3. CASE Tick
  BY <1>3, TickStep
<1>4. CASE UNCHANGED vars
  BY <1>4 DEF vars, Inv, TypeOK, RecordsTrue, EffectsRemembered, Remembered, AtMostOnce,
              AnswersAgree, Same
<1>5. QED BY <1>1, <1>2, <1>3, <1>4 DEF Next

\* The invariant of the idempotency records holds.
LEMMA InvHolds == Spec => []Inv
BY InitInv, InvStep, PTL DEF Spec

-----------------------------------------------------------------------------
\* Records and answers speak of mutations that have happened, also after maintenance and
\* however the clock and the deliveries interleave (hub.rs:694-750).
THEOREM IdempotencyTypeCorrect == Spec => []TypeOK
<1>1. Inv => TypeOK
  BY DEF Inv
<1>2. QED BY <1>1, InvHolds, PTL

\* However often a keyed mutation is delivered, and whenever maintenance runs, it executes at
\* most once in the lifetime of its record (hub.rs:694-750).
THEOREM AtMostOnceHolds == Spec => []AtMostOnce
<1>1. Inv => AtMostOnce
  BY DEF Inv
<1>2. QED BY <1>1, InvHolds, PTL

\* No answer, replayed or not, is the result of another principal's, route's or body's
\* mutation (hub.rs:694-750).
THEOREM AnswersAgreeHolds == Spec => []AnswersAgree
<1>1. Inv => AnswersAgree
  BY DEF Inv
<1>2. QED BY <1>1, InvHolds, PTL

-----------------------------------------------------------------------------
(***************************************************************************)
(* Releases.  Approvals are never taken back and a release keeps its       *)
(* request, so what binds an approval to a release stays.                  *)
(***************************************************************************)

ApprovalInv == releases \in Seq(Release) /\ PastDraftIsApproved

\* Setting the state of a release leaves every other row and its request alone.
LEMMA StateSet ==
  ASSUME releases \in Seq(Release), NEW r \in DOMAIN releases, NEW s \in ReleaseStates,
         releases' = [releases EXCEPT ![r].state = s]
  PROVE  /\ releases' \in Seq(Release) /\ DOMAIN releases' = DOMAIN releases
         /\ \A q \in DOMAIN releases :
              /\ releases'[q].request = releases[q].request
              /\ releases'[q].state = IF q = r THEN s ELSE releases[q].state
<1> DEFINE row == [releases[r] EXCEPT !.state = s]
<1>1. DOMAIN releases = 1 .. Len(releases) /\ Len(releases) \in Nat /\ releases[r] \in Release
  BY LenProperties
<1>2. row \in Release /\ row.state = s /\ row.request = releases[r].request
  BY <1>1 DEF Release
<1>3. releases' = [releases EXCEPT ![r] = row]
  OBVIOUS
<1> HIDE DEF row
<1>4. /\ releases' \in Seq(Release) /\ DOMAIN releases' = DOMAIN releases
      /\ \A q \in DOMAIN releases : releases'[q] = IF q = r THEN row ELSE releases[q]
  BY <1>1, <1>2, <1>3, ExceptSeq
<1>5. QED BY <1>2, <1>4

\* An approval that counts for a release goes on counting for it.
LEMMA BoundGrows ==
  ASSUME NEW r, approvals \subseteq approvals', releases'[r].request = releases[r].request,
         Bound(r) # {}
  PROVE  Bound(r)' # {}
BY DEF Bound

\* An approval moves a release to approved only for its own request.
LEMMA ApproveStep ==
  ASSUME ApprovalInv, NEW p \in Principals, NEW r \in DOMAIN releases, NEW request,
         ApproveRelease(p, r, request)
  PROVE  ApprovalInv'
<1> DEFINE a == [release |-> r, by |-> p, request |-> request]
<1>1. /\ request = releases[r].request /\ approvals' = approvals \cup {a}
      /\ releases' = [releases EXCEPT ![r].state = "approved"]
  BY DEF ApproveRelease
<1>2. /\ releases' \in Seq(Release) /\ DOMAIN releases' = DOMAIN releases
      /\ \A q \in DOMAIN releases :
           /\ releases'[q].request = releases[q].request
           /\ releases'[q].state = IF q = r THEN "approved" ELSE releases[q].state
  BY <1>1, StateSet DEF ApprovalInv, ReleaseStates
<1>3. a.release = r /\ a.request = releases[r].request
  BY <1>1
<1> HIDE DEF a
<1>4. PastDraftIsApproved'
  <2>1. SUFFICES ASSUME NEW q \in DOMAIN releases, releases'[q].state # "draft"
                 PROVE  Bound(q)' # {}
    BY <1>2 DEF PastDraftIsApproved
  <2>2. CASE q = r
    <3>1. a \in Bound(q)'
      BY <1>1, <1>2, <1>3, <2>2 DEF Bound
    <3>2. QED BY <3>1
  <2>3. CASE q # r
    <3>1. Bound(q) # {}
      BY <1>2, <2>1, <2>3 DEF ApprovalInv, PastDraftIsApproved
    <3>2. QED BY <1>1, <1>2, <3>1, BoundGrows
  <2>4. QED BY <2>2, <2>3
<1>5. QED BY <1>2, <1>4 DEF ApprovalInv

\* Starting, resuming and rolling back need an approval that is there.
LEMMA ActionStep ==
  ASSUME ApprovalInv, NEW p \in Principals, NEW r \in DOMAIN releases,
         NEW action \in {"start", "resume", "rollback"}, NEW expected,
         ReleaseAction(p, r, action, expected)
  PROVE  ApprovalInv'
<1> DEFINE to == Transition(action).to
<1>1. /\ releases[r].state \in Transition(action).from
      /\ releases' = [releases EXCEPT ![r].state = to] /\ approvals' = approvals
  BY DEF ReleaseAction
<1>2. to \in ReleaseStates /\ "draft" \notin Transition(action).from
  BY DEF Transition, ReleaseStates
<1> HIDE DEF to
<1>3. /\ releases' \in Seq(Release) /\ DOMAIN releases' = DOMAIN releases
      /\ \A q \in DOMAIN releases :
           /\ releases'[q].request = releases[q].request
           /\ releases'[q].state = IF q = r THEN to ELSE releases[q].state
  BY <1>1, <1>2, StateSet DEF ApprovalInv
<1>4. PastDraftIsApproved'
  <2>1. SUFFICES ASSUME NEW q \in DOMAIN releases, releases'[q].state # "draft"
                 PROVE  Bound(q)' # {}
    BY <1>3 DEF PastDraftIsApproved
  <2>2. releases[q].state # "draft"
    BY <1>1, <1>2, <1>3, <2>1
  <2>3. Bound(q) # {}
    BY <2>2 DEF ApprovalInv, PastDraftIsApproved
  <2>4. QED BY <1>1, <1>3, <2>3, BoundGrows
<1>5. QED BY <1>3, <1>4 DEF ApprovalInv

\* A new release is a draft.
LEMMA CreateReleaseStep ==
  ASSUME ApprovalInv, NEW p \in Principals, NEW request \in Requests, CreateRelease(p, request)
  PROVE  ApprovalInv'
<1> DEFINE row == [request |-> request, state |-> "draft"]
<1>1. releases' = Append(releases, row) /\ approvals' = approvals
  BY DEF CreateRelease
<1>2. row \in Release /\ row.state = "draft"
  BY DEF Release, ReleaseStates
<1> HIDE DEF row
<1>3. /\ releases' \in Seq(Release)
      /\ \A q \in DOMAIN releases' : q \in DOMAIN releases \/ releases'[q] = row
      /\ \A q \in DOMAIN releases : releases'[q] = releases[q]
  <2>1. releases \in Seq(Release)
    BY DEF ApprovalInv
  <2>2. /\ Len(releases) \in Nat /\ DOMAIN releases = 1 .. Len(releases)
        /\ releases' \in Seq(Release) /\ DOMAIN releases' = 1 .. Len(releases) + 1
        /\ releases'[Len(releases) + 1] = row
        /\ \A q \in 1 .. Len(releases) : releases'[q] = releases[q]
    BY <1>1, <1>2, <2>1, AppendProperties, LenProperties
  <2>3. QED BY <2>2
<1>4. PastDraftIsApproved'
  <2>1. SUFFICES ASSUME NEW q \in DOMAIN releases', releases'[q].state # "draft"
                 PROVE  Bound(q)' # {}
    BY DEF PastDraftIsApproved
  <2>2. q \in DOMAIN releases /\ releases'[q] = releases[q]
    BY <1>2, <1>3, <2>1
  <2>3. Bound(q) # {}
    BY <2>1, <2>2 DEF ApprovalInv, PastDraftIsApproved
  <2>4. QED BY <1>1, <2>2, <2>3, BoundGrows
<1>5. QED BY <1>3, <1>4 DEF ApprovalInv

\* Every step of the releases and their project keeps the approvals.
LEMMA ApprovalStep == ApprovalInv /\ [ReleasesNext]_hubReleaseVars => ApprovalInv'
<1> SUFFICES ASSUME ApprovalInv, [ReleasesNext]_hubReleaseVars PROVE ApprovalInv'
  OBVIOUS
<1>1. ASSUME UNCHANGED <<releases, approvals>> PROVE ApprovalInv'
  BY <1>1 DEF ApprovalInv, PastDraftIsApproved, Bound
<1>2. CASE \E p \in Principals, request \in Requests : CreateRelease(p, request)
  BY <1>2, CreateReleaseStep
<1>3. CASE \E p \in Principals, r \in DOMAIN releases, request \in Requests :
             ApproveRelease(p, r, request)
  BY <1>3, ApproveStep
<1>4. CASE \E p \in Principals, r \in DOMAIN releases, request \in Requests :
             \E action \in {"start", "resume", "rollback"} : ReleaseAction(p, r, action, request)
  BY <1>4, ActionStep
<1>5. CASE \E p \in Principals :
             CreateBuild(p) \/ \E b \in DOMAIN builds, s \in AttemptStatuses : AddBuildAttempt(p, b, s)
  BY <1>1, <1>5 DEF CreateBuild, AddBuildAttempt
<1>6. CASE UNCHANGED releaseVars
  BY <1>1, <1>6 DEF releaseVars
<1>7. QED
  BY <1>2, <1>3, <1>4, <1>5, <1>6 DEF ReleasesNext, hubReleaseVars

\* No release leaves draft without an approval of exactly its request, also after members
\* have left and when an approver names another release's hash (hub.rs:3731, 3832).
THEOREM PastDraftIsApprovedHolds == ReleasesSpec => []PastDraftIsApproved
<1>1. ReleasesInit => ApprovalInv
  BY DEF ReleasesInit, ApprovalInv, PastDraftIsApproved
<1>2. ApprovalInv => PastDraftIsApproved
  BY DEF ApprovalInv
<1>3. QED BY <1>1, <1>2, ApprovalStep, PTL DEF ReleasesSpec

\* Memberships keep their types under the handlers of projects and members.
LEMMA MembersTypeStep == MembersTypeOK /\ [MembersNext]_memberVars => MembersTypeOK'
<1> SUFFICES ASSUME MembersTypeOK, [MembersNext]_memberVars PROVE MembersTypeOK'
  OBVIOUS
<1> USE MembersAssumption DEF MembersTypeOK
<1>1. ASSUME NEW p \in Principals, NEW q \in Principals, NEW r \in AssignableRoles, UpsertMember(p, q, r)
      PROVE  MembersTypeOK'
  BY <1>1 DEF UpsertMember
<1>2. ASSUME NEW p \in Principals, NEW q \in Principals, RemoveMember(p, q)
      PROVE  MembersTypeOK'
  BY <1>2 DEF RemoveMember
<1>3. CASE \E p \in Principals, v \in 1..MaxVersion : PatchProject(p, v)
  BY <1>3 DEF PatchProject
<1>4. CASE \E p \in Principals : ArchiveProject(p)
  BY <1>4 DEF ArchiveProject
<1>5. CASE UNCHANGED memberVars
  BY <1>5 DEF memberVars
<1>6. QED BY <1>1, <1>2, <1>3, <1>4, <1>5 DEF MembersNext

\* What a step of the release handlers does to the project and its members: nothing.
LEMMA MembersPart == [ReleasesNext]_hubReleaseVars => [MembersNext]_memberVars
BY Zenon DEF ReleasesNext, CreateBuild, AddBuildAttempt, CreateRelease, ApproveRelease, ReleaseAction,
             hubReleaseVars

\* Builds and releases never write the project or its memberships: what is proved of those holds
\* among them too.
THEOREM ReleasesKeepMembers == ReleasesSpec => MembersSpec
<1>1. ReleasesInit => MembersInit
  BY DEF ReleasesInit
<1>2. QED BY <1>1, MembersPart, PTL DEF ReleasesSpec, MembersSpec

\* Rows of builds are appended, or take the status of an attempt that is appended.
LEMMA BuildsType ==
  ASSUME builds \in Seq(Build), NEW p \in Principals,
         CreateBuild(p) \/ \E b \in DOMAIN builds, s \in AttemptStatuses : AddBuildAttempt(p, b, s)
  PROVE  builds' \in Seq(Build)
<1>1. CASE CreateBuild(p)
  <2>1. PICK e : e = [status |-> "queued", attempts |-> <<>>]
    OBVIOUS
  <2>2. <<>> \in Seq(AttemptStatuses)
    OBVIOUS
  <2>3. e \in Build
    BY <2>1, <2>2 DEF Build
  <2>4. builds' = Append(builds, e)
    BY <1>1, <2>1 DEF CreateBuild
  <2>5. QED BY <2>3, <2>4, AppendProperties
<1>2. ASSUME NEW b \in DOMAIN builds, NEW s \in AttemptStatuses, AddBuildAttempt(p, b, s)
      PROVE  builds' \in Seq(Build)
  <2>1. builds[b] \in Build
    OBVIOUS
  <2>2. PICK as : as = Append(builds[b].attempts, s)
    OBVIOUS
  <2>3. as \in Seq(AttemptStatuses)
    BY <2>1, <2>2, AppendProperties DEF Build
  <2>4. PICK e : e = [builds[b] EXCEPT !.status = s, !.attempts = as]
    OBVIOUS
  <2>5. e \in Build
    BY <2>1, <2>3, <2>4 DEF Build
  <2>6. builds' = [builds EXCEPT ![b] = e]
    BY <1>2, <2>2, <2>4 DEF AddBuildAttempt
  <2>7. QED BY <2>5, <2>6, ExceptSeq
<1>3. QED BY <1>1, <1>2

\* Releases and approvals are rows of their tables.
ReleaseRows ==
    /\ releases \in Seq(Release)
    /\ approvals \subseteq Approval

\* Every step of the release handlers writes rows.
LEMMA ReleaseRowsStep ==
  ASSUME ReleaseRows, NEW p \in Principals, NEW request \in Requests,
         \/ CreateRelease(p, request)
         \/ \E r \in DOMAIN releases :
              \/ ApproveRelease(p, r, request)
              \/ \E action \in {"start", "resume", "rollback"} : ReleaseAction(p, r, action, request)
  PROVE  ReleaseRows'
<1>0. releases \in Seq(Release) /\ approvals \subseteq Approval
  BY DEF ReleaseRows
<1>1. CASE CreateRelease(p, request)
  <2>1. PICK e : e = [request |-> request, state |-> "draft"]
    OBVIOUS
  <2>2. e \in Release
    BY <2>1 DEF Release, ReleaseStates
  <2>3. releases' = Append(releases, e) /\ approvals' = approvals
    BY <1>1, <2>1 DEF CreateRelease
  <2>4. QED BY <1>0, <2>2, <2>3, AppendProperties DEF ReleaseRows
<1>2. ASSUME NEW r \in DOMAIN releases, NEW s \in ReleaseStates,
             releases' = [releases EXCEPT ![r].state = s]
      PROVE  releases' \in Seq(Release)
  <2>1. releases[r] \in Release
    BY <1>0
  <2>2. PICK e : e = [releases[r] EXCEPT !.state = s]
    OBVIOUS
  <2>3. e \in Release
    BY <2>1, <2>2 DEF Release
  <2>4. releases' = [releases EXCEPT ![r] = e]
    BY <1>2, <2>2
  <2>5. QED BY <1>0, <2>3, <2>4, ExceptSeq
<1>3. ASSUME NEW r \in DOMAIN releases, ApproveRelease(p, r, request)
      PROVE  ReleaseRows'
  <2>1. releases' = [releases EXCEPT ![r].state = "approved"]
        /\ approvals' = approvals \cup {[release |-> r, by |-> p, request |-> request]}
    BY <1>3 DEF ApproveRelease
  <2>2. r \in Nat \ {0}
    BY <1>0
  <2>3. [release |-> r, by |-> p, request |-> request] \in Approval
    BY <2>2 DEF Approval
  <2>4. "approved" \in ReleaseStates
    BY DEF ReleaseStates
  <2>5. releases' \in Seq(Release)
    BY <1>2, <2>1, <2>4
  <2>6. QED BY <1>0, <2>1, <2>3, <2>5 DEF ReleaseRows
<1>4. ASSUME NEW r \in DOMAIN releases, NEW action \in {"start", "resume", "rollback"},
             ReleaseAction(p, r, action, request)
      PROVE  ReleaseRows'
  <2>1. releases' = [releases EXCEPT ![r].state = Transition(action).to] /\ approvals' = approvals
    BY <1>4 DEF ReleaseAction
  <2>2. Transition(action).to \in ReleaseStates
    BY DEF Transition, ReleaseStates
  <2>3. QED BY <1>0, <1>2, <2>1, <2>2 DEF ReleaseRows
<1>5. QED BY <1>1, <1>3, <1>4

\* Every reachable state of the Hub's builds and releases is well typed.
THEOREM ReleasesTypeCorrect == ReleasesSpec => []ReleasesTypeOK
<1> DEFINE Typed == MembersTypeOK /\ ReleaseRows /\ builds \in Seq(Build)
<1>1. ReleasesInit => Typed
  <2>1. SUFFICES ASSUME ReleasesInit PROVE Typed
    OBVIOUS
  <2>2. releases \in Seq(Release) /\ builds \in Seq(Build) /\ approvals \subseteq Approval
    BY <2>1 DEF ReleasesInit
  <2>3. MembersTypeOK
    BY <2>1, MembersAssumption DEF ReleasesInit, MembersInit, MembersTypeOK, Roles
  <2>4. QED BY <2>2, <2>3 DEF ReleaseRows
<1>2. Typed /\ [ReleasesNext]_hubReleaseVars => Typed'
  <2>1. SUFFICES ASSUME Typed, [ReleasesNext]_hubReleaseVars PROVE Typed'
    OBVIOUS
  <2>2. MembersTypeOK'
    BY <2>1, MembersTypeStep, MembersPart
  <2>3. CASE UNCHANGED releaseVars
    BY <2>1, <2>2, <2>3 DEF releaseVars, ReleaseRows
  <2>4. ASSUME NEW p \in Principals,
               CreateBuild(p) \/ \E b \in DOMAIN builds, s \in AttemptStatuses : AddBuildAttempt(p, b, s)
        PROVE  Typed'
    <3>1. builds' \in Seq(Build)
      BY <2>1, <2>4, BuildsType
    <3>2. UNCHANGED <<releases, approvals>>
      BY <2>4 DEF CreateBuild, AddBuildAttempt
    <3>3. QED BY <2>1, <2>2, <3>1, <3>2 DEF ReleaseRows
  <2>5. ASSUME NEW p \in Principals, NEW request \in Requests,
               \/ CreateRelease(p, request)
               \/ \E r \in DOMAIN releases :
                    \/ ApproveRelease(p, r, request)
                    \/ \E action \in {"start", "resume", "rollback"} : ReleaseAction(p, r, action, request)
        PROVE  Typed'
    <3>1. ReleaseRows'
      BY <2>1, <2>5, ReleaseRowsStep
    <3>2. UNCHANGED builds
      BY <2>5 DEF CreateRelease, ApproveRelease, ReleaseAction
    <3>3. QED BY <2>1, <2>2, <3>1, <3>2
  <2> HIDE DEF Typed
  <2>6. QED BY <2>1, <2>3, <2>4, <2>5, Zenon DEF ReleasesNext, hubReleaseVars
<1>3. Typed => ReleasesTypeOK
  BY DEF ReleaseRows, ReleasesTypeOK
<1> HIDE DEF Typed
<1>4. QED BY <1>1, <1>2, <1>3, PTL DEF ReleasesSpec

(***************************************************************************)
(* GitHub: what travels is what GitHub has signed for that delivery, and  *)
(* a check run under way has a token of the repository it is meant for.    *)
(***************************************************************************)

\* What may be handed on: a body as signed or as damaged on the way.
HandedOn == [id: Deliveries, what: [body: Payloads \cup {Damaged}, event: Events]]

\* GitHub has sent this delivery.
Happened(id) == id \in DOMAIN occurred /\ occurred[id] \in [body: Payloads, event: Events]

HookInv ==
    /\ DOMAIN occurred \subseteq Deliveries
    /\ \A id \in DOMAIN occurred : Happened(id)
    /\ \A m \in wire : /\ Happened(m.id)
                      /\ m.event = occurred[m.id].event /\ m.signed = occurred[m.id].body
    /\ accepted \in Seq(HandedOn)
    /\ \A i \in DOMAIN accepted : accepted[i].id \in DOMAIN seen /\ Happened(accepted[i].id)
    /\ HandedOnOnce

\* GitHub signs the body of the delivery, also when it sends it again.
LEMMA SendsKeeps ==
  ASSUME HookInv, NEW d \in Deliveries, GithubSends(d)
  PROVE  HookInv'
<1>1. PICK p \in Payloads, e \in Events :
         LET what == IF d \in DOMAIN occurred THEN occurred[d] ELSE [body |-> p, event |-> e]
         IN  /\ occurred' = [x \in DOMAIN occurred \cup {d} |-> IF x = d THEN what ELSE occurred[x]]
             /\ \E body \in {what.body, Damaged} :
                  wire' = wire \cup {[id |-> d, event |-> what.event, body |-> body,
                                      secret |-> githubSecret, signed |-> what.body]}
  BY DEF GithubSends
<1> DEFINE what == IF d \in DOMAIN occurred THEN occurred[d] ELSE [body |-> p, event |-> e]
<1>2. what \in [body: Payloads, event: Events]
  BY <1>1 DEF HookInv, Happened
<1>3. /\ DOMAIN occurred' = DOMAIN occurred \cup {d} /\ occurred'[d] = what
      /\ \A id \in DOMAIN occurred : occurred'[id] = occurred[id]
  BY <1>1
<1>4. \A id \in DOMAIN occurred' : Happened(id)'
  BY <1>2, <1>3 DEF HookInv, Happened
<1>5. \A m \in wire' : /\ Happened(m.id)'
                       /\ m.event = occurred'[m.id].event /\ m.signed = occurred'[m.id].body
  <2>1. CASE \A m \in wire : m.id \in DOMAIN occurred
    BY <1>1, <1>3, <1>4, <2>1 DEF HookInv, Happened
  <2>2. QED BY <2>1 DEF HookInv, Happened
<1>6. UNCHANGED <<accepted, seen>>
  BY DEF GithubSends
<1>7. HandedOnOnce'
  BY <1>3, <1>6 DEF HookInv, Happened, HandedOnOnce
<1>8. QED BY <1>3, <1>4, <1>5, <1>6, <1>7 DEF HookInv, Happened

\* A delivery is handed on when its identifier is new and its body is the signed one.
LEMMA ReceiveKeeps ==
  ASSUME HookInv, NEW m \in wire, Receive(m)
  PROVE  HookInv'
<1>1. occurred' = occurred /\ wire' = wire \ {m}
  BY DEF Receive
<1>2. CASE UNCHANGED <<seen, accepted>>
  BY <1>1, <1>2 DEF HookInv, Happened, HandedOnOnce
<1>3. CASE ~UNCHANGED <<seen, accepted>>
  <2> DEFINE new == [id |-> m.id, what |-> Identity(m)]
  <2>1. /\ Verifies(m) /\ m.id \notin DOMAIN seen
        /\ seen' = [x \in DOMAIN seen \cup {m.id} |-> IF x = m.id THEN Identity(m) ELSE seen[x]]
        /\ accepted' = Append(accepted, new)
    BY <1>3 DEF Receive, Reserve
  <2>2. Happened(m.id) /\ m.event = occurred[m.id].event /\ m.body = occurred[m.id].body
    BY <2>1 DEF HookInv, Verifies
  <2>3. new.id = m.id /\ new.what = occurred[m.id] /\ new \in HandedOn
    BY <2>2 DEF HookInv, Happened, Identity, HandedOn
  <2> HIDE DEF new
  <2>4. /\ accepted' \in Seq(HandedOn) /\ Len(accepted) \in Nat
        /\ DOMAIN accepted = 1 .. Len(accepted) /\ DOMAIN accepted' = 1 .. Len(accepted) + 1
        /\ \A i \in DOMAIN accepted : accepted'[i] = accepted[i]
        /\ accepted'[Len(accepted) + 1] = new
    BY <2>1, <2>3, AppendProperties, LenProperties DEF HookInv
  <2>5. DOMAIN seen' = DOMAIN seen \cup {m.id}
    BY <2>1
  <2>6. \A i \in DOMAIN accepted : accepted[i].id # m.id
    BY <2>1 DEF HookInv
  <2>7. HandedOnOnce'
    BY <1>1, <2>3, <2>4, <2>6 DEF HookInv, HandedOnOnce
  <2>8. \A i \in DOMAIN accepted' :
          LET id == accepted'[i].id
          IN  /\ id \in DOMAIN seen' /\ id \in DOMAIN occurred'
              /\ occurred'[id] \in [body: Payloads, event: Events]
    BY <1>1, <2>2, <2>3, <2>4, <2>5 DEF HookInv, Happened
  <2>9. QED BY <1>1, <2>4, <2>7, <2>8 DEF HookInv, Happened
<1>4. QED BY <1>2, <1>3

\* A request carries a token of the repository it is for, whatever its address has become.
CheckInv ==
    /\ \A q \in requests : q.token.repository = q.intended
    /\ checks \in Seq([at: Repositories, intended: SUBSET Repositories])
    /\ binding \in Repositories
    /\ \A q \in requests : q.intended \in Repositories
    /\ ChecksStayAtHome

\* GitHub lets a token write to its own repository only.
LEMMA ChecksKeep ==
  ASSUME CheckInv, NEW q \in requests, GithubChecks(q)
  PROVE  CheckInv'
<1>1. requests' \subseteq requests /\ binding' = binding
  BY DEF GithubChecks
<1>2. PICK r \in Reached(q) \ closed :
         CASE q.target = 0 -> Len(checks) < MaxRequests /\ checks' = Append(checks, [at |-> r, intended |-> {q.intended}])
           [] q.target \in DOMAIN checks /\ checks[q.target].at = r ->
                checks' = [checks EXCEPT ![q.target].intended = @ \cup {q.intended}]
           [] OTHER -> UNCHANGED checks
  BY DEF GithubChecks
<1>3. r \in Repositories /\ r = q.intended
  BY DEF Reached, GithubTakes, CheckInv
<1>4. CASE UNCHANGED checks
  BY <1>1, <1>4 DEF CheckInv, ChecksStayAtHome
<1>5. CASE q.target = 0 /\ checks' # checks
  <2> DEFINE new == [at |-> r, intended |-> {q.intended}]
  <2>1. checks' = Append(checks, new)
    BY <1>2, <1>5
  <2>2. new \in [at: Repositories, intended: SUBSET Repositories] /\ new.intended = {new.at}
    BY <1>3
  <2> HIDE DEF new
  <2>3. /\ checks' \in Seq([at: Repositories, intended: SUBSET Repositories])
        /\ \A i \in DOMAIN checks' : checks'[i].intended = {checks'[i].at}
    BY <2>1, <2>2, AppendProperties, LenProperties DEF CheckInv, ChecksStayAtHome
  <2>4. QED BY <1>1, <2>3 DEF CheckInv, ChecksStayAtHome
<1>6. CASE q.target # 0 /\ checks' # checks
  <2> DEFINE n == q.target
             new == [checks[n] EXCEPT !.intended = @ \cup {q.intended}]
  <2>1. n \in DOMAIN checks /\ checks[n].at = r /\ checks' = [checks EXCEPT ![n] = new]
    BY <1>2, <1>6
  <2>2. /\ checks[n] \in [at: Repositories, intended: SUBSET Repositories]
        /\ checks[n].intended = {r}
    <3> HIDE DEF n
    <3>1. checks[n] \in [at: Repositories, intended: SUBSET Repositories]
      BY <2>1, ElementOfSeq, LenProperties DEF CheckInv
    <3>2. checks[n].intended = {checks[n].at}
      BY <2>1 DEF CheckInv, ChecksStayAtHome
    <3>3. QED BY <2>1, <3>1, <3>2
  <2>3. new \in [at: Repositories, intended: SUBSET Repositories] /\ new.intended = {new.at}
    BY <1>3, <2>1, <2>2
  <2> HIDE DEF new, n
  <2>4. /\ checks' \in Seq([at: Repositories, intended: SUBSET Repositories])
        /\ \A i \in DOMAIN checks' : checks'[i].intended = {checks'[i].at}
    BY <2>1, <2>3, ExceptSeq, LenProperties DEF CheckInv, ChecksStayAtHome
  <2>5. QED BY <1>1, <2>4 DEF CheckInv, ChecksStayAtHome
<1>7. QED BY <1>4, <1>5, <1>6

\* Webhooks and check runs share no variable.
GithubInv == HookInv /\ CheckInv

\* So a step of the webhooks leaves what is known of check runs,
LEMMA HooksLeaveChecks ==
  ASSUME CheckInv, UNCHANGED checkVars
  PROVE  CheckInv'
BY DEF CheckInv, checkVars, ChecksStayAtHome

\* and a step of the check runs what is known of deliveries.
LEMMA ChecksLeaveHooks ==
  ASSUME HookInv, UNCHANGED hookVars
  PROVE  HookInv'
BY DEF HookInv, hookVars, Happened, HandedOnOnce

\* Every step of GitHub, the network and the application keeps the invariant.
LEMMA GithubStep == GithubInv /\ [GithubNext]_githubVars => GithubInv'
<1> SUFFICES ASSUME GithubInv, [GithubNext]_githubVars PROVE GithubInv'
  OBVIOUS
<1>1. CASE HookNext
  <2>1. UNCHANGED checkVars
    BY <1>1 DEF HookNext, GithubSends, Lose, Receive, RotateVerifier, RotateGithub, DropPrevious
  <2>2. ASSUME NEW m \in wire, Lose(m) PROVE HookInv'
    BY <2>2 DEF Lose, GithubInv, HookInv, Happened, HandedOnOnce
  <2>3. ASSUME RotateVerifier \/ RotateGithub \/ DropPrevious PROVE HookInv'
    BY <2>3 DEF RotateVerifier, RotateGithub, DropPrevious, GithubInv, HookInv, Happened, HandedOnOnce
  <2>4. QED
    BY <1>1, <2>1, <2>2, <2>3, SendsKeeps, ReceiveKeeps, HooksLeaveChecks DEF HookNext, GithubInv
<1>2. CASE CheckNext
  <2>1. UNCHANGED hookVars
    BY <1>2 DEF CheckNext, MintRepositoryToken, Advance, VerifyRepository, SendCheck, GithubChecks,
                GithubRefuses, Archive, Rebind, Rename
  <2>2. ASSUME NEW t \in tokens, NEW r \in identities, NEW target, SendCheck(t, r, target)
        PROVE  CheckInv'
    BY <2>2 DEF SendCheck, MutationAllowed, TokenFits, GithubInv, CheckInv, ChecksStayAtHome
  <2>3. ASSUME NEW q \in requests, GithubRefuses(q) PROVE CheckInv'
    BY <2>3 DEF GithubRefuses, GithubInv, CheckInv, ChecksStayAtHome
  <2>4. ASSUME NEW r \in Repositories, Rebind(r) PROVE CheckInv'
    BY <2>4 DEF Rebind, GithubInv, CheckInv, ChecksStayAtHome
  <2>5. ASSUME UNCHANGED <<binding, requests, checks>> PROVE CheckInv'
    BY <2>5 DEF GithubInv, CheckInv, ChecksStayAtHome
  <2>6. ASSUME \/ MintRepositoryToken \/ Advance
               \/ \E t \in tokens : VerifyRepository(t)
               \/ \E r \in Repositories : Archive(r) \/ \E n \in Names : Rename(r, n)
        PROVE  UNCHANGED <<binding, requests, checks>>
    BY <2>6 DEF MintRepositoryToken, Advance, VerifyRepository, Archive, Rename
  <2>7. QED
    BY <1>2, <2>1, <2>2, <2>3, <2>4, <2>5, <2>6, ChecksKeep, ChecksLeaveHooks DEF CheckNext, GithubInv
<1>3. CASE UNCHANGED githubVars
  BY <1>3, HooksLeaveChecks, ChecksLeaveHooks DEF githubVars, GithubInv
<1>4. QED BY <1>1, <1>2, <1>3 DEF GithubNext

\* So it always holds.
LEMMA GithubInvHolds == GithubSpec => []GithubInv
<1>1. GithubInit => GithubInv
  BY DEF GithubInit, GithubInv, HookInv, CheckInv, HandedOnOnce, ChecksStayAtHome
<1>2. QED BY <1>1, GithubStep, PTL DEF GithubSpec

\* A delivery is handed on once, with the event and body GitHub sent under its identifier,
\* however often it is repeated, damaged on the way and signed with an old or a new secret
\* (github_app.rs:344, 440).
THEOREM HandedOnOnceHolds == GithubSpec => []HandedOnOnce
<1>1. GithubInv => HandedOnOnce
  BY DEF GithubInv, HookInv
<1>2. QED BY <1>1, GithubInvHolds, PTL

\* A check run is created and updated in the repository it was meant for, across renames,
\* archives and changes of the binding between the verification and the request
\* (github_app.rs:969, 1101).
THEOREM ChecksStayAtHomeHolds == GithubSpec => []ChecksStayAtHome
<1>1. GithubInv => ChecksStayAtHome
  BY DEF GithubInv, CheckInv
<1>2. QED BY <1>1, GithubInvHolds, PTL
=============================================================================
