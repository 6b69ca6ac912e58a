---------------------------- MODULE HubArtProofs ----------------------------
(***************************************************************************)
(* Proofs about memberships and the art authority, alone and together, for *)
(* every set of principals, sessions, cells, contents and lease ids and    *)
(* every bound.                                                            *)
(***************************************************************************)
EXTENDS HubArtProps, FiniteSetTheorems, TLAPS

-----------------------------------------------------------------------------
(***************************************************************************)
(* Memberships, for every set of principals and every quota                *)
(***************************************************************************)

\* What the next-state relation preserves: the types and the quota.
MembersInv == MembersTypeOK /\ MemberQuota

\* A fresh project has its creator as the only member (create_project).
LEMMA MembersInitInv == MembersInit => MembersInv
<1> SUFFICES ASSUME MembersInit PROVE MembersInv
  OBVIOUS
<1>1. PICK p \in Principals : role = [q \in Principals |-> IF q = p THEN "admin" ELSE NoRole]
  BY DEF MembersInit
<1>2. MembersTypeOK
  BY <1>1 DEF MembersInit, MembersTypeOK, Roles
<1>3. Members = {p}
  BY <1>1 DEF Members, NoRole
<1>4. MemberQuota
  BY <1>3, FS_Singleton, MembersAssumption DEF MemberQuota
<1> QED
  BY <1>2, <1>4 DEF MembersInv

\* Only upsert_member adds a member, and it does so below the quota.
LEMMA MembersStepInv == MembersInv /\ [MembersNext]_memberVars => MembersInv'
<1> SUFFICES ASSUME MembersInv, [MembersNext]_memberVars PROVE MembersInv'
  OBVIOUS
<1> USE MembersAssumption DEF MembersInv, MembersTypeOK
<1>0. IsFiniteSet(Members) /\ Cardinality(Members) \in Nat
  BY FS_Subset, FS_CardinalityType DEF Members
<1>1. ASSUME NEW p \in Principals, NEW q \in Principals, NEW r \in AssignableRoles,
             UpsertMember(p, q, r)
      PROVE  MembersInv'
  <2>1. MembersTypeOK'
    BY <1>1 DEF UpsertMember
  <2>2. Members' \subseteq Members \cup {q}
    BY <1>1 DEF UpsertMember, Members
  <2>3. CASE role[q] # NoRole
    <3>1. Members' \in SUBSET Members
      BY <2>2, <2>3 DEF Members
    <3> QED
      BY <3>1, <1>0, <2>1, FS_Subset, FS_CardinalityType DEF MemberQuota
  <2>4. CASE role[q] = NoRole
    <3>1. Cardinality(Members) < MaxMembers
      BY <1>1, <2>4 DEF UpsertMember
    <3>0. q \notin Members
      BY <2>4 DEF Members
    <3>2. IsFiniteSet(Members \cup {q}) /\ Cardinality(Members \cup {q}) = Cardinality(Members) + 1
      BY <1>0, <3>0, FS_AddElement, Zenon
    <3>3. IsFiniteSet(Members') /\ Cardinality(Members') <= Cardinality(Members \cup {q})
      BY <2>2, <3>2, FS_Subset
    <3> QED
      BY <3>1, <3>2, <3>3, <1>0, <2>1, FS_CardinalityType DEF MemberQuota
  <2> QED
    BY <2>3, <2>4
<1>2. ASSUME NEW p \in Principals, NEW q \in Principals, RemoveMember(p, q)
      PROVE  MembersInv'
  <2>1. MembersTypeOK'
    BY <1>2 DEF RemoveMember
  <2>2. Members' \in SUBSET Members
    BY <1>2 DEF RemoveMember, Members
  <2> QED
    BY <2>1, <2>2, <1>0, FS_Subset, FS_CardinalityType DEF MemberQuota
<1>3. ASSUME NEW p \in Principals, NEW v \in 1..MaxVersion, PatchProject(p, v)
      PROVE  MembersInv'
  BY <1>3 DEF PatchProject, MemberQuota, Members
<1>4. ASSUME NEW p \in Principals, ArchiveProject(p)
      PROVE  MembersInv'
  BY <1>4 DEF ArchiveProject, MemberQuota, Members
<1>5. CASE UNCHANGED memberVars
  BY <1>5 DEF memberVars, MemberQuota, Members
<1> QED
  BY <1>1, <1>2, <1>3, <1>4, <1>5 DEF MembersNext

\* The membership quota is never exceeded, whatever the quota and the principals.
THEOREM MembersQuotaHolds == MembersSpec => []MemberQuota
<1>1. MembersInv => MemberQuota
  BY DEF MembersInv
<1> QED
  BY <1>1, MembersInitInv, MembersStepInv, PTL DEF MembersSpec

\* remove_member never takes the last administrator away: after a removal one is left.
LEMMA RemovalStep ==
  ASSUME MembersTypeOK, [MembersNext]_memberVars, NEW q \in Principals,
         role[q] # NoRole, role'[q] = NoRole
  PROVE  \E a \in Principals : role'[a] = "admin"
<1> USE MembersAssumption DEF MembersTypeOK
<1>1. PICK p \in Principals : RemoveMember(p, q)
  <2>1. ASSUME NEW p \in Principals, NEW x \in Principals, NEW r \in AssignableRoles,
               UpsertMember(p, x, r)
        PROVE  FALSE
    BY <2>1 DEF UpsertMember, Roles, NoRole
  <2>2. ASSUME NEW p \in Principals, NEW x \in Principals, RemoveMember(p, x)
        PROVE  x = q
    BY <2>2 DEF RemoveMember
  <2>3. ASSUME NEW p \in Principals, NEW v \in 1..MaxVersion, PatchProject(p, v)
        PROVE  FALSE
    BY <2>3 DEF PatchProject
  <2>4. ASSUME NEW p \in Principals, ArchiveProject(p)
        PROVE  FALSE
    BY <2>4 DEF ArchiveProject
  <2> QED
    BY <2>1, <2>2, <2>3, <2>4 DEF MembersNext, memberVars
<1>2. IsFiniteSet(Admins) /\ Cardinality(Admins) \in Nat
  BY FS_Subset, FS_CardinalityType DEF Admins
<1>3. CASE role[q] # "admin"
  BY <1>1, <1>3 DEF RemoveMember, May, Allowed
<1>4. CASE role[q] = "admin"
  <2>1. q \in Admins /\ Cardinality(Admins) > 1
    BY <1>1, <1>4 DEF RemoveMember, Admins
  <2>2. Cardinality(Admins \ {q}) = Cardinality(Admins) - 1
    BY <1>2, <2>1, FS_RemoveElement, Zenon
  <2>3. Admins \ {q} # {}
    <3>1. Cardinality(Admins \ {q}) # 0
      BY <1>2, <2>1, <2>2
    <3> QED
      BY <3>1, FS_EmptySet, Zenon
  <2>4. PICK a \in Admins : a # q
    BY <2>3
  <2> QED
    BY <2>4, <1>1 DEF RemoveMember, Admins
<1> QED
  BY <1>3, <1>4

\* No removal leaves a project without an administrator (a demotion may).
THEOREM RemovalKeepsAnAdminHolds == MembersSpec => RemovalKeepsAnAdmin
<1>1. MembersInv /\ [MembersNext]_memberVars
        => [\A q \in Principals : role[q] # NoRole /\ role'[q] = NoRole
               => \E a \in Principals : role'[a] = "admin"]_memberVars
  BY RemovalStep DEF MembersInv
<1> QED
  BY <1>1, MembersInitInv, MembersStepInv, PTL DEF MembersSpec, RemovalKeepsAnAdmin

-----------------------------------------------------------------------------
(***************************************************************************)
(* Type correctness                                                        *)
(***************************************************************************)

\* The art actions leave memberships alone.
LEMMA MembersPart == [Next]_vars => [MembersNext]_memberVars
BY DEF Next, MembersStep, LeaseStep, ProposalStep, Tick, AcquireLeases, RenewLease,
       ReleaseAuthorize, ReleaseCommit, CreateProposal, ReviewProposal, AcceptProposal,
       RejectProposal, vars

\* The art authority's handlers never write the project or its memberships, so the quota and
\* the last administrator are as safe among them as they are alone (hub.rs: only
\* create_project, patch_project, archive_project, upsert_member and remove_member write them).
THEOREM ArtKeepsMembers == Spec => MembersSpec
<1>1. Init => MembersInit
  BY DEF Init
<1>2. QED BY <1>1, MembersPart, PTL DEF Spec, MembersSpec

\* Memberships keep their types under every step (the quota is not needed for that).
LEMMA MembersTypeStep == MembersTypeOK /\ [MembersNext]_memberVars => MembersTypeOK'
<1> SUFFICES ASSUME MembersTypeOK, [MembersNext]_memberVars PROVE MembersTypeOK'
  OBVIOUS
<1> USE MembersAssumption DEF MembersTypeOK
<1>1. ASSUME NEW p \in Principals, NEW q \in Principals, NEW r \in AssignableRoles,
             UpsertMember(p, q, r)
      PROVE  MembersTypeOK'
  BY <1>1 DEF UpsertMember
<1>2. ASSUME NEW p \in Principals, NEW q \in Principals, RemoveMember(p, q)
      PROVE  MembersTypeOK'
  BY <1>2 DEF RemoveMember
<1>3. ASSUME NEW p \in Principals, NEW v \in 1..MaxVersion, PatchProject(p, v)
      PROVE  MembersTypeOK'
  BY <1>3 DEF PatchProject
<1>4. ASSUME NEW p \in Principals, ArchiveProject(p)
      PROVE  MembersTypeOK'
  BY <1>4 DEF ArchiveProject
<1>5. CASE UNCHANGED memberVars
  BY <1>5 DEF memberVars
<1> QED
  BY <1>1, <1>2, <1>3, <1>4, <1>5 DEF MembersNext

\* Updating the status of one row keeps the proposals table well typed.
LEMMA StatusUpdate ==
  ASSUME NEW table \in Seq(Proposal), NEW i \in DOMAIN table,
         NEW status \in {"open", "accepted", "rejected"}
  PROVE  /\ [table EXCEPT ![i].status = status] \in Seq(Proposal)
         /\ DOMAIN [table EXCEPT ![i].status = status] = DOMAIN table
<1>1. table[i] \in Proposal
  OBVIOUS
<1>2. [table[i] EXCEPT !.status = status] \in Proposal
  BY <1>1 DEF Proposal
<1>3. ASSUME NEW row \in Proposal
      PROVE  [table EXCEPT ![i] = row] \in Seq(Proposal)
  OBVIOUS
<1> QED
  BY <1>2, <1>3

\* The empty tables have their types.
LEMMA TypeInit == Init => TypeOK
<1> SUFFICES ASSUME Init PROVE TypeOK
  OBVIOUS
<1>1. MembersTypeOK
  BY MembersInitInv DEF Init, MembersInv
<1>2. DOMAIN lease = {} /\ lease = [l \in {} |-> {}]
  BY DEF Init
<1>3. lease \in [DOMAIN lease -> Lease]
  BY <1>2
<1> QED
  BY <1>1, <1>2, <1>3 DEF Init, TypeOK

\* What acquire_lease_batch inserts is a lease, and nothing else changes.
LEMMA AcquireType ==
  ASSUME TypeOK, NEW p \in Principals, NEW s \in Sessions, NEW placed \in Placements,
         NEW base \in Bases, AcquireLeases(p, s, placed, base)
  PROVE  /\ DOMAIN placed \subseteq LeaseIds
         /\ \A l \in DOMAIN placed : placed[l] \in Cells
         /\ \A l, m \in DOMAIN placed : placed[l] = placed[m] => l = m
         /\ DOMAIN lease' = DOMAIN lease \cup DOMAIN placed
         /\ lease' \in [DOMAIN lease' -> Lease]
<1>1. PICK ids \in SUBSET (LeaseIds \ DOMAIN lease) \ {{}} :
          placed \in {f \in [ids -> Cells] : \A l, m \in ids : f[l] = f[m] => l = m}
  BY DEF Placements
<1>2. DOMAIN placed = ids /\ \A l \in ids : placed[l] \in Cells
  BY <1>1
<1>3. base \in Nat
  BY DEF TypeOK, Bases
<1>4. now + LeaseDuration \in Nat
  BY ArtAssumption DEF TypeOK
<1>5. DOMAIN lease' = DOMAIN lease \cup DOMAIN placed
  BY DEF AcquireLeases
<1>6. ASSUME NEW l \in DOMAIN lease' PROVE lease'[l] \in Lease
  BY <1>2, <1>3, <1>4, <1>5 DEF AcquireLeases, TypeOK, Lease
<1>7. lease' = [l \in DOMAIN lease' |-> lease'[l]]
  BY <1>5 DEF AcquireLeases
<1> QED
  BY <1>1, <1>2, <1>5, <1>6, <1>7

\* Every step keeps every table within its type.
LEMMA TypeStep == TypeOK /\ [Next]_vars => TypeOK'
<1> SUFFICES ASSUME TypeOK, [Next]_vars PROVE TypeOK'
  OBVIOUS
<1>0. MembersTypeOK'
  BY MembersPart, MembersTypeStep DEF TypeOK
<1> USE ArtAssumption DEF TypeOK
<1>1. CASE MembersStep
  BY <1>0, <1>1 DEF MembersStep, artVars
<1>2. ASSUME NEW p \in Principals, NEW s \in Sessions, NEW placed \in Placements,
             NEW base \in Bases, AcquireLeases(p, s, placed, base)
      PROVE  TypeOK'
  <2>1. DOMAIN lease' \subseteq LeaseIds /\ lease' \in [DOMAIN lease' -> Lease]
    BY <1>2, AcquireType
  <2> QED
    BY <1>0, <1>2, <2>1 DEF AcquireLeases
<1>3. ASSUME NEW p \in Principals, NEW s \in Sessions, NEW l \in DOMAIN lease,
             NEW n \in 0..MaxRenewals, NEW base \in Bases, RenewLease(p, s, l, n, base)
      PROVE  TypeOK'
  <2>1. base \in Nat /\ n + 1 \in Nat /\ now + LeaseDuration \in Nat
    BY DEF Bases
  <2>2. lease[l] \in Lease /\ n + 1 \in Nat
    BY <2>1
  <2>3. [lease[l] EXCEPT !.counter = n + 1, !.base = base, !.expires = now + LeaseDuration]
           \in Lease
    BY <2>1, <2>2 DEF Lease
  <2>4. DOMAIN lease' = DOMAIN lease /\ lease' \in [DOMAIN lease -> Lease]
    BY <1>3, <2>3 DEF RenewLease
  <2> QED
    BY <1>0, <1>3, <2>4 DEF RenewLease
<1>4. ASSUME NEW p \in Principals, NEW s \in Sessions, NEW l \in DOMAIN lease,
             NEW force \in BOOLEAN, ReleaseAuthorize(p, s, l, force)
      PROVE  TypeOK'
  <2>1. releasing' \subseteq Release
    BY <1>4 DEF ReleaseAuthorize, Release
  <2> QED
    BY <1>0, <1>4, <2>1 DEF ReleaseAuthorize
<1>5. ASSUME NEW r \in releasing, ReleaseCommit(r)
      PROVE  TypeOK'
  <2>1. DOMAIN lease' = DOMAIN lease /\ lease' \in [DOMAIN lease -> Lease]
    BY <1>5 DEF ReleaseCommit, Releasable, Lease
  <2> QED
    BY <1>0, <1>5, <2>1 DEF ReleaseCommit
<1>6. ASSUME NEW p \in Principals, NEW base \in Bases, NEW state \in States,
             CreateProposal(p, base, state)
      PROVE  TypeOK'
  <2>1. base \in Nat
    BY DEF Bases
  <2>2. proposals' \in Seq(Proposal)
    BY <1>6, <2>1 DEF CreateProposal, Proposal
  <2> QED
    BY <1>0, <1>6, <2>2 DEF CreateProposal
<1>7. ASSUME NEW p \in Principals, NEW i \in DOMAIN proposals, NEW v \in Verdicts,
             ReviewProposal(p, i, v)
      PROVE  TypeOK'
  <2>1. reviews' \subseteq Review
    BY <1>7 DEF ReviewProposal, Review
  <2> QED
    BY <1>0, <1>7, <2>1 DEF ReviewProposal
<1>8. ASSUME NEW p \in Principals, NEW i \in DOMAIN proposals, NEW expected \in Bases,
             AcceptProposal(p, i, expected)
      PROVE  TypeOK'
  <2>1. proposals[i] \in Proposal
    OBVIOUS
  <2>2. proposals' \in Seq(Proposal)
    BY <1>8, StatusUpdate DEF AcceptProposal
  <2>3. revisions' \in Seq(Revision) /\ head' \in Nat
    BY <1>8, <2>1 DEF AcceptProposal, Proposal, Revision
  <2>4. DOMAIN lease' = DOMAIN lease /\ lease' \in [DOMAIN lease -> Lease]
    BY <1>8 DEF AcceptProposal, Lease
  <2> QED
    BY <1>0, <1>8, <2>2, <2>3, <2>4 DEF AcceptProposal
<1>9. ASSUME NEW p \in Principals, NEW i \in DOMAIN proposals, RejectProposal(p, i)
      PROVE  TypeOK'
  <2>2. proposals' \in Seq(Proposal)
    BY <1>9, StatusUpdate DEF RejectProposal
  <2> QED
    BY <1>0, <1>9, <2>2 DEF RejectProposal
<1>10. CASE Tick
  BY <1>0, <1>10 DEF Tick
<1>11. CASE UNCHANGED vars
  BY <1>0, <1>11 DEF vars, artVars
<1> QED
  BY <1>1, <1>2, <1>3, <1>4, <1>5, <1>6, <1>7, <1>8, <1>9, <1>10, <1>11
     DEF Next, LeaseStep, ProposalStep

\* Every reachable state of the Hub's art authority is well typed.
THEOREM TypeCorrect == Spec => []TypeOK
BY TypeInit, TypeStep, PTL DEF Spec

-----------------------------------------------------------------------------
(***************************************************************************)
(* Leases                                                                  *)
(***************************************************************************)

\* The step makes no lease active and moves none to another cell.
Fewer == \A l \in ActiveLeases' : l \in ActiveLeases /\ lease'[l].cell = lease[l].cell

\* Only an acquisition makes a lease active: renewals start from an active lease,
\* releases, acceptances and the passage of time end leases.
LEMMA OnlyAcquisitionsActivate ==
  ASSUME TypeOK, [Next]_vars
  PROVE  \/ Fewer
         \/ \E p \in Principals, s \in Sessions, placed \in Placements, base \in Bases :
               AcquireLeases(p, s, placed, base)
<1> USE ArtAssumption DEF TypeOK
<1>1. CASE UNCHANGED <<lease, now>>
  BY <1>1 DEF Fewer, ActiveLeases, Active
<1>2. ASSUME NEW p \in Principals, NEW s \in Sessions, NEW l \in DOMAIN lease,
             NEW n \in 0..MaxRenewals, NEW base \in Bases, RenewLease(p, s, l, n, base)
      PROVE  Fewer
  BY <1>2 DEF RenewLease, Fewer, ActiveLeases, Active
<1>3. ASSUME NEW r \in releasing, ReleaseCommit(r)
      PROVE  Fewer
  BY <1>3 DEF ReleaseCommit, Releasable, Fewer, ActiveLeases, Active
<1>4. ASSUME NEW p \in Principals, NEW i \in DOMAIN proposals, NEW expected \in Bases,
             AcceptProposal(p, i, expected)
      PROVE  Fewer
  BY <1>4 DEF AcceptProposal, Fewer, ActiveLeases, Active
<1>5. CASE Tick
  BY <1>5 DEF Tick, Fewer, ActiveLeases, Active, Lease
<1>6. CASE MembersStep \/ UNCHANGED vars
  BY <1>1, <1>6 DEF MembersStep, vars, artVars
<1>7. CASE LeaseStep
  BY <1>1, <1>2, <1>3, <1>7 DEF LeaseStep, ReleaseAuthorize
<1>8. CASE ProposalStep
  BY <1>1, <1>4, <1>8 DEF ProposalStep, CreateProposal, ReviewProposal, RejectProposal
<1> QED
  BY <1>5, <1>6, <1>7, <1>8 DEF Next

\* After an acquisition the active leases are the old ones, unchanged, and the batch.
LEMMA ActiveAfterAcquire ==
  ASSUME TypeOK, NEW p \in Principals, NEW s \in Sessions, NEW placed \in Placements,
         NEW base \in Bases, AcquireLeases(p, s, placed, base)
  PROVE  \A l \in ActiveLeases' :
            \/ l \in DOMAIN placed /\ lease'[l].cell = placed[l]
            \/ l \in ActiveLeases /\ l \notin DOMAIN placed /\ lease'[l].cell = lease[l].cell
BY AcquireType DEF AcquireLeases, ActiveLeases, Active

\* The conflict check of acquire_lease_batch is enough to keep leases exclusive.
LEMMA OneActiveLeaseStep ==
  TypeOK /\ OneActiveLease /\ [Next]_vars => OneActiveLease'
<1> SUFFICES ASSUME TypeOK, OneActiveLease, [Next]_vars PROVE OneActiveLease'
  OBVIOUS
<1>1. CASE Fewer
  BY <1>1 DEF Fewer, OneActiveLease
<1>2. ASSUME NEW p \in Principals, NEW s \in Sessions, NEW placed \in Placements,
             NEW base \in Bases, AcquireLeases(p, s, placed, base)
      PROVE  OneActiveLease'
  <2> SUFFICES ASSUME NEW l \in ActiveLeases', NEW m \in ActiveLeases',
                      lease'[l].cell = lease'[m].cell
               PROVE  l = m
    BY DEF OneActiveLease
  <2>1. \A k \in ActiveLeases, n \in DOMAIN placed : lease[k].cell # placed[n]
    BY <1>2 DEF AcquireLeases
  <2>2. \A k, n \in DOMAIN placed : placed[k] = placed[n] => k = n
    BY <1>2, AcquireType
  <2> QED
    BY <1>2, <2>1, <2>2, ActiveAfterAcquire DEF OneActiveLease
<1> QED
  BY <1>1, <1>2, OnlyAcquisitionsActivate

\* There are finitely many active leases, because new_id draws from LeaseIds.
LEMMA ActiveLeasesFinite ==
  ASSUME TypeOK PROVE IsFiniteSet(ActiveLeases) /\ Cardinality(ActiveLeases) \in Nat
BY ArtAssumption, FS_Subset, FS_CardinalityType DEF TypeOK, ActiveLeases

\* An acquisition counts its whole batch against the quota before it inserts anything.
LEMMA LeaseQuotaStep ==
  TypeOK /\ LeaseQuota /\ [Next]_vars => LeaseQuota'
<1> SUFFICES ASSUME TypeOK, LeaseQuota, [Next]_vars PROVE LeaseQuota'
  OBVIOUS
<1>0. MaxActiveLeases \in Nat
  BY ArtAssumption
<1>1. CASE Fewer
  <2>1. ActiveLeases' \in SUBSET ActiveLeases
    BY <1>1 DEF Fewer
  <2>2. IsFiniteSet(ActiveLeases') /\ Cardinality(ActiveLeases') <= Cardinality(ActiveLeases)
    BY <2>1, ActiveLeasesFinite, FS_Subset
  <2> QED
    BY <1>0, <2>2, ActiveLeasesFinite, FS_CardinalityType DEF LeaseQuota
<1>2. ASSUME NEW p \in Principals, NEW s \in Sessions, NEW placed \in Placements,
             NEW base \in Bases, AcquireLeases(p, s, placed, base)
      PROVE  LeaseQuota'
  <2> DEFINE old == Cardinality(ActiveLeases)
             batch == Cardinality(DOMAIN placed)
  <2>1. old + batch <= MaxActiveLeases
    BY <1>2 DEF AcquireLeases
  <2>2. IsFiniteSet(DOMAIN placed) /\ batch \in Nat
    BY <1>2, AcquireType, ArtAssumption, FS_Subset, FS_CardinalityType
  <2>3. IsFiniteSet(ActiveLeases) /\ old \in Nat
    BY ActiveLeasesFinite
  <2>4. ActiveLeases \cap DOMAIN placed = {}
    BY <1>2 DEF AcquireLeases, ActiveLeases
  <2>5. /\ IsFiniteSet(ActiveLeases \cup DOMAIN placed)
        /\ Cardinality(ActiveLeases \cup DOMAIN placed) <= old + batch
    <3>1. /\ IsFiniteSet(ActiveLeases \cup DOMAIN placed)
          /\ Cardinality(ActiveLeases \cup DOMAIN placed)
               = Cardinality(ActiveLeases) + Cardinality(DOMAIN placed)
                   - Cardinality(ActiveLeases \cap DOMAIN placed)
      BY <2>2, <2>3, FS_Union, Zenon
    <3>2. Cardinality(ActiveLeases \cap DOMAIN placed) = 0
      BY <2>4, FS_EmptySet
    <3> QED
      BY <2>2, <2>3, <3>1, <3>2
  <2>6. ActiveLeases' \in SUBSET (ActiveLeases \cup DOMAIN placed)
    BY <1>2, ActiveAfterAcquire
  <2>7. /\ Cardinality(ActiveLeases') <= Cardinality(ActiveLeases \cup DOMAIN placed)
        /\ Cardinality(ActiveLeases') \in Nat
    BY <2>5, <2>6, FS_Subset, FS_CardinalityType
  <2>8. Cardinality(ActiveLeases \cup DOMAIN placed) \in Nat
    BY <2>5, FS_CardinalityType
  <2> QED
    BY <1>0, <2>1, <2>2, <2>3, <2>5, <2>7, <2>8 DEF LeaseQuota
<1> QED
  BY <1>1, <1>2, OnlyAcquisitionsActivate

\* No cell ever has two active leases.
THEOREM LeasesAreExclusive == Spec => []OneActiveLease
<1>1. Init => OneActiveLease
  BY DEF Init, OneActiveLease, ActiveLeases
<1> QED
  BY <1>1, TypeCorrect, OneActiveLeaseStep, PTL DEF Spec

\* The quota on active leases is never exceeded, whatever the batches.
THEOREM LeaseQuotaHolds == Spec => []LeaseQuota
<1>1. Init => LeaseQuota
  BY ArtAssumption, FS_EmptySet DEF Init, LeaseQuota, ActiveLeases
<1> QED
  BY <1>1, TypeCorrect, LeaseQuotaStep, PTL DEF Spec

-----------------------------------------------------------------------------
(***************************************************************************)
(* Proposals and revisions                                                 *)
(***************************************************************************)

\* Only an acceptance adds a revision or moves the head.
LEMMA OnlyAcceptancesAdvance ==
  ASSUME [Next]_vars
  PROVE  \/ UNCHANGED <<revisions, head>>
         \/ \E p \in Principals, i \in DOMAIN proposals, expected \in Bases :
               AcceptProposal(p, i, expected)
BY DEF Next, MembersStep, LeaseStep, ProposalStep, Tick, AcquireLeases, RenewLease,
       ReleaseAuthorize, ReleaseCommit, CreateProposal, ReviewProposal, RejectProposal,
       vars, artVars

\* What an acceptance appends.
LEMMA AcceptAppends ==
  ASSUME TypeOK, NEW p \in Principals, NEW i \in DOMAIN proposals, NEW expected \in Bases,
         AcceptProposal(p, i, expected)
  PROVE  /\ Len(revisions') = Len(revisions) + 1
         /\ DOMAIN revisions' = DOMAIN revisions \cup {Len(revisions) + 1}
         /\ Len(revisions) + 1 \notin DOMAIN revisions
         /\ \A r \in DOMAIN revisions : revisions'[r] = revisions[r]
         /\ revisions'[Len(revisions) + 1].parent = head
         /\ revisions'[Len(revisions) + 1].cells = proposals[i].cells
         /\ revisions'[Len(revisions) + 1].proposal = i
         /\ head' = Len(revisions) + 1
<1>1. proposals[i] \in Proposal
  BY DEF TypeOK
<1>2. [parent |-> head, cells |-> proposals[i].cells, proposal |-> i, by |-> p] \in Revision
  BY <1>1 DEF TypeOK, Proposal, Revision
<1> QED
  BY <1>2 DEF TypeOK, AcceptProposal

\* The compare-and-swap on the head keeps the history a line.
LEMMA LinearHistoryStep == TypeOK /\ LinearHistory /\ [Next]_vars => LinearHistory'
<1> SUFFICES ASSUME TypeOK, LinearHistory, [Next]_vars PROVE LinearHistory'
  OBVIOUS
<1>1. CASE UNCHANGED <<revisions, head>>
  BY <1>1 DEF LinearHistory
<1>2. ASSUME NEW p \in Principals, NEW i \in DOMAIN proposals, NEW expected \in Bases,
             AcceptProposal(p, i, expected)
      PROVE  LinearHistory'
  <2>1. ASSUME NEW r \in DOMAIN revisions' PROVE revisions'[r].parent = r - 1
    BY <1>2, AcceptAppends DEF LinearHistory, TypeOK
  <2> QED
    BY <1>2, <2>1, AcceptAppends DEF LinearHistory
<1> QED
  BY <1>1, <1>2, OnlyAcceptancesAdvance

\* AcceptedIffRevision is not inductive: a new proposal must not already be carried by a
\* revision, so revisions must only carry proposals that exist.
CarriedExist == \A r \in DOMAIN revisions : revisions[r].proposal \in DOMAIN proposals
ProposalInv == AcceptedIffRevision /\ CarriedExist

\* Acceptance takes an open proposal, which no revision carries; rejection leaves accepted
\* proposals alone.
LEMMA ProposalInvStep == TypeOK /\ ProposalInv /\ [Next]_vars => ProposalInv'
<1> SUFFICES ASSUME TypeOK, ProposalInv, [Next]_vars PROVE ProposalInv'
  OBVIOUS
<1> USE DEF ProposalInv, AcceptedIffRevision, CarriedExist
<1>1. CASE UNCHANGED <<proposals, revisions>>
  BY <1>1
<1>2. ASSUME NEW p \in Principals, NEW base \in Bases, NEW state \in States,
             CreateProposal(p, base, state)
      PROVE  ProposalInv'
  <2>1. /\ DOMAIN proposals' = DOMAIN proposals \cup {Len(proposals) + 1}
        /\ Len(proposals) + 1 \notin DOMAIN proposals
        /\ \A j \in DOMAIN proposals : proposals'[j] = proposals[j]
        /\ proposals'[Len(proposals) + 1].status = "open"
        /\ revisions' = revisions
    BY <1>2 DEF CreateProposal, TypeOK
  <2> QED
    BY <2>1
<1>3. ASSUME NEW p \in Principals, NEW i \in DOMAIN proposals, NEW expected \in Bases,
             AcceptProposal(p, i, expected)
      PROVE  ProposalInv'
  <2>1. /\ DOMAIN proposals' = DOMAIN proposals
        /\ proposals'[i].status = "accepted"
        /\ \A j \in DOMAIN proposals : j # i => proposals'[j] = proposals[j]
    <3>1. DOMAIN proposals' = DOMAIN proposals
      BY <1>3, StatusUpdate DEF AcceptProposal, TypeOK
    <3>2. proposals[i] \in Proposal
      BY DEF TypeOK
    <3> QED
      BY <1>3, <3>1, <3>2 DEF AcceptProposal, Proposal
  <2>2. proposals[i].status # "accepted"
    BY <1>3 DEF AcceptProposal
  <2>3. \A r \in DOMAIN revisions : revisions[r].proposal # i
    BY <2>2
  <2>4. /\ DOMAIN revisions' = DOMAIN revisions \cup {Len(revisions) + 1}
        /\ Len(revisions) + 1 \notin DOMAIN revisions
        /\ \A r \in DOMAIN revisions : revisions'[r] = revisions[r]
        /\ revisions'[Len(revisions) + 1].proposal = i
    BY <1>3, AcceptAppends
  <2> QED
    BY <2>1, <2>3, <2>4
<1>4. ASSUME NEW p \in Principals, NEW i \in DOMAIN proposals, RejectProposal(p, i)
      PROVE  ProposalInv'
  <2>1. /\ DOMAIN proposals' = DOMAIN proposals
        /\ proposals'[i].status = "rejected"
        /\ \A j \in DOMAIN proposals : j # i => proposals'[j] = proposals[j]
    <3>1. DOMAIN proposals' = DOMAIN proposals
      BY <1>4, StatusUpdate DEF RejectProposal, TypeOK
    <3>2. proposals[i] \in Proposal
      BY DEF TypeOK
    <3> QED
      BY <1>4, <3>1, <3>2 DEF RejectProposal, Proposal
  <2>2. proposals[i].status # "accepted" /\ revisions' = revisions
    BY <1>4 DEF RejectProposal
  <2> QED
    BY <2>1, <2>2
<1>5. CASE MembersStep \/ LeaseStep \/ Tick \/ UNCHANGED vars
  BY <1>1, <1>5 DEF MembersStep, LeaseStep, Tick, AcquireLeases, RenewLease, ReleaseAuthorize,
                    ReleaseCommit, vars, artVars
<1>6. CASE ProposalStep
  BY <1>1, <1>2, <1>3, <1>4, <1>6 DEF ProposalStep, ReviewProposal
<1> QED
  BY <1>5, <1>6 DEF Next

\* The accepted revisions form one line that ends in the head.
THEOREM HistoryIsLinear == Spec => []LinearHistory
<1>1. Init => LinearHistory
  BY DEF Init, LinearHistory
<1> QED
  BY <1>1, TypeCorrect, LinearHistoryStep, PTL DEF Spec

\* A proposal is accepted exactly when one revision, and only one, carries it.
THEOREM AcceptedOnce == Spec => []AcceptedIffRevision
<1>1. Init => ProposalInv
  BY DEF Init, ProposalInv, AcceptedIffRevision, CarriedExist
<1>2. ProposalInv => AcceptedIffRevision
  BY DEF ProposalInv
<1> QED
  BY <1>1, <1>2, TypeCorrect, ProposalInvStep, PTL DEF Spec

-----------------------------------------------------------------------------
(***************************************************************************)
(* A head change happens under the author's leases.                        *)
(***************************************************************************)

\* Before the acceptance the changed cells are leased on the old head, and leases are
\* exclusive, so releasing the author's leases leaves none on them.
LEMMA HeadStep ==
  ASSUME TypeOK, OneActiveLease, LinearHistory, [Next]_vars, NEW c \in Cells,
         CellsOf(head)'[c] # CellsOf(head)[c]
  PROVE  /\ \E l \in ActiveLeases : lease[l].cell = c /\ lease[l].base = head
         /\ \A l \in ActiveLeases' : lease'[l].cell # c
<1>1. PICK p \in Principals, i \in DOMAIN proposals, expected \in Bases :
          AcceptProposal(p, i, expected)
  <2>1. CASE UNCHANGED <<revisions, head>>
    BY <2>1 DEF CellsOf
  <2> QED
    BY <2>1, OnlyAcceptancesAdvance
<1>2. CellsOf(head)' = proposals[i].cells
  BY <1>1, AcceptAppends DEF CellsOf, TypeOK
<1>3. c \in Delta(proposals[i].base, proposals[i].cells) /\ proposals[i].base = head
  BY <1>1, <1>2 DEF AcceptProposal, Delta
<1>4. PICK l \in ActiveLeases : /\ lease[l].cell = c
                               /\ lease[l].holder = proposals[i].author
                               /\ lease[l].base = head
  BY <1>1, <1>3 DEF AcceptProposal, Covered
<1>5. ASSUME NEW m \in ActiveLeases', lease'[m].cell = c PROVE FALSE
  <2>1. m \in DOMAIN lease /\ now' = now
    BY <1>1 DEF AcceptProposal, ActiveLeases
  <2>2. ~lease'[m].released /\ lease'[m].expires > now
    BY <2>1 DEF ActiveLeases, Active
  <2>3. lease[m] \in Lease
    BY <2>1 DEF TypeOK
  <2>4. CASE /\ lease[m].cell \in Delta(proposals[i].base, proposals[i].cells)
             /\ lease[m].holder = proposals[i].author
    <3>1. lease'[m] = [lease[m] EXCEPT !.released = TRUE]
      BY <1>1, <2>1, <2>4 DEF AcceptProposal
    <3> QED
      BY <2>2, <2>3, <3>1 DEF Lease
  <2>5. CASE ~(/\ lease[m].cell \in Delta(proposals[i].base, proposals[i].cells)
               /\ lease[m].holder = proposals[i].author)
    <3>1. lease'[m] = lease[m]
      BY <1>1, <2>1, <2>5 DEF AcceptProposal
    <3>2. m \in ActiveLeases /\ lease[m].cell = c
      BY <1>5, <2>1, <2>2, <3>1 DEF ActiveLeases, Active
    <3>3. m = l
      BY <1>4, <3>2 DEF OneActiveLease
    <3> QED
      BY <1>3, <1>4, <2>5, <3>3
  <2> QED
    BY <2>4, <2>5
<1> QED
  BY <1>4, <1>5

\* Nobody's accepted work is overwritten without an exclusive lease on it, and no lease
\* outlives the acceptance that used it up.
THEOREM HeadChangesAreLeased == Spec => HeadChangesUnderLease
<1>1. TypeOK /\ OneActiveLease /\ LinearHistory /\ [Next]_vars
        => [\A c \in Cells : CellsOf(head)'[c] # CellsOf(head)[c] =>
               /\ \E l \in ActiveLeases : lease[l].cell = c /\ lease[l].base = head
               /\ \A l \in ActiveLeases' : lease'[l].cell # c]_vars
  BY HeadStep
<1> QED
  BY <1>1, TypeCorrect, LeasesAreExclusive, HistoryIsLinear, PTL DEF Spec, HeadChangesUnderLease

-----------------------------------------------------------------------------
(***************************************************************************)
(* The art authority implements ArtHistory.                                *)
(***************************************************************************)
Accepted == [r \in DOMAIN revisions |-> revisions[r].cells]

\* The refinement mapping is a sequence of states as long as the revisions table.
LEMMA AcceptedType ==
  ASSUME TypeOK PROVE Accepted \in Seq(States) /\ Len(Accepted) = Len(revisions)
<1>1. DOMAIN revisions = 1..Len(revisions) /\ Len(revisions) \in Nat
  BY DEF TypeOK
<1>2. ASSUME NEW r \in DOMAIN revisions PROVE revisions[r].cells \in States
  <2>1. revisions[r] \in Revision
    BY DEF TypeOK
  <2> QED
    BY <2>1 DEF Revision
<1> QED
  BY <1>1, <1>2 DEF Accepted

\* The head's cells are the latest accepted state.
LEMMA LatestIsHead ==
  ASSUME TypeOK, LinearHistory PROVE CellsOf(head) = History!Latest
<1>1. CASE Len(revisions) = 0
  BY <1>1, AcceptedType DEF CellsOf, LinearHistory, History!Latest, Accepted, Nothing,
                            History!Nothing
<1>2. CASE Len(revisions) # 0
  <2>1. Len(revisions) \in DOMAIN revisions /\ Accepted # <<>>
    BY <1>2, AcceptedType DEF TypeOK
  <2> QED
    BY <1>2, <2>1, AcceptedType DEF CellsOf, LinearHistory, History!Latest, Accepted
<1> QED
  BY <1>1, <1>2

\* A step of the Hub is an acceptance of the abstract history or leaves it alone.
LEMMA RefinementStep ==
  TypeOK /\ LinearHistory /\ [Next]_vars => [History!Next]_Accepted
<1> SUFFICES ASSUME TypeOK, LinearHistory, [Next]_vars PROVE [History!Next]_Accepted
  OBVIOUS
<1>1. CASE UNCHANGED <<revisions, head>>
  BY <1>1 DEF Accepted
<1>2. ASSUME NEW p \in Principals, NEW i \in DOMAIN proposals, NEW expected \in Bases,
             AcceptProposal(p, i, expected)
      PROVE  History!Next
  <2>1. PICK state \in States : state = proposals[i].cells
    <3>1. proposals[i] \in Proposal
      BY DEF TypeOK
    <3> QED
      BY <3>1 DEF Proposal
  <2>2. ValidManifest(head, state)
    BY <1>2, <2>1 DEF AcceptProposal
  <2>3. state # CellsOf(head)
    BY <2>2 DEF ValidManifest, Delta
  <2>4. \A c \in Cells : CellsOf(head)[c] # Absent => state[c] # Absent
    BY <2>2 DEF ValidManifest
  <2>5. Accepted' = Append(Accepted, state)
    <3> DEFINE n == Len(revisions)
    <3>1. n \in Nat /\ DOMAIN revisions = 1..n /\ DOMAIN revisions' = 1..(n + 1)
      BY <1>2, AcceptAppends DEF TypeOK
    <3>2. Accepted' = [r \in 1..(n + 1) |-> revisions'[r].cells]
      BY <3>1 DEF Accepted
    <3>3. Append(Accepted, state) = [r \in 1..(n + 1) |-> IF r = n + 1 THEN state ELSE Accepted[r]]
      BY <2>1, <3>1, AcceptedType
    <3>4. ASSUME NEW r \in 1..(n + 1)
          PROVE  revisions'[r].cells = IF r = n + 1 THEN state ELSE Accepted[r]
      BY <1>2, <2>1, <3>1, AcceptAppends DEF Accepted
    <3> QED
      BY <3>2, <3>3, <3>4
  <2>6. state \in History!States
    BY <2>1 DEF States, History!States
  <2>7. History!Accept(state)
    BY <2>3, <2>4, <2>5, LatestIsHead DEF History!Accept, Accepted
  <2> QED
    BY <2>6, <2>7 DEF History!Next
<1> QED
  BY <1>1, <1>2, OnlyAcceptancesAdvance

\* The content of a channel is an append-only line of states, each built on the one before.
THEOREM ArtImplementsHistory == Spec => ImplementsArtHistory
<1>1. Init => History!Init
  BY DEF Init, History!Init
<1>2. TypeOK /\ LinearHistory /\ [Next]_vars
        => [History!Next]_([r \in DOMAIN revisions |-> revisions[r].cells])
  BY RefinementStep DEF Accepted
<1> QED
  BY <1>1, <1>2, TypeCorrect, HistoryIsLinear, PTL DEF Spec, ImplementsArtHistory, History!Spec
=============================================================================
