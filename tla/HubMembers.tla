----------------------------- MODULE HubMembers -----------------------------
(***************************************************************************)
(* Projects and memberships of the Hub: who may do what in one project.    *)
(*                                                                         *)
(* Every handler runs in one immediate SQLite transaction under the        *)
(* connection mutex (SqliteRepository::conn), so a handler is one atomic   *)
(* action.  The authorization made before the transaction is repeated      *)
(* inside it, so only the inner one decides; a refused request changes     *)
(* nothing and is a stutter.  Idempotency records and the audit/outbox     *)
(* rows every handler also writes are the subject of HubIdempotency and    *)
(* HubOutbox: they never make a handler do more than is written here.      *)
(***************************************************************************)
EXTENDS Integers, FiniteSets

CONSTANTS Principals,     \* rows of the principals table
          MaxMembers,     \* Quotas::max_members
          AssignableRoles,\* the roles upsert_member is asked to give
          MaxVersion      \* bound on the project's row version

VARIABLES role,           \* project_memberships: principal -> role
          archived,       \* projects.archived_at_ms IS NOT NULL
          version         \* projects.version

memberVars == <<role, archived, version>>

Roles == {"viewer", "artist", "developer", "approver", "release_manager", "admin"}
NoRole == "none"          \* no membership row

ASSUME MembersAssumption ==
    /\ IsFiniteSet(Principals)
    /\ MaxMembers \in Nat \ {0}
    /\ AssignableRoles \subseteq Roles
    /\ MaxVersion \in Nat

(***************************************************************************)
(* Role::allows: the roles that carry each permission.                     *)
(***************************************************************************)
Allowed(permission) ==
    CASE permission = "Read"           -> Roles
      [] permission = "ProposeArt"     -> {"artist", "developer", "admin"}
      [] permission = "AcceptArt"      -> {"approver", "admin"}
      [] permission = "Build"          -> {"developer", "admin"}
      [] permission = "ApproveRelease" -> {"approver", "admin"}
      [] permission = "ExecuteRelease" -> {"release_manager", "admin"}
      [] permission = "ManageMembers"  -> {"admin"}

\* membership_role: a member of a project that is not archived, with the right role.
May(p, permission) == ~archived /\ role[p] \in Allowed(permission)

Members == {p \in Principals : role[p] # NoRole}
Admins == {p \in Principals : role[p] = "admin"}

-----------------------------------------------------------------------------
\* create_project: the creator becomes the administrator of a fresh project.
MembersInit ==
    /\ \E p \in Principals : role = [q \in Principals |-> IF q = p THEN "admin" ELSE NoRole]
    /\ archived = FALSE
    /\ version = 1

\* upsert_member: the quota is checked only for a principal who is not yet a member.
UpsertMember(p, q, r) ==
    /\ May(p, "ManageMembers")
    /\ role[q] = NoRole => Cardinality(Members) < MaxMembers
    /\ role' = [role EXCEPT ![q] = r]
    /\ UNCHANGED <<archived, version>>

\* remove_member: an administrator is removed only while another one remains.
RemoveMember(p, q) ==
    /\ May(p, "ManageMembers")
    /\ role[q] # NoRole
    /\ role[q] = "admin" => Cardinality(Admins) > 1
    /\ role' = [role EXCEPT ![q] = NoRole]
    /\ UNCHANGED <<archived, version>>

\* patch_project: optimistic update guarded by the version the caller read.
PatchProject(p, expected) ==
    /\ May(p, "ManageMembers")
    /\ version = expected
    /\ version < MaxVersion
    /\ version' = version + 1
    /\ UNCHANGED <<role, archived>>

\* archive_project
ArchiveProject(p) ==
    /\ May(p, "ManageMembers")
    /\ archived' = TRUE
    /\ version' = version + 1
    /\ UNCHANGED role

MembersNext ==
    \/ \E p, q \in Principals, r \in AssignableRoles : UpsertMember(p, q, r)
    \/ \E p, q \in Principals : RemoveMember(p, q)
    \/ \E p \in Principals, v \in 1..MaxVersion : PatchProject(p, v)
    \/ \E p \in Principals : ArchiveProject(p)

MembersSpec == MembersInit /\ [][MembersNext]_memberVars

-----------------------------------------------------------------------------
MembersTypeOK ==
    /\ role \in [Principals -> Roles \cup {NoRole}]
    /\ archived \in BOOLEAN
    /\ version \in Nat

\* The membership quota holds in every state: promotions and demotions of members
\* (upsert_member's ON CONFLICT branch) are free, new rows are not (hub.rs:985).
MemberQuota == Cardinality(Members) <= MaxMembers

\* A step that removes a membership row leaves the project with an administrator
\* (remove_member's HUB_LAST_ADMIN check counts the row it is about to delete).
RemovalKeepsAnAdmin ==
    [][\A q \in Principals :
         role[q] # NoRole /\ role'[q] = NoRole => \E a \in Principals : role'[a] = "admin"]_memberVars
=============================================================================
