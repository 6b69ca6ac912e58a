------------------------------- MODULE HubArt -------------------------------
(***************************************************************************)
(* The Hub's art authority for one channel of one project: acceptance      *)
(* leases on cells, proposals, reviews and the accepted head, which is     *)
(* advanced by compare-and-swap.                                           *)
(*                                                                         *)
(* Row ids are time-ordered UUIDs: proposals and revisions are sequences   *)
(* and an id is a position in its table, 0 standing for NULL.  A cell's    *)
(* content hash is a member of Contents; every content is taken as already *)
(* uploaded and verified (HubObjects models the upload).  The manifest     *)
(* object of a proposal is its function from cells to contents.            *)
(***************************************************************************)
EXTENDS HubMembers, Sequences

CONSTANTS Sessions,        \* x-neuman-session-id values
          Cells,           \* cell ids = lease resource ids
          Contents,        \* content hashes of cell snapshots
          Absent,          \* a cell a state does not contain
          LeaseIds,        \* ids new_id("lck") may return
          LeaseDuration,   \* LEASE_DURATION_MS
          MaxActiveLeases, \* Quotas::max_active_leases
          MaxTime,         \* bound on the clock
          MaxProposals,    \* bound on the proposals table
          MaxRenewals,     \* bound on renewal counters
          MaxReleases,     \* bound on release requests in flight
          MaxReviews       \* bound on the reviews table

VARIABLES lease,      \* leases table
          proposals,  \* art_proposals table
          reviews,    \* art_reviews table
          revisions,  \* art_revisions table
          head,       \* art_channels.head_revision_id
          releasing,  \* release_lease calls between authorization and transaction
          now         \* now_ms()

artVars == <<lease, proposals, reviews, revisions, head, releasing, now>>
vars == <<memberVars, artVars>>

States == [Cells -> Contents \cup {Absent}]
Verdicts == {"approve", "request_changes", "comment"}

Lease == [released: BOOLEAN, cell: Cells, base: Nat, holder: Principals,
          session: Sessions, counter: Nat, expires: Nat]
Proposal == [status: {"open", "accepted", "rejected"}, base: Nat, cells: States,
             author: Principals]
Revision == [parent: Nat, cells: States, proposal: Nat, by: Principals]
Review == [proposal: Nat, principal: Principals, verdict: Verdicts]
Release == [principal: Principals, session: Sessions, lease: LeaseIds, force: BOOLEAN]

ASSUME ArtAssumption ==
    /\ Absent \notin Contents
    /\ IsFiniteSet(LeaseIds)
    /\ LeaseDuration \in Nat /\ MaxActiveLeases \in Nat /\ MaxTime \in Nat
    /\ MaxProposals \in Nat /\ MaxRenewals \in Nat /\ MaxReleases \in Nat
    /\ MaxReviews \in Nat

-----------------------------------------------------------------------------
\* released_at_ms IS NULL AND expires_at_ms > now
Active(l) == ~lease[l].released /\ lease[l].expires > now
ActiveLeases == {l \in DOMAIN lease : Active(l)}

Nothing == [c \in Cells |-> Absent]
CellsOf(r) == IF r = 0 THEN Nothing ELSE revisions[r].cells

\* derived_changed of validate_canonical_art_proposal
Delta(base, state) == {c \in Cells : CellsOf(base)[c] # state[c]}

\* Mutant: a manifest may drop cells of its base.
ManifestWithDeletions(base, state) == base = head /\ state # Nothing /\ Delta(base, state) # {}

\* The part of validate_canonical_art_proposal that depends on the state: the
\* manifest is about the current head, has cells, deletes none and changes one.
ValidManifest(base, state) ==
    /\ base = head
    /\ state # Nothing
    /\ \A c \in Cells : CellsOf(base)[c] # Absent => state[c] # Absent
    /\ Delta(base, state) # {}

-----------------------------------------------------------------------------
(***************************************************************************)
(* Leases                                                                  *)
(***************************************************************************)

\* acquire_lease_batch (and acquire_lease, a batch of one): the cells in the range of
\* placed, each under a fresh lease id, or none of them.
AcquireLeases(p, s, placed, base) ==
    /\ May(p, "ProposeArt")
    /\ DOMAIN placed \cap DOMAIN lease = {}
    /\ base = head
    /\ Cardinality(ActiveLeases) + Cardinality(DOMAIN placed) <= MaxActiveLeases
    /\ \A l \in ActiveLeases, n \in DOMAIN placed : lease[l].cell # placed[n]
    /\ lease' = [l \in DOMAIN lease \cup DOMAIN placed |->
                    IF l \in DOMAIN placed
                    THEN [released |-> FALSE, cell |-> placed[l], base |-> base, holder |-> p,
                          session |-> s, counter |-> 0, expires |-> now + LeaseDuration]
                    ELSE lease[l]]
    /\ UNCHANGED <<memberVars, proposals, reviews, revisions, head, releasing, now>>

\* Mutant: an expired lease is renewed.
RenewExpired(p, s, l, counter, base) ==
    /\ May(p, "ProposeArt")
    /\ lease[l].holder = p /\ lease[l].session = s /\ ~lease[l].released
    /\ lease[l].counter = counter /\ counter < MaxRenewals
    /\ lease' = [lease EXCEPT ![l].counter = counter + 1, ![l].base = base,
                              ![l].expires = now + LeaseDuration]
    /\ UNCHANGED <<memberVars, proposals, reviews, revisions, head, releasing, now>>

\* renew_lease: one UPDATE whose WHERE clause is the guard.  The new base is whatever
\* the caller sends; it is not compared with the head.
RenewLease(p, s, l, counter, base) ==
    /\ May(p, "ProposeArt")
    /\ l \in ActiveLeases
    /\ lease[l].holder = p /\ lease[l].session = s
    /\ lease[l].counter = counter
    /\ counter < MaxRenewals
    /\ lease' = [lease EXCEPT ![l].counter = counter + 1, ![l].base = base,
                              ![l].expires = now + LeaseDuration]
    /\ UNCHANGED <<memberVars, proposals, reviews, revisions, head, releasing, now>>

\* release_lease, first half: authorize_project in a transaction of its own.
ReleaseAuthorize(p, s, l, force) ==
    /\ May(p, "ProposeArt")
    /\ force => role[p] = "admin"
    /\ Cardinality(releasing) < MaxReleases
    /\ releasing' = releasing \cup {[principal |-> p, session |-> s, lease |-> l, force |-> force]}
    /\ UNCHANGED <<memberVars, lease, proposals, reviews, revisions, head, now>>

\* The WHERE clauses of release_lease: a forced release skips the holder check.
Releasable(r) ==
    /\ r.lease \in DOMAIN lease
    /\ ~lease[r.lease].released
    /\ r.force \/ (lease[r.lease].holder = r.principal /\ lease[r.lease].session = r.session)

\* release_lease, second half: the UPDATE, which checks no role again.
ReleaseCommit(r) ==
    /\ r \in releasing
    /\ releasing' = releasing \ {r}
    /\ lease' = IF Releasable(r) THEN [lease EXCEPT ![r.lease].released = TRUE] ELSE lease
    /\ UNCHANGED <<memberVars, proposals, reviews, revisions, head, now>>

-----------------------------------------------------------------------------
(***************************************************************************)
(* Proposals                                                               *)
(***************************************************************************)

\* create_art_proposal
CreateProposal(p, base, state) ==
    /\ May(p, "ProposeArt")
    /\ ValidManifest(base, state)
    /\ Len(proposals) < MaxProposals
    /\ proposals' = Append(proposals, [status |-> "open", base |-> base, cells |-> state,
                                       author |-> p])
    /\ UNCHANGED <<memberVars, lease, reviews, revisions, head, releasing, now>>

\* review_art_proposal: only open proposals; nothing compares reviewer and author.
ReviewProposal(p, i, verdict) ==
    /\ May(p, "AcceptArt")
    /\ proposals[i].status = "open"
    /\ Cardinality(reviews) < MaxReviews
    /\ reviews' = reviews \cup {[proposal |-> i, principal |-> p, verdict |-> verdict]}
    /\ UNCHANGED <<memberVars, lease, proposals, revisions, head, releasing, now>>

\* Mutant: a lease taken for another base covers the cell too.
CoveredOnAnyBase(i) ==
    \A c \in Delta(proposals[i].base, proposals[i].cells) :
        \E l \in ActiveLeases : lease[l].cell = c /\ lease[l].holder = proposals[i].author

\* Every changed cell has an unexpired lease of the author on the proposal's base.
Covered(i) ==
    \A c \in Delta(proposals[i].base, proposals[i].cells) :
        \E l \in ActiveLeases : /\ lease[l].cell = c
                                /\ lease[l].holder = proposals[i].author
                                /\ lease[l].base = proposals[i].base

Approved(i) == \E r \in reviews : r.proposal = i /\ r.verdict = "approve"

\* accept_art_proposal: revision row, head compare-and-swap, proposal row and the
\* author's leases on the changed cells, in one transaction.
AcceptProposal(p, i, expected) ==
    /\ May(p, "AcceptArt")
    /\ proposals[i].status = "open"
    /\ head = expected /\ head = proposals[i].base
    /\ ValidManifest(proposals[i].base, proposals[i].cells)
    /\ Covered(i)
    /\ Approved(i) \/ role[p] = "admin"
    /\ revisions' = Append(revisions, [parent |-> head, cells |-> proposals[i].cells,
                                       proposal |-> i, by |-> p])
    /\ head' = Len(revisions) + 1
    /\ proposals' = [proposals EXCEPT ![i].status = "accepted"]
    /\ lease' = [l \in DOMAIN lease |->
                    IF /\ lease[l].cell \in Delta(proposals[i].base, proposals[i].cells)
                       /\ lease[l].holder = proposals[i].author
                    THEN [lease[l] EXCEPT !.released = TRUE]
                    ELSE lease[l]]
    /\ UNCHANGED <<memberVars, reviews, releasing, now>>

\* Mutant: a proposal that is already accepted is rejected.
RejectAnyProposal(p, i) ==
    /\ May(p, "AcceptArt")
    /\ proposals' = [proposals EXCEPT ![i].status = "rejected"]
    /\ UNCHANGED <<memberVars, lease, reviews, revisions, head, releasing, now>>

\* reject_art_proposal
RejectProposal(p, i) ==
    /\ May(p, "AcceptArt")
    /\ proposals[i].status = "open"
    /\ proposals' = [proposals EXCEPT ![i].status = "rejected"]
    /\ UNCHANGED <<memberVars, lease, reviews, revisions, head, releasing, now>>

\* now_ms: the wall clock, taken not to run backwards.
Tick ==
    /\ now < MaxTime
    /\ now' = now + 1
    /\ UNCHANGED <<memberVars, lease, proposals, reviews, revisions, head, releasing>>

-----------------------------------------------------------------------------
Init ==
    /\ MembersInit
    /\ lease = [l \in {} |-> {}]
    /\ proposals = <<>> /\ revisions = <<>> /\ reviews = {} /\ releasing = {}
    /\ head = 0 /\ now = 0

\* A batch: fresh ids and the distinct cells they are for (sorted_unique).
Placements == UNION {{f \in [ids -> Cells] : \A l, m \in ids : f[l] = f[m] => l = m} :
                        ids \in SUBSET (LeaseIds \ DOMAIN lease) \ {{}}}
Bases == 0..Len(revisions)

MembersStep == MembersNext /\ UNCHANGED artVars

LeaseStep ==
    \/ \E p \in Principals, s \in Sessions, placed \in Placements, base \in Bases :
          AcquireLeases(p, s, placed, base)
    \/ \E p \in Principals, s \in Sessions, l \in DOMAIN lease, n \in 0..MaxRenewals,
          base \in Bases : RenewLease(p, s, l, n, base)
    \/ \E p \in Principals, s \in Sessions, l \in DOMAIN lease, force \in BOOLEAN :
          ReleaseAuthorize(p, s, l, force)
    \/ \E r \in releasing : ReleaseCommit(r)

ProposalStep ==
    \/ \E p \in Principals, base \in Bases, state \in States : CreateProposal(p, base, state)
    \/ \E p \in Principals, i \in DOMAIN proposals, v \in Verdicts : ReviewProposal(p, i, v)
    \/ \E p \in Principals, i \in DOMAIN proposals, expected \in Bases :
          AcceptProposal(p, i, expected)
    \/ \E p \in Principals, i \in DOMAIN proposals : RejectProposal(p, i)

Next == MembersStep \/ LeaseStep \/ ProposalStep \/ Tick

Spec == Init /\ [][Next]_vars
=============================================================================
