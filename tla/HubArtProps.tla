---------------------------- MODULE HubArtProps ----------------------------
(***************************************************************************)
(* What the Hub's art authority must guarantee.                            *)
(***************************************************************************)
EXTENDS HubArt

TypeOK ==
    /\ MembersTypeOK
    /\ DOMAIN lease \subseteq LeaseIds
    /\ lease \in [DOMAIN lease -> Lease]
    /\ proposals \in Seq(Proposal)
    /\ reviews \subseteq Review
    /\ revisions \in Seq(Revision)
    /\ head \in Nat
    /\ releasing \subseteq Release
    /\ now \in Nat

\* At most one lease is active on a cell, whatever the interleaving of acquisitions,
\* renewals, expiries and releases (the conflict check of acquire_lease_batch and the
\* expiry test in renew_lease's WHERE clause, hub.rs:2496).
OneActiveLease ==
    \A l, m \in ActiveLeases : lease[l].cell = lease[m].cell => l = m

\* The active-lease quota is never exceeded: only an acquisition makes a lease active.
LeaseQuota == Cardinality(ActiveLeases) <= MaxActiveLeases

\* The accepted revisions form one line that ends in the head: no fork, no gap, even
\* when several proposals on the same base race to be accepted.
LinearHistory ==
    /\ head = Len(revisions)
    /\ \A i \in DOMAIN revisions : revisions[i].parent = i - 1

\* A proposal is accepted exactly when one revision carries it, and only one ever does
\* (art_revisions.proposal_id is UNIQUE; accept and reject race on status = 'open').
AcceptedIffRevision ==
    /\ \A i \in DOMAIN proposals :
          proposals[i].status = "accepted" <=> \E r \in DOMAIN revisions : revisions[r].proposal = i
    /\ \A r, q \in DOMAIN revisions : revisions[r].proposal = revisions[q].proposal => r = q

\* A head change touches only cells that were under an active lease of one author, based
\* on the old head, and it leaves those cells without an active lease: nobody else's work
\* is overwritten and a stale lease does not outlive the acceptance it was taken for.
HeadChangesUnderLease ==
    [][\A c \in Cells : CellsOf(head)'[c] # CellsOf(head)[c] =>
          /\ \E l \in ActiveLeases : lease[l].cell = c /\ lease[l].base = head
          /\ \A l \in ActiveLeases' : lease'[l].cell # c]_vars

\* The channel's content is an append-only line of states (ArtHistory).
History == INSTANCE ArtHistory WITH history <- [r \in DOMAIN revisions |-> revisions[r].cells]
ImplementsArtHistory == History!Spec
=============================================================================
