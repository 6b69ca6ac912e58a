----------------------------- MODULE HubObjects -----------------------------
(***************************************************************************)
(* The Hub's object store: upload negotiation, transfer and completion,    *)
(* download grants, and the maintenance that expires them.                 *)
(*                                                                         *)
(* A handler holds the connection mutex from its first query to its last   *)
(* file operation, so only a crash of the process comes between a change   *)
(* of the object directory and the commit of the transaction it belongs    *)
(* to.  Membership is HubMembers' subject: every caller here is a member   *)
(* allowed to do what it asks.  The bytes a client sends are those it      *)
(* announced (other bytes are refused and leave no trace).                 *)
(***************************************************************************)
EXTENDS Integers, Sequences, FiniteSets, FiniteSetsExt

CONSTANTS Projects,
          Hashes,         \* content hashes
          Size,           \* bytes of the content with a hash
          MaxObjectBytes, \* Quotas::max_object_bytes
          TransferTTL,    \* TRANSFER_TTL_MS
          MaxTime,        \* bound on the clock
          MaxUploads,     \* bound on the uploads table
          MaxDownloads,   \* bound on the download_transfers table
          MaxCrashes      \* bound on process crashes

ASSUME ObjectsAssumption ==
    /\ IsFiniteSet(Projects) /\ IsFiniteSet(Hashes)
    /\ Size \in [Hashes -> Nat]
    /\ {MaxObjectBytes, TransferTTL, MaxTime, MaxUploads, MaxDownloads, MaxCrashes} \subseteq Nat

VARIABLES uploads,    \* uploads table, in the order of its ids
          objects,    \* objects table: the hashes of verified objects
          refs,       \* project_objects table
          downloads,  \* download_transfers table
          tmp,        \* uploads whose file <object-dir>/tmp/<id> exists
          cas,        \* hashes whose file <object-dir>/cas/... exists
          running,    \* the process is up
          crashes,    \* crashes so far
          now         \* now_ms()

tables == <<uploads, objects, refs, downloads>>
files == <<tmp, cas>>
process == <<running, crashes>>
vars == <<tables, files, process, now>>

Upload == [project: Projects, hash: Hashes, expires: Nat,
           status: {"negotiated", "received", "completed", "expired"}]
Download == [project: Projects, hash: Hashes, expires: Nat]

-----------------------------------------------------------------------------
Uploads == DOMAIN uploads
Pending(u) == uploads[u].status \in {"negotiated", "received"}
Live(u) == uploads[u].expires > now

\* UNIQUE(project_id, expected_hash, status)
SameObject(u, v) ==
    uploads[u].project = uploads[v].project /\ uploads[u].hash = uploads[v].hash
Taken(u, status) == \E v \in Uploads \ {u} : SameObject(u, v) /\ uploads[v].status = status

UsedBytes(p) == MapThenSumSet(LAMBDA h : Size[h], {h \in Hashes : <<p, h>> \in refs})

Crash ==
    /\ running
    /\ crashes < MaxCrashes
    /\ running' = FALSE
    /\ crashes' = crashes + 1

\* Mutant: knowing the hash of somebody else's object is enough to get a reference to it.
NegotiateByHash(p, h) ==
    /\ running
    /\ IF h \in objects
       THEN refs' = refs \cup {<<p, h>>} /\ UNCHANGED uploads
       ELSE /\ Len(uploads) < MaxUploads
            /\ uploads' = Append(uploads, [project |-> p, hash |-> h, status |-> "negotiated",
                                           expires |-> now + TransferTTL])
            /\ UNCHANGED refs
    /\ UNCHANGED <<objects, downloads, files, process, now>>

\* negotiate_upload of an object the project may not read yet.  (The other answers,
\* "present" and the refusals, change nothing.)
NegotiateUpload(p, h) ==
    /\ running
    /\ <<p, h>> \notin refs
    /\ h \notin objects
    /\ UsedBytes(p) + Size[h] <= MaxObjectBytes
    /\ ~\E u \in Uploads : uploads[u].project = p /\ uploads[u].hash = h
                             /\ uploads[u].status = "negotiated"
    /\ Len(uploads) < MaxUploads
    /\ uploads' = Append(uploads, [project |-> p, hash |-> h, status |-> "negotiated",
                                   expires |-> now + TransferTTL])
    /\ UNCHANGED <<objects, refs, downloads, files, process, now>>

\* receive_upload: the verified bytes are in place before the row is updated; the update
\* fails, and is rolled back, when another upload of the object waits for its completion.
ReceiveUpload(u) ==
    /\ running
    /\ uploads[u].status = "negotiated" /\ Live(u)
    /\ tmp' = tmp \cup {u}
    /\ uploads' = IF Taken(u, "received") THEN uploads
                                          ELSE [uploads EXCEPT ![u].status = "received"]
    /\ UNCHANGED <<objects, refs, downloads, cas, process, now>>

\* receive_upload cut off between the rename and the commit.
ReceiveCrash(u) ==
    /\ Crash
    /\ uploads[u].status = "negotiated" /\ Live(u)
    /\ tmp' = tmp \cup {u}
    /\ UNCHANGED <<tables, cas, now>>

\* The files after complete_upload: renamed into the store, or discarded if already there.
Stored(u) ==
    /\ cas' = cas \cup {uploads[u].hash}
    /\ tmp' = tmp \ {u}

\* What complete_upload asks of the upload; without its file the read fails.
Completable(u) == uploads[u].status = "received" /\ Live(u) /\ u \in tmp

\* complete_upload: a second reference of the project to the object violates the primary
\* key, and then only the files have changed.
CompleteUpload(u) ==
    /\ running
    /\ Completable(u)
    /\ Stored(u)
    /\ IF <<uploads[u].project, uploads[u].hash>> \in refs
       THEN UNCHANGED <<objects, refs, uploads>>
       ELSE /\ objects' = objects \cup {uploads[u].hash}
            /\ refs' = refs \cup {<<uploads[u].project, uploads[u].hash>>}
            /\ uploads' = [uploads EXCEPT ![u].status = "completed"]
    /\ UNCHANGED <<downloads, process, now>>

\* Mutant: the transaction is committed before the file is moved.
CompleteEarlyCommit(u) ==
    /\ Crash
    /\ Completable(u)
    /\ objects' = objects \cup {uploads[u].hash}
    /\ refs' = refs \cup {<<uploads[u].project, uploads[u].hash>>}
    /\ uploads' = [uploads EXCEPT ![u].status = "completed"]
    /\ UNCHANGED <<downloads, files, now>>

\* complete_upload cut off between the rename and the commit.
CompleteCrash(u) ==
    /\ Crash
    /\ Completable(u)
    /\ Stored(u)
    /\ UNCHANGED <<tables, now>>

\* negotiate_download
NegotiateDownload(p, h) ==
    /\ running
    /\ <<p, h>> \in refs
    /\ Cardinality(downloads) < MaxDownloads
    /\ downloads' = downloads \cup {[project |-> p, hash |-> h, expires |-> now + TransferTTL]}
    /\ UNCHANGED <<uploads, objects, refs, files, process, now>>

\* What read_download answers for a grant: the bytes, or an error when it has expired.
Readable(d) == d.expires > now /\ <<d.project, d.hash>> \in refs

-----------------------------------------------------------------------------
(***************************************************************************)
(* Maintenance: every minute, and once before the process starts serving.  *)
(***************************************************************************)

\* Mutant: uploads whose bytes have arrived are not looked at.
NegotiatedOnly == {u \in Uploads : uploads[u].status = "negotiated" /\ ~Live(u)}
\* The rows the sweep turns to 'expired'.
Sweepable == {u \in Uploads : Pending(u) /\ ~Live(u)}

\* One UPDATE for all of them: it fails when two rows of one object would be 'expired'.
Poisoned ==
    \E u \in Sweepable : Taken(u, "expired") \/ \E v \in Sweepable \ {u} : SameObject(u, v)

\* The transaction of maintenance; a failure rolls back all of it.
SweepTables ==
    /\ ~Poisoned
    /\ uploads' = [u \in Uploads |-> IF u \in Sweepable THEN [uploads[u] EXCEPT !.status = "expired"]
                                                        ELSE uploads[u]]
    /\ downloads' = {d \in downloads : d.expires > now}
    /\ UNCHANGED <<objects, refs>>

\* maintenance, files included
Sweep ==
    /\ SweepTables
    /\ tmp' = tmp \ Sweepable
    /\ UNCHANGED <<cas, now>>

Maintain == running /\ Sweep /\ UNCHANGED process

\* maintenance cut off between the commit and the removal of the files.
MaintainCrash == Crash /\ SweepTables /\ UNCHANGED <<files, now>>

\* run_from_env: the process serves only after a maintenance that succeeded.
Start == ~running /\ Sweep /\ running' = TRUE /\ UNCHANGED crashes

IdleCrash == Crash /\ UNCHANGED <<tables, files, now>>

Tick ==
    /\ now < MaxTime
    /\ now' = now + 1
    /\ UNCHANGED <<tables, files, process>>

-----------------------------------------------------------------------------
Init ==
    /\ uploads = <<>> /\ objects = {} /\ refs = {} /\ downloads = {}
    /\ tmp = {} /\ cas = {}
    /\ running = TRUE /\ crashes = 0 /\ now = 0

Next ==
    \/ \E p \in Projects, h \in Hashes : NegotiateUpload(p, h) \/ NegotiateDownload(p, h)
    \/ \E u \in Uploads : ReceiveUpload(u) \/ ReceiveCrash(u) \/ CompleteUpload(u)
                           \/ CompleteCrash(u)
    \/ Maintain \/ MaintainCrash \/ Start \/ IdleCrash
    \/ Tick

Spec == Init /\ [][Next]_vars

-----------------------------------------------------------------------------
TypeOK ==
    /\ uploads \in Seq(Upload)
    /\ objects \subseteq Hashes /\ cas \subseteq Hashes
    /\ refs \subseteq Projects \X Hashes
    /\ downloads \subseteq Download
    /\ tmp \subseteq Uploads
    /\ running \in BOOLEAN
    /\ crashes \in Nat /\ now \in Nat

\* Every object row and every reference of a project has its bytes in the store, whatever
\* crashes between complete_upload's rename and its commit (hub.rs:3003-3060).
AuthorizedBytesExist ==
    /\ objects \subseteq cas
    /\ \A r \in refs : r[2] \in objects

\* A project has a reference exactly to the objects it has transferred itself: knowing a
\* hash, or racing with another project's upload of the same bytes, gives nothing
\* (hub.rs:2790).
RefIffTransferred ==
    \A p \in Projects, h \in Hashes :
        <<p, h>> \in refs <=>
           \E u \in Uploads : /\ uploads[u].project = p /\ uploads[u].hash = h
                             /\ uploads[u].status = "completed"

\* The uploads of an object keep different statuses, as the table demands: complete_upload sets
\* its row to 'completed' without looking at the others, and it is the reference's primary key
\* that refuses a second one before (hub.rs:3043-3057; schemas/hub.sql:149).
RowsUnique ==
    \A u, v \in Uploads : u # v /\ SameObject(u, v) => uploads[u].status # uploads[v].status

Overdue(u) == u \in Uploads /\ Pending(u) /\ ~Live(u)

\* Unless maintenance is poisoned, an upload that ran out of time is marked as expired.
TransfersExpireUnlessPoisoned ==
    []~Poisoned => \A u \in 1..MaxUploads : Overdue(u) ~> ~Overdue(u)
=============================================================================
