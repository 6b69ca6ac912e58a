----------------------------- MODULE HubTransfer -----------------------------
(***************************************************************************)
(* The desktop adapter's ensure_object against the Hub's object store: one *)
(* publisher per project negotiates, puts and completes each object, every *)
(* HTTP request may lose its answer, a failed publication is tried again   *)
(* from the start, and the negotiation's idempotency key depends on the    *)
(* content hash alone.                                                     *)
(***************************************************************************)
EXTENDS HubObjects

CONSTANTS RecordTTL,   \* IDEMPOTENCY_TTL_MS
          MaxLost      \* bound on the answers that are lost

ASSUME TransferAssumption == {RecordTTL, MaxLost} \subseteq Nat

VARIABLES client,      \* ensure_object of <<p, h>>: where it stands, and its upload
          recorded,    \* idempotency record of ("negotiate", h): the upload it answers
          recordedAt,
          lost

transferVars == <<client, recorded, recordedAt, lost>>
allVars == <<vars, transferVars>>

Jobs == Projects \X Hashes
Step(j, at, u) == client' = [client EXCEPT ![j] = [at |-> at, upload |-> u]]
Lose == lost < MaxLost /\ lost' = lost + 1

\* The answer reaches the client, or it is lost and the client is where it was.
Reached(j, at, u) ==
    \/ Step(j, at, u) /\ UNCHANGED lost
    \/ Lose /\ UNCHANGED client

-----------------------------------------------------------------------------
\* Mutant: any recorded negotiation is taken for an object that is present.
ReplayAsPresent(j) ==
    /\ client[j].at = "idle" /\ running
    /\ recorded[j] # 0
    /\ Step(j, "done", recorded[j])
    /\ UNCHANGED <<vars, recorded, recordedAt, lost>>

\* The negotiation repeats the recorded answer, whatever became of the upload.
NegotiateReplay(j) ==
    /\ client[j].at = "idle" /\ running
    /\ recorded[j] # 0
    /\ Step(j, "negotiated", recorded[j])
    /\ UNCHANGED <<vars, recorded, recordedAt, lost>>

\* The object is there already.  (Its record answers "present" as well.)
NegotiatePresent(j) ==
    /\ client[j].at = "idle" /\ running
    /\ recorded[j] = 0
    /\ j \in refs
    /\ Reached(j, "done", 0)
    /\ UNCHANGED <<vars, recorded, recordedAt>>

\* A negotiation the Hub has no record of.
NegotiateNew(j) ==
    /\ client[j].at = "idle"
    /\ recorded[j] = 0
    /\ NegotiateUpload(j[1], j[2])
    /\ recorded' = [recorded EXCEPT ![j] = Len(uploads')]
    /\ recordedAt' = [recordedAt EXCEPT ![j] = now]
    /\ Reached(j, "negotiated", Len(uploads'))

\* put_transfer: the answer comes or is lost, or the Hub dies on the way.
Put(j) ==
    /\ client[j].at = "negotiated"
    /\ ReceiveUpload(client[j].upload)
    /\ uploads'[client[j].upload].status = "received"
    /\ Reached(j, "sent", client[j].upload)
    /\ UNCHANGED <<recorded, recordedAt>>

PutCrash(j) ==
    /\ client[j].at = "negotiated"
    /\ ReceiveCrash(client[j].upload)
    /\ UNCHANGED transferVars

\* 410 Gone: the upload is not waiting for bytes; publish_capture fails.
PutRefused(j) ==
    /\ client[j].at = "negotiated" /\ running
    /\ ~(uploads[client[j].upload].status = "negotiated" /\ Live(client[j].upload))
    /\ Step(j, "refused", client[j].upload)
    /\ UNCHANGED <<vars, recorded, recordedAt, lost>>

\* complete_upload, asked for with a key that depends on the upload alone.
Complete(j) ==
    /\ client[j].at = "sent"
    /\ CompleteUpload(client[j].upload)
    /\ uploads'[client[j].upload].status = "completed"
    /\ Reached(j, "done", client[j].upload)
    /\ UNCHANGED <<recorded, recordedAt>>

CompleteCut(j) ==
    /\ client[j].at = "sent"
    /\ CompleteCrash(client[j].upload)
    /\ UNCHANGED transferVars

\* A repeated completion is answered from its idempotency record.
CompleteReplay(j) ==
    /\ client[j].at = "sent" /\ running
    /\ uploads[client[j].upload].status = "completed"
    /\ Step(j, "done", client[j].upload)
    /\ UNCHANGED <<vars, recorded, recordedAt, lost>>

\* The upload has expired in the meantime.
CompleteRefused(j) ==
    /\ client[j].at = "sent" /\ running
    /\ uploads[client[j].upload].status # "completed"
    /\ ~Completable(client[j].upload)
    /\ Step(j, "refused", client[j].upload)
    /\ UNCHANGED <<vars, recorded, recordedAt, lost>>

\* The publication is given up (also after three lost answers) and begun again.
PublishAgain(j) ==
    /\ client[j].at # "idle"
    /\ Step(j, "idle", 0)
    /\ UNCHANGED <<vars, recorded, recordedAt, lost>>

\* maintenance, also when it is cut off after its commit or precedes serving, with the
\* records it deletes (hub.rs:4135-4138).
MaintainAll ==
    /\ Maintain \/ MaintainCrash \/ Start
    /\ recorded' = [j \in Jobs |-> IF recordedAt[j] + RecordTTL <= now THEN 0 ELSE recorded[j]]
    /\ UNCHANGED <<client, recordedAt, lost>>

\* What the publishers have no part in.
Elsewhere ==
    \/ IdleCrash
    \/ \E p \in Projects, h \in Hashes : NegotiateDownload(p, h)
    \/ Tick

TransferInit ==
    /\ Init
    /\ client = [j \in Jobs |-> [at |-> "idle", upload |-> 0]]
    /\ recorded = [j \in Jobs |-> 0] /\ recordedAt = [j \in Jobs |-> 0]
    /\ lost = 0

TransferNext ==
    \/ \E j \in Jobs :
         \/ NegotiateReplay(j) \/ NegotiatePresent(j) \/ NegotiateNew(j)
         \/ Put(j) \/ PutCrash(j) \/ PutRefused(j)
         \/ Complete(j) \/ CompleteCut(j) \/ CompleteReplay(j) \/ CompleteRefused(j)
         \/ PublishAgain(j)
    \/ MaintainAll
    \/ Elsewhere /\ UNCHANGED transferVars

TransferSpec == TransferInit /\ [][TransferNext]_allVars

\* The maintenance task runs every minute, and an operator restarts a process that died.
TransferFairSpec == TransferSpec /\ WF_allVars(MaintainAll /\ running')

-----------------------------------------------------------------------------
\* When ensure_object returns, the project may read the object, however many answers were
\* lost and whoever else was uploading the same bytes (hub_desktop.rs:699-765).
DoneMeansAuthorized == \A j \in Jobs : client[j].at = "done" => j \in refs
=============================================================================
