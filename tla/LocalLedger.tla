---------------------------- MODULE LocalLedger ----------------------------
(***************************************************************************)
(* The local ledger and its content store: the revisions of one art        *)
(* channel, made of Studio captures, of revisions imported from the Hub    *)
(* and of captures of the command line.  The workers are threads of the    *)
(* desktop and processes of the CLI.  Reads and object writes come before  *)
(* an immediate transaction that checks again what it relies on; a worker  *)
(* may be killed between any two steps.                                    *)
(***************************************************************************)
EXTENDS Integers, Sequences, FiniteSets, FiniteSetsExt

CONSTANTS Workers,
          Cells,
          Contents,
          Absent,
          Transfers,     \* verified Studio transfers
          Bytes,         \* the content of a transfer
          Remotes,       \* Hub revisions are 1..Remotes
          RemoteState,   \* the state a Hub revision accepts; its base is the previous one's
          MaxRevisions,  \* bound on the revisions
          MaxCli         \* bound on those of the command line

States == [Cells -> Contents \cup {Absent}]
Nothing == [c \in Cells |-> Absent]

ASSUME LedgerAssumption ==
    /\ Absent \notin Contents
    /\ Bytes \in [Transfers -> Contents]
    /\ {Remotes, MaxRevisions, MaxCli} \subseteq Nat
    /\ RemoteState \in [1..Remotes -> States]

VARIABLES revisions,   \* art_revisions, by insertion
          head,        \* art_channel_heads, 0 = no row
          cas,         \* contents in the store
          quarantine,  \* transfers whose verified file is still there
          ingested,    \* studio_transfers
          captured,    \* studio_capture_receipts: the revision of a transfer, 0 = none
          imported,    \* hub_revision_receipts: the local revision of a Hub revision, 0 = none
          op           \* what each worker is doing

transfersVars == <<quarantine, ingested, captured>>
ledgerVars == <<revisions, head, cas, transfersVars, imported, op>>

Ids == DOMAIN revisions
Accepted == {i \in Ids : revisions[i].accepted}
StateOf(i) == IF i = 0 THEN Nothing ELSE revisions[i].state
BytesOf(state) == {state[c] : c \in Cells} \ {Absent}

\* accepted_art_head: the head, or the latest accepted revision if there is no head row.
AcceptedHead == IF head # 0 THEN head ELSE Max({0} \cup Accepted)

Idle == [at |-> "idle"]
Turn(w, next) == op' = [op EXCEPT ![w] = next]

-----------------------------------------------------------------------------
\* Mutant: the quarantine file is consumed before the receipt is there.
IngestMoving(w, t) ==
    /\ op[w] = Idle /\ t \notin ingested /\ t \in quarantine
    /\ cas' = cas \cup {Bytes[t]}
    /\ quarantine' = quarantine \ {t}
    /\ Turn(w, [at |-> "ingest", transfer |-> t])
    /\ UNCHANGED <<revisions, head, ingested, captured, imported>>

\* ingest_verified_transfer: the file's bytes go to the store, then the receipt to the
\* ledger, and then the file is removed.
Ingest(w, t) ==
    /\ op[w] = Idle /\ t \notin ingested /\ t \in quarantine
    /\ cas' = cas \cup {Bytes[t]}
    /\ Turn(w, [at |-> "ingest", transfer |-> t])
    /\ UNCHANGED <<revisions, head, transfersVars, imported>>

PutTransfer(w) ==
    /\ op[w].at = "ingest"
    /\ ingested' = ingested \cup {op[w].transfer}
    /\ Turn(w, [op[w] EXCEPT !.at = "clean"])
    /\ UNCHANGED <<revisions, head, cas, quarantine, captured, imported>>

Clean(w) ==
    /\ op[w].at = "clean"
    /\ quarantine' = quarantine \ {op[w].transfer}
    /\ Turn(w, Idle)
    /\ UNCHANGED <<revisions, head, cas, ingested, captured, imported>>

\* commit_capture reads the receipt, the transfer and the head, which the request names as
\* its base.  The channel's policy decides whether the capture is accepted or proposed.
Capture(w, t, c) ==
    /\ op[w] = Idle /\ t \in ingested /\ captured[t] = 0
    /\ \E accepted \in BOOLEAN :
         Turn(w, [at |-> "capture", transfer |-> t, base |-> AcceptedHead, accepted |-> accepted,
                  state |-> [StateOf(AcceptedHead) EXCEPT ![c] = Bytes[t]]])
    /\ UNCHANGED <<revisions, head, cas, transfersVars, imported>>

Revision(o) == [parent |-> o.base, state |-> o.state, accepted |-> o.accepted, from |-> o.at]

InsertCapture(w) ==
    /\ Len(revisions) < MaxRevisions
    /\ revisions' = Append(revisions, Revision(op[w]))
    /\ captured' = [captured EXCEPT ![op[w].transfer] = Len(revisions) + 1]
    /\ head' = IF op[w].accepted THEN Len(revisions) + 1 ELSE head
    /\ Turn(w, Idle)
    /\ UNCHANGED <<cas, quarantine, ingested, imported>>

\* Mutant: the transaction relies on the receipt read before.
CommitTwice(w) ==
    /\ op[w].at = "capture"
    /\ op[w].accepted => AcceptedHead = op[w].base
    /\ InsertCapture(w)

\* Mutant: the transaction relies on the head read before.
CommitOnStale(w) ==
    /\ op[w].at = "capture"
    /\ captured[op[w].transfer] = 0
    /\ InsertCapture(w)

\* commit_studio_capture.  Only an accepted revision is compared with the head.
Commit(w) ==
    /\ op[w].at = "capture"
    /\ captured[op[w].transfer] = 0
    /\ op[w].accepted => AcceptedHead = op[w].base
    /\ InsertCapture(w)

\* Mutant: only the changed cells are fetched, whatever the revision is put on.
ImportChanges(w, n) ==
    /\ op[w] = Idle /\ imported[n] = 0
    /\ LET base == IF n = 1 THEN Nothing ELSE RemoteState[n - 1]
           fetched == {c \in Cells : RemoteState[n][c] # base[c]}
       IN  cas' = cas \cup ({RemoteState[n][c] : c \in fetched} \ {Absent})
    /\ Turn(w, [at |-> "import", remote |-> n, base |-> AcceptedHead, accepted |-> TRUE,
                state |-> RemoteState[n]])
    /\ UNCHANGED <<revisions, head, transfersVars, imported>>

\* import_hub_accepted_revision up to its transaction: on the state the Hub revision was
\* made on, the changed cells are stored; on any other, or in a recovery, all of them.
Import(w, n) ==
    /\ op[w] = Idle /\ imported[n] = 0
    /\ LET base == IF n = 1 THEN Nothing ELSE RemoteState[n - 1]
       IN  \E recovery \in BOOLEAN :
             LET fetched == IF recovery \/ StateOf(AcceptedHead) # base THEN Cells
                            ELSE {c \in Cells : RemoteState[n][c] # base[c]}
             IN  cas' = cas \cup ({RemoteState[n][c] : c \in fetched} \ {Absent})
    /\ Turn(w, [at |-> "import", remote |-> n, base |-> AcceptedHead, accepted |-> TRUE,
                state |-> RemoteState[n]])
    /\ UNCHANGED <<revisions, head, transfersVars, imported>>

\* commit_hub_revision.  The base is compared with the head row alone.
CommitImport(w) ==
    /\ op[w].at = "import"
    /\ imported[op[w].remote] = 0
    /\ head = op[w].base
    /\ Len(revisions) < MaxRevisions
    /\ revisions' = Append(revisions, Revision(op[w]))
    /\ head' = Len(revisions) + 1
    /\ imported' = [imported EXCEPT ![op[w].remote] = Len(revisions) + 1]
    /\ Turn(w, Idle)
    /\ UNCHANGED <<cas, transfersVars>>

\* capture_art_revision of the command line: one new cell, and parents nobody checks.
CliCapture(w, c, b) ==
    /\ op[w] = Idle
    /\ Cardinality({i \in Ids : revisions[i].from = "cli"}) < MaxCli
    /\ cas' = cas \cup {b}
    /\ \E parent \in {0} \cup Ids, accepted \in BOOLEAN :
         Turn(w, [at |-> "cli", base |-> parent, accepted |-> accepted,
                  state |-> [Nothing EXCEPT ![c] = b]])
    /\ UNCHANGED <<revisions, head, transfersVars, imported>>

\* put_art_revision: the head row is left alone, also by an accepted revision.
CliPut(w) ==
    /\ op[w].at = "cli"
    /\ Len(revisions) < MaxRevisions
    /\ revisions' = Append(revisions, Revision(op[w]))
    /\ Turn(w, Idle)
    /\ UNCHANGED <<head, cas, transfersVars, imported>>

\* The worker is killed, or its transaction is refused.
Stop(w) ==
    /\ op[w] # Idle
    /\ Turn(w, Idle)
    /\ UNCHANGED <<revisions, head, cas, transfersVars, imported>>

-----------------------------------------------------------------------------
LedgerInit ==
    /\ revisions = <<>> /\ head = 0 /\ cas = {}
    /\ quarantine = Transfers /\ ingested = {}
    /\ captured = [t \in Transfers |-> 0]
    /\ imported = [n \in 1..Remotes |-> 0]
    /\ op = [w \in Workers |-> Idle]

LedgerNext == \E w \in Workers :
    \/ \E t \in Transfers : Ingest(w, t) \/ (\E c \in Cells : Capture(w, t, c))
    \/ \E n \in 1..Remotes : Import(w, n)
    \/ \E c \in Cells, b \in Contents : CliCapture(w, c, b)
    \/ PutTransfer(w) \/ Clean(w) \/ Commit(w) \/ CommitImport(w) \/ CliPut(w)
    \/ Stop(w)

LedgerSpec == LedgerInit /\ [][LedgerNext]_ledgerVars

-----------------------------------------------------------------------------
\* Revisions the head row has pointed at: accepted captures and imports.
Line == {i \in Accepted : revisions[i].from # "cli"}

LedgerTypeOK ==
    /\ \A i \in Ids : revisions[i].state \in States /\ revisions[i].parent \in 0..(i - 1)
    /\ head \in Accepted \cup {0}
    /\ cas \subseteq Contents
    /\ quarantine \cup ingested \subseteq Transfers
    /\ captured \in [Transfers -> Ids \cup {0}] /\ imported \in [1..Remotes -> Ids \cup {0}]

\* Every cell of every revision can be read back from the store, although a delta stores
\* only the cells that changed and the base may have moved (core.rs:2030).
BytesStored == \A i \in Ids : BytesOf(revisions[i].state) \subseteq cas

\* A verified transfer is never lost: its file stays until its bytes are in the store and
\* its receipt is in the ledger (core.rs:1766).
NoTransferLost == \A t \in Transfers \ quarantine : t \in ingested /\ Bytes[t] \in cas

\* One capture of a transfer, however often and from wherever it is asked for
\* (core.rs:1049).
OneRevisionPerTransfer ==
    Cardinality({i \in Ids : revisions[i].from = "capture"}) = Cardinality({t \in Transfers : captured[t] # 0})

\* Accepted captures and imports form one line that ends at the head: each is put on the
\* one before it, although its base was read outside the transaction (core.rs:1094, 1227).
OneLine ==
    /\ head = Max({0} \cup Line)
    /\ \A i, j \in Line : i < j /\ (\A k \in Line : k <= i \/ k >= j) => revisions[j].parent = i

\* A Hub revision is imported once and as the Hub has accepted it, however often its event is
\* delivered and whoever else imports it: the receipt that decides is looked up again in the
\* transaction, and the state was put together before it (core.rs:1199-1216, 1966).
ImportedAsAccepted ==
    /\ \A n \in 1..Remotes : imported[n] # 0 =>
         /\ imported[n] \in Accepted /\ revisions[imported[n]].from = "import"
         /\ revisions[imported[n]].state = RemoteState[n]
    /\ \A i \in Ids : revisions[i].from = "import" => \E n \in 1..Remotes : imported[n] = i
    /\ \A m, n \in 1..Remotes : imported[m] = imported[n] /\ imported[m] # 0 => m = n
=============================================================================
