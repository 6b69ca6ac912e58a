# Neuman in TLA+

Models of Neuman, a Rust program (with a Luau Studio plugin and a Tauri desktop) that manages the art, builds and releases of Roblox projects, with the TLC configurations that check them and TLAPS proofs of the central results. Paths and line numbers refer to the repository's root directory `src/`. `PROJECT.json` says for every definition which lines it stands for, and lists the hazards of the code with the properties that cover them.

## 1. The system

| Part | Source | State | Operations | Hard because |
|---|---|---|---|---|
| Hub, memberships | `hub.rs`, `schemas/hub.sql` | projects, memberships, quotas | create, upsert, remove, patch, archive | roles change while other requests are under way |
| Hub, art authority | `hub.rs` | leases, proposals, reviews, revisions, channel head | acquire, renew, release, propose, review, accept, reject | leases expire, proposals race for one head |
| Hub, object store | `hub.rs` | uploads, objects, references, grants, two directories | negotiate, receive, complete, download, maintenance | a file system and a database that do not commit together; crashes; expiry |
| Hub, idempotency | `hub.rs` | records by principal, project, route, key | look up, store, sweep | lost answers and repeated requests |
| Hub, releases and builds | `hub.rs` | builds, attempts, releases, approvals | create, approve, start, resume, rollback | approvals of what exactly, by whom, when |
| Hub, events | `hub.rs` | outbox, broadcast channel, sockets | append, prune, page, publish, replay, subscribe | readers that fall behind retention, handlers that publish after they commit |
| Desktop Hub adapter | `hub_desktop.rs` | cursor, recovery mode, requests in flight | `publish_capture`, `ensure_object`, `run` | retries, replays, restarts, partial failure |
| GitHub App | `github_app.rs` | secrets, deliveries, tokens, identities | verify, accept, report a check | repeated and damaged deliveries, repositories that change their names |
| Local release ledger | `core.rs`, `neuman_cli.rs` | releases, receipts | create, transition, publish | several processes, a provider that answers ambiguously, kills |
| Local art ledger | `core.rs` | revisions, head, content store, quarantine, receipts | ingest, capture, import, CLI capture | files and SQLite, concurrent workers, stops anywhere |
| Open Cloud execution | `native_execution.rs` | one saved execution record | `next_action`, `apply_observation`, `recover_in_flight_after_restart` | crash between acting and saving, deadline |
| Roblox OAuth and resources | `roblox_oauth.rs`, `roblox_resources.rs`, `neuman_desktop.rs` | the vault's record, the public status, the inventory | connect, cancel, refresh, logout, query | asynchronous commands share three places |
| Studio bridge, who gets in | `bridge.rs`, `neuman_bridge.rs` | challenges, approvals, credentials, connections | discover, pair, approve, revoke, authenticate | attempts, expiry, a human in between |
| Studio bridge, one session | `bridge.rs` | sequence guard, upload, tickets, heartbeat | check, chunk, complete, acknowledge, redeem | replays and gaps, limited memory |
| Studio bridge, orchestration | `bridge.rs`, `neuman_desktop.rs` | binding, sessions, queues, uploads | hello, offer, capture, fan-out, `select-workspace` | every `await` is an interleaving point |
| Studio plugin | `studio_plugin.luau` | cells, edits and epochs, session and context, pending command | checkpoint, apply, register, connect, pair, reload | every request, serialization and download yields; the artist keeps working |
| Rojo sessions | `git_rojo.rs`, `neuman_desktop.rs` | sessions by place, child processes | start, status, list, stop, restart, remove | children end by themselves, kills fail, ports are taken |
| Ownership | `core.rs`, `rojo_desktop_config.rs` | ownership table, claims of a project | validate, preflight, validate a slot | projects include projects, roots delegate to deeper roots |
| Git and Rojo builds, Studio runner | `git_rojo.rs`, `studio_runner.rs` | worktrees, receipts | fetch, fast-forward, build, run | (not modelled, see section 6) |
| Domain types | `domain.rs` | none | identifiers, hashing, manifests, `ReleaseStatus` | |
| Shell, CLI, packaging | `desktop.tsx`, `neuman_lib.rs`, `build.rs` | none of its own | | |

How they interact: a Studio installation is paired and opens a session; the session sends the bytes of a cell over the bridge; the desktop ingests them into the local art ledger, captures a revision, publishes it to the Hub (objects, leases, proposal) and pushes it to the other sessions. The Hub accepts proposals and writes an outbox event in the same transaction; each desktop's adapter follows the outbox, imports accepted revisions into its own ledger and pushes them to its sessions. Code reaches the same place through Rojo, whose project may only touch what the ownership table gives to Git. Releases are recorded both by the Hub (approvals) and by the local ledger (publication).

What makes each part correct: a cell has one leaseholder and the accepted line never forks; a reference always has its bytes and nobody gets a reference to bytes he did not transfer; a keyed mutation happens once; nothing runs that was not approved; an adapter skips no event and catches up; a webhook is handed on once and a check run stays with the project's repository; the local ledger does not claim what did not happen and its revisions have their bytes; a provider mutation is not repeated; the account shown is the account stored; one human approval lets one installation in, and a revoked one stays out; a message is acted upon once and in order; a capture ends in the workspace it was made in; the plugin destroys no unsaved edit; a place has one Rojo server, and that server controls only what is Git's.

## 2. The modules

| Module | Models | Extends |
|---|---|---|
| `HubMembers` | projects, roles, quota | |
| `HubArt`, `HubArtProps` | art authority of one channel; its properties | `HubMembers` |
| `ArtHistory` | abstract: a channel is an append-only line of states | |
| `HubObjects` | object store with crashes and maintenance | |
| `HubTransfer` | `ensure_object` of `hub_desktop.rs` against the object store | `HubObjects` |
| `HubIdempotency` | idempotency records of all mutations | |
| `HubReleases` | builds and releases | `HubMembers` |
| `HubOutbox` | outbox, retention, cursor pages | |
| `HubFeed` | the adapter's event loop | `HubOutbox` |
| `HubStream` | broadcast channel and event socket | `HubOutbox` |
| `GithubApp` | webhooks, tokens, identities, check runs | |
| `LocalReleases` | release ledger and `neuman release` processes | |
| `LocalLedger` | local art ledger and content store | |
| `OperatorExecution` | one Open Cloud execution and its process | |
| `RobloxOAuth` | the desktop's Roblox session and inventory | |
| `BridgeAccess` | pairing, credentials, revocation, opening a session | |
| `StudioPairing` | the plugin's side of pairing | `BridgeAccess` |
| `BridgeWire` | one session, message by message | |
| `StudioBridge` | bridge sessions and the desktop's change of workspace | |
| `StudioPlugin` | cells of the open place, checkpoints and applies | |
| `RojoSessions` | the desktop's Rojo servers | |
| `Ownership` | ownership table, preflight, Studio slots | |
| `...Proofs` | proofs (section 4) | what they are about |
| `MC...` | instances for TLC: constants that are functions, symmetry, unions | |

Conventions. A Hub handler holds the connection mutex and runs one immediate transaction, so it is *one* action; a request that is refused changes nothing and is a stuttering step. Where the code does not work in one transaction (`release_lease`, `publish_latest`, local `transition_release`, captures, imports, bridge messages) there is one action per atomic piece, and a program counter (`releasing`, `handler`, `op`, `at`) between them. Row identifiers are time-ordered; tables are sequences, an identifier is a position and 0 is NULL. Content hashes, transfers and principals are model values. `now_ms` and the other clocks are counters that do not run backwards. A definition marked "Mutant" is a plausible mistake in the definition that follows it; it is never part of a specification.

*HubArt.* `AcquireLeases` is `acquire_lease_batch` (all or nothing), `RenewLease` the single UPDATE of `renew_lease`, `ReleaseAuthorize`/`ReleaseCommit` the two halves of `release_lease`, `AcceptProposal` the whole of `accept_art_proposal`: revision, head, proposal row and the author's leases. The canonical manifest is validated by `ValidManifest`; hashing and encoding are left out.

*HubObjects and HubTransfer.* `tmp` and `cas` are the two directories; `ReceiveCrash`, `CompleteCrash` and `MaintainCrash` cut a handler off between its file operation and its commit (or the other way round in maintenance). `CompleteUpload` includes the primary-key failure that happens after the files have moved. The client keeps where `ensure_object` stands; every answer may be lost, and `PublishAgain` stands for a publication that failed and is begun anew.

*HubFeed.* One iteration of `run`: `Poll`/`PollExpired`, then `Import` or `ImportDuplicate`, `FanOut`, `AdvanceCursor` for each event of a page.

*HubStream.* A handler commits its event, then reads the newest event of its project, then sends it: three steps. A socket replays one page, subscribes, forwards, and is told when it lags behind the channel. A client connects with the newest event it knows.

*GithubApp.* The library keeps nothing but delivery records; its callers may hold tokens and identities for as long as they like, so these are sets that grow. GitHub itself (what occurred, repeated deliveries, renames) is external.

*LocalReleases.* `Read` and `Write` are the SELECT and the UPDATE of `transition_release`; `Publish` has every outcome `Step` knows: a version, a refusal, an ambiguous answer, an unreadable one.

*LocalLedger.* Reads and file writes precede an immediate transaction that checks again; `op[w]` holds what a worker has read.

*OperatorExecution.* `exec` is the record in memory, `saved` the one on disk. The process around the type (save, execute, observe) is modelled from the contract in its documentation and is marked external in `PROJECT.json`.

*RobloxOAuth.* The vault, the public status and the resources are read and written in steps of their own; a sign-in (`flow`) goes through the browser, the exchange, the vault and the status, and everything else runs in between. The account panel waits for one command before it sends the next; rotations and queries are started by others too. `crossed` and `mixed` mark histories in which commands of one kind overlapped, `orphaned` and `reused` what became of a consumed refresh token.

*BridgeAccess.* `challenges` and `credentials` are everything ever issued and `known` what the registry still has, so that a property may speak about a challenge that is gone. The desktop's view is the stream of pairing events, which a full channel loses; the human approves from a prompt. A connection authenticates first and opens its session in a later step.

*StudioPairing* adds the plugin: it discovers on connecting and again when Pair is clicked, and keeps the code that was typed.

*BridgeWire.* `guard` is `SequenceGuard`; the client sends new messages, repeats old ones as they were or altered, and leaves gaps. Chunks are files, `verified` is the record on disk, and the binding changes under the upload. Apply receipts, heartbeats and download tickets are handled in the same loop.

*StudioBridge.* `Hello`/`EnterHello`, `Complete`/`Ingest`, `Capture`/`CommitCapture`, `FanOut`/`Send`/`MoveHead` are the parts of one message between two `await`s; `desktop` holds `bridge_context_gate` in the states `unbound`, `swap` and `bound`.

*StudioPlugin.* Luau runs one thread at a time, so the code between two yields is one action: `CheckpointSelected` up to the serialization, `Serialized`/`SerializeAgain` with its epoch comparison, `Verified`, `Proposed`/`Accepted`; `ApplyPending` up to the staging of the cells, then the swap, which yields nowhere, as `ApplySwaps`, `RecordingFails`, `RolledBack` or `RollbackFails`. After it the new roots are watched. `ChangeTracker:watch` yields after every 250 descendants, and nothing bounds how many a cell has, so watching is a walk: a member of `walks` with the instances it has left, begun by an apply, by a registration (`RegisterSelection`) or when the plugin is loaded (`Reload`, `PluginInit`), led from root to root by `WalkOn`, and ended by `ApplyEnds`, `RegistrationEnds` or `LoadEnds`. Edits, clicks and messages come in between. `heard` is the instances whose signals arrive, `watched` the connections the tracker knows of, `suppressed` its flag, which is set from `ApplySwaps` to `ApplyEnds` or until another apply clears it. A root the walk is at has some of its descendants watched, so its edits may be marked or not; what is added to it then is never watched, and `blind` says that something may have been: later edits of it may go unmarked. An instance that was ever a cell's root is a position in `roots`; `edits` counts what the artist did to it, `owed` is the last edit the tracker should know, and `saved` what a revision holds of it. Not owed are the edits made while an apply is walking or before the root is watched, and lost ones. `applies` is a set without removal, because the apply button may have been clicked any number of times and none of these threads is known to be the last. `recovery` and `crossed` are history variables; `crossed` is set when an apply replaces a root under serialization or swaps while another apply is walking.

*RojoSessions.* `session[p]` is the `ManagedRojoSession` of a place with its supervisor: the last child it had (`pid`), whether its handle is still held (`owned`), and the last exit. `process` has every child ever spawned, so that a process whose owner lost it is still there. Every operation of `RojoSessionManager` first looks at the session (`Refreshed`, which is `snapshot` and `refresh_managed_session`); the manager's mutex makes it one action. Children start to listen and end by themselves, other programs take and free ports, the project file is edited.

*Ownership.* A project is a tree of nodes with sources; `VisitProject` is one `visit_project` of the preflight: it records what the nodes claim (`mappings`) and which projects they include (`todo`), each with the place it was looked at and the place where Rojo will seat it. `controls` is what Rojo then controls. `Containing` and `OwnerOf` are `owner_for`, `Permitted` is `record_mapping`. A slot is what `validate_studio_slot` lets a capture be about.

The unions. `MCAdapter`, `MCRequests`, `MCLocal`, `MCBridge` and `MCStudio` put several components into one run. Where components share nothing but the machine they run on, a variable `part`, chosen initially and never changed, says which of them a behaviour is about; the others stand still. This gives each component the state space it has by itself. What does interact is composed in the component modules: members with the art authority and the releases, the client with the object store, the adapter and the socket with the outbox, the plugin with pairing, the desktop with the bridge.

## 3. The runs

| Run | Shows | Bounds |
|---|---|---|
| `art` | one active lease per cell, proposals accepted exactly once, the head moves only under leases, the accepted states implement `ArtHistory` | 2 principals, 2 cells, 3 leases of duration 1, 2 ticks, 2 proposals, 1 review, 1 renewal, 1 release in flight |
| `adapter` | bytes behind references, ownership of references, `ensure_object`'s result, expiry; no gap under the cursor, the adapter catches up | 2 projects, 1 content, 3 uploads, 1 lost answer, 1 crash, 3 ticks; 5 events, retention 2, page 2, 1 restart, 1 failed page, 1 local capture |
| `requests` | mutations once and answered with their own result; nothing leaves draft unapproved; the newest event arrives at a socket; webhooks handed on once; check runs stay in the project's repository | 2 callers, 2 targets, 2 bodies, 1 key, 3 executions, 3 ticks; 3 principals of whom 2 are members, 2 releases; 3 events, 2 handlers, a channel of 1, 2 connections; 2 deliveries, 2 rotations, 4 messages; 2 repositories, 3 names, 2 renames, 1 rebinding |
| `local` | bytes of every revision, no transfer lost, one revision per transfer, one line; receipts behind `published`; no mutation twice, executions end; the signed-in account is the stored one and the resources shown are its | 2 workers, 2 cells, 2 contents, 1 transfer, 2 remote revisions, 3 revisions; 2 processes, 2 releases of one bundle, 2 runs each; 2 inputs, 2 polls, 5 ticks, 2 crashes; 2 accounts, 2 sign-ins, 3 tokens, 1 query, 1 restart |
| `bridge` | captures land where they were offered, commands only in agreed generations; one credential per approval, revoked installations stay out; messages once and in order, verified transfers stay | 2 sessions, 2 checkouts of one project, 1 transfer, 2 generations, queues of 1; 2 installations, 2 codes, 2 challenges, 1 connection at a time, 2 attempts, an event channel of 1, 2 ticks; 2 transfers of 2 chunks, a guard that remembers 2 messages, 8 messages, 1 ticket |
| `studio` | one Rojo server per place, distinct ports, exits told from stops; what Rojo controls is Git's; one root per cell, no edit replaced that the tracker should know and no revision holds, the newest revision stays, a checkpoint ends | 2 places, 2 ports, 2 project files, 1 restart each, 3 processes; 4 locations, all pairs of ownership roots, all small projects that nest, delegate and ignore; 2 cells, 1 of them managed from the start, 4 roots, 1 edit each and a second one after an addition that is not watched, 2 commands, 2 overlapping applies, 1 checkpoint with 2 tries, 1 session per load, 2 contexts, 1 reload |
| `pairing` | (violated) the code shown is the code accepted | 1 installation, 2 codes, 3 challenges |
| `stream` | (violated) every event arrives at a connected socket | 2 handlers, 2 events, a channel that loses nothing |
| `oauth` | (violated) a consumed refresh token is not presented again | 2 accounts, 1 rotation at a time, 4 tokens |
| `publisher` | (violated) one process publishes a release | 2 processes, 2 releases |
| `fan_out` | (violated) the cursor passes only what was fanned out | 3 events, retention 2, 1 restart |
| `ownership` | (violated) no path has two authorities | one delegation |

Why the bounds are enough: every race in this code is between two actors about one row, so two principals, processes, workers or sessions and one or two rows show it; the clock needs as many ticks as there are lifetimes that can overlap (an upload and the record of its negotiation, a challenge and the credential it gave); an expired cursor needs one event more than the retention and one in the page. The second cell is what makes a batch, a partial overlap and a delta different from the whole. A queue of one place is full after one push, which is the case a queue of 32 has only under load; a channel of one place loses what a channel of 256 or 2048 loses under load; a guard of two messages forgets the third. Three names for two repositories are what lets a name pass from one to the other. In the plugin a walk ends in a step of its own, so anything may come between as for a cell of 250 descendants or more; two applies are what overlaps, and the second cell makes a command of two cells, whose rollback may stop halfway; a second try of the serialization shows what a third one does. In Rojo the third process is a restart while the other place has a child, and two project files are one edit. Everything else is independent of the numbers, and for the properties of section 4 the proofs say so for all values.

Without loss of generality. Symmetric values are permuted (`SYMMETRY`) in `art`, `requests`, `bridge` and `publisher`; none of these runs has a liveness property, and the action properties of `art` and `bridge` are invariant under the permutations. Otherwise names that are only compared are fixed where they first appear: the first child's place and port in `MCStudio`, the first workspace and the first code in `MCBridge`, the initial repository names in `MCRequests`. Three restrictions of `MCStudio` leave behaviours out to keep the run short: other programs hold ports only while the project file is the first one, a behaviour of the plugin has two in all of reloads, other contexts, checkpoints, applies started since the last reload and second edits of a root, the latter only where something may have been added unseen, and a second command only after an apply, and one Studio slot is asked for after an acceptance. `RojoProofs` has neither the first nor the third, `StudioPluginProofs` not the second.

The models stop where the bounds end, so the runs do not check deadlock.

Fairness. `AdapterCatchesUp`: the loop of `run` polls again after at most 32 seconds whatever happened (weak fairness of `Work`; commits, retention, failures, captures and restarts are not fair). `UploadsExpire`: maintenance runs every minute, and an operator restarts a Hub that died (weak fairness of maintenance and start as one step). `ExecutionEnds`: the operator's process runs and is restarted, and the clock goes on; nothing is assumed about what the provider answers. `CheckpointEnds`: serializations end by themselves and every request has a timeout (weak fairness of `Serialized`, `SerializeAgain` and `RequestFails`); nothing is assumed of the bridge. The unions state the same fairness of the same actions; `FairFeedSpec`, `TransferFairSpec`, `FairSpec` and the plugin's specification have it for the component alone.

## 4. The proofs

All theorems hold for every value of the constants allowed by the named assumptions of the modules, in particular any number of principals, cells, contents, places, ports, workers, sessions and files, any quota, lifetime, queue and memory. Clocks are numbers that never decrease. The bounds (`MaxTime`, `MaxCrashes` and the like) are arbitrary too, so each theorem covers behaviours of any length.

`HubArtProofs` (memberships and art authority). `MembersQuotaHolds` and `RemovalKeepsAnAdminHolds`: the inductive invariant joins the type of the tables with the quota; finiteness of the principals gives the cardinalities. `TypeCorrect` is proved first, one step per action. For `LeasesAreExclusive` and `LeaseQuotaHolds` the lemma `OnlyAcquisitionsActivate` says that a step is an acquisition or leaves no more active leases than before, on the same cells (`Fewer`): renewals require an active lease, time and releases only end leases. For the history, `OnlyAcceptancesAdvance` confines changes of head and revisions to `AcceptProposal`; `HistoryIsLinear` follows, and `AcceptedOnce` needs the strengthening `CarriedExist` (every revision carries an existing proposal), without which the uniqueness is not inductive. `HeadChangesAreLeased` combines `OneActiveLease` with the guard of an acceptance: the only active lease on a changed cell is the author's, so releasing it leaves none. `ArtImplementsHistory` maps `history` to the accepted states: initial states map to initial ones and every step to an acceptance or a stutter. `ArtKeepsMembers`: every step of the art authority is one of `HubMembers` or leaves memberships alone, so the first two theorems hold there too.

`HubRequestsProofs` (idempotency records, releases, GitHub). `AtMostOnceHolds` needs `EffectsRemembered`: an effect whose record has not run out still has that record, because maintenance deletes only what has; then a second execution within a lifetime would have found it. `AnswersAgreeHolds` needs `RecordsTrue`: a record names an effect of its own request. `PastDraftIsApprovedHolds` is inductive with the type of the rows: approvals are never taken back and a release keeps its request. `HandedOnOnceHolds` (`HookInv`): every message on the way carries the signature of what GitHub sent under its identifier, so a body that verifies is the one GitHub sent, and what has been handed on is remembered as seen. `ChecksStayAtHomeHolds` (`CheckInv`): a request carries a token of the repository it is for, and GitHub lets a token write nowhere else; no name or cached identity is needed for the argument. `ReleasesKeepMembers` and `ReleasesTypeCorrect`: the handlers of builds and releases read memberships and never write them, and `CreateRelease` to `ApproveRelease` only name rows that exist; `IdempotencyTypeCorrect` is part of the invariant of the records.

`HubAdapterProofs` (object store, transfer, feed, event socket). `ObjectsInv` is `AuthorizedBytesExist` with `RefIffTransferred` and the types of the tables; a completion adds the rows after the file, so both are inductive. Crashes and sweeps are summed up in `Kept` (no upload becomes completed or stops being so). `TransferInv` adds what the client knows: an upload that its job is about belongs to its project and hash, which a recorded answer needs too. `FeedInv` says that the cursor is no newer than the log and that what a page leaves out is newer than all of it (`PageIsNext`): the least numbers of a set come from the well-foundedness of the naturals. `StreamInv` says of a live socket that the newest event of its project is not newer than its subscription or last lag, has arrived or been warned about, stands in the channel beyond the socket's position, or has yet to be published by a request (`Comes`). The last case is why the theorem is about the newest event only: a request publishes what is newest when it reads, so an older event may never be sent (run `stream`).

The same module proves what the compositions rest on. `PagesAreCompleteHolds`: whoever goes on from a cursor that is not refused misses no event. Its invariant `OutboxInv` needs `KeepsNewest`: what maintenance keeps of a project is its newest events and at least one of them. A newer event has a smaller rank, because the events from it on are a subset of those from the older one on, and the newest has rank 1; that is where `Retention` must not be 0. `FeedKeepsOutbox` and `StreamKeepsOutbox` say that adapter, requests and sockets do to the outbox only what `OutboxNext` allows, and carry the result over. `HeadFollowsHubHolds` uses this: `NewerComes` says that whatever the Hub still has or the page still holds and is not imported is newer than the local head, which follows from `PageIsNext` and `NoGap` when an event is imported; with `KeepsNewest` a cursor at the latest event means that this event is the head. It is the safety half of `AdapterCatchesUp`; that the cursor gets there stays with TLC. `TransferKeepsObjects` maps every step of `ensure_object` to a step of the object store (a publication only touches uploads of its own object, which needs `TransferInv`). `RowsUniqueHolds`: a completion looks at the reference's primary key and not at the other uploads, and by `RefIffTransferred` no other upload of the object is completed then.

`LocalLedgerProofs` (art ledger and releases). `LedgerInv` says of every worker that what it has planned stays right (`Planned`: the state it will insert is stored, its base exists), of the head that it is the end of the line, of neighbours on the line that one is the parent of the other (`Adjacent`), and that receipts number the captures one to one, from which `OneRevisionPerTransferHolds` gets its bijection. `ReleasesInv` says what a process may intend (`Justified`): it records a receipt only after an answer with a version and turns to `published` only after its receipt. This holds although the UPDATE of `transition_release` may be lost and two processes may publish. `StatusFollowsTransitionsHolds` is the action property that belongs to it: the UPDATE repeats the status that was read, so a process that has lost sets nothing back. `ImportedAsAcceptedHolds` (`ImportInv`): what a worker has planned as an import is the state of a Hub revision, and the receipt that the transaction looks up again is what keeps a second worker from inserting it. `LedgerTypeCorrect` adds that parents are earlier revisions and that all bytes are contents.

`RobloxProofs` (Open Cloud execution, Roblox session): the record suspects every mutation the provider may have carried out (`Suspects`), in memory and on disk, and what is about to be executed is untried. The saved record is what a crash leaves, so both must say it. `OAuthInv` for the session: one flow listens at a time, because the callback port is exclusive (`OneListener`); while sign-in, sign-out and rotation are apart (`Signed`), a listening flow has made the status leave `signed_in` before it changes the vault, and what rotates has a token of the stored account; and what is shown or being read is of that account (`Displayed`). Outside `crossed` and `mixed` histories the two theorems follow; inside them the code breaks both, see section 5.

`BridgeProofs` (access, wire, orchestration). `OneCredentialPerApprovalHolds` and `RevokedStaysOutHolds`: credentials come from used challenges, one each, those issued before a revocation are barred, and an authenticated connection never has one that was revoked before it authenticated. `HandledOnceInOrderHolds`: the numbers handled are `1 .. n` in order, whatever the guard has forgotten, since it also insists on the next number. `VerifiedStaysHolds`: a record of a verified transfer has its file. `AppliesAreForBoundSessionsHolds` (`ListenInv`): every generation that is bound, queued or being sent to a session is one it has said a matching hello in. `CapturedWhereOfferedHolds` is the longest: `DesktopInv` (whoever holds the gate sees the workspace of the binding, a waiting change makes a newer generation) and `CaptureInv` (a transfer that is in another workspace's ledger got there in a later generation than the one it was offered in) together exclude a commit elsewhere. `PairingKeepsAccess`: the plugin, with its discovery on every connection and every click, does to the bridge what any client may; `ClientInv` says that it knows a challenge before a code can be typed. So the first two theorems hold for it as well, although its pairing may fail (run `pairing`).

`RojoProofs` (Rojo sessions, ownership preflight). The inductive invariant `RInv` says of every session what its record means for the processes (`Meaning`: what it owns is running or has just died, at its place and port, and the last exit has the fate it reports) and that every process that runs with an owner is owned by some session. Both are needed together: a session may be stopped or replaced because nobody else has its child (`OneOwner`), and that follows from `Meaning`, since a process has one place. `OneSessionStep` is the common part of the operations on one session: `Follows` (how processes may change), `Apart` (the other sessions keep their ports and children) and `Accounted` (whatever runs is somebody's). `SessionsMeanProcesses` is the invariant, types included; `OneServerPerPlaceHolds`, `PortsDistinctHolds` and `ExitsToldApartHolds` follow from it. For `ControlsAreGitsHolds`, an accepted claim with everything below it is Git's when no root of another owner lies below (`SubtreeIsGits`), because the owner of a path is its deepest root. A project that is included is looked at where it is included but seated where Rojo finds its file; `Visited` and `Controlled` say that the seat is either the same place or lies in a subtree that was claimed as a whole.

`StudioPluginProofs` (cells of the open place). The invariant has three parts, and each says what a yielded thread still believes. `WorkInv`, of the work under way: the root an apply is to replace is one of its cell and is no newer than the apply (`Replaces`), no root is newer than the last command, and the epoch a checkpoint has taken is not ahead of its cell's. `OneRootPerCell` is inductive with it: a swap takes out every root of its cells, or the scan after it reports recovery. `TrackedInv` is what `DirtyNeverOverwrittenHolds` needs: every root in the place is heard or a walk has yet to come to it (`Watching`), and marks are suppressed only while an apply walks (`Connected`), so an edit that is owed makes its cell dirty and moves its epoch; what an apply walks over stays in the place and its cells owe nothing, so accepting them forgets nothing (`Walkers`); a cell that is not dirty has no owed edit that no revision holds (`Clean`); and as long as the cell of the root under way has the epoch of its bytes, these bytes are all there is to save (`Taken`). `Taken` fails after a swap during a serialization and `Watching` and `Walkers` after a swap during another apply's walk, which is why the property excludes `crossed`. `NewestStaysHolds` follows from `WorkInv`, because an apply carries the number of its command. A swap puts several roots into the place at once, in any order; `SwappedTo` states what that leaves, from the order `SetToSeq` picks.

Proved and not repeated in a run: the lease and membership quotas, the linear history, the types, `PagesAreComplete`, `HeadFollowsHub`, `RowsUnique`, `ImportedAsAccepted`, `StatusFollowsTransitions`, and that one specification's behaviours are another's. Before they were proved each of the five invariants and action properties was checked on an instance of its module alone (retention 2 and 7 events; 4 uploads and a crash; the bounds of `local`), without a finding.

Only model-checked: the four liveness properties (`AdapterCatchesUp`, `UploadsExpire`, `ExecutionEnds`, `CheckpointEnds`). They need fairness and ENABLED, which the prover does not reach. Every invariant and every action property of a passing run is a theorem. The type invariants of `HubObjects`, `OperatorExecution`, `Ownership` and `StudioBridge` are stated for the reader; their proofs carry types of their own (`ObjectsType`, `Types`, `DesktopInv`).

## 5. Where code and documents disagree

Each of these has a run that TLC ends with a counterexample:

* `pairing`: `docs/guides/STUDIO_BRIDGE_README.md:32` lets the user type the code that the console prints; the plugin discovers again when Pair is clicked, gets another challenge with another code, and sends that challenge with the code of the one before (`studio_plugin.luau:945`).
* `stream`: `docs/guides/HUB_README.md:113` "Events are committed in the outbox before being sent. WebSocket delivery is at-least-once"; `publish_latest` sends the newest event, read after the commit, so one of two overlapping requests is left out (`hub.rs:5294`).
* `oauth`: `docs/guides/ROBLOX_OAUTH_REFRESH.md:63` "the operation fails closed and requires interactive reauthorization"; the consumed token stays in the vault and is presented again (`neuman_desktop.rs:849`).
* `publisher`: `core.rs:1391` "Atomically advances a release state if its expected state still holds."; `transition_release` ignores whether its UPDATE changed a row, and two processes publish one release.
* `fan_out`: `docs/guides/HUB_DESKTOP_ADAPTER.md:76` lets the cursor advance only after "bridge context/fan-out success."; an event whose fan-out failed is a duplicate when it comes again, and the cursor passes it (`hub_desktop.rs:647`).
* `ownership`: `docs/specs/SPEC_01_PRODUCT_BOUNDARIES_AND_INVARIANTS.md:117` "Every managed DataModel path MUST have exactly one declared owner"; `validate_studio_slot` accepts a slot below a studio-art root although a deeper root gives it to Git, while the preflight takes the deepest one (`core.rs:2125`).

Also met while modelling; the models contain the behaviour, or it lies in code that is not modelled, and no run is spent on it:

* `upsert_member` demotes the last administrator, `hub.rs:1227` "A project must retain at least one administrator."
* An approver approves and accepts a proposal of his own, `hub.rs:1753` "an explicit review is required to preserve separation of duties".
* A lease is renewed on any base the caller names, `docs/specs/SPEC_16_HUB_CONTROL_PLANE.md:258`.
* `release_lease` updates outside the transaction that authorized it, `docs/guides/HUB_README.md:90`.
* Two uploads of one object that expire make the sweep's UPDATE violate its unique key; from then on maintenance fails and a restarted Hub does not serve, `docs/specs/SPEC_17_STORAGE_CAS_GIT_LFS_AND_LORE.md:210`.
* Concurrent uploads of different objects can exceed the quota, `docs/specs/SPEC_17_STORAGE_CAS_GIT_LFS_AND_LORE.md:75`.
* A repeated PUT is answered 410, and so is a new publication of bytes the project already has, `docs/guides/HUB_DESKTOP_ADAPTER.md:72`, `hub_desktop.rs:189`.
* A key used for another aggregate with the same body gets the first aggregate's answer, `docs/specs/SPEC_16_HUB_CONTROL_PLANE.md:307`.
* An event is imported on a diverged head outside recovery, `docs/guides/HUB_DESKTOP_ADAPTER.md:57`.
* A build that succeeded takes a late "running", `docs/specs/SPEC_02_DOMAIN_MODEL_AND_STATE_MACHINES.md:263`; approvals never expire and outlive the approver's membership, `docs/specs/SPEC_15_RELEASE_PUBLISH_ROLLBACK_AND_DRIFT.md:114`. No code writes the states `failed` and `rollback_required`, so `resume` is never possible.
* A release may be `failed` although the provider published it (unreadable answer), `domain.rs:751`; the receipt is keyed by the artifact alone, so promoting one bundle to two targets leaves the second in `publishing`, `docs/specs/SPEC_14_BUILD_ENGINE.md:22`.
* An import is refused when the ledger has an accepted revision but no head row, `docs/guides/HUB_DESKTOP_ADAPTER.md:55`.
* A mutation whose answer comes after the deadline ends as `timed_out` instead of `unknown`, `docs/specs/SPEC_13_ROBLOX_INTEGRATION.md:262`.
* Roblox session: a sign-out during a rotation brings the session back when the rotation stores its token; a cancelled sign-in that is finishing still signs in; connecting checks the phase and sets it in two steps, with a refresh in between; a query during a sign-in shows the previous account's inventory; a stop between the provider's rotation and the vault's commit loses the session. `SignedInIsStored` and `ResourcesAreTheAccounts` except histories marked `crossed` and `mixed`.
* Bridge, access: `docs/guides/STUDIO_BRIDGE_README.md:38` "Revocation is immediate for future sessions". `revoke_plugin` only marks the credentials there are (`bridge.rs:530`): a connection that has authenticated before the revocation still opens its session, and a challenge that was approved before it still gives a new credential (`bridge.rs:1675`), which opens sessions. `RevokedStaysOut` speaks of the credentials there were and excludes neither. The document counts three missed heartbeats, the code closes on the fourth tick, `docs/specs/SPEC_08_LOOPBACK_BRIDGE_PROTOCOL.md:188`.
* Bridge, orchestration: an accepted revision of another session makes uploads under way stale, because a transfer's binding is compared together with the accepted head (`bridge.rs:476`, `bridge.rs:2418`); a fan-out reads the binding after the gate is released, so a revision of the workspace before can be pushed to sessions of the next one; a hello between the two halves of `set_binding` is confirmed and then lost; two sessions fanning out into each other's full queues wait for each other.
* Plugin, edits nobody marks: `ChangeTracker:watch` yields after every 250 descendants (`studio_plugin.luau:383`), and `applyPending` calls it with the tracker suppressed (`:1616`-`:1684`). Edits of any cell made in that window are dropped by `mark` (`:347`), the cell stays clean and the next apply destroys them, against `docs/specs/SPEC_07_STUDIO_PLUGIN.md:432` "Dirty same-cell incoming update never overwrites." and `docs/specs/SPEC_01_PRODUCT_BOUNDARIES_AND_INVARIANTS.md:127`. The same yields lose edits of a root that is not watched yet, after loading, registering or applying; and since additions are listened for only at the end of the walk, what is added to a root during it is never watched. `DirtyNeverOverwritten` speaks of the edits outside these windows (`owed`).
* Plugin, overlapping applies: an apply that swaps while another one is watching its new roots meets that one's tracker. The first walk then unwatches or accepts the cells of the newer roots, clears `suppressed` under the second, and the roots it goes on to watch are no longer in the place; a swap that is rolled back clears `suppressed` as well (`studio_plugin.luau:1655`). `DirtyNeverOverwritten` excludes histories with overlapping walks (`crossed`), `OneRootPerCell` and `NewestStays` do not.
* Plugin, overwritten edits: when an apply replaces a root while a checkpoint serializes it, the second try serializes the old root under the new epoch and marks the cell clean, so edits of the new root are replaced by the next apply, `docs/specs/SPEC_07_STUDIO_PLUGIN.md:432` "Dirty same-cell incoming update never overwrites." After a reload every cell counts as clean, `docs/specs/SPEC_07_STUDIO_PLUGIN.md:340` "ambiguity is dirty/unknown, never clean". `DirtyNeverOverwritten` excludes both (`crossed`; `owed` is of one load of the plugin).
* Plugin, context: `applyPending` does not look at the context again before the swap, and after the bridge closed the stream the context is kept, so a new session is taken for bound before it is told, `docs/specs/SPEC_08_LOOPBACK_BRIDGE_PROTOCOL.md:406` "Replay and stale-context commands cannot mutate Studio.", `:191`.
* Plugin, stuck states: `transfer.cancel` raises without a session and leaves `captureBusy` set (`studio_plugin.luau:1244`); a pending command of an earlier session is stale itself and cancels every later one (`studio_plugin.luau:1711`). Setting `NeuManBaseRevision` after an accepted checkpoint is seen as an edit, so the cell is dirty again (`studio_plugin.luau:1282`). "Recovery required" does not stop the next apply.
* Rojo: a restart stops a healthy server and is then refused because the budget is used up or the project file has changed (`git_rojo.rs:2640`). A kill that fails leaves a server without an owner that the session reports as exited (`git_rojo.rs:2226`), `docs/guides/GIT_ROJO_IMPLEMENTATION.md:77` "`RojoSupervisor` owns exactly one child". A start for a place whose child has ended is answered with the old session and nothing runs. No command of the desktop calls `remove_inactive`, so after an edit of the project file ("stop and remove it before replacement") or with a used-up budget a place is not served until the desktop is started again. The logs of a crashed child are dropped by the restart, `docs/specs/SPEC_11_GIT_AND_ROJO_INTEGRATION.md:274`.
* Preflight: a project included at the top of a mapped directory is looked at there (`rojo_desktop_config.rs:647`) while Rojo seats deeper ones below; `ControlsAreGits` holds because the mapped directory is claimed as a whole.
* Git (not modelled): a worktree whose receipt was not written is an orphan that the reconciliation does not find (`git_rojo.rs:1216`), `docs/guides/GIT_ROJO_IMPLEMENTATION.md:59`; a clean-up with a stale receipt (`git_rojo.rs:1505`); a fast-forward resolves its upstream a second time (`git_rojo.rs:1034`).

## 6. Not modelled

* HTTP and WebSocket framing, hashing, signatures, canonical JSON and place encoding: pure functions without state, covered by unit tests.
* Identity tokens and audit rows of the Hub: a token is looked up in one query, and the audit rows are written in the same transaction as the outbox rows.
* The lease, proposal and renewal calls of `publish_capture`: one HTTP request after another, without state of their own between them; the Hub's side of each is in `HubArt` and `HubIdempotency`.
* `request_apply` and `notify_incoming_revision` of the bridge, build worktrees with their receipts and `RojoBuildPlan`: nothing in the sources calls them, so there is no program whose steps a model could order. Fetch and fast-forward are single runs of `git`.
* The Studio runner: its callers use the validation and the signature of a receipt only.
* The lock file, the pins and the paths of tools in `rojo_desktop_config.rs`: checks that reject, as `Reject` of `Ownership` may at any time.
* What the artist does in Studio to a cell's root as a whole: cut, paste, duplicate, delete and undo, which may bring back a root an apply has replaced. A root that was cut and pasted, or that undo brings back, is another instance that nobody watches, because the tracker keeps the connections of the cell's first one (`studio_plugin.luau:361`): its edits are never marked, and an apply replaces them. A duplicate makes two roots of one cell, which `scanCells` reports and which blocks checkpoints and applies until one is gone. `DirtyNeverOverwritten` and `OneRootPerCell` say nothing of such places.
* The paging and translation of resource answers, play mode, the widget and the user interface.

What could be added next: the requests of `publish_capture` composed with `HubArt`, once it keeps state between them.
