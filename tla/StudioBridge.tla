---------------------------- MODULE StudioBridge ----------------------------
(***************************************************************************)
(* The loopback bridge between Studio sessions and the desktop: a binding  *)
(* with a generation (contextVersion), sessions that say hello to it,      *)
(* transfers and captures checked against it, and the fan-out of accepted  *)
(* revisions through bounded queues.  A session handles its messages one   *)
(* after the other and reads its queue only in between; every await is a   *)
(* point where other sessions and the desktop go on.  The desktop's gate   *)
(* excludes a change of workspace from the work on a ledger, but not from  *)
(* the rest of a message.                                                  *)
(***************************************************************************)
EXTENDS Integers, Sequences, FiniteSets, SequencesExt

CONSTANTS Sessions,      \* session ids; each connects once
          Transfers,     \* transfer ids
          Workspaces,
          Projects,
          ProjectOf,     \* the project, place and channel of a workspace
          QueueSize,     \* capacity of a session's push channel
          MaxVersions,   \* bound on the changes of workspace
    None

ASSUME BridgeAssumption ==
    /\ None \notin Workspaces \cup Projects
    /\ ProjectOf \in [Workspaces -> Projects]
    /\ QueueSize \in Nat \ {0} /\ MaxVersions \in Nat

VARIABLES binding,     \* SessionBinding, or None
          places,      \* the workspace of every generation so far
          workspace,   \* the desktop's workspace
          desktop,     \* what select-workspace is doing; it holds the gate except while it waits
          hello,       \* sessions map: what a session said of itself
          bound,       \* sessions map: bound_context_version, 0 = None
          queue,       \* sessions map: the push channel
          upload,      \* TransferManager::upload: the active one, or None
          verified,    \* TransferManager::verified: the binding of a transfer, or None
          op,          \* the message a session is handling
          ingested,    \* transfers in the ledger of a workspace
          revisions,   \* accepted revisions of all ledgers, by insertion
          validated    \* generations a session has said a matching hello in

shared == <<binding, places, workspace, desktop>>
directory == <<hello, bound, queue>>
transferVars == <<upload, verified>>
ledgers == <<ingested, revisions>>
vars == <<shared, directory, transferVars, op, ledgers, validated>>

Idle == [at |-> "idle"]
Connected(s) == op[s].at \notin {"new", "gone"}

\* hello_matches_binding
Matches(project, b) == project = ProjectOf[places[b.version]]

\* require_bound_context, of a message that names the current generation.
BoundContext(s) == binding # None /\ hello[s] # None /\ Matches(hello[s], binding)

Turn(s, next) == op' = [op EXCEPT ![s] = next]

\* The latest accepted revision of a workspace.
LedgerHead(w) ==
    LET mine == {i \in DOMAIN revisions : revisions[i].workspace = w}
    IN  IF mine = {} THEN 0 ELSE Max(mine)

-----------------------------------------------------------------------------
(***************************************************************************)
(* Sessions                                                                *)
(***************************************************************************)

Connect(s) ==
    /\ op[s].at = "new"
    /\ Turn(s, Idle)
    /\ UNCHANGED <<shared, directory, transferVars, ledgers, validated>>

\* The loop ends, which it does only between messages.
Disconnect(s) ==
    /\ op[s] = Idle
    /\ Turn(s, [at |-> "gone"])
    /\ upload' = [upload EXCEPT ![s] = None]
    /\ hello' = [hello EXCEPT ![s] = None]
    /\ bound' = [bound EXCEPT ![s] = 0]
    /\ queue' = [queue EXCEPT ![s] = <<>>]
    /\ UNCHANGED <<shared, verified, ledgers, validated>>

\* A push goes to Studio.
Drain(s) ==
    /\ op[s] = Idle
    /\ queue[s] # <<>>
    /\ queue' = [queue EXCEPT ![s] = Tail(@)]
    /\ UNCHANGED <<shared, hello, bound, transferVars, op, ledgers, validated>>

\* session.hello reads the binding, and then enters it in the map of sessions.
Hello(s, project) ==
    /\ op[s] = Idle
    /\ Turn(s, [at |-> "hello", project |-> project, seen |-> binding])
    /\ UNCHANGED <<shared, directory, transferVars, ledgers, validated>>

EnterHello(s) ==
    /\ op[s].at = "hello"
    /\ LET b == op[s].seen
           compatible == b # None /\ Matches(op[s].project, b)
       IN  /\ hello' = [hello EXCEPT ![s] = op[s].project]
           /\ bound' = [bound EXCEPT ![s] = IF compatible THEN b.version ELSE 0]
           /\ validated' = IF compatible THEN validated \cup {<<s, b.version>>} ELSE validated
    /\ Turn(s, Idle)
    /\ UNCHANGED <<shared, queue, transferVars, ledgers>>

-----------------------------------------------------------------------------
(***************************************************************************)
(* Transfers and captures                                                  *)
(***************************************************************************)

\* transfer.offer.  Studio gives every transfer a new id.
Offer(s, t) ==
    /\ op[s] = Idle /\ BoundContext(s)
    /\ upload[s] = None /\ verified[s][t] = None
    /\ upload' = [upload EXCEPT ![s] = [id |-> t, binding |-> binding]]
    /\ UNCHANGED <<shared, directory, verified, op, ledgers, validated>>

\* transfer.cancel
Cancel(s) ==
    /\ op[s] = Idle /\ upload[s] # None
    /\ upload' = [upload EXCEPT ![s] = None]
    /\ UNCHANGED <<shared, directory, verified, op, ledgers, validated>>

\* transfer.complete of an upload whose chunks are there (each of them passed the same
\* comparison of bindings), up to the call of transfer_verified.
Complete(s) ==
    /\ op[s] = Idle /\ BoundContext(s)
    /\ upload[s] # None /\ upload[s].binding = binding
    /\ verified' = [verified EXCEPT ![s][upload[s].id] = binding]
    /\ upload' = [upload EXCEPT ![s] = None]
    /\ Turn(s, [at |-> "ingest", transfer |-> upload[s].id])
    /\ UNCHANGED <<shared, directory, ledgers, validated>>

\* transfer.complete repeated.
CompleteAgain(s, t) ==
    /\ op[s] = Idle /\ BoundContext(s)
    /\ verified[s][t] # None /\ verified[s][t] = binding
    /\ Turn(s, [at |-> "ingest", transfer |-> t])
    /\ UNCHANGED <<shared, directory, transferVars, ledgers, validated>>

GateFree == desktop.at \in {"idle", "waiting"}

\* transfer_verified: under the gate, into the workspace there is then.
Ingest(s) ==
    /\ op[s].at = "ingest" /\ GateFree
    /\ ingested' = IF workspace = None THEN ingested
                   ELSE ingested \cup {<<s, op[s].transfer, workspace>>}
    /\ Turn(s, Idle)
    /\ UNCHANGED <<shared, directory, transferVars, revisions, validated>>

\* Mutant: a verified transfer may be captured in any generation.
CaptureVerified(s, t) ==
    /\ op[s] = Idle /\ BoundContext(s)
    /\ verified[s][t] # None
    /\ Turn(s, [at |-> "capture", transfer |-> t])
    /\ UNCHANGED <<shared, directory, transferVars, ledgers, validated>>

\* art.capture.proposal up to the call of capture_proposal.
Capture(s, t) ==
    /\ op[s] = Idle /\ BoundContext(s)
    /\ verified[s][t] # None /\ verified[s][t] = binding
    /\ Turn(s, [at |-> "capture", transfer |-> t])
    /\ UNCHANGED <<shared, directory, transferVars, ledgers, validated>>

\* capture_proposal, under the gate: the transfer must be in the ledger, a capture made
\* before is found again, and the channel's policy may leave it a proposal.  When the
\* publication to the Hub fails, the session gets an error and nothing is fanned out.
CommitCapture(s) ==
    /\ op[s].at = "capture" /\ GateFree
    /\ LET t == op[s].transfer
           this == [session |-> s, transfer |-> t, workspace |-> workspace]
           made == {i \in DOMAIN revisions : revisions[i] = this}
           Answer(i) == Turn(s, [at |-> "accepted", revision |-> i]) \/ Turn(s, Idle)
       IN  \/ /\ <<s, t, workspace>> \in ingested /\ made = {}
              /\ revisions' = Append(revisions, this)
              /\ Answer(Len(revisions) + 1)
           \/ \E i \in made : Answer(i) /\ UNCHANGED revisions
           \/ made = {} /\ Turn(s, Idle) /\ UNCHANGED revisions
    /\ UNCHANGED <<shared, directory, transferVars, ingested, validated>>

-----------------------------------------------------------------------------
(***************************************************************************)
(* Fan-out                                                                 *)
(***************************************************************************)

\* Mutant: what a session said once counts in every generation.
ListenersByHello(s, b) == {r \in Sessions \ {s} : hello[r] # None /\ Matches(hello[r], b)}

\* The other sessions that have said hello in the current generation.
Listeners(s, b) ==
    {r \in Sessions \ {s} : bound[r] = b.version /\ hello[r] # None /\ Matches(hello[r], b)}

\* fanout_accepted_revision takes the binding and copies the map of sessions.
FanOut(s) ==
    /\ op[s].at = "accepted"
    /\ Turn(s, IF binding = None THEN Idle
               ELSE [at |-> "send", revision |-> op[s].revision, version |-> binding.version,
                     to |-> Listeners(s, binding)])
    /\ UNCHANGED <<shared, directory, transferVars, ledgers, validated>>

\* One push, which waits for room in the queue; a session that is gone has no queue.
Send(s, r) ==
    /\ op[s].at = "send" /\ r \in op[s].to
    /\ \/ ~Connected(r) /\ UNCHANGED queue
       \/ /\ Connected(r) /\ Len(queue[r]) < QueueSize
          /\ queue' = [queue EXCEPT ![r] = Append(@, [kind |-> "apply", version |-> op[s].version])]
    /\ Turn(s, [op[s] EXCEPT !.to = @ \ {r}])
    /\ UNCHANGED <<shared, hello, bound, transferVars, ledgers, validated>>

\* The accepted head of whatever binding there is now.
MoveHead(s) ==
    /\ op[s].at = "send" /\ op[s].to = {}
    /\ binding' = IF binding = None THEN None ELSE [binding EXCEPT !.head = op[s].revision]
    /\ Turn(s, Idle)
    /\ UNCHANGED <<places, workspace, desktop, directory, transferVars, ledgers, validated>>

-----------------------------------------------------------------------------
(***************************************************************************)
(* The desktop: select-workspace                                           *)
(***************************************************************************)

\* workspace_binding: generation and head are determined before the gate is taken.
Select(w) ==
    /\ desktop.at = "idle"
    /\ Len(places) < MaxVersions
    /\ places' = Append(places, w)
    /\ desktop' = [at |-> "waiting", version |-> Len(places) + 1, head |-> LedgerHead(w)]
    /\ UNCHANGED <<binding, workspace, directory, transferVars, op, ledgers, validated>>

\* set_binding(None), with the gate taken: the binding, and then the sessions.
Unbind ==
    /\ desktop.at = "waiting"
    /\ binding' = None
    /\ desktop' = [desktop EXCEPT !.at = "unbound"]
    /\ UNCHANGED <<places, workspace, directory, transferVars, op, ledgers, validated>>

\* The sessions lose their generation and are told, if there is room in their queues.
ClearSessions ==
    /\ bound' = [s \in Sessions |-> 0]
    /\ queue' = [s \in Sessions |-> IF Connected(s) /\ Len(queue[s]) < QueueSize
                                      THEN Append(queue[s], [kind |-> "changed"]) ELSE queue[s]]

ClearAfterUnbind ==
    /\ desktop.at = "unbound"
    /\ ClearSessions
    /\ desktop' = [desktop EXCEPT !.at = "swap"]
    /\ UNCHANGED <<binding, places, workspace, hello, transferVars, op, ledgers, validated>>

\* The workspace is swapped, and set_binding installs the new binding.
Bind ==
    /\ desktop.at = "swap"
    /\ workspace' = places[desktop.version]
    /\ binding' = [version |-> desktop.version, head |-> desktop.head]
    /\ desktop' = [desktop EXCEPT !.at = "bound"]
    /\ UNCHANGED <<places, directory, transferVars, op, ledgers, validated>>

ClearAfterBind ==
    /\ desktop.at = "bound"
    /\ ClearSessions
    /\ desktop' = Idle
    /\ UNCHANGED <<binding, places, workspace, hello, transferVars, op, ledgers, validated>>

-----------------------------------------------------------------------------
Init ==
    /\ binding = None /\ places = <<>> /\ workspace = None /\ desktop = Idle
    /\ hello = [s \in Sessions |-> None]
    /\ bound = [s \in Sessions |-> 0]
    /\ queue = [s \in Sessions |-> <<>>]
    /\ upload = [s \in Sessions |-> None]
    /\ verified = [s \in Sessions |-> [t \in Transfers |-> None]]
    /\ op = [s \in Sessions |-> [at |-> "new"]]
    /\ ingested = {} /\ revisions = <<>> /\ validated = {}

SessionStep(s) ==
    \/ Connect(s) \/ Disconnect(s) \/ Drain(s)
    \/ \E p \in Projects : Hello(s, p)
    \/ EnterHello(s)
    \/ \E t \in Transfers : Offer(s, t) \/ CompleteAgain(s, t) \/ Capture(s, t)
    \/ Cancel(s) \/ Complete(s) \/ Ingest(s)
    \/ CommitCapture(s) \/ FanOut(s) \/ MoveHead(s)
    \/ \E r \in Sessions : Send(s, r)

DesktopStep ==
    \/ \E w \in Workspaces : Select(w)
    \/ Unbind \/ ClearAfterUnbind \/ Bind \/ ClearAfterBind

Next == (\E s \in Sessions : SessionStep(s)) \/ DesktopStep

Spec == Init /\ [][Next]_vars

-----------------------------------------------------------------------------
Binding == [version: DOMAIN places, head: 0..Len(revisions)]

TypeOK ==
    /\ binding \in Binding \cup {None}
    /\ workspace \in Workspaces \cup {None}
    /\ hello \in [Sessions -> Projects \cup {None}]
    /\ bound \in [Sessions -> 0..Len(places)]
    /\ \A s \in Sessions : Len(queue[s]) <= QueueSize
    /\ \A s \in Sessions : upload[s] # None => upload[s].binding \in Binding
    /\ verified \in [Sessions -> [Transfers -> Binding \cup {None}]]
    /\ ingested \subseteq Sessions \X Transfers \X Workspaces

\* A capture lands in the ledger of the workspace its transfer was offered in, although
\* the binding is read before the gate is taken and the workspace may have been changed in
\* between: what was ingested into the wrong ledger is never captured there
\* (bridge.rs:1851, neuman_desktop.rs:133).
CapturedWhereOffered ==
    \A i \in DOMAIN revisions :
        LET r == revisions[i]
        IN  r.workspace = places[verified[r.session][r.transfer].version]

\* A session is told to apply a revision only in a generation it has said a matching hello
\* in, however hellos, changes of workspace and fan-outs interleave (bridge.rs:788).
AppliesAreForBoundSessions ==
    \A s \in Sessions, i \in 1..QueueSize :
        i <= Len(queue[s]) /\ queue[s][i].kind = "apply" => <<s, queue[s][i].version>> \in validated
=============================================================================
