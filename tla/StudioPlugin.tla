---------------------------- MODULE StudioPlugin ----------------------------
(***************************************************************************)
(* The Studio plugin: the cells of the open place and the tracker of local *)
(* edits, the session with the bridge, checkpoints and applies.  Luau runs *)
(* one thread at a time, so what lies between two yields (a request, a     *)
(* serialization, a download) is one action; clicks, edits and messages    *)
(* come in at the yields.                                                  *)
(*                                                                         *)
(* The instances that were ever a cell's root are a sequence, and an       *)
(* instance is a position in it.  ChangeTracker:watch yields after every   *)
(* 250 descendants, so watching a root is a walk that begins in one action *)
(* and ends in another; a small root's walk ends at once.  Signals are     *)
(* immediate.  Play mode only keeps clicks from starting anything and is   *)
(* left out.  So is what the artist does to a root as a whole (cut, paste, *)
(* duplicate, delete, undo): a pasted root is an instance that nobody      *)
(* watches, and two roots of a cell block checkpoints and applies.         *)
(* Bytes, hashes, paths and class checks are left out: where one of them   *)
(* fails, the action that gives up may be taken at any time.  The bridge   *)
(* (StudioBridge) may answer, refuse, keep silent or hang up.              *)
(***************************************************************************)
EXTENDS Naturals, FiniteSets, SequencesExt

CONSTANTS Cells,
          Revisions,     \* the sets of cells a command may be about
          Managed,       \* the cells the place has when the plugin is loaded
          Nil,
          MaxAttempts,   \* serializations of a checkpoint: 3
          MaxEdits,      \* bounds: edits of an instance,
          MaxRoots,      \* instances,
          MaxCommands,   \* commands received,
          MaxApplies,    \* different applies started,
          MaxCheckpoints, \* checkpoints,
          MaxSessions,   \* sessions since the plugin was loaded,
          MaxVersion, MaxReloads

ASSUME PluginAssumption ==
    /\ Managed \subseteq Cells /\ IsFiniteSet(Cells)
    /\ Revisions \subseteq SUBSET Cells /\ {} \notin Revisions
    /\ {MaxAttempts, MaxEdits, MaxRoots, MaxCommands, MaxApplies, MaxCheckpoints,
        MaxSessions, MaxVersion, MaxReloads} \subseteq Nat

VARIABLES roots,        \* cell roots: in the place?, edits made, the last of them the tracker
                        \* should know, edits a revision holds, last command, and whether
                        \* something was added below it that is not watched
          epoch, dirty, \* ChangeTracker.epochs, .dirty
          watched,      \* ChangeTracker.connections: the instance watched for a cell
          heard,        \* the instances whose signals arrive
          suppressed,   \* ChangeTracker.suppressed
          walks,        \* the threads in ChangeTracker:watch and the instances they have left
          recovery,     \* history: "recovery-required" was reported
          crossed,      \* history: an apply replaced a root while it was being serialized, or
                        \* swapped while another apply was walking
          connected,    \* BridgeClient.connected
          context,      \* the context version BridgeClient.context is bound to, or 0
          version,      \* the bridge's context version
          capture,      \* the checkpoint under way
          command,      \* pendingApply
          applies,      \* the applies started: a click may have been repeated any number of
                        \* times, so none is ever known to be the last of its kind
          commands, checkpoints, sessions, reloads  \* how many there have been

link == <<connected, context>>
lapses == <<recovery, crossed>>
signals == <<watched, heard, suppressed, walks>>
place == <<roots, epoch, dirty, signals, lapses>>
work == <<capture, command, applies>>
counts == <<commands, checkpoints, sessions, reloads>>
pluginVars == <<place, link, version, work, counts>>

Root == [cell: Cells, here: BOOLEAN, edits: Nat, owed: Nat, saved: Nat, by: Nat, blind: BOOLEAN]
Walk == [for: {"load", "register", "apply"}, left: Seq(Nat) \ {<<>>}, cells: SUBSET Cells]
Command == [id: Nat, cells: SUBSET Cells, version: Nat, session: Nat]

NewRoot(c, n, by) == [cell |-> c, here |-> TRUE, edits |-> n, owed |-> 0, saved |-> 0, by |-> by,
                      blind |-> FALSE]
RootsOf(c) == {i \in DOMAIN roots : roots[i].cell = c /\ roots[i].here}

\* scanCells: the root of a cell, and whether two instances in the place claim one cell.
RootOf(c) == IF RootsOf(c) = {} THEN 0 ELSE CHOOSE i \in RootsOf(c) : TRUE
Duplicates(rs) ==
    \E i, j \in DOMAIN rs : i # j /\ rs[i].here /\ rs[j].here /\ rs[i].cell = rs[j].cell

\* isBound and contextVersion
Bound == connected /\ context # 0

-----------------------------------------------------------------------------
(***************************************************************************)
(* The place and its tracker                                               *)
(***************************************************************************)

\* ChangeTracker:mark
Mark(c) ==
    IF suppressed THEN UNCHANGED <<epoch, dirty>>
    ELSE epoch' = [epoch EXCEPT ![c] = @ + 1] /\ dirty' = [dirty EXCEPT ![c] = TRUE]

\* ChangeTracker:watch.  While a walk has an instance before it, the instance is not watched;
\* of the one it is at, some descendants are.
Pending == UNION {Range(w.left) : w \in walks}
Entered == {Head(w.left) : w \in walks}
Loading == \E w \in walks : w.for = "load"
Applying == \E w \in walks : w.for = "apply"

\* The artist changes something below a cell's root.  What is added to a root a walk is at
\* will not be watched: later edits of it are lost.  The tracker should know every edit but
\* these and those made while it is deaf: an apply is walking, or this root is not watched yet.
EditInstance(i) ==
    LET r == roots[i]
    IN  /\ r.here /\ r.edits < MaxEdits
        /\ \E lost \in {FALSE, r.blind} :
              /\ roots' = [roots EXCEPT ![i] =
                    [r EXCEPT !.edits = @ + 1, !.blind = @ \/ i \in Entered,
                              !.owed = IF Applying \/ i \in Pending \/ lost THEN @ ELSE r.edits + 1]]
              /\ \/ ~lost /\ i \in heard \cup Entered /\ Mark(r.cell)
                 \/ (lost \/ i \notin heard) /\ UNCHANGED <<epoch, dirty>>
        /\ UNCHANGED <<signals, lapses, link, version, work, counts>>

\* registerSelection, for an instance in no cell, once its request is approved, however the
\* session has changed meanwhile: the new cell is walked, and marked when it is watched.
RegisterSelection(c) ==
    /\ ~Loading
    /\ \A i \in DOMAIN roots : roots[i].cell # c
    /\ command # Nil => c \notin command.cells
    /\ \A a \in applies : c \notin DOMAIN a.old
    /\ roots' = Append(roots, NewRoot(c, 1, 0))
    /\ walks' = walks \cup {[for |-> "register", left |-> <<Len(roots')>>, cells |-> {}]}
    /\ UNCHANGED <<epoch, dirty, watched, heard, suppressed, lapses, link, version, work, counts>>

\* ChangeTracker:unwatch
Unwatch(c, connections, listening) ==
    /\ watched' = [connections EXCEPT ![c] = 0]
    /\ heard' = listening \ {connections[c]}

\* A walk is through with a root and begins with the next; an apply unwatches that cell first.
WalkOn(w) ==
    LET i == Head(w.left)
        connections == [watched EXCEPT ![roots[i].cell] = i]
    IN  /\ Tail(w.left) # <<>>
        /\ walks' = (walks \ {w}) \cup {[w EXCEPT !.left = Tail(@)]}
        /\ IF w.for = "apply"
           THEN Unwatch(roots[Head(Tail(w.left))].cell, connections, heard \cup {i})
           ELSE watched' = connections /\ heard' = heard \cup {i}
        /\ UNCHANGED <<roots, epoch, dirty, suppressed, lapses, link, version, work, counts>>

\* The last root of a walk is watched.
LastWatched(w, kind) ==
    /\ w.for = kind /\ Tail(w.left) = <<>>
    /\ watched' = [watched EXCEPT ![roots[Head(w.left)].cell] = Head(w.left)]
    /\ heard' = heard \cup {Head(w.left)}
    /\ walks' = walks \ {w}

LoadEnds(w) ==
    /\ LastWatched(w, "load")
    /\ UNCHANGED <<roots, epoch, dirty, suppressed, lapses, link, version, work, counts>>

RegistrationEnds(w) ==
    LET i == Head(w.left)
    IN  /\ LastWatched(w, "register")
        /\ Mark(roots[i].cell)
        /\ roots' = [roots EXCEPT ![i].owed = IF Applying THEN @ ELSE roots[i].edits]
        /\ UNCHANGED <<suppressed, lapses, link, version, work, counts>>

-----------------------------------------------------------------------------
(***************************************************************************)
(* The session                                                             *)
(***************************************************************************)
\* connect, up to session.authenticated: a context the plugin still has is kept.
Connect ==
    /\ ~Loading
    /\ sessions < MaxSessions
    /\ sessions' = sessions + 1
    /\ connected' = TRUE
    /\ UNCHANGED <<place, context, version, work, commands, checkpoints, reloads>>

\* The bridge closes the stream: the context stays.
Closed ==
    /\ connected
    /\ connected' = FALSE
    /\ UNCHANGED <<place, context, version, work, counts>>

\* disconnect: identity saved, pairing done, a message out of order or of another session (a
\* stream left open by an earlier connect is still listened to, so it may come any time).
Disconnect ==
    /\ connected \/ context # 0
    /\ connected' = FALSE
    /\ context' = 0
    /\ UNCHANGED <<place, version, work, counts>>

\* session.context: bound to the bridge's context, or refused.
SessionContext ==
    /\ connected
    /\ context' \in {0, version}
    /\ UNCHANGED <<place, connected, version, work, counts>>

\* session.context-changed: hello again, and until it is answered there is no context.
ContextChanged ==
    /\ connected
    /\ context' = 0
    /\ UNCHANGED <<place, connected, version, work, counts>>

\* The bridge is bound to another context; its sessions hear of it later.
Rebind ==
    /\ version < MaxVersion
    /\ version' = version + 1
    /\ UNCHANGED <<place, link, work, counts>>

\* command.request (art.apply) for a set of cells: pending, or refused while another one is.
CommandRequest(cs) ==
    /\ Bound /\ version = context
    /\ command = Nil
    /\ commands < MaxCommands
    /\ commands' = commands + 1
    /\ command' = [id |-> commands', cells |-> cs, version |-> version, session |-> sessions]
    /\ UNCHANGED <<place, link, version, capture, applies,
                   checkpoints, sessions, reloads>>

\* The pending command again, under the same idempotency key.
CommandRepeated ==
    /\ Bound /\ version = context
    /\ command # Nil /\ command.session = sessions
    /\ command' = [command EXCEPT !.version = version]
    /\ UNCHANGED <<place, link, version, capture, applies, counts>>

-----------------------------------------------------------------------------
(***************************************************************************)
(* Checkpoints                                                             *)
(***************************************************************************)
Busy == capture # Nil
CaptureStep == <<place, link, version, command, applies, counts>>

\* checkpointSelected, up to the serialization.
CheckpointSelected(i) ==
    /\ ~Busy /\ Bound
    /\ roots[i].here /\ ~Duplicates(roots)
    /\ capture' = [at |-> "serialize", root |-> i, epoch |-> epoch[roots[i].cell], tries |-> 1,
                   edits |-> roots[i].edits, version |-> 0, session |-> 0]
    /\ checkpoints < MaxCheckpoints
    /\ checkpoints' = checkpoints + 1
    /\ UNCHANGED <<place, link, version, command, applies, commands, sessions,
                   reloads>>

\* SerializeInstancesAsync returned what the root was at some time between its call and
\* now, and no edit was seen meanwhile: the bytes are offered and their chunks sent.
Serialized ==
    /\ Busy /\ capture.at = "serialize"
    /\ epoch[roots[capture.root].cell] = capture.epoch
    /\ \E n \in capture.edits .. roots[capture.root].edits :
          capture' = [capture EXCEPT !.at = "upload", !.edits = n, !.tries = 0,
                                     !.session = sessions, !.version = IF Bound THEN context ELSE 0]
    /\ UNCHANGED CaptureStep

\* The cell was edited meanwhile: again.
SerializeAgain ==
    /\ Busy /\ capture.at = "serialize"
    /\ LET i == capture.root IN
       /\ epoch[roots[i].cell] # capture.epoch
       /\ capture' = IF capture.tries = MaxAttempts THEN Nil
                     ELSE [capture EXCEPT !.epoch = epoch[roots[i].cell], !.edits = roots[i].edits,
                                          !.tries = @ + 1]
    /\ UNCHANGED CaptureStep

\* The bridge accepted the offer, acknowledged the chunks and verified the whole.
Verified ==
    /\ Busy /\ capture.at = "upload"
    /\ capture.session = sessions /\ capture.version = version
    /\ capture' = [capture EXCEPT !.at = "proposal"]
    /\ UNCHANGED CaptureStep

\* Mutant: the flag stays set whenever a chunk fails.
RequestFailsBusy ==
    /\ Busy /\ capture.at # "failed"
    /\ capture' = IF capture.at = "upload" THEN [capture EXCEPT !.at = "failed"] ELSE Nil
    /\ UNCHANGED CaptureStep

\* A request cannot be sent, is refused or times out, or the serialization fails.  After a
\* chunk the plugin also cancels the transfer, and that raises an error when it is not
\* connected: the thread dies and captureBusy stays set.
RequestFails ==
    /\ Busy /\ capture.at # "failed"
    /\ \/ capture' = Nil
       \/ /\ capture.at = "upload" /\ ~connected
          /\ capture' = [capture EXCEPT !.at = "failed"]
    /\ UNCHANGED CaptureStep

\* Mutant: the epoch is not compared again.
AcceptAnyEpoch(c, e) == dirty' = [dirty EXCEPT ![c] = FALSE]

\* ChangeTracker:accept, unless the cell was edited since its bytes were taken.
AcceptUnlessEdited(c, e) == dirty' = [dirty EXCEPT ![c] = @ /\ e # capture.epoch]

\* Bytes of the root are in a revision from now on.
Save(i) == [roots EXCEPT ![i].saved = IF @ < capture.edits THEN capture.edits ELSE @]

\* art.capture.accepted, the revision waiting for acceptance.
Proposed ==
    /\ Busy /\ capture.at = "proposal"
    /\ capture.session = sessions /\ capture.version = version
    /\ capture' = Nil
    /\ roots' = Save(capture.root)
    /\ LET c == roots[capture.root].cell IN AcceptUnlessEdited(c, epoch[c])
    /\ UNCHANGED <<epoch, signals, lapses, link, version, command, applies, counts>>

\* art.capture.accepted, the revision accepted: setting NeuManBaseRevision is itself seen
\* as an edit, so a watched cell is dirty again.
Accepted ==
    /\ Busy /\ capture.at = "proposal"
    /\ capture.session = sessions /\ capture.version = version
    /\ capture' = Nil
    /\ roots' = Save(capture.root)
    /\ LET i == capture.root
           c == roots[i].cell
       IN  IF i \in heard \cup Entered /\ ~suppressed THEN Mark(c)
           ELSE UNCHANGED epoch /\ AcceptUnlessEdited(c, epoch[c])
    /\ UNCHANGED <<signals, lapses, link, version, command, applies, counts>>

-----------------------------------------------------------------------------
(***************************************************************************)
(* Applies                                                                 *)
(***************************************************************************)
\* applyPending, up to the staging of its cells.  Nothing keeps a second click out.  When a
\* cell cannot be staged, was edited meanwhile or no recording can be begun, the place stays
\* as it was and the command pending.
ApplyPending ==
    /\ command # Nil
    /\ Bound /\ command.version = context
    /\ ~Duplicates(roots)
    /\ \A c \in command.cells : ~dirty[c]
    /\ applies' = applies \cup {[id |-> command.id, old |-> [c \in command.cells |-> RootOf(c)],
                                 epochs |-> [c \in command.cells |-> epoch[c]]]}
    /\ Cardinality(applies') <= MaxApplies
    /\ UNCHANGED <<place, link, version, capture, command, counts>>

\* The second look before the mutation.
Unedited(t) == \A c \in DOMAIN t.old : ~dirty[c] /\ epoch[c] = t.epochs[c]

\* Mutant: the root to replace is looked up again after staging.
OldNow(t) == {RootOf(c) : c \in DOMAIN t.old} \ {0}

\* The roots the registry had when the apply was started.
Old(t) == {t.old[c] : c \in DOMAIN t.old} \ {0}

\* The place with the staged roots of the cells cs instead of the old roots out.
Swapped(t, out, cs) ==
    [i \in DOMAIN roots |-> [roots[i] EXCEPT !.here = @ /\ i \notin out]]
        \o [k \in 1 .. Cardinality(cs) |-> NewRoot(SetToSeq(cs)[k], 0, t.id)]

\* Mutant: the registry is not scanned after the swap.
NeverClashes(t) == FALSE

\* The scan after the swap finds two roots of one cell.
Clashes(t) == Duplicates(Swapped(t, Old(t), DOMAIN t.old))

\* The new roots of the cells cs, in the order of the command.
Staged(cs) == [k \in 1 .. Cardinality(cs) |-> Len(roots) + k]

\* The swap, verified, the old roots destroyed and the recording committed; the walk over the
\* new roots begins, and the tracker is suppressed until it ends.
ApplySwaps(a) ==
    LET new == Swapped(a, Old(a), DOMAIN a.old)
        left == Staged(DOMAIN a.old)
    IN  /\ Unedited(a) /\ ~Clashes(a)
        /\ Len(new) <= MaxRoots
        /\ roots' = new
        /\ suppressed' = TRUE
        /\ walks' = walks \cup {[for |-> "apply", left |-> left, cells |-> DOMAIN a.old]}
        /\ Unwatch(new[Head(left)].cell, watched, heard \ Old(a))
        /\ crossed' = (crossed \/ Applying
                         \/ (Busy /\ capture.at = "serialize" /\ capture.root \in Old(a)))
        /\ UNCHANGED <<epoch, dirty, recovery, link, version, work, counts>>

\* All new roots are watched: their cells are accepted and nothing is pending.
ApplyEnds(w) ==
    /\ LastWatched(w, "apply")
    /\ suppressed' = FALSE
    /\ dirty' = [c \in Cells |-> dirty[c] /\ c \notin w.cells]
    /\ command' = Nil
    /\ UNCHANGED <<roots, epoch, lapses, link, version, capture, applies, counts>>

\* The swap is done but its recording cannot be committed: nothing more is, the new roots
\* are not watched and the command stays pending.
RecordingFails(a) ==
    LET new == Swapped(a, Old(a), DOMAIN a.old)
    IN  /\ Unedited(a) /\ ~Clashes(a)
        /\ Len(new) <= MaxRoots
        /\ roots' = new
        /\ heard' = heard \ Old(a)
        /\ suppressed' = FALSE
        /\ recovery' = TRUE
        /\ UNCHANGED <<epoch, dirty, watched, walks, crossed, link, version, work, counts>>

\* The cells of an apply whose old roots another apply has destroyed.
Gone(a) == {c \in DOMAIN a.old : a.old[c] # 0 /\ ~roots[a.old[c]].here}

\* The swap fails and the old roots are put back; marks count again, whoever suppressed them.
RolledBack(a) ==
    /\ Unedited(a) /\ Gone(a) = {}
    /\ suppressed' = FALSE
    /\ UNCHANGED <<roots, epoch, dirty, watched, heard, walks, lapses, link, version, work, counts>>

\* The scan failed and an old root is gone: the loop that restores the cells, in the order of
\* the command, ends at that cell; those behind it keep their staged roots.
RollbackFails(a) ==
    /\ Unedited(a) /\ Clashes(a)
    /\ \E b \in Gone(a) : \E kept \in SUBSET (DOMAIN a.old \ {b}) :
          LET new == Swapped(a, {a.old[c] : c \in kept} \ {0}, kept)
          IN  /\ (Gone(a) \ {b}) \subseteq kept
              /\ Len(new) <= MaxRoots
              /\ roots' = new
    /\ suppressed' = FALSE
    /\ recovery' = TRUE
    /\ UNCHANGED <<epoch, dirty, watched, heard, walks, crossed, link, version, work, counts>>

-----------------------------------------------------------------------------
\* ChangeTracker:refresh, when the plugin is loaded: nothing else of it runs before its end.
LoadWalk ==
    LET found == {RootOf(c) : c \in Cells} \ {0}
    IN  IF found = {} THEN {}
        ELSE {[for |-> "load", left |-> SetToSeq(found), cells |-> {}]}

PluginInit ==
    /\ roots = [k \in 1 .. Cardinality(Managed) |-> NewRoot(SetToSeq(Managed)[k], 0, 0)]
    /\ epoch = [c \in Cells |-> 0]
    /\ dirty = [c \in Cells |-> FALSE]
    /\ watched = [c \in Cells |-> 0] /\ heard = {} /\ suppressed = FALSE
    /\ walks = LoadWalk
    /\ recovery = FALSE /\ crossed = FALSE
    /\ version = 1
    /\ capture = Nil /\ command = Nil /\ applies = {}
    /\ connected = FALSE /\ context = 0
    /\ commands = 0 /\ checkpoints = 0 /\ sessions = 0 /\ reloads = 0

\* The plugin is unloaded and loaded again: its tracker starts with every cell clean,
\* whatever was edited before, and owes nothing for it.
Reload ==
    /\ reloads < MaxReloads
    /\ reloads' = reloads + 1
    /\ sessions' = 0
    /\ roots' = [i \in DOMAIN roots |-> [roots[i] EXCEPT !.owed = 0, !.blind = FALSE]]
    /\ epoch' = [c \in Cells |-> 0]
    /\ dirty' = [c \in Cells |-> FALSE]
    /\ watched' = [c \in Cells |-> 0] /\ heard' = {} /\ suppressed' = FALSE
    /\ walks' = LoadWalk
    /\ capture' = Nil /\ command' = Nil /\ applies' = {}
    /\ connected' = FALSE /\ context' = 0
    /\ UNCHANGED <<lapses, version, commands, checkpoints>>

PluginNext ==
    \/ \E i \in DOMAIN roots : EditInstance(i) \/ CheckpointSelected(i)
    \/ \E c \in Cells : RegisterSelection(c)
    \/ Connect \/ Closed \/ Disconnect \/ SessionContext \/ ContextChanged \/ Rebind
    \/ \E cs \in Revisions : CommandRequest(cs)
    \/ CommandRepeated
    \/ Serialized \/ SerializeAgain \/ Verified \/ RequestFails \/ Proposed \/ Accepted
    \/ ApplyPending
    \/ \E a \in applies : ApplySwaps(a) \/ RecordingFails(a) \/ RolledBack(a) \/ RollbackFails(a)
    \/ \E w \in walks : WalkOn(w) \/ LoadEnds(w) \/ RegistrationEnds(w) \/ ApplyEnds(w)
    \/ Reload

\* Requests end by their timeouts, serializations by themselves.
PluginSpec ==
    /\ PluginInit /\ [][PluginNext]_pluginVars
    /\ WF_pluginVars(Serialized) /\ WF_pluginVars(SerializeAgain) /\ WF_pluginVars(RequestFails)

-----------------------------------------------------------------------------
PluginTypeOK ==
    /\ roots \in Seq(Root)
    /\ epoch \in [Cells -> Nat] /\ dirty \in [Cells -> BOOLEAN]
    /\ watched \in [Cells -> 0 .. Len(roots)] /\ heard \subseteq DOMAIN roots
    /\ suppressed \in BOOLEAN
    /\ walks \subseteq Walk /\ Pending \subseteq DOMAIN roots
    /\ command \in Command \cup {Nil}

\* An apply replaces no root that has an edit of this load of the plugin which no revision
\* holds, whatever edits, checkpoints, registrations, repeated clicks and other applies happen
\* between the click and the swap (applyPending's two looks and the epoch rule of
\* checkpointSelected).  The code does not keep this for every edit.  Not spoken of are those
\* made while an apply is watching its new roots, of any cell, or before a root is watched,
\* and those of what was added to a root just then (ChangeTracker:watch yields); nor what
\* happens after recovery-required was reported, after an apply replaced a root under
\* serialization, which a retry takes for the new one, or after two applies were watching
\* their new roots at once.
DirtyNeverOverwritten ==
    [][~recovery /\ ~crossed => \A i \in DOMAIN roots :
          roots[i].here /\ ~roots'[i].here => roots[i].owed <= roots[i].saved]_pluginVars

\* A cell has one root in the place, even when several applies of one command overlap and
\* their rollbacks fail, unless recovery-required was reported (the scan after the swap).
OneRootPerCell == recovery \/ ~Duplicates(roots)

\* An apply never puts an older command's root in the place of a newer one's.
NewestStays ==
    [][~recovery => \A i \in DOMAIN roots, j \in DOMAIN roots' :
          roots[i].here /\ ~roots'[i].here /\ roots'[j].here /\ roots'[j].cell = roots[i].cell
              => roots'[j].by >= roots[i].by]_pluginVars

\* A checkpoint under way ends and clears captureBusy, so that the next one may start, as
\* long as the plugin stays connected: its requests time out, it serializes three times.
CaptureEnds == (Busy /\ capture.at # "failed") ~> (~Busy \/ ~connected)
=============================================================================
