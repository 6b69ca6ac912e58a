---------------------------- MODULE RobloxProofs ----------------------------
(***************************************************************************)
(* For all inputs, deadlines and numbers of crashes: the provider carries  *)
(* out no mutation twice, since the saved execution suspects every one     *)
(* that may have been carried out.  For all accounts, sign-ins, rotations  *)
(* and queries: the account and the resources shown are those of the       *)
(* stored session as long as the commands do not overlap.                  *)
(***************************************************************************)
EXTENDS OperatorExecution, RobloxOAuth, SequenceTheorems, FiniteSetTheorems, TLAPS

\* What the process may have been told to do, and the executions in memory and on disk.
Actions == {NoAction, CreateTask, PollTask} \cup {Upload(c) : c \in Inputs}

Executions == [status: Statuses, uploaded: SUBSET Inputs, inFlight: Actions,
               nextPoll: Nat, polls: Nat]

Types ==
    /\ exec \in Executions /\ saved \in Executions
    /\ uploads \in [Inputs -> {0, 1}] /\ tasks \in {0, 1}
    /\ now \in Nat

\* An action is in flight only in the status that reserves it.
Fits(e) ==
    /\ e.inFlight.kind = "upload" => e.status = "uploading"
    /\ e.inFlight.kind = "create" => e.status = "ready"
    /\ e.inFlight.kind = "poll" => e.status = "polling"

\* An execution suspects every mutation that the provider has carried out.
Suspects(e, created, started) ==
    /\ started > 0 => e.status \in {"polling", "succeeded", "failed", "reconcile", "timed_out"}
                       \/ e.inFlight = CreateTask
    /\ \A c \in Inputs : created[c] > 0 =>
         c \in e.uploaded \/ e.inFlight = Upload(c) \/ e.status \in {"reconcile", "timed_out"}

\* What is in memory, what is saved and what is in flight, at each step of the process.
InStep ==
    /\ at \in {"run", "save"} => exec.inFlight = NoAction
    /\ at \in {"run", "execute", "apply", "down"} => saved = exec

\* What is about to be carried out has not been carried out before.
Untried ==
    at \in {"save_action", "execute"} =>
        /\ exec.inFlight = CreateTask => tasks = 0
        /\ \A c \in Inputs : exec.inFlight = Upload(c) => uploads[c] = 0

\* What can have been observed of an action.
Observed ==
    at = "apply" =>
        \/ exec.inFlight.kind = "poll" /\ seen \in {"pending", "completed", "failed", "unusable"}
        \/ exec.inFlight.kind \in {"upload", "create"} /\ seen \in {"unknown", "created"}

ExecutionInv ==
    /\ Types
    /\ Fits(exec) /\ Fits(saved)
    /\ Suspects(exec, uploads, tasks) /\ Suspects(saved, uploads, tasks)
    /\ InStep /\ Untried /\ Observed

-----------------------------------------------------------------------------
\* An action is told by its kind.
LEMMA Kinds ==
  /\ NoAction.kind = "none" /\ CreateTask.kind = "create" /\ PollTask.kind = "poll"
  /\ \A c \in Inputs : Upload(c).kind = "upload" /\ Upload(c).cell = c
  /\ \A action \in Actions :
       /\ action.kind = "none" => action = NoAction
       /\ action.kind = "create" => action = CreateTask
       /\ action.kind = "poll" => action = PollTask
       /\ action.kind = "upload" => action.cell \in Inputs /\ action = Upload(action.cell)
       /\ action.kind \in {"none", "create", "poll", "upload"}
BY DEF Actions, NoAction, CreateTask, PollTask, Upload

\* A new execution has done nothing.
LEMMA InitialExecution == Init => ExecutionInv
<1> SUFFICES ASSUME Init PROVE ExecutionInv
  OBVIOUS
<1>1. /\ exec = Started /\ saved = Started /\ at = "run"
      /\ uploads = [c \in Inputs |-> 0] /\ tasks = 0 /\ now = 0
  BY DEF Init
<1>2. Started \in Executions /\ Started.inFlight = NoAction
  BY DEF Started, Executions, Actions, Statuses, Active
<1>3. Types
  BY <1>1, <1>2 DEF Types
<1>4. Fits(Started) /\ Suspects(Started, uploads, tasks)
  BY <1>1, <1>2, Kinds DEF Fits, Suspects
<1>5. QED BY <1>1, <1>2, <1>3, <1>4 DEF ExecutionInv, InStep, Untried, Observed

\* A chosen action has not been tried before.
LEMMA NextActionStep == ExecutionInv /\ NextAction => ExecutionInv'
<1> SUFFICES ASSUME ExecutionInv, NextAction PROVE ExecutionInv'
  OBVIOUS
<1>1. PICK action \in Candidates : exec' = [exec EXCEPT !.inFlight = action]
  BY DEF NextAction
<1>2. /\ at = "run" /\ at' = "save_action" /\ exec.inFlight = NoAction
      /\ UNCHANGED <<saved, seen, uploads, tasks, now>>
  BY DEF NextAction, Goes
<1>3. /\ exec \in Executions /\ Suspects(exec, uploads, tasks)
      /\ uploads \in [Inputs -> {0, 1}] /\ tasks \in {0, 1}
  BY DEF ExecutionInv, Types
<1>4. \/ exec.status = "uploading" /\ \E c \in Inputs \ exec.uploaded : action = Upload(c)
      \/ exec.status = "ready" /\ action = CreateTask
      \/ exec.status = "polling" /\ action = PollTask
  <2>1. CASE exec.status = "uploading"
    BY <2>1 DEF Candidates
  <2>2. CASE exec.status = "ready"
    BY <2>2 DEF Candidates
  <2>3. CASE exec.status = "polling" /\ now >= exec.nextPoll
    BY <2>3 DEF Candidates
  <2>4. CASE /\ exec.status # "uploading" /\ exec.status # "ready"
             /\ ~(exec.status = "polling" /\ now >= exec.nextPoll)
    BY <2>4 DEF Candidates
  <2>5. QED BY <2>1, <2>2, <2>3, <2>4
<1>5. /\ exec' \in Executions /\ exec'.inFlight = action
      /\ exec'.status = exec.status /\ exec'.uploaded = exec.uploaded
  <2>1. action \in Actions
    BY <1>4 DEF Actions
  <2>2. QED BY <1>1, <1>3, <2>1 DEF Executions
<1>6. Fits(exec')
  BY <1>4, <1>5, Kinds DEF Fits
<1>7. Suspects(exec', uploads, tasks)
  BY <1>2, <1>3, <1>5, Kinds DEF Suspects
<1>8. Untried'
  <2>1. ASSUME action = CreateTask PROVE tasks = 0
    BY <1>2, <1>3, <1>4, <2>1, Kinds DEF Suspects
  <2>2. ASSUME NEW c \in Inputs, action = Upload(c) PROVE uploads[c] = 0
    <3>1. exec.status = "uploading" /\ c \notin exec.uploaded
      BY <1>4, <2>2, Kinds
    <3>2. ~(uploads[c] > 0)
      BY <1>2, <1>3, <3>1, Kinds DEF Suspects
    <3>3. QED BY <1>3, <3>2
  <2>3. QED BY <1>2, <1>5, <2>1, <2>2 DEF Untried
<1>9. (Types /\ InStep /\ Observed)'
  BY <1>2, <1>5 DEF ExecutionInv, Types, InStep, Observed
<1>10. (Fits(exec) /\ Fits(saved) /\ Suspects(exec, uploads, tasks)
         /\ Suspects(saved, uploads, tasks))'
  BY <1>2, <1>6, <1>7 DEF ExecutionInv, Fits, Suspects
<1>11. QED BY <1>8, <1>9, <1>10 DEF ExecutionInv

\* The steps that leave the execution without an action in flight, to be saved.
LEMMA ToSave ==
  ASSUME ExecutionInv, at' = "save", UNCHANGED <<saved, uploads, tasks, now>>,
         exec' \in Executions, exec'.inFlight = NoAction, Suspects(exec', uploads, tasks)
  PROVE  ExecutionInv'
<1>1. Types' /\ InStep' /\ Untried' /\ Observed'
  BY DEF ExecutionInv, Types, InStep, Untried, Observed
<1>2. (Fits(exec) /\ Fits(saved))'
  BY Kinds DEF ExecutionInv, Fits
<1>3. (Suspects(exec, uploads, tasks) /\ Suspects(saved, uploads, tasks))'
  BY DEF ExecutionInv, Suspects
<1>4. QED BY <1>1, <1>2, <1>3 DEF ExecutionInv

\* The deadline forgets nothing that may have happened.
LEMMA TimeOutStep == ExecutionInv /\ (TimeOut \/ ApplyLate) => ExecutionInv'
<1> SUFFICES ASSUME ExecutionInv, TimeOut \/ ApplyLate PROVE ExecutionInv'
  OBVIOUS
<1>1. at' = "save" /\ UNCHANGED <<saved, uploads, tasks, now>>
  BY DEF TimeOut, ApplyLate, Goes
<1>2. exec \in Executions
  BY DEF ExecutionInv, Types
<1>3. /\ exec' \in Executions
      /\ exec'.inFlight = NoAction /\ exec'.status = "timed_out"
  BY <1>2 DEF TimeOut, ApplyLate, Executions, Actions, Statuses
<1>4. Suspects(exec', uploads, tasks)
  BY <1>3 DEF Suspects
<1>5. QED BY <1>1, <1>3, <1>4, ToSave

\* A restart turns what was in flight into what may have happened.
LEMMA RecoverStep == ExecutionInv /\ Recover => ExecutionInv'
<1> SUFFICES ASSUME ExecutionInv, Recover PROVE ExecutionInv'
  OBVIOUS
<1>1. /\ at' = "save" /\ UNCHANGED <<saved, uploads, tasks, now>>
      /\ exec' = [exec EXCEPT !.inFlight = NoAction,
                              !.status = IF exec.inFlight.kind \in {"upload", "create"}
                                           THEN "reconcile" ELSE @]
  BY DEF Recover, Goes
<1>2. exec \in Executions
  BY DEF ExecutionInv, Types
<1>3. /\ exec' \in Executions
      /\ exec'.inFlight = NoAction /\ exec'.uploaded = exec.uploaded
      /\ exec'.status = IF exec.inFlight.kind \in {"upload", "create"} THEN "reconcile"
                                                                      ELSE exec.status
  BY <1>1, <1>2 DEF Executions, Actions, Statuses
<1>4. Suspects(exec', uploads, tasks)
  BY <1>3, Kinds DEF ExecutionInv, Suspects
<1>5. QED BY <1>1, <1>3, <1>4, ToSave

\* An observation is recorded for the action it is about.
LEMMA ApplyStep == ExecutionInv /\ Apply => ExecutionInv'
<1> SUFFICES ASSUME ExecutionInv, Apply PROVE ExecutionInv'
  OBVIOUS
<1>1. /\ at = "apply" /\ at' = "save" /\ UNCHANGED <<saved, uploads, tasks, now>>
      /\ exec' = Applied(exec) /\ seen # "unusable"
  BY DEF Apply, Goes
<1>2. /\ exec \in Executions /\ exec.inFlight \in Actions /\ Suspects(exec, uploads, tasks)
      /\ Fits(exec) /\ Observed /\ now + PollInterval \in Nat /\ tasks \in {0, 1}
      /\ uploads \in [Inputs -> {0, 1}]
  BY ExecutionAssumption DEF ExecutionInv, Types, Executions
<1>3. CASE exec.inFlight.kind = "upload" /\ seen = "created"
  <2> DEFINE cell == exec.inFlight.cell
             inputs == exec.uploaded \cup {cell}
  <2>1. cell \in Inputs /\ exec.inFlight = Upload(cell) /\ exec.status = "uploading"
    BY <1>2, <1>3, Kinds DEF Fits
  <2>2. exec' = [[exec EXCEPT !.inFlight = NoAction] EXCEPT
                    !.uploaded = inputs, !.status = IF inputs = Inputs THEN "ready" ELSE @]
    BY <1>1, <1>3 DEF Applied
  <2>3. /\ exec' \in Executions /\ exec'.inFlight = NoAction /\ exec'.uploaded = inputs
    <3>1. inputs \in SUBSET Inputs /\ NoAction \in Actions /\ "ready" \in Statuses
      BY <1>2, <2>1 DEF Executions, Actions, Statuses, Active
    <3> HIDE DEF inputs
    <3>2. QED BY <1>2, <2>2, <3>1 DEF Executions
  <2>4. tasks = 0
    BY <1>2, <2>1, Kinds DEF Suspects
  <2>5. Suspects(exec', uploads, tasks)
    <3>1. ASSUME NEW c \in Inputs, uploads[c] > 0 PROVE c \in inputs
      BY <1>2, <2>1, <3>1, Kinds DEF Suspects
    <3>2. QED BY <2>3, <2>4, <3>1 DEF Suspects
  <2>6. QED BY <1>1, <2>3, <2>5, ToSave
<1>4. CASE exec.inFlight.kind = "create" /\ seen = "created"
  <2>1. exec' = [[exec EXCEPT !.inFlight = NoAction] EXCEPT
                    !.status = "polling", !.nextPoll = now + PollInterval]
    BY <1>1, <1>4 DEF Applied
  <2>2. /\ exec' \in Executions /\ exec'.inFlight = NoAction /\ exec'.status = "polling"
        /\ exec'.uploaded = exec.uploaded
    BY <1>2, <2>1 DEF Executions, Actions, Statuses, Active
  <2>3. \A c \in Inputs : exec.inFlight # Upload(c)
    BY <1>4, Kinds
  <2>4. exec.status = "ready"
    BY <1>2, <1>4 DEF Fits
  <2>5. Suspects(exec', uploads, tasks)
    BY <1>2, <2>2, <2>3, <2>4 DEF Suspects
  <2>6. QED BY <1>1, <2>2, <2>5, ToSave
<1>5. CASE seen = "unknown"
  <2>1. exec' = [[exec EXCEPT !.inFlight = NoAction] EXCEPT !.status = "reconcile"]
    BY <1>1, <1>5 DEF Applied
  <2>2. exec' \in Executions /\ exec'.inFlight = NoAction /\ exec'.status = "reconcile"
    BY <1>2, <2>1 DEF Executions, Actions, Statuses
  <2>3. Suspects(exec', uploads, tasks)
    BY <2>2 DEF Suspects
  <2>4. QED BY <1>1, <2>2, <2>3, ToSave
<1>6. CASE exec.inFlight.kind = "poll" /\ seen \in {"pending", "completed", "failed"}
  <2>1. exec.status = "polling" /\ exec.inFlight # CreateTask
        /\ \A c \in Inputs : exec.inFlight # Upload(c)
    BY <1>2, <1>6, Kinds DEF Fits
  <2>2. /\ exec' \in Executions /\ exec'.inFlight = NoAction
        /\ exec'.uploaded = exec.uploaded
        /\ exec'.status \in {"polling", "succeeded", "failed"}
    <3>1. CASE seen = "pending"
      <4>1. exec' = [[exec EXCEPT !.inFlight = NoAction] EXCEPT
                        !.polls = @ + 1, !.nextPoll = now + PollInterval]
        BY <1>1, <3>1 DEF Applied
      <4>2. exec.polls + 1 \in Nat /\ NoAction \in Actions
        BY <1>2 DEF Executions, Actions
      <4>3. exec' \in Executions
        BY <1>2, <4>1, <4>2 DEF Executions
      <4>4. exec'.inFlight = NoAction /\ exec'.uploaded = exec.uploaded
            /\ exec'.status = exec.status
        BY <1>2, <4>1 DEF Executions
      <4>5. QED BY <2>1, <4>3, <4>4
    <3>2. CASE seen = "completed"
      <4>1. exec' = [[exec EXCEPT !.inFlight = NoAction] EXCEPT !.status = "succeeded"]
        BY <1>1, <3>2 DEF Applied
      <4>2. QED BY <1>2, <4>1 DEF Executions, Actions, Statuses
    <3>3. CASE seen = "failed"
      <4>1. exec' = [[exec EXCEPT !.inFlight = NoAction] EXCEPT !.status = "failed"]
        BY <1>1, <3>3 DEF Applied
      <4>2. QED BY <1>2, <4>1 DEF Executions, Actions, Statuses
    <3>4. QED BY <1>6, <3>1, <3>2, <3>3
  <2>3. Suspects(exec', uploads, tasks)
    BY <1>2, <2>1, <2>2 DEF Suspects
  <2>4. QED BY <1>1, <2>2, <2>3, ToSave
<1>7. QED BY <1>1, <1>2, <1>3, <1>4, <1>5, <1>6 DEF Observed

\* An action is saved before it is carried out.
LEMMA SaveActionStep == ExecutionInv /\ SaveAction => ExecutionInv'
<1> SUFFICES ASSUME ExecutionInv, SaveAction PROVE ExecutionInv'
  OBVIOUS
<1>1. /\ at = "save_action" /\ at' = "execute" /\ saved' = exec
      /\ UNCHANGED <<exec, seen, uploads, tasks, now>>
  BY DEF SaveAction, Goes
<1>2. QED BY <1>1 DEF ExecutionInv, Types, Fits, Suspects, InStep, Untried, Observed

\* What is saved is what is in memory.
LEMMA SaveStep == ExecutionInv /\ Save => ExecutionInv'
<1> SUFFICES ASSUME ExecutionInv, Save PROVE ExecutionInv'
  OBVIOUS
<1>1. /\ at = "save" /\ at' = "run" /\ saved' = exec
      /\ UNCHANGED <<exec, seen, uploads, tasks, now>>
  BY DEF Save, Goes
<1>2. QED BY <1>1 DEF ExecutionInv, Types, Fits, Suspects, InStep, Untried, Observed

\* The provider carries out an action that was untried.
LEMMA ExecuteStep == ExecutionInv /\ Execute => ExecutionInv'
<1> SUFFICES ASSUME ExecutionInv, Execute PROVE ExecutionInv'
  OBVIOUS
<1>1. /\ at = "execute" /\ at' = "apply" /\ UNCHANGED <<exec, saved, now>>
  BY DEF Execute, Goes
<1>2. /\ exec \in Executions /\ exec.inFlight \in Actions /\ saved = exec
      /\ Suspects(exec, uploads, tasks) /\ Untried
      /\ uploads \in [Inputs -> {0, 1}] /\ tasks \in {0, 1}
  BY <1>1 DEF ExecutionInv, Types, Executions, InStep
<1>3. /\ uploads' \in [Inputs -> {0, 1}] /\ tasks' \in {0, 1}
      /\ Suspects(exec, uploads', tasks') /\ Observed'
  <2>1. CASE exec.inFlight.kind = "upload"
    <3> DEFINE cell == exec.inFlight.cell
    <3>1. PICK n \in {0, 1} : /\ uploads' = [uploads EXCEPT ![cell] = @ + n]
                              /\ seen' \in {"unknown", "created"}
      BY <2>1 DEF Execute
    <3>2. cell \in Inputs /\ exec.inFlight = Upload(cell)
      BY <1>2, <2>1, Kinds
    <3>3. uploads[cell] = 0
      BY <1>1, <1>2, <3>2 DEF Untried
    <3>4. tasks' = tasks
      BY <2>1 DEF Execute
    <3> HIDE DEF cell
    <3>5. uploads' \in [Inputs -> {0, 1}] /\ \A c \in Inputs : c # cell => uploads'[c] = uploads[c]
      BY <1>2, <3>1, <3>2, <3>3
    <3>6. Suspects(exec, uploads', tasks')
      BY <1>2, <3>2, <3>4, <3>5 DEF Suspects
    <3>7. QED BY <1>1, <1>2, <2>1, <3>1, <3>4, <3>5, <3>6 DEF Observed
  <2>2. CASE exec.inFlight.kind = "create"
    <3>1. PICK n \in {0, 1} : tasks' = tasks + n /\ seen' \in {"unknown", "created"}
      BY <2>2 DEF Execute
    <3>2. uploads' = uploads
      BY <2>2 DEF Execute
    <3>3. exec.inFlight = CreateTask /\ tasks = 0
      BY <1>1, <1>2, <2>2, Kinds DEF Untried
    <3>4. Suspects(exec, uploads', tasks')
      BY <1>2, <3>2, <3>3 DEF Suspects
    <3>5. QED BY <1>1, <1>2, <2>2, <3>1, <3>2, <3>3, <3>4 DEF Observed
  <2>3. CASE exec.inFlight.kind = "poll"
    <3>1. /\ UNCHANGED <<uploads, tasks>>
          /\ seen' \in {"pending", "completed", "failed", "unusable"}
      BY <2>3 DEF Execute
    <3>2. QED BY <1>1, <1>2, <2>3, <3>1 DEF Observed
  <2>4. QED BY <2>1, <2>2, <2>3 DEF Execute
<1>4. (Fits(exec) /\ Fits(saved) /\ InStep /\ Untried)'
  BY <1>1 DEF ExecutionInv, Fits, InStep, Untried
<1>5. (Types /\ Suspects(exec, uploads, tasks) /\ Suspects(saved, uploads, tasks))'
  BY <1>1, <1>2, <1>3 DEF ExecutionInv, Types, Suspects
<1>6. QED BY <1>3, <1>4, <1>5 DEF ExecutionInv

\* A refusal says that nothing was done.
LEMMA ApplyRefusedStep == ExecutionInv /\ ApplyRefused => ExecutionInv'
<1> SUFFICES ASSUME ExecutionInv, ApplyRefused PROVE ExecutionInv'
  OBVIOUS
<1>1. /\ at = "apply" /\ at' = "execute" /\ seen = "unusable"
      /\ UNCHANGED <<exec, saved, seen, uploads, tasks, now>>
  BY DEF ApplyRefused, Goes
<1>2. exec.inFlight.kind = "poll"
  BY <1>1 DEF ExecutionInv, Observed
<1>3. Untried'
  BY <1>1, <1>2, Kinds DEF Untried
<1>4. QED BY <1>1, <1>3 DEF ExecutionInv, Types, Fits, Suspects, InStep, Observed

\* A crash leaves what was saved.
LEMMA CrashStep == ExecutionInv /\ Crash => ExecutionInv'
<1> SUFFICES ASSUME ExecutionInv, Crash PROVE ExecutionInv'
  OBVIOUS
<1>1. at' = "down" /\ exec' = saved /\ UNCHANGED <<saved, seen, uploads, tasks, now>>
  BY DEF Crash
<1>2. QED BY <1>1 DEF ExecutionInv, Types, Fits, Suspects, InStep, Untried, Observed

\* Time changes nothing but the clock.
LEMMA TickStep == ExecutionInv /\ Tick => ExecutionInv'
<1> SUFFICES ASSUME ExecutionInv, Tick PROVE ExecutionInv'
  OBVIOUS
<1>1. now' = now + 1 /\ UNCHANGED <<exec, saved, at, seen, uploads, tasks>>
  BY DEF Tick
<1>2. QED BY <1>1 DEF ExecutionInv, Types, Fits, Suspects, InStep, Untried, Observed

\* Every step keeps the invariant.
LEMMA ExecutionStep == ExecutionInv /\ [Next]_vars => ExecutionInv'
<1> SUFFICES ASSUME ExecutionInv, [Next]_vars PROVE ExecutionInv'
  OBVIOUS
<1>1. CASE Process
  BY <1>1, NextActionStep, TimeOutStep, SaveActionStep, SaveStep, ExecuteStep, ApplyStep,
     ApplyRefusedStep, RecoverStep DEF Process
<1>2. CASE Crash
  BY <1>2, CrashStep
<1>3. CASE Tick
  BY <1>3, TickStep
<1>4. CASE UNCHANGED vars
  BY <1>4 DEF vars, ExecutionInv, Types, Fits, Suspects, InStep, Untried, Observed
<1>5. QED BY <1>1, <1>2, <1>3, <1>4 DEF Next

\* The invariant of the execution holds.
LEMMA ExecutionInvHolds == Spec => []ExecutionInv
BY InitialExecution, ExecutionStep, PTL DEF Spec

-----------------------------------------------------------------------------
\* The saved execution suspects every mutation that the provider may have carried out
\* (native_execution.rs:304).
THEOREM SavedSuspectsHolds == Spec => []SavedSuspects
<1>1. ExecutionInv => SavedSuspects
  BY DEF ExecutionInv, Suspects, SavedSuspects
<1>2. QED BY <1>1, ExecutionInvHolds, PTL

\* No crash, lost answer or deadline makes the provider carry out an upload or create a
\* task twice (native_execution.rs:391).
THEOREM MutatedOnceHolds == Spec => []MutatedOnce
<1>1. ExecutionInv => MutatedOnce
  BY DEF ExecutionInv, Types, MutatedOnce
<1>2. QED BY <1>1, ExecutionInvHolds, PTL

-----------------------------------------------------------------------------
(***************************************************************************)
(* The Roblox session.  As long as its commands do not overlap, a flow     *)
(* that listens is the only one that may change the stored session, and a  *)
(* rotation keeps its account.                                             *)
(***************************************************************************)

\* A sign-in,
FlowSteps == {"waiting", "called", "granted", "stored", "failing", "done"}
Flow == [at: FlowSteps, token: Nat, cancelled: BOOLEAN]

\* and a rotation or query, with the steps they can be at.
TaskSteps == {"idle", "asking", "presenting", "granted", "verified", "stored", "failing",
              "reading", "reads"}
Task == [at: TaskSteps, why: {"none", "rotate", "query"}, token: Nat, next: Nat]

\* The refresh tokens issued, and 0.
Tokens == 0 .. Len(issued)

\* A rotation has a token, and its successor belongs to the same account.
TaskOk(r) ==
    /\ r \in Task
    /\ r.token \in Tokens /\ r.next \in Tokens
    /\ r.at \in {"asking", "presenting", "granted", "verified", "stored"} => r.token # 0
    /\ r.at \in {"granted", "verified", "stored"} => r.next # 0 /\ issued[r.next] = issued[r.token]
    /\ r.at \in {"reading", "reads"} => r.why = "query"

\* The types, with tokens that the provider has issued.
FlowTypes ==
    /\ flow \in Seq(Flow) /\ canceller \in 0 .. Len(flow)
    /\ \A f \in DOMAIN flow : flow[f].token \in Tokens

TaskTypes ==
    /\ task = [t \in Tasks |-> task[t]]
    /\ \A t \in Tasks : TaskOk(task[t])

OAuthTypes ==
    /\ issued \in Seq(Accounts) /\ vault \in Tokens
    /\ FlowTypes /\ TaskTypes
    /\ resources = [inventory |-> resources.inventory, selection |-> resources.selection]

\* The callback port is bound by one flow at most.
OneListener == \A f, g \in DOMAIN flow : Listening(f) /\ Listening(g) => f = g

\* Sign-in, sign-out and rotation are apart.
RotatingSome == \E t \in Tasks : Rotating(t)

Apart ==
    /\ ~(SigningIn /\ SigningOut)
    /\ ~(SigningIn /\ RotatingSome)
    /\ ~(SigningOut /\ RotatingSome)

\* So the vault changes its account only under a flow, which has the status say so first, and
\* a rotation has a token of the stored account.
Signed ==
    /\ Apart
    /\ public.phase = "signed_in" /\ panel # "clearing" => public.account = Owner(vault)
    /\ \A f \in DOMAIN flow : Listening(f) => public.phase # "signed_in"
    /\ \A f \in DOMAIN flow : flow[f].at = "stored" => vault = flow[f].token
    /\ \A t \in Tasks : Rotating(t) => Owner(task[t].token) = Owner(vault)

\* What is shown and what is being read is of that account; a flow has forgotten what was shown.
Displayed ==
    /\ ~Mixture
    /\ panel # "clearing" =>
         {resources.inventory, resources.selection} \subseteq {NoAccount, Owner(vault)}
    /\ \A f \in DOMAIN flow : Listening(f) => resources = NoResources
    /\ \A t \in Tasks : task[t].at = "reads" => Owner(task[t].token) = Owner(vault)

\* The inductive invariant.
OAuthInv ==
    /\ OAuthTypes
    /\ OneListener
    /\ ~crossed => Signed
    /\ ~crossed /\ ~mixed => Displayed

\* A set with two members has not at most one.
LEMMA TwoAreMore ==
  ASSUME NEW S, IsFiniteSet(S), NEW a \in S, NEW b \in S, a # b
  PROVE  Cardinality(S) > 1
<1>1. IsFiniteSet({a}) /\ Cardinality({a}) = 1
  BY FS_Singleton
<1>2. b \notin {a}
  OBVIOUS
<1>3. IsFiniteSet({a} \cup {b}) /\ Cardinality({a} \cup {b}) = Cardinality({a}) + 1
  BY <1>1, <1>2, FS_AddElement, Zenon
<1>4. {a} \cup {b} \subseteq S
  OBVIOUS
<1>5. Cardinality({a} \cup {b}) <= Cardinality(S)
  BY <1>4, FS_Subset
<1>6. Cardinality(S) \in Nat
  BY FS_CardinalityType
<1> QED
  BY <1>1, <1>3, <1>5, <1>6

\* What Overlap counts.
LEMMA NoneTogether ==
  ASSUME NEW A \in BOOLEAN, NEW B \in BOOLEAN, NEW C \in BOOLEAN,
         ~(Cardinality({x \in {<<"in", A>>, <<"out", B>>, <<"rotate", C>>} : x[2]}) > 1)
  PROVE  ~(A /\ B) /\ ~(A /\ C) /\ ~(B /\ C)
<1> DEFINE a == <<"in", A>>
           b == <<"out", B>>
           c == <<"rotate", C>>
           S == {x \in {a, b, c} : x[2]}
<1>1. a # b /\ a # c /\ b # c
  OBVIOUS
<1>2. (A => a \in S) /\ (B => b \in S) /\ (C => c \in S)
  OBVIOUS
<1>3. ~(Cardinality(S) > 1)
  OBVIOUS
<1>4. IsFiniteSet(S)
  <2>1. S \subseteq ({a} \cup {b}) \cup {c}
    OBVIOUS
  <2> HIDE DEF a, b, c, S
  <2>2. IsFiniteSet({a})
    BY FS_Singleton
  <2>3. IsFiniteSet({a} \cup {b})
    BY <2>2, FS_AddElement
  <2>4. IsFiniteSet(({a} \cup {b}) \cup {c})
    BY <2>3, FS_AddElement
  <2> QED
    BY <2>1, <2>4, FS_Subset
<1> HIDE DEF a, b, c, S
<1> QED
  BY <1>1, <1>2, <1>3, <1>4, TwoAreMore

\* A step that is noted leads to a state whose commands are apart, or says that they are not.
LEMMA NotedApart ==
  ASSUME crossed' = (crossed \/ Overlap'), mixed' = (mixed \/ Mixture')
  PROVE  /\ ~crossed' => ~crossed /\ Apart'
         /\ ~mixed' => ~mixed /\ ~Mixture'
<1>1. ASSUME ~crossed' PROVE ~crossed /\ Apart'
  <2> DEFINE A == SigningIn'
             B == SigningOut'
             C == RotatingSome'
  <2>1. ~crossed /\ ~Overlap'
    BY <1>1
  <2>2. A \in BOOLEAN /\ B \in BOOLEAN /\ C \in BOOLEAN
    BY DEF SigningIn, SigningOut, RotatingSome
  <2>3. ~(Cardinality({x \in {<<"in", A>>, <<"out", B>>, <<"rotate", C>>} : x[2]}) > 1)
    BY <2>1, Zenon DEF Overlap, RotatingSome
  <2> HIDE DEF A, B, C
  <2>4. ~(A /\ B) /\ ~(A /\ C) /\ ~(B /\ C)
    BY <2>2, <2>3, NoneTogether, Zenon
  <2> QED
    BY <2>1, <2>4, Zenon DEF A, B, C, Apart
<1>2. ASSUME ~mixed' PROVE ~mixed /\ ~Mixture'
  BY <1>2
<1> QED
  BY <1>1, <1>2

\* The provider issues a token, or none: every token it has issued keeps its account.
Grown ==
    /\ issued' \in Seq(Accounts)
    /\ Tokens \subseteq Tokens'
    /\ \A x \in Tokens : x # 0 => issued'[x] = issued[x]

\* Every step notes what overlaps.
Noting == crossed' = (crossed \/ Overlap') /\ mixed' = (mixed \/ Mixture')

\* Both ways the provider may go.
LEMMA Grows ==
  ASSUME OAuthTypes, issued' = issued \/ \E a \in Accounts : issued' = Append(issued, a)
  PROVE  /\ Grown
         /\ issued' # issued => Len(issued) + 1 \in Tokens'
<1>1. issued \in Seq(Accounts) /\ Len(issued) \in Nat /\ DOMAIN issued = 1 .. Len(issued)
  BY LenProperties DEF OAuthTypes
<1>2. CASE issued' = issued
  BY <1>1, <1>2 DEF Grown, Tokens
<1>3. ASSUME NEW a \in Accounts, issued' = Append(issued, a) PROVE Grown /\ Len(issued) + 1 \in Tokens'
  <2>1. /\ issued' \in Seq(Accounts) /\ Len(issued') = Len(issued) + 1
        /\ \A x \in 1 .. Len(issued) : issued'[x] = issued[x]
    <3>1. issued \in Seq(Accounts) /\ issued' = Append(issued, a)
      BY <1>1, <1>3
    <3> QED
      BY <3>1, AppendProperties
  <2> DEFINE n == Len(issued)
             m == Len(issued')
  <2>2. n \in Nat /\ m = n + 1 /\ \A x \in 1 .. n : issued'[x] = issued[x]
    BY <1>1, <2>1
  <2>3. Tokens = 0 .. n /\ Tokens' = 0 .. m
    BY DEF Tokens
  <2> HIDE DEF n, m
  <2>4. /\ Tokens \subseteq Tokens' /\ n + 1 \in Tokens'
        /\ \A x \in Tokens : x # 0 => issued'[x] = issued[x]
    BY <2>2, <2>3
  <2> QED
    BY <2>1, <2>4 DEF Grown, n
<1> QED
  BY <1>2, <1>3

\* One task goes on, with a record that fits.
LEMMA TaskMoves ==
  ASSUME OAuthTypes, Grown, NEW t \in Tasks, NEW r,
         task' = [task EXCEPT ![t] = r],
         r \in Task,
         r.token \in Tokens, r.next \in Tokens',
         r.at \in {"asking", "presenting", "granted", "verified", "stored"} => r.token # 0,
         r.at \in {"granted", "verified", "stored"} => r.next # 0 /\ issued'[r.next] = issued[r.token],
         r.at \in {"reading", "reads"} => r.why = "query"
  PROVE  /\ TaskTypes' /\ task'[t] = r
         /\ \A u \in Tasks \ {t} : task'[u] = task[u]
<1>1. task'[t] = r /\ task' = [u \in Tasks |-> task'[u]] /\ \A u \in Tasks \ {t} : task'[u] = task[u]
  BY DEF OAuthTypes, TaskTypes
<1>2. ASSUME NEW u \in Tasks PROVE TaskOk(task[u])'
  <2>1. CASE u = t
    BY <1>1, <2>1 DEF TaskOk, Grown
  <2>2. CASE u # t
    BY <1>1, <2>2 DEF TaskOk, Grown, OAuthTypes, TaskTypes
  <2> QED
    BY <2>1, <2>2
<1> QED
  BY <1>1, <1>2 DEF TaskTypes

\* No task moves.
LEMMA TasksStay ==
  ASSUME OAuthTypes, Grown, task' = task
  PROVE  TaskTypes'
BY DEF OAuthTypes, TaskTypes, TaskOk, Grown

\* One flow goes on.
LEMMA FlowMoves ==
  ASSUME OAuthTypes, Grown, NEW f \in DOMAIN flow, NEW r \in Flow, r.token \in Tokens',
         flow' = [flow EXCEPT ![f] = r], canceller' \in {0, canceller}
  PROVE  /\ FlowTypes' /\ DOMAIN flow' = DOMAIN flow /\ flow'[f] = r
         /\ \A g \in DOMAIN flow \ {f} : flow'[g] = flow[g]
<1>1. flow \in Seq(Flow)
  BY DEF OAuthTypes, FlowTypes
<1>2. flow' \in Seq(Flow) /\ Len(flow') = Len(flow) /\ DOMAIN flow' = DOMAIN flow
  BY <1>1, ExceptSeq
<1>3. flow'[f] = r /\ \A g \in DOMAIN flow \ {f} : flow'[g] = flow[g]
  BY <1>1
<1>4. \A g \in DOMAIN flow' : flow'[g].token \in Tokens'
  BY <1>2, <1>3 DEF OAuthTypes, FlowTypes, Grown
<1>5. canceller' \in 0 .. Len(flow')
  <2> DEFINE n == Len(flow)
  <2>1. n \in Nat /\ canceller \in 0 .. n
    BY <1>1, LenProperties DEF OAuthTypes, FlowTypes
  <2> HIDE DEF n
  <2>2. canceller' \in 0 .. n
    BY <2>1
  <2> QED
    BY <1>2, <2>2 DEF n
<1> QED
  BY <1>2, <1>3, <1>4, <1>5 DEF FlowTypes

\* No flow moves.
LEMMA FlowsStay ==
  ASSUME OAuthTypes, Grown, flow' = flow, canceller' = canceller
  PROVE  FlowTypes'
BY DEF OAuthTypes, FlowTypes, Grown

\* A flow that is told to stop.
LEMMA Cancelled ==
  ASSUME NEW o \in Flow, NEW yes \in BOOLEAN
  PROVE  LET r == [o EXCEPT !.cancelled = yes]
         IN  r \in Flow /\ r.at = o.at /\ r.token = o.token
BY DEF Flow

\* The registered flow is told to stop: it is where it was.
LEMMA Told ==
  ASSUME OAuthTypes, Grown, canceller' = 0,
         flow' = IF canceller = 0 THEN flow ELSE [flow EXCEPT ![canceller].cancelled = TRUE]
  PROVE  /\ FlowTypes' /\ DOMAIN flow' = DOMAIN flow
         /\ \A g \in DOMAIN flow : flow'[g].at = flow[g].at /\ flow'[g].token = flow[g].token
<1>0. flow \in Seq(Flow) /\ DOMAIN flow = 1 .. Len(flow) /\ Len(flow) \in Nat
  BY LenProperties DEF OAuthTypes, FlowTypes
<1>1. CASE canceller = 0
  BY <1>0, <1>1 DEF OAuthTypes, FlowTypes, Grown
<1>2. CASE canceller # 0
  <2> DEFINE r == [flow[canceller] EXCEPT !.cancelled = TRUE]
  <2>1. canceller \in DOMAIN flow
    BY <1>0, <1>2 DEF OAuthTypes, FlowTypes
  <2>2. flow[canceller] \in Flow /\ flow[canceller].token \in Tokens
    BY <1>0, <2>1, ElementOfSeq DEF OAuthTypes, FlowTypes
  <2>3. r \in Flow /\ r.at = flow[canceller].at /\ r.token = flow[canceller].token
    BY <2>2, Cancelled, Zenon
  <2>4. flow' = [flow EXCEPT ![canceller] = r]
    BY <1>2
  <2>5. r.token \in Tokens'
    BY <2>2, <2>3 DEF Grown
  <2> HIDE DEF r
  <2> QED
    BY <2>1, <2>3, <2>4, <2>5, FlowMoves
<1> QED
  BY <1>1, <1>2

\* Nothing that Signed and Displayed speak of changes for the worse: no flow begins to listen,
\* no token changes its account, and no account is shown that was not.
Calm ==
    /\ vault' = vault
    /\ resources' \in {resources, NoResources}
    /\ public'.phase = "signed_in" => public' = public
    /\ panel = "clearing" => panel' = "clearing"
    /\ \A f \in DOMAIN flow' :
         /\ Listening(f)' => f \in DOMAIN flow /\ Listening(f)
         /\ flow'[f].at = "stored" =>
              f \in DOMAIN flow /\ flow[f].at = "stored" /\ flow'[f].token = flow[f].token
    /\ \A t \in Tasks :
         /\ Rotating(t)' => task'[t].token = vault \/ (Rotating(t) /\ task'[t].token = task[t].token)
         /\ task'[t].at = "reads" =>
              task'[t].token = vault \/ (task[t].at = "reads" /\ task'[t].token = task[t].token)

\* A calm step keeps the invariant.
LEMMA CalmKeeps ==
  ASSUME OAuthInv, Grown, FlowTypes', TaskTypes', Noting, Calm
  PROVE  OAuthInv'
<1>1. /\ ~crossed' => ~crossed /\ Apart'
      /\ ~mixed' => ~mixed /\ ~Mixture'
  BY NotedApart DEF Noting
<1>2. Owner(vault)' = Owner(vault)
  BY DEF Calm, Grown, Owner, OAuthInv, OAuthTypes
<1>3. OAuthTypes'
  BY DEF OAuthInv, OAuthTypes, Calm, Grown, NoResources
<1>4. OneListener'
  BY DEF OAuthInv, OneListener, Calm
<1>5. ASSUME ~crossed' PROVE Signed'
  <2>1. Signed /\ Apart'
    BY <1>1, <1>5 DEF OAuthInv
  <2>2. public'.phase = "signed_in" /\ panel' # "clearing" => public'.account = Owner(vault)'
    BY <1>2, <2>1 DEF Signed, Calm
  <2>3. \A f \in DOMAIN flow' : Listening(f)' => public'.phase # "signed_in"
    BY <2>1 DEF Signed, Calm
  <2>4. \A f \in DOMAIN flow' : flow'[f].at = "stored" => vault' = flow'[f].token
    BY <2>1 DEF Signed, Calm
  <2>5. \A t \in Tasks : Rotating(t)' => Owner(task[t].token)' = Owner(vault)'
    <3> SUFFICES ASSUME NEW t \in Tasks, Rotating(t)' PROVE Owner(task[t].token)' = Owner(vault)'
      OBVIOUS
    <3>1. CASE task'[t].token = vault
      BY <3>1 DEF Calm, Owner
    <3>2. CASE Rotating(t) /\ task'[t].token = task[t].token
      <4>1. Owner(task[t].token)' = Owner(task[t].token)
        BY <3>2 DEF Owner, Grown, OAuthInv, OAuthTypes, TaskTypes, TaskOk
      <4> QED
        BY <1>2, <2>1, <3>2, <4>1 DEF Signed
    <3> QED
      BY <3>1, <3>2 DEF Calm
  <2> QED
    BY <2>1, <2>2, <2>3, <2>4, <2>5 DEF Signed
<1>6. ASSUME ~crossed', ~mixed' PROVE Displayed'
  <2>1. Displayed /\ ~Mixture'
    BY <1>1, <1>6 DEF OAuthInv
  <2>2. panel' # "clearing" =>
          {resources'.inventory, resources'.selection} \subseteq {NoAccount, Owner(vault)'}
    BY <1>2, <2>1 DEF Displayed, Calm, NoResources
  <2>3. \A f \in DOMAIN flow' : Listening(f)' => resources' = NoResources
    BY <2>1 DEF Displayed, Calm
  <2>4. \A t \in Tasks : task'[t].at = "reads" => Owner(task[t].token)' = Owner(vault)'
    <3> SUFFICES ASSUME NEW t \in Tasks, task'[t].at = "reads"
                 PROVE  Owner(task[t].token)' = Owner(vault)'
      OBVIOUS
    <3>1. CASE task'[t].token = vault
      BY <3>1 DEF Calm, Owner
    <3>2. CASE task[t].at = "reads" /\ task'[t].token = task[t].token
      <4>1. Owner(task[t].token)' = Owner(task[t].token)
        BY <3>2 DEF Owner, Grown, OAuthInv, OAuthTypes, TaskTypes, TaskOk
      <4> QED
        BY <1>2, <2>1, <3>2, <4>1 DEF Displayed
    <3> QED
      BY <3>1, <3>2 DEF Calm
  <2> QED
    BY <2>1, <2>2, <2>3, <2>4 DEF Displayed
<1> QED
  BY <1>3, <1>4, <1>5, <1>6 DEF OAuthInv

\* The provider issues nothing.
LEMMA GrowsNot ==
  ASSUME OAuthInv, issued' = issued
  PROVE  Grown /\ OAuthTypes
BY Grows DEF OAuthInv

\* The account panel's commands as far as they change no account.
LEMMA PanelKeeps ==
  ASSUME OAuthInv, StartChecks \/ StartFails \/ Cancel \/ Logout
  PROVE  OAuthInv'
<1>1. /\ UNCHANGED <<vault, task, issued>> /\ Noting
      /\ resources' \in {resources, NoResources} /\ panel # "clearing"
      /\ public' = public \/ public'.phase # "signed_in"
      /\ \/ UNCHANGED <<flow, canceller>>
         \/ /\ canceller' = 0
            /\ flow' = IF canceller = 0 THEN flow ELSE [flow EXCEPT ![canceller].cancelled = TRUE]
  BY DEF StartChecks, StartFails, Cancel, Logout, Noted, Quiet, Noting, provider, Shown
<1>2. Grown /\ OAuthTypes
  BY <1>1, GrowsNot
<1>3. /\ FlowTypes' /\ DOMAIN flow' = DOMAIN flow
      /\ \A g \in DOMAIN flow : flow'[g].at = flow[g].at /\ flow'[g].token = flow[g].token
  BY <1>1, <1>2, FlowsStay, Told
<1>4. TaskTypes'
  BY <1>1, <1>2, TasksStay
<1>5. Calm
  BY <1>1, <1>3 DEF Calm, Listening, Rotating
<1> QED
  BY <1>1, <1>2, <1>3, <1>4, <1>5, CalmKeeps

\* A flow goes on: its record.
LEMMA FlowRecord ==
  ASSUME OAuthTypes, NEW f \in DOMAIN flow, NEW to \in FlowSteps, NEW r,
         r = [flow[f] EXCEPT !.at = to]
  PROVE  /\ flow[f].token \in Tokens /\ r \in Flow /\ r.at = to
         /\ r.token = flow[f].token
<1>1. flow[f] \in Flow /\ flow[f].token \in Tokens
  BY ElementOfSeq, LenProperties DEF OAuthTypes, FlowTypes
<1> QED
  BY <1>1 DEF Flow

\* What else is calm while a flow moves.
Beside ==
    /\ UNCHANGED <<vault, resources, panel, task, issued>> /\ Noting
    /\ canceller' \in {0, canceller}
    /\ public' = public \/ public'.phase # "signed_in"

\* The callback is answered, the sign-in fails or is dropped: nothing is stored.
LEMMA FlowKeeps ==
  ASSUME OAuthInv, NEW f \in DOMAIN flow, NEW to \in {"called", "failing", "done"},
         flow' = [flow EXCEPT ![f].at = to], Beside,
         to = "called" => flow[f].at = "waiting"
  PROVE  OAuthInv'
<1> DEFINE r == [flow[f] EXCEPT !.at = to]
<1>1. Grown /\ OAuthTypes
  BY GrowsNot DEF Beside
<1>2. r \in Flow /\ r.at = to /\ r.token = flow[f].token /\ flow[f].token \in Tokens
  <2>1. to \in FlowSteps /\ r = [flow[f] EXCEPT !.at = to]
    BY DEF FlowSteps
  <2> HIDE DEF r
  <2> QED
    BY <1>1, <2>1, FlowRecord
<1>3. flow' = [flow EXCEPT ![f] = r]
  OBVIOUS
<1> HIDE DEF r
<1>4. /\ FlowTypes' /\ DOMAIN flow' = DOMAIN flow /\ flow'[f] = r
      /\ \A g \in DOMAIN flow \ {f} : flow'[g] = flow[g]
  BY <1>1, <1>2, <1>3, FlowMoves DEF Grown, Beside
<1>5. TaskTypes'
  BY <1>1, TasksStay DEF Beside
<1>6. Calm
  BY <1>2, <1>4 DEF Calm, Listening, Rotating, Beside
<1> QED
  BY <1>1, <1>4, <1>5, <1>6, CalmKeeps DEF Beside

\* A code is exchanged for the first token of its session.
LEMMA ExchangeKeeps ==
  ASSUME OAuthInv, NEW f \in DOMAIN flow, NEW a \in Accounts, Exchange(f, a)
  PROVE  OAuthInv'
<1> DEFINE n == Len(issued) + 1
           r == [flow[f] EXCEPT !.at = "granted", !.token = n]
<1>1. /\ UNCHANGED <<vault, public, resources, canceller, panel, task>> /\ Noting
      /\ issued' = Append(issued, a) /\ flow[f].at = "called" /\ flow' = [flow EXCEPT ![f] = r]
  BY DEF Exchange, Noted, Noting
<1>2. OAuthTypes
  BY DEF OAuthInv
<1>3. Grown /\ n \in Tokens' /\ n \in Nat
  <2>1. issued \in Seq(Accounts)
    BY <1>2 DEF OAuthTypes
  <2>2. Len(issued') = Len(issued) + 1 /\ Len(issued) \in Nat
    BY <1>1, <2>1, AppendProperties
  <2>3. issued' # issued
    BY <2>2
  <2> QED
    BY <1>1, <1>2, <2>2, <2>3, Grows
<1>4. r \in Flow /\ r.at = "granted" /\ r.token = n
  <2>1. flow[f] \in Flow
    BY <1>2, ElementOfSeq, LenProperties DEF OAuthTypes, FlowTypes
  <2>2. n \in Nat
    BY <1>3
  <2> HIDE DEF n
  <2> QED
    BY <2>1, <2>2 DEF Flow, FlowSteps
<1> HIDE DEF r, n
<1>5. /\ FlowTypes' /\ DOMAIN flow' = DOMAIN flow /\ flow'[f] = r
      /\ \A g \in DOMAIN flow \ {f} : flow'[g] = flow[g]
  BY <1>1, <1>2, <1>3, <1>4, FlowMoves
<1>6. TaskTypes'
  BY <1>1, <1>2, <1>3, TasksStay
<1>7. Calm
  BY <1>1, <1>4, <1>5 DEF Calm, Listening, Rotating
<1> QED
  BY <1>1, <1>3, <1>5, <1>6, <1>7, CalmKeeps

\* The record a task goes on with,
FitsTask(r) ==
    /\ r \in Task /\ r.token \in Tokens /\ r.next \in Tokens'
    /\ r.at \in {"asking", "presenting", "granted", "verified", "stored"} => r.token # 0
    /\ r.at \in {"granted", "verified", "stored"} => r.next # 0 /\ issued'[r.next] = issued[r.token]
    /\ r.at \in {"reading", "reads"} => r.why = "query"

\* with the token it had or the stored one,
Continues(t, r) ==
    \/ r.at \in {"idle", "reading"}
    \/ r.token = vault
    \/ Rotating(t) /\ r.token = task[t].token /\ r.at # "reads"

\* while the rest is calm.
Around ==
    /\ UNCHANGED <<vault, flow, canceller, panel>> /\ Noting
    /\ resources' \in {resources, NoResources}
    /\ public' = public \/ public'.phase # "signed_in"

\* A task goes on and changes no account.
LEMMA TaskKeeps ==
  ASSUME OAuthInv, Grown, NEW t \in Tasks, NEW r,
         task' = [task EXCEPT ![t] = r], FitsTask(r), Continues(t, r), Around
  PROVE  OAuthInv'
<1>1. OAuthTypes
  BY DEF OAuthInv
<1>2. /\ TaskTypes' /\ task'[t] = r
      /\ \A u \in Tasks \ {t} : task'[u] = task[u]
  BY <1>1, TaskMoves DEF FitsTask
<1>3. FlowTypes'
  BY <1>1, FlowsStay DEF Around
<1>4. ASSUME NEW u \in Tasks
      PROVE  /\ Rotating(u)' => task'[u].token = vault \/ (Rotating(u) /\ task'[u].token = task[u].token)
             /\ task'[u].at = "reads" =>
                  task'[u].token = vault \/ (task[u].at = "reads" /\ task'[u].token = task[u].token)
  <2>1. CASE u = t
    BY <1>2, <2>1 DEF Rotating, Continues
  <2>2. CASE u # t
    BY <1>2, <2>2 DEF Rotating
  <2> QED
    BY <2>1, <2>2
<1>5. Calm
  BY <1>4 DEF Calm, Listening, Around
<1> QED
  BY <1>2, <1>3, <1>5, CalmKeeps DEF Around

\* Zero stands for no token.
LEMMA ZeroToken ==
  ASSUME OAuthTypes
  PROVE  0 \in Tokens
BY LenProperties DEF OAuthTypes, Tokens

\* A rotation goes a step further or fails.
LEMMA TurnKeeps ==
  ASSUME OAuthInv, Grown, NEW t \in Tasks, NEW to \in {"presenting", "verified", "failing"},
         task' = [task EXCEPT ![t].at = to],
         task[t].at \in {"asking", "presenting", "granted", "verified"},
         to = "verified" => task[t].at = "granted",
         OnlyTasks, Noting
  PROVE  OAuthInv'
<1> DEFINE r == [task[t] EXCEPT !.at = to]
<1>1. OAuthTypes /\ TaskOk(task[t]) /\ task[t] \in Task
  BY DEF OAuthInv, OAuthTypes, TaskTypes, TaskOk
<1>2. task' = [task EXCEPT ![t] = r]
  OBVIOUS
<1>3. r \in Task /\ r.at = to /\ r.token = task[t].token /\ r.next = task[t].next
  BY <1>1 DEF Task, TaskSteps
<1> HIDE DEF r
<1>4. r.token \in Tokens /\ r.next \in Tokens' /\ r.token # 0
  BY <1>1, <1>3 DEF TaskOk, Grown
<1>5. r.at \in {"granted", "verified", "stored"} => r.next # 0 /\ issued'[r.next] = issued[r.token]
  BY <1>1, <1>3 DEF TaskOk, Grown
<1>6. r.at \notin {"reading", "reads"} /\ Rotating(t)
  BY <1>3 DEF Rotating
<1>7. FitsTask(r)
  BY <1>3, <1>4, <1>5, <1>6 DEF FitsTask
<1>8. Continues(t, r)
  BY <1>3, <1>6 DEF Continues
<1>9. Around
  BY DEF Around, OnlyTasks
<1> QED
  BY <1>2, <1>7, <1>8, <1>9, TaskKeeps

\* A task rests again, its query has failed or its rotation has.
LEMMA RestKeeps ==
  ASSUME OAuthInv, issued' = issued, NEW t \in Tasks,
         task' = [task EXCEPT ![t] = Resting],
         Around
  PROVE  OAuthInv'
<1>1. Grown /\ 0 \in Tokens /\ 0 \in Tokens'
  BY GrowsNot, ZeroToken DEF Grown
<1>2. Resting \in Task /\ Resting.at = "idle" /\ Resting.token = 0 /\ Resting.next = 0
  BY DEF Resting, Task, TaskSteps
<1>3. FitsTask(Resting) /\ Continues(t, Resting)
  BY <1>1, <1>2 DEF FitsTask, Continues
<1> QED
  BY <1>1, <1>3, TaskKeeps

\* A rotation begins with the stored token, of its own or for a query.
LEMMA RotatesKeeps ==
  ASSUME OAuthInv, issued' = issued, NEW t \in Tasks, NEW why \in {"rotate", "query"},
         Rotates(t, why),
         UNCHANGED <<vault, flow, canceller, panel>>, Noting,
         resources' \in {resources, NoResources}
  PROVE  OAuthInv'
<1> DEFINE r == [at |-> IF vault = 0 THEN "failing" ELSE "asking", why |-> why,
             token |-> vault, next |-> 0]
<1>1. Grown /\ 0 \in Tokens' /\ vault \in Tokens /\ vault \in Nat
  BY GrowsNot, ZeroToken DEF Grown, OAuthTypes, Tokens
<1>2. task' = [task EXCEPT ![t] = r] /\ public'.phase # "signed_in"
  BY DEF Rotates, Shown
<1>3. /\ r \in Task /\ r.token = vault /\ r.next = 0 /\ r.at \in {"failing", "asking"}
      /\ r.at = "asking" => vault # 0
  BY <1>1 DEF Task, TaskSteps
<1> HIDE DEF r
<1>4. FitsTask(r) /\ Continues(t, r)
  BY <1>1, <1>3 DEF FitsTask, Continues
<1>5. Around
  BY <1>2 DEF Around
<1> QED
  BY <1>1, <1>2, <1>4, <1>5, TaskKeeps

\* The provider exchanges the token: its answer arrives or is lost.
LEMMA RotatedKeeps ==
  ASSUME OAuthInv, NEW t \in Tasks, RotateGranted(t) \/ RotateAnswerLost(t)
  PROVE  OAuthInv'
<1> DEFINE n == Len(issued) + 1
           a == issued[task[t].token]
<1>1. /\ OAuthTypes /\ TaskOk(task[t]) /\ task[t] \in Task
      /\ task[t].at = "presenting"
  BY DEF OAuthInv, OAuthTypes, TaskTypes, TaskOk, RotateGranted, RotateAnswerLost, Rotated
<1>2. /\ issued \in Seq(Accounts) /\ Len(issued) \in Nat
      /\ task[t].token \in 1 .. Len(issued) /\ a \in Accounts
  <2>1. issued \in Seq(Accounts) /\ Len(issued) \in Nat
    BY <1>1, LenProperties DEF OAuthTypes
  <2>2. task[t].token \in 1 .. Len(issued)
    BY <1>1, <2>1 DEF TaskOk, Tokens
  <2> QED
    BY <2>1, <2>2, ElementOfSeq
<1>3. issued' = Append(issued, a) /\ OnlyTasks /\ Noting
  BY <1>1 DEF RotateGranted, RotateAnswerLost, Rotated, Noted, Noting, Owner, TaskOk
<1>4. /\ Len(issued') = n /\ issued'[n] = a /\ issued' # issued
      /\ n # 0
  <2>1. Len(issued') = n /\ issued'[n] = a
    BY <1>2, <1>3, AppendProperties
  <2> QED
    BY <1>2, <2>1
<1>5. Grown /\ n \in Tokens'
  BY <1>1, <1>2, <1>3, <1>4, Grows
<1>6. CASE RotateAnswerLost(t)
  BY <1>1, <1>3, <1>5, <1>6, TurnKeeps DEF RotateAnswerLost, Turns
<1>7. CASE RotateGranted(t)
  <2> DEFINE r == [task[t] EXCEPT !.at = "granted", !.next = n]
  <2>1. task' = [task EXCEPT ![t] = r]
    BY <1>7 DEF RotateGranted
  <2>2. r \in Task /\ r.at = "granted" /\ r.token = task[t].token /\ r.next = n
    <3>1. n \in Nat
      BY <1>2
    <3> HIDE DEF n
    <3> QED
      BY <1>1, <3>1 DEF Task, TaskSteps
  <2>3. task[t].token \in Tokens /\ task[t].token # 0 /\ Rotating(t)
    BY <1>1 DEF TaskOk, Rotating
  <2>4. issued'[n] = issued[task[t].token]
    BY <1>4
  <2>5. n \in Tokens' /\ n # 0
    BY <1>4, <1>5
  <2> HIDE DEF r, n
  <2> QED
    <3>1. FitsTask(r)
      BY <2>2, <2>3, <2>4, <2>5 DEF FitsTask
    <3>2. Continues(t, r)
      BY <2>2, <2>3 DEF Continues
    <3>3. Around
      BY <1>3 DEF Around, OnlyTasks
    <3> QED
      BY <1>5, <2>1, <3>1, <3>2, <3>3, TaskKeeps
<1> QED
  BY <1>6, <1>7

\* A query reads the stored session.
LEMMA QueryReadsKeeps ==
  ASSUME OAuthInv, NEW t \in Tasks, QueryReads(t)
  PROVE  OAuthInv'
<1>1. /\ UNCHANGED <<vault, public, flow, canceller, panel, issued>> /\ Noting /\ task[t].at = "reading"
      /\ resources' \in {resources, NoResources}
  BY DEF QueryReads, Noted, Quiet, Noting, provider
<1>2. CASE task' = [task EXCEPT ![t] = Resting]
  BY <1>1, <1>2, RestKeeps DEF Around
<1>3. CASE vault # 0 /\ task' = [task EXCEPT ![t].at = "reads", ![t].token = vault]
  <2> DEFINE r == [task[t] EXCEPT !.at = "reads", !.token = vault]
  <2>1. /\ OAuthTypes /\ TaskOk(task[t]) /\ task[t] \in Task
        /\ Grown
    BY <1>1, GrowsNot DEF OAuthTypes, TaskTypes, TaskOk
  <2>2. task' = [task EXCEPT ![t] = r]
    BY <1>3
  <2>3. /\ r \in Task /\ r.at = "reads" /\ r.token = vault /\ r.next = task[t].next
        /\ r.why = task[t].why
    <3>1. vault \in Nat
      BY <2>1 DEF OAuthTypes, Tokens
    <3> QED
      BY <2>1, <3>1 DEF Task, TaskSteps
  <2>4. vault \in Tokens /\ task[t].next \in Tokens' /\ task[t].why = "query"
    BY <1>1, <2>1 DEF OAuthTypes, TaskOk, Grown
  <2> HIDE DEF r
  <2> QED
    <3>1. FitsTask(r)
      BY <2>3, <2>4 DEF FitsTask
    <3>2. Continues(t, r)
      BY <2>3 DEF Continues
    <3>3. Around
      BY <1>1 DEF Around
    <3> QED
      BY <2>1, <2>2, <3>1, <3>2, <3>3, TaskKeeps
<1> QED
  BY <1>2, <1>3 DEF QueryReads

\* A query starts, with a rotation if the session's access token is about to run out.
LEMMA QueryStartsKeeps ==
  ASSUME OAuthInv, NEW t \in Tasks, QueryStarts(t)
  PROVE  OAuthInv'
<1>1. /\ UNCHANGED <<vault, flow, canceller, panel, issued>> /\ Noting
      /\ resources' \in {resources, NoResources}
  BY DEF QueryStarts, Quiet, Noting, provider
<1>2. CASE Rotates(t, "query")
  BY <1>1, <1>2, RotatesKeeps
<1>3. CASE /\ task' = [task EXCEPT ![t] = [at |-> "reading", why |-> "query", token |-> 0, next |-> 0]]
           /\ UNCHANGED public
  <2> DEFINE r == [at |-> "reading", why |-> "query", token |-> 0, next |-> 0]
  <2>1. Grown /\ 0 \in Tokens /\ 0 \in Tokens'
    BY <1>1, GrowsNot, ZeroToken DEF Grown
  <2>2. task' = [task EXCEPT ![t] = r]
    BY <1>3
  <2>3. /\ r \in Task /\ r.at = "reading" /\ r.token = 0 /\ r.next = 0 /\ r.why = "query"
    BY DEF Task, TaskSteps
  <2> HIDE DEF r
  <2> QED
    <3>1. FitsTask(r) /\ Continues(t, r)
      BY <2>1, <2>3 DEF FitsTask, Continues
    <3>2. Around
      BY <1>1, <1>3 DEF Around
    <3> QED
      BY <2>1, <2>2, <3>1, <3>2, TaskKeeps
<1> QED
  BY <1>2, <1>3 DEF QueryStarts

\* What is left to show of a step that is not calm.
LEMMA Assemble ==
  ASSUME OAuthInv, Noting, OAuthTypes', OneListener',
         Signed /\ Apart' => Signed',
         Signed /\ Displayed => Displayed' \/ Mixture'
  PROVE  OAuthInv'
<1>1. /\ ~crossed' => ~crossed /\ Apart'
      /\ ~mixed' => ~mixed /\ ~Mixture'
  BY NotedApart DEF Noting
<1> QED
  BY <1>1 DEF OAuthInv

\* While a flow listens or the user signs out, nothing rotates; nothing is read either unless
\* that is noted.
LEMMA Alone ==
  ASSUME OAuthTypes, SigningIn \/ SigningOut
  PROVE  /\ Apart => ~\E t \in Tasks : Rotating(t)
         /\ Apart /\ SigningOut => \A f \in DOMAIN flow : ~Listening(f)
         /\ ~Mixture => ~\E t \in Tasks : task[t].at = "reads"
BY DEF Apart, RotatingSome, Mixture, Querying, OAuthTypes, TaskTypes, TaskOk, SigningIn, Underway

\* The callback port is bound by no flow, so the new one is the only one that listens.
LEMMA BindsKeeps ==
  ASSUME OAuthInv, StartBinds
  PROVE  OAuthInv'
<1> DEFINE r == [at |-> "waiting", token |-> 0, cancelled |-> FALSE]
<1>1. /\ UNCHANGED <<vault, task, issued>> /\ Noting /\ resources' = NoResources
      /\ flow' = Append(flow, r) /\ public' = Shown("waiting") /\ canceller' = Len(flow) + 1
      /\ \A f \in DOMAIN flow : ~Listening(f)
  BY DEF StartBinds, Waits, Noted, Quiet, Noting, provider
<1>2. Grown /\ OAuthTypes /\ 0 \in Tokens'
  BY <1>1, GrowsNot, ZeroToken DEF Grown
<1>3. r \in Flow /\ r.at = "waiting" /\ r.token = 0
  BY DEF Flow, FlowSteps
<1> HIDE DEF r
<1>4. /\ flow' \in Seq(Flow) /\ Len(flow) \in Nat /\ Len(flow') = Len(flow) + 1
      /\ DOMAIN flow = 1 .. Len(flow) /\ DOMAIN flow' = 1 .. Len(flow) + 1
      /\ \A f \in DOMAIN flow : flow'[f] = flow[f]
      /\ flow'[Len(flow) + 1] = r
  BY <1>1, <1>2, <1>3, AppendProperties, LenProperties DEF OAuthTypes, FlowTypes
<1>5. FlowTypes'
  <2>1. \A f \in DOMAIN flow' : flow'[f].token \in Tokens'
    BY <1>2, <1>3, <1>4 DEF OAuthTypes, FlowTypes, Grown
  <2>2. canceller' \in 0 .. Len(flow')
    BY <1>1, <1>4
  <2> QED
    BY <1>4, <2>1, <2>2 DEF FlowTypes
<1>6. OAuthTypes'
  BY <1>1, <1>2, <1>5, TasksStay DEF OAuthTypes, Grown, NoResources
<1>7. \A f \in DOMAIN flow' : f # Len(flow) + 1 => ~Listening(f)'
  BY <1>1, <1>4 DEF Listening
<1>8. OneListener'
  BY <1>7 DEF OneListener
<1>9. Signed /\ Apart' => Signed'
  <2> SUFFICES ASSUME Signed, Apart' PROVE Signed'
    OBVIOUS
  <2>1. public'.phase # "signed_in"
    BY <1>1 DEF Shown
  <2>2. \A f \in DOMAIN flow' : flow'[f].at # "stored"
    BY <1>3, <1>4, <1>7 DEF Listening
  <2>3. \A t \in Tasks : Rotating(t)' => Owner(task[t].token)' = Owner(vault)'
    BY <1>1 DEF Signed, Rotating, Owner
  <2> QED
    BY <2>1, <2>2, <2>3 DEF Signed
<1>10. Signed /\ Displayed => Displayed' \/ Mixture'
  BY <1>1 DEF Displayed, NoResources, Owner
<1> QED
  BY <1>1, <1>6, <1>8, <1>9, <1>10, Assemble

\* The vault takes the token of the only flow that listens.
LEMMA StoreGrantKeeps ==
  ASSUME OAuthInv, NEW f \in DOMAIN flow, StoreGrant(f)
  PROVE  OAuthInv'
<1> DEFINE r == [flow[f] EXCEPT !.at = "stored"]
<1>1. /\ UNCHANGED <<public, resources, canceller, panel, task, issued>> /\ Noting
      /\ flow[f].at = "granted" /\ flow' = [flow EXCEPT ![f] = r] /\ vault' = flow[f].token
  BY DEF StoreGrant, Becomes, Noted, Quiet, Noting, provider
<1>2. Grown /\ OAuthTypes
  BY <1>1, GrowsNot
<1>3. r \in Flow /\ r.at = "stored" /\ r.token = flow[f].token /\ flow[f].token \in Tokens
  BY <1>2, FlowRecord DEF FlowSteps
<1> HIDE DEF r
<1>4. /\ FlowTypes' /\ DOMAIN flow' = DOMAIN flow /\ flow'[f] = r
      /\ \A g \in DOMAIN flow \ {f} : flow'[g] = flow[g]
  BY <1>1, <1>2, <1>3, FlowMoves DEF Grown
<1>5. OAuthTypes'
  BY <1>1, <1>2, <1>3, <1>4, TasksStay DEF OAuthTypes, Grown
<1>6. /\ Listening(f)
      /\ \A g \in DOMAIN flow : Listening(g)' => Listening(g)
  BY <1>1, <1>4 DEF Listening
<1>7. /\ OneListener' /\ SigningIn
      /\ \A g \in DOMAIN flow' : Listening(g)' => g = f
  BY <1>4, <1>6 DEF OAuthInv, OneListener, SigningIn, Underway
<1>8. Signed /\ Apart' => Signed'
  <2> SUFFICES ASSUME Signed, Apart' PROVE Signed'
    OBVIOUS
  <2>1. public'.phase # "signed_in"
    BY <1>1, <1>6 DEF Signed
  <2>2. \A g \in DOMAIN flow' : flow'[g].at = "stored" => vault' = flow'[g].token
    BY <1>1, <1>3, <1>4, <1>7 DEF Listening
  <2>3. \A t \in Tasks : ~Rotating(t)'
    BY <1>1, <1>2, <1>7, Alone DEF Signed, Rotating
  <2> QED
    BY <2>1, <2>2, <2>3 DEF Signed
<1>9. Signed /\ Displayed => Displayed' \/ Mixture'
  <2> SUFFICES ASSUME Signed, Displayed, ~Mixture' PROVE Displayed'
    OBVIOUS
  <2>1. resources' = NoResources
    BY <1>1, <1>6 DEF Displayed
  <2>2. \A t \in Tasks : task'[t].at # "reads"
    BY <1>1, <1>2, <1>7, Alone DEF Displayed
  <2> QED
    BY <2>1, <2>2 DEF Displayed, NoResources
<1> QED
  BY <1>1, <1>5, <1>7, <1>8, <1>9, Assemble

\* The account of the stored token is shown.
LEMMA FlowEndsKeeps ==
  ASSUME OAuthInv, NEW f \in DOMAIN flow, FlowEnds(f)
  PROVE  OAuthInv'
<1> DEFINE r == [flow[f] EXCEPT !.at = "done"]
<1>1. /\ UNCHANGED <<vault, resources, panel, task, issued>> /\ Noting
      /\ flow' = [flow EXCEPT ![f] = r] /\ canceller' \in {0, canceller}
  BY DEF FlowEnds, Becomes, Released, Noted, Quiet, Noting, provider
<1>2. CASE flow[f].at = "failing"
  <2>1. Beside
    BY <1>1, <1>2 DEF FlowEnds, Becomes, Shown, Beside
  <2>2. flow' = [flow EXCEPT ![f].at = "done"]
    BY <1>1
  <2> QED
    BY <2>1, <2>2, FlowKeeps
<1>3. CASE flow[f].at = "stored" /\ public' = SignedIn(Owner(flow[f].token))
  <2>1. Grown /\ OAuthTypes
    BY <1>1, GrowsNot
  <2>2. r \in Flow /\ r.at = "done" /\ r.token \in Tokens
    BY <2>1, FlowRecord DEF FlowSteps
  <2> HIDE DEF r
  <2>3. /\ FlowTypes' /\ DOMAIN flow' = DOMAIN flow /\ flow'[f] = r
        /\ \A g \in DOMAIN flow \ {f} : flow'[g] = flow[g]
    BY <1>1, <2>1, <2>2, FlowMoves DEF Grown
  <2>4. OAuthTypes'
    BY <1>1, <2>1, <2>3, TasksStay DEF OAuthTypes, Grown
  <2>5. Listening(f)
    BY <1>3 DEF Listening
  <2>6. \A g \in DOMAIN flow' : ~Listening(g)'
    <3>1. \A g \in DOMAIN flow : Listening(g) => g = f
      BY <2>5 DEF OAuthInv, OneListener
    <3> QED
      BY <2>2, <2>3, <3>1 DEF Listening
  <2>7. Signed /\ Apart' => Signed'
    <3> SUFFICES ASSUME Signed, Apart' PROVE Signed'
      OBVIOUS
    <3>1. public'.account = Owner(vault)'
      BY <1>1, <1>3 DEF Signed, SignedIn, Owner
    <3>2. \A g \in DOMAIN flow' : flow'[g].at # "stored"
      BY <2>6 DEF Listening
    <3>3. \A t \in Tasks : Rotating(t)' => Owner(task[t].token)' = Owner(vault)'
      BY <1>1 DEF Signed, Rotating, Owner
    <3> QED
      BY <2>6, <3>1, <3>2, <3>3 DEF Signed
  <2>8. Signed /\ Displayed => Displayed' \/ Mixture'
    BY <1>1, <2>6 DEF Displayed, Owner
  <2>9. OneListener'
    BY <2>6 DEF OneListener
  <2> QED
    BY <1>1, <2>4, <2>7, <2>8, <2>9, Assemble
<1> QED
  BY <1>2, <1>3 DEF FlowEnds, Becomes

\* The record is deleted while no flow listens and no rotation has a token of it.
LEMMA DeletesKeeps ==
  ASSUME OAuthInv, LogoutDeletes
  PROVE  OAuthInv'
<1>1. /\ UNCHANGED <<public, resources, flow, canceller, task, issued>> /\ Noting
      /\ panel = "revoking"
  BY DEF LogoutDeletes, Noted, Quiet, Noting, provider
<1>2. Grown /\ OAuthTypes /\ 0 \in Tokens'
  BY <1>1, GrowsNot, ZeroToken DEF Grown
<1>3. FlowTypes' /\ TaskTypes'
  BY <1>1, <1>2, FlowsStay, TasksStay
<1>4. CASE UNCHANGED vault
  <2>1. Calm
    BY <1>1, <1>4 DEF Calm, Listening, Rotating
  <2> QED
    BY <1>1, <1>2, <1>3, <2>1, CalmKeeps
<1>5. CASE vault' = 0 /\ panel' = "clearing"
  <2>1. OAuthTypes'
    BY <1>1, <1>2, <1>3, <1>5 DEF OAuthTypes, Grown
  <2>2. OneListener'
    BY <1>1 DEF OAuthInv, OneListener, Listening
  <2>3. SigningOut
    BY <1>1 DEF SigningOut
  <2>4. Signed /\ Apart' => Signed'
    <3> SUFFICES ASSUME Signed, Apart' PROVE Signed'
      OBVIOUS
    <3>1. /\ \A f \in DOMAIN flow : ~Listening(f)
          /\ \A t \in Tasks : ~Rotating(t)
      BY <1>2, <2>3, Alone DEF Signed
    <3>2. /\ \A f \in DOMAIN flow' : ~Listening(f)' /\ flow'[f].at # "stored"
          /\ \A t \in Tasks : ~Rotating(t)'
      BY <1>1, <3>1 DEF Listening, Rotating
    <3> QED
      BY <1>5, <3>2 DEF Signed
  <2>5. Signed /\ Displayed => Displayed' \/ Mixture'
    <3> SUFFICES ASSUME Signed, Displayed, ~Mixture' PROVE Displayed'
      OBVIOUS
    <3>1. /\ \A f \in DOMAIN flow : ~Listening(f)
          /\ \A t \in Tasks : task[t].at # "reads"
      BY <1>2, <2>3, Alone DEF Signed, Displayed
    <3>2. /\ \A f \in DOMAIN flow' : ~Listening(f)'
          /\ \A t \in Tasks : task'[t].at # "reads"
      BY <1>1, <3>1 DEF Listening
    <3> QED
      BY <1>5, <3>2 DEF Displayed
  <2> QED
    BY <1>1, <2>1, <2>2, <2>4, <2>5, Assemble
<1> QED
  BY <1>4, <1>5 DEF LogoutDeletes

\* What is shown is cleared.
LEMMA ClearsKeeps ==
  ASSUME OAuthInv, LogoutClears
  PROVE  OAuthInv'
<1>1. /\ UNCHANGED <<vault, flow, canceller, task, issued>> /\ Noting
      /\ panel = "clearing" /\ panel' = "idle" /\ resources' = NoResources
      /\ public'.phase # "signed_in"
  BY DEF LogoutClears, Noted, Quiet, Noting, provider, Shown
<1>2. Grown /\ OAuthTypes
  BY <1>1, GrowsNot
<1>3. OAuthTypes'
  BY <1>1, <1>2, FlowsStay, TasksStay DEF OAuthTypes, Grown, NoResources
<1>4. OneListener'
  BY <1>1 DEF OAuthInv, OneListener, Listening
<1>5. Signed /\ Apart' => Signed'
  BY <1>1 DEF Signed, Listening, Rotating, Owner
<1>6. Signed /\ Displayed => Displayed' \/ Mixture'
  BY <1>1 DEF Displayed, NoResources, Owner
<1> QED
  BY <1>1, <1>3, <1>4, <1>5, <1>6, Assemble

\* The vault takes the successor of the same account, or refuses it.
LEMMA StoresKeeps ==
  ASSUME OAuthInv, NEW t \in Tasks, RotateStores(t)
  PROVE  OAuthInv'
<1>1. /\ UNCHANGED <<public, resources, flow, canceller, panel, issued>> /\ Noting
      /\ task[t].at = "verified"
  BY DEF RotateStores, Noted, Noting
<1>2. Grown /\ OAuthTypes /\ TaskOk(task[t]) /\ task[t] \in Task
  BY <1>1, GrowsNot DEF OAuthTypes, TaskTypes, TaskOk
<1>3. CASE UNCHANGED vault /\ task' = [task EXCEPT ![t].at = "failing"]
  BY <1>1, <1>2, <1>3, TurnKeeps DEF OnlyTasks
<1>4. CASE vault' = task[t].next /\ task' = [task EXCEPT ![t].at = "stored"]
  <2> DEFINE r == [task[t] EXCEPT !.at = "stored"]
  <2>1. task' = [task EXCEPT ![t] = r]
    BY <1>4
  <2>2. r \in Task /\ r.at = "stored" /\ r.token = task[t].token /\ r.next = task[t].next
    BY <1>2 DEF Task, TaskSteps
  <2> HIDE DEF r
  <2>3. /\ r.token \in Tokens /\ r.token # 0 /\ r.next \in Tokens' /\ r.next # 0
        /\ issued'[r.next] = issued[r.token]
    BY <1>1, <1>2, <2>2 DEF TaskOk, Grown
  <2>4. FitsTask(r)
    BY <2>2, <2>3 DEF FitsTask
  <2>5. /\ TaskTypes' /\ task'[t] = r
        /\ \A u \in Tasks \ {t} : task'[u] = task[u]
    BY <1>2, <2>1, <2>4, TaskMoves DEF FitsTask
  <2>6. OAuthTypes'
    BY <1>1, <1>2, <1>4, <2>2, <2>3, <2>5, FlowsStay DEF OAuthTypes, Grown
  <2>7. OneListener'
    BY <1>1 DEF OAuthInv, OneListener, Listening
  <2>8. Rotating(t)
    BY <1>1 DEF Rotating
  <2>9. Signed => Owner(vault)' = Owner(vault)
    BY <1>1, <1>4, <2>2, <2>3, <2>8 DEF Signed, Owner
  <2>10. Signed /\ Apart' => Signed'
    <3> SUFFICES ASSUME Signed, Apart' PROVE Signed'
      OBVIOUS
    <3>1. \A f \in DOMAIN flow : ~Listening(f)
      BY <2>8 DEF Signed, Apart, SigningIn, Underway, RotatingSome
    <3>2. \A f \in DOMAIN flow' : ~Listening(f)' /\ flow'[f].at # "stored"
      BY <1>1, <3>1 DEF Listening
    <3>3. \A u \in Tasks : Rotating(u)' => Owner(task[u].token)' = Owner(vault)'
      <4> SUFFICES ASSUME NEW u \in Tasks, Rotating(u)' PROVE Owner(task[u].token)' = Owner(vault)'
        OBVIOUS
      <4>1. Rotating(u) /\ task'[u].token = task[u].token
        <5>1. CASE u = t
          BY <2>2, <2>5, <2>8, <5>1
        <5>2. CASE u # t
          BY <2>5, <5>2 DEF Rotating
        <5> QED
          BY <5>1, <5>2
      <4>2. Owner(task[u].token)' = Owner(task[u].token)
        BY <1>1, <4>1 DEF Owner
      <4> QED
        BY <2>9, <4>1, <4>2 DEF Signed
    <3> QED
      BY <1>1, <2>9, <3>2, <3>3 DEF Signed
  <2>11. Signed /\ Displayed => Displayed' \/ Mixture'
    <3> SUFFICES ASSUME Signed, Displayed, ~Mixture' PROVE Displayed'
      OBVIOUS
    <3>1. \A f \in DOMAIN flow' : Listening(f)' => resources' = NoResources
      BY <1>1 DEF Displayed, Listening
    <3>2. \A u \in Tasks : task'[u].at = "reads" => Owner(task[u].token)' = Owner(vault)'
      <4> SUFFICES ASSUME NEW u \in Tasks, task'[u].at = "reads"
                   PROVE  Owner(task[u].token)' = Owner(vault)'
        OBVIOUS
      <4>1. task[u].at = "reads" /\ task'[u].token = task[u].token
        BY <2>2, <2>5
      <4>2. Owner(task[u].token)' = Owner(task[u].token)
        BY <1>1, <4>1 DEF Owner
      <4> QED
        BY <2>9, <4>1, <4>2 DEF Displayed
    <3> QED
      BY <1>1, <2>9, <3>1, <3>2 DEF Displayed
  <2> QED
    BY <1>1, <2>6, <2>7, <2>10, <2>11, Assemble
<1> QED
  BY <1>1, <1>3, <1>4 DEF RotateStores

\* The account of the rotated session is shown, which is the one that was stored.
LEMMA RotateEndsKeeps ==
  ASSUME OAuthInv, NEW t \in Tasks, RotateEnds(t)
  PROVE  OAuthInv'
<1>1. /\ UNCHANGED <<vault, flow, canceller, panel, issued>> /\ Noting
  BY DEF RotateEnds, Noted, Quiet, Noting, provider
<1>2. Grown /\ OAuthTypes /\ TaskOk(task[t]) /\ task[t] \in Task /\ 0 \in Tokens /\ 0 \in Tokens'
  BY <1>1, GrowsNot, ZeroToken DEF OAuthTypes, TaskTypes, TaskOk, Grown
<1>3. CASE task[t].at = "failing"
  <2>1. Around /\ task' = [task EXCEPT ![t] = Resting]
    BY <1>1, <1>3 DEF RotateEnds, Around, Shown
  <2> QED
    BY <1>1, <2>1, RestKeeps
<1>4. CASE task[t].at = "stored"
  <2> DEFINE r == IF Querying(t) THEN [task[t] EXCEPT !.at = "reading"] ELSE Resting
  <2>1. /\ task' = [task EXCEPT ![t] = r] /\ resources' = resources
        /\ public' = SignedIn(Owner(task[t].token))
    BY <1>4 DEF RotateEnds
  <2>2. /\ r \in Task /\ r.at \in {"idle", "reading"}
        /\ r.token \in {0, task[t].token} /\ r.next \in {0, task[t].next}
        /\ r.at = "reading" => r.why = "query"
    BY <1>2 DEF Task, TaskSteps, Resting, Querying
  <2> HIDE DEF r
  <2>3. FitsTask(r)
    BY <1>2, <2>2 DEF FitsTask, TaskOk, Grown
  <2>4. /\ TaskTypes' /\ task'[t] = r
        /\ \A u \in Tasks \ {t} : task'[u] = task[u]
    BY <1>2, <2>1, <2>3, TaskMoves DEF FitsTask
  <2>5. OAuthTypes'
    BY <1>1, <1>2, <2>1, <2>4, FlowsStay DEF OAuthTypes, Grown
  <2>6. OneListener'
    BY <1>1 DEF OAuthInv, OneListener, Listening
  <2>7. Rotating(t)
    BY <1>4 DEF Rotating
  <2>8. ASSUME NEW u \in Tasks, Rotating(u)' \/ task'[u].at = "reads"
        PROVE  task'[u] = task[u]
    BY <2>2, <2>4, <2>8 DEF Rotating
  <2>9. Signed /\ Apart' => Signed'
    <3> SUFFICES ASSUME Signed, Apart' PROVE Signed'
      OBVIOUS
    <3>1. public'.account = Owner(vault)'
      BY <1>1, <2>1, <2>7 DEF Signed, SignedIn, Owner
    <3>2. \A f \in DOMAIN flow : ~Listening(f)
      BY <2>7 DEF Signed, Apart, SigningIn, Underway, RotatingSome
    <3>3. \A f \in DOMAIN flow' : ~Listening(f)' /\ flow'[f].at # "stored"
      BY <1>1, <3>2 DEF Listening
    <3>4. \A u \in Tasks : Rotating(u)' => Owner(task[u].token)' = Owner(vault)'
      BY <1>1, <2>8 DEF Signed, Rotating, Owner
    <3> QED
      BY <3>1, <3>3, <3>4 DEF Signed
  <2>10. Signed /\ Displayed => Displayed' \/ Mixture'
    BY <1>1, <2>1, <2>8 DEF Displayed, Listening, Owner
  <2> QED
    BY <1>1, <2>5, <2>6, <2>9, <2>10, Assemble
<1> QED
  BY <1>3, <1>4 DEF RotateEnds

\* What a query brings was read with the account that is stored.
LEMMA QueryEndsKeeps ==
  ASSUME OAuthInv, NEW t \in Tasks, QueryEnds(t)
  PROVE  OAuthInv'
<1>1. /\ UNCHANGED <<vault, public, flow, canceller, panel, issued>> /\ Noting
      /\ task' = [task EXCEPT ![t] = Resting] /\ task[t].at = "reads"
      /\ resources' \in {Inventory(t), Selection(t)}
  BY DEF QueryEnds, Noted, Quiet, Noting, provider
<1>2. Grown /\ OAuthTypes /\ TaskOk(task[t]) /\ 0 \in Tokens /\ 0 \in Tokens'
  BY <1>1, GrowsNot, ZeroToken DEF OAuthTypes, TaskTypes, Grown
<1>3. Resting \in Task /\ Resting.at = "idle" /\ Resting.token = 0 /\ Resting.next = 0
  BY DEF Resting, Task, TaskSteps
<1>4. FitsTask(Resting)
  BY <1>2, <1>3 DEF FitsTask
<1>5. /\ TaskTypes' /\ task'[t] = Resting
      /\ \A u \in Tasks \ {t} : task'[u] = task[u]
  BY <1>1, <1>2, <1>4, TaskMoves DEF FitsTask
<1>6. /\ resources' = [inventory |-> resources'.inventory, selection |-> resources'.selection]
      /\ resources'.inventory \in {resources.inventory, Owner(task[t].token)}
      /\ resources'.selection \in {resources.selection, Owner(task[t].token), NoAccount}
  BY <1>1, <1>2 DEF OAuthTypes, Inventory, Selection
<1>7. OAuthTypes'
  BY <1>1, <1>2, <1>5, <1>6, FlowsStay DEF OAuthTypes, Grown
<1>8. OneListener'
  BY <1>1 DEF OAuthInv, OneListener, Listening
<1>9. ASSUME NEW u \in Tasks, Rotating(u)' \/ task'[u].at = "reads"
      PROVE  task'[u] = task[u]
  BY <1>3, <1>5, <1>9 DEF Rotating
<1>10. Signed /\ Apart' => Signed'
  BY <1>1, <1>9 DEF Signed, Listening, Rotating, Owner
<1>11. Signed /\ Displayed => Displayed' \/ Mixture'
  <2> SUFFICES ASSUME Signed, Displayed, ~Mixture' PROVE Displayed'
    OBVIOUS
  <2>1. \A f \in DOMAIN flow : ~Listening(f)
    BY <1>1, <1>2, Alone DEF Displayed, SigningIn, Underway
  <2>2. Owner(task[t].token) = Owner(vault) /\ Owner(vault)' = Owner(vault)
    BY <1>1 DEF Displayed, Owner
  <2>3. \A f \in DOMAIN flow' : ~Listening(f)'
    BY <1>1, <2>1 DEF Listening
  <2>4. panel' # "clearing" =>
          {resources'.inventory, resources'.selection} \subseteq {NoAccount, Owner(vault)'}
    BY <1>1, <1>6, <2>2 DEF Displayed
  <2>5. \A u \in Tasks : task'[u].at = "reads" => Owner(task[u].token)' = Owner(vault)'
    BY <1>1, <1>9 DEF Displayed, Owner
  <2> QED
    BY <2>3, <2>4, <2>5 DEF Displayed
<1> QED
  BY <1>1, <1>7, <1>8, <1>10, <1>11, Assemble

\* The selection alone is cleared.
LEMMA ClearSelectionKeeps ==
  ASSUME OAuthInv, ClearSelection
  PROVE  OAuthInv'
<1>1. /\ UNCHANGED <<vault, public, flow, canceller, panel, task, issued>> /\ Noting
      /\ resources' = [resources EXCEPT !.selection = NoAccount] /\ resources.selection # NoAccount
  BY DEF ClearSelection, Noted, Quiet, Noting, provider
<1>2. Grown /\ OAuthTypes
  BY <1>1, GrowsNot
<1>3. /\ resources' = [inventory |-> resources'.inventory, selection |-> resources'.selection]
      /\ resources'.inventory = resources.inventory /\ resources'.selection = NoAccount
  BY <1>1, <1>2 DEF OAuthTypes
<1>4. OAuthTypes'
  BY <1>1, <1>2, <1>3, FlowsStay, TasksStay DEF OAuthTypes, Grown
<1>5. OneListener'
  BY <1>1 DEF OAuthInv, OneListener, Listening
<1>6. Signed /\ Apart' => Signed'
  BY <1>1 DEF Signed, Listening, Rotating, Owner
<1>7. Signed /\ Displayed => Displayed' \/ Mixture'
  BY <1>1, <1>3 DEF Displayed, Listening, Owner, NoResources
<1> QED
  BY <1>1, <1>4, <1>5, <1>6, <1>7, Assemble

\* The application starts anew, with what the vault holds.
LEMMA RestartKeeps ==
  ASSUME OAuthInv, Restart
  PROVE  OAuthInv'
<1>1. /\ vault' = vault /\ issued' = issued /\ ~crossed' /\ ~mixed'
      /\ public' \in Restored /\ resources' = NoResources /\ canceller' = 0 /\ panel' = "idle"
      /\ flow' = [f \in DOMAIN flow |-> [flow[f] EXCEPT !.at = "done"]]
      /\ task' = [t \in Tasks |-> Resting]
  BY DEF Restart, provider
<1>2. Grown /\ OAuthTypes /\ 0 \in Tokens'
  BY <1>1, GrowsNot, ZeroToken DEF Grown
<1>3. /\ DOMAIN flow' = DOMAIN flow
      /\ \A f \in DOMAIN flow' : /\ flow'[f] \in Flow /\ flow'[f].at = "done"
                                 /\ flow'[f].token \in Tokens'
  <2> SUFFICES ASSUME NEW f \in DOMAIN flow
               PROVE  LET r == [flow[f] EXCEPT !.at = "done"]
                      IN  r \in Flow /\ r.at = "done" /\ r.token \in Tokens'
    BY <1>1
  <2> DEFINE r == [flow[f] EXCEPT !.at = "done"]
  <2>1. r \in Flow /\ r.at = "done" /\ r.token \in Tokens
    BY <1>2, FlowRecord DEF FlowSteps
  <2> QED
    BY <1>2, <2>1 DEF Grown
<1>4. FlowTypes'
  <2>1. DOMAIN flow = 1 .. Len(flow) /\ Len(flow) \in Nat
    BY <1>2, LenProperties DEF OAuthTypes, FlowTypes
  <2>2. flow' \in Seq(Flow) /\ Len(flow') = Len(flow)
    <3>1. flow' \in [1 .. Len(flow) -> Flow]
      BY <1>1, <1>3, <2>1
    <3> QED
      BY <2>1, <3>1, SeqDef, LenProperties
  <2> QED
    BY <1>1, <1>3, <2>1, <2>2 DEF FlowTypes
<1>5. TaskTypes'
  <2>1. Resting \in Task /\ Resting.at = "idle" /\ Resting.token = 0 /\ Resting.next = 0
    BY DEF Resting, Task, TaskSteps
  <2>2. \A t \in Tasks : task'[t] = Resting
    BY <1>1
  <2>3. \A t \in Tasks : TaskOk(task[t])'
    BY <1>2, <2>1, <2>2 DEF TaskOk
  <2>4. task' = [t \in Tasks |-> task'[t]]
    BY <1>1
  <2> QED
    BY <2>3, <2>4 DEF TaskTypes
<1>6. OAuthTypes'
  BY <1>1, <1>2, <1>4, <1>5 DEF OAuthTypes, Grown, NoResources
<1>7. /\ \A f \in DOMAIN flow' : ~Listening(f)' /\ ~Underway(f)' /\ flow'[f].at # "stored"
      /\ \A t \in Tasks : ~Rotating(t)' /\ task'[t].at # "reads" /\ ~Querying(t)'
      /\ ~SigningOut'
  BY <1>1, <1>3 DEF Listening, Underway, Rotating, Querying, Resting, SigningOut
<1>8. ~SigningIn'
  BY <1>1, <1>7 DEF SigningIn
<1>9. Signed'
  <2>1. Apart'
    BY <1>7, <1>8 DEF Apart, RotatingSome
  <2>2. public'.phase = "signed_in" => public'.account = Owner(vault)'
    BY <1>1 DEF Restored, Shown, SignedIn, Owner
  <2> QED
    BY <1>7, <2>1, <2>2 DEF Signed
<1>10. Displayed'
  BY <1>1, <1>7, <1>8 DEF Displayed, Mixture, NoResources
<1> QED
  BY <1>6, <1>7, <1>9, <1>10 DEF OAuthInv, OneListener

\* Every step of the commands, the browser's callback, the provider and the vault keeps the
\* invariant.
LEMMA OAuthStep == OAuthInv /\ [OAuthNext]_oauthVars => OAuthInv'
<1> SUFFICES ASSUME OAuthInv, [OAuthNext]_oauthVars PROVE OAuthInv'
  OBVIOUS
<1>1. ASSUME NEW f \in DOMAIN flow,
             \/ Callback(f) \/ StoreGrant(f) \/ FlowErrs(f) \/ FlowEnds(f) \/ FlowDropped(f)
             \/ \E a \in Accounts : Exchange(f, a)
      PROVE  OAuthInv'
  <2>1. CASE Callback(f)
    <3>1. /\ Beside /\ flow[f].at = "waiting" /\ flow' = [flow EXCEPT ![f].at = "called"]
      BY <2>1 DEF Callback, Becomes, Shown, Noted, Quiet, Noting, Beside, provider
    <3> QED
      BY <3>1, FlowKeeps
  <2>2. CASE FlowErrs(f)
    <3>1. Beside /\ flow' = [flow EXCEPT ![f].at = "failing"]
      BY <2>2 DEF FlowErrs, Noted, Quiet, Noting, Beside, provider
    <3> QED
      BY <3>1, FlowKeeps
  <2>3. CASE FlowDropped(f)
    <3>1. Beside /\ flow' = [flow EXCEPT ![f].at = "done"]
      BY <2>3 DEF FlowDropped, Released, Noted, Quiet, Noting, Beside, provider
    <3> QED
      BY <3>1, FlowKeeps
  <2> QED
    BY <1>1, <2>1, <2>2, <2>3, StoreGrantKeeps, FlowEndsKeeps, ExchangeKeeps
<1>2. ASSUME NEW t \in Tasks,
             \/ RotateStarts(t) \/ RotateDiscovers(t) \/ RotateRefused(t) \/ RotateGranted(t)
             \/ RotateAnswerLost(t) \/ RotateVerifies(t) \/ RotateStores(t) \/ RotateEnds(t)
             \/ QueryStarts(t) \/ QueryReads(t) \/ QueryEnds(t) \/ QueryErrs(t)
      PROVE  OAuthInv'
  <2>1. CASE RotateStarts(t)
    <3>1. /\ issued' = issued /\ Rotates(t, "rotate") /\ resources' \in {resources, NoResources}
          /\ UNCHANGED <<vault, flow, canceller, panel>> /\ Noting
      BY <2>1 DEF RotateStarts, Noted, Quiet, Noting, provider
    <3> QED
      BY <3>1, RotatesKeeps
  <2>2. CASE RotateDiscovers(t)
    <3>1. issued' = issued /\ Noting /\ OnlyTasks /\ task[t].at = "asking"
      BY <2>2 DEF RotateDiscovers, Turns, Noted, Quiet, Noting, provider
    <3>2. task' = [task EXCEPT ![t].at = "presenting"] \/ task' = [task EXCEPT ![t].at = "failing"]
      BY <2>2 DEF RotateDiscovers, Turns
    <3> QED
      BY <3>1, <3>2, GrowsNot, TurnKeeps
  <2>3. CASE RotateRefused(t)
    <3>1. issued' = issued /\ Noting /\ OnlyTasks /\ task[t].at = "presenting"
      BY <2>3 DEF RotateRefused, Turns, Noted, Noting
    <3>2. task' = [task EXCEPT ![t].at = "failing"]
      BY <2>3 DEF RotateRefused, Turns
    <3> QED
      BY <3>1, <3>2, GrowsNot, TurnKeeps
  <2>4. CASE RotateVerifies(t)
    <3>1. issued' = issued /\ Noting /\ OnlyTasks /\ task[t].at = "granted"
      BY <2>4 DEF RotateVerifies, Turns, Noted, Quiet, Noting, provider
    <3>2. task' = [task EXCEPT ![t].at = "verified"] \/ task' = [task EXCEPT ![t].at = "failing"]
      BY <2>4 DEF RotateVerifies, Turns
    <3> QED
      BY <3>1, <3>2, GrowsNot, TurnKeeps
  <2>5. CASE QueryErrs(t)
    <3>1. issued' = issued /\ Around /\ task' = [task EXCEPT ![t] = Resting]
      BY <2>5 DEF QueryErrs, Noted, Quiet, Noting, Around, provider
    <3> QED
      BY <3>1, RestKeeps
  <2> QED
    BY <1>2, <2>1, <2>2, <2>3, <2>4, <2>5, RotatedKeeps, StoresKeeps, RotateEndsKeeps,
       QueryStartsKeeps, QueryReadsKeeps, QueryEndsKeeps
<1>3. ASSUME UNCHANGED oauthVars PROVE OAuthInv'
  <2>1. /\ UNCHANGED <<vault, public, resources, flow, canceller, panel, task, issued, crossed, mixed>>
    BY <1>3 DEF oauthVars, memory, provider, history
  <2>2. Grown /\ FlowTypes' /\ TaskTypes'
    BY <2>1, GrowsNot, FlowsStay, TasksStay
  <2>3. OAuthTypes' /\ OneListener'
    BY <2>1, <2>2 DEF OAuthInv, OAuthTypes, Grown, OneListener, Listening
  <2>4. Signed => Signed'
    BY <2>1 DEF Signed, Apart, SigningIn, SigningOut, RotatingSome, Underway, Listening, Rotating, Owner
  <2>5. Displayed => Displayed'
    BY <2>1 DEF Displayed, Mixture, SigningIn, SigningOut, Querying, Underway, Listening, Owner
  <2> QED
    BY <2>1, <2>3, <2>4, <2>5 DEF OAuthInv
<1> QED
  BY <1>1, <1>2, <1>3, PanelKeeps, BindsKeeps, DeletesKeeps, ClearsKeeps, ClearSelectionKeeps,
     RestartKeeps DEF OAuthNext

\* So it always holds.
LEMMA OAuthInvHolds == OAuthSpec => []OAuthInv
<1>1. OAuthInit => OAuthInv
  <2> SUFFICES ASSUME OAuthInit PROVE OAuthInv
    OBVIOUS
  <2>1. /\ issued \in Seq(Accounts) /\ Len(issued) = 0 /\ flow \in Seq(Flow) /\ Len(flow) = 0
        /\ DOMAIN flow = {}
    BY DEF OAuthInit
  <2>2. Resting \in Task /\ Resting.at = "idle" /\ Resting.token = 0 /\ Resting.next = 0
    BY DEF Resting, Task, TaskSteps
  <2>3. 0 \in Tokens
    BY <2>1 DEF Tokens
  <2>4. \A t \in Tasks : task[t] = Resting
    BY DEF OAuthInit
  <2>5. TaskTypes
    BY <2>2, <2>3, <2>4 DEF OAuthInit, TaskTypes, TaskOk
  <2>6. FlowTypes
    BY <2>1 DEF OAuthInit, FlowTypes
  <2>7. OAuthTypes
    BY <2>1, <2>3, <2>5, <2>6 DEF OAuthInit, OAuthTypes, NoResources
  <2>8. ~SigningIn /\ ~SigningOut /\ \A t \in Tasks : ~Rotating(t) /\ task[t].at # "reads"
    BY <2>1, <2>2, <2>4 DEF OAuthInit, SigningIn, SigningOut, Rotating
  <2>9. Signed
    BY <2>1, <2>8 DEF OAuthInit, Signed, Apart, RotatingSome, Shown
  <2>10. Displayed
    BY <2>1, <2>8 DEF OAuthInit, Displayed, Mixture, NoResources
  <2> QED
    BY <2>1, <2>7, <2>9, <2>10 DEF OAuthInv, OneListener
<1> QED
  BY <1>1, OAuthStep, PTL DEF OAuthSpec

\* As long as sign-in, sign-out and rotation do not overlap, the account shown as signed in is
\* the one of the stored session (neuman_desktop.rs:1334).
THEOREM SignedInIsStoredHolds == OAuthSpec => []SignedInIsStored
<1>1. OAuthInv => SignedInIsStored
  BY DEF OAuthInv, SignedInIsStored, Signed, SigningOut
<1> QED
  BY <1>1, OAuthInvHolds, PTL

\* As long as no query overlaps either, an inventory or selection shown beside a signed-in
\* account was read with its session (neuman_desktop.rs:1077).
THEOREM ResourcesAreTheAccountsHolds == OAuthSpec => []ResourcesAreTheAccounts
<1>1. OAuthInv => ResourcesAreTheAccounts
  BY DEF OAuthInv, ResourcesAreTheAccounts, Displayed, SigningOut
<1> QED
  BY <1>1, OAuthInvHolds, PTL
=============================================================================
