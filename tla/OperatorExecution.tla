------------------------- MODULE OperatorExecution -------------------------
(***************************************************************************)
(* OperatorOpenCloudExecution: uploads the cells of a signed manifest,     *)
(* creates one provider task and polls it.  The execution is a record that *)
(* the operator's process saves after every transition, before it lets the *)
(* adapter carry out the action reserved in it; the process may die        *)
(* anywhere and starts again from what was saved.  The process, the        *)
(* adapter and the provider are modelled from the contract of the type.    *)
(***************************************************************************)
EXTENDS Integers, FiniteSets, FiniteSetsExt

CONSTANTS Inputs,        \* cells of the manifest
          Timeout,       \* job.timeout_ms
          PollInterval,  \* job.poll_interval_ms
          MaxPolls,      \* MAX_POLL_COUNT
          MaxTime, MaxCrashes  \* bounds on the clock and on restarts

ASSUME ExecutionAssumption == {Timeout, PollInterval, MaxPolls, MaxTime, MaxCrashes} \subseteq Nat

VARIABLES exec,      \* the execution in memory
          saved,     \* the execution on disk
          at,        \* the process: "run", "save_action", "execute", "apply", "save", "down"
          seen,      \* the provider's observation
          uploads,   \* inputs the provider has created, by cell
          tasks,     \* tasks it has created
          now, crashes

vars == <<exec, saved, at, seen, uploads, tasks, now, crashes>>

NoAction == [kind |-> "none"]
Upload(c) == [kind |-> "upload", cell |-> c]
CreateTask == [kind |-> "create"]
PollTask == [kind |-> "poll"]

Active == {"uploading", "ready", "polling"}
Statuses == Active \cup {"succeeded", "failed", "reconcile", "timed_out"}

Expired == now >= Timeout   \* the execution started at 0

\* The process goes from one step to another and saves, or not.
Goes(from, to) == at = from /\ at' = to

-----------------------------------------------------------------------------
\* OperatorOpenCloudExecution::new
Started ==
    [status |-> IF Inputs = {} THEN "ready" ELSE "uploading",
     uploaded |-> {}, inFlight |-> NoAction, nextPoll |-> 0, polls |-> 0]

\* The action next_action would reserve, if any.
Candidates ==
    CASE exec.status = "uploading" -> {Upload(c) : c \in Inputs \ exec.uploaded}
      [] exec.status = "ready" -> {CreateTask}
      [] exec.status = "polling" /\ now >= exec.nextPoll -> {PollTask}
      [] OTHER -> {}

\* next_action within the deadline: nothing is emitted while an action is in flight.
NextAction ==
    /\ Goes("run", "save_action")
    /\ exec.inFlight = NoAction
    /\ ~Expired /\ exec.polls < MaxPolls
    /\ \E action \in Candidates : exec' = [exec EXCEPT !.inFlight = action]
    /\ UNCHANGED <<saved, seen, uploads, tasks, now, crashes>>

\* Mutant: only the polls are counted.
TimeOutOnPolls ==
    /\ Goes("run", "save")
    /\ exec.inFlight = NoAction
    /\ exec.polls >= MaxPolls
    /\ exec.status \in Active
    /\ exec' = [exec EXCEPT !.status = "timed_out"]
    /\ UNCHANGED <<saved, seen, uploads, tasks, now, crashes>>

\* next_action past the deadline or the number of polls.
TimeOut ==
    /\ Goes("run", "save")
    /\ exec.inFlight = NoAction
    /\ Expired \/ exec.polls >= MaxPolls
    /\ exec.status \in Active
    /\ exec' = [exec EXCEPT !.status = "timed_out"]
    /\ UNCHANGED <<saved, seen, uploads, tasks, now, crashes>>

\* Mutant: the action is carried out before the reservation is saved.
ExecuteUnsaved ==
    /\ Goes("save_action", "execute")
    /\ UNCHANGED <<exec, saved, seen, uploads, tasks, now, crashes>>

SaveAction ==
    /\ Goes("save_action", "execute")
    /\ saved' = exec
    /\ UNCHANGED <<exec, seen, uploads, tasks, now, crashes>>

Save ==
    /\ Goes("save", "run")
    /\ saved' = exec
    /\ UNCHANGED <<exec, seen, uploads, tasks, now, crashes>>

\* The adapter: a mutation is carried out or not, and its answer may be lost; a poll finds
\* the task pending or done, or brings nothing that can be used.
Execute ==
    /\ Goes("execute", "apply")
    /\ LET action == exec.inFlight
       IN  \/ /\ action.kind = "upload"
              /\ \E n \in {0, 1} :
                   /\ uploads' = [uploads EXCEPT ![action.cell] = @ + n]
                   /\ seen' \in {"unknown"} \cup (IF n = 1 THEN {"created"} ELSE {})
              /\ UNCHANGED tasks
           \/ /\ action.kind = "create"
              /\ \E n \in {0, 1} :
                   /\ tasks' = tasks + n
                   /\ seen' \in {"unknown"} \cup (IF n = 1 THEN {"created"} ELSE {})
              /\ UNCHANGED uploads
           \/ /\ action.kind = "poll"
              /\ seen' \in {"pending", "completed", "failed", "unusable"}
              /\ UNCHANGED <<uploads, tasks>>
    /\ UNCHANGED <<exec, saved, now, crashes>>

\* apply_observation of an observation that fits the action in flight.
Applied(e) ==
    LET done == [e EXCEPT !.inFlight = NoAction]
        inputs == e.uploaded \cup {e.inFlight.cell}
    IN  CASE seen = "unknown" -> [done EXCEPT !.status = "reconcile"]
          [] seen = "created" /\ e.inFlight.kind = "upload" ->
               [done EXCEPT !.uploaded = inputs,
                            !.status = IF inputs = Inputs THEN "ready" ELSE @]
          [] seen = "created" /\ e.inFlight.kind = "create" ->
               [done EXCEPT !.status = "polling", !.nextPoll = now + PollInterval]
          [] seen = "pending" ->
               [done EXCEPT !.polls = @ + 1, !.nextPoll = now + PollInterval]
          [] seen = "completed" -> [done EXCEPT !.status = "succeeded"]
          [] seen = "failed" -> [done EXCEPT !.status = "failed"]

Apply ==
    /\ Goes("apply", "save")
    /\ ~Expired /\ seen # "unusable"
    /\ exec' = Applied(exec)
    /\ UNCHANGED <<saved, seen, uploads, tasks, now, crashes>>

\* An observation past the deadline is not looked at.
ApplyLate ==
    /\ Goes("apply", "save")
    /\ Expired
    /\ exec' = [exec EXCEPT !.status = "timed_out", !.inFlight = NoAction]
    /\ UNCHANGED <<saved, seen, uploads, tasks, now, crashes>>

\* An error of the adapter, or a receipt that does not verify: the poll stays in flight, and
\* the process, which still has it, carries it out again.
ApplyRefused ==
    /\ Goes("apply", "execute")
    /\ ~Expired /\ seen = "unusable"
    /\ UNCHANGED <<exec, saved, seen, uploads, tasks, now, crashes>>

Crash ==
    /\ at # "down" /\ crashes < MaxCrashes
    /\ at' = "down" /\ crashes' = crashes + 1
    /\ exec' = saved
    /\ UNCHANGED <<saved, seen, uploads, tasks, now>>

\* Mutant: every action in flight is emitted again.
RecoverByRetrying ==
    /\ Goes("down", "save")
    /\ exec' = [exec EXCEPT !.inFlight = NoAction]
    /\ UNCHANGED <<saved, seen, uploads, tasks, now, crashes>>

\* recover_in_flight_after_restart
Recover ==
    /\ Goes("down", "save")
    /\ exec' = [exec EXCEPT !.inFlight = NoAction,
                            !.status = IF exec.inFlight.kind \in {"upload", "create"}
                                         THEN "reconcile" ELSE @]
    /\ UNCHANGED <<saved, seen, uploads, tasks, now, crashes>>

Tick ==
    /\ now < MaxTime
    /\ now' = now + 1
    /\ UNCHANGED <<exec, saved, at, seen, uploads, tasks, crashes>>

-----------------------------------------------------------------------------
Init ==
    /\ exec = Started /\ saved = Started
    /\ at = "run" /\ seen = "unknown"
    /\ uploads = [c \in Inputs |-> 0] /\ tasks = 0
    /\ now = 0 /\ crashes = 0

Process ==
    \/ NextAction \/ TimeOut \/ SaveAction \/ Save \/ Execute
    \/ Apply \/ ApplyLate \/ ApplyRefused \/ Recover

Next == Process \/ Crash \/ Tick

Spec == Init /\ [][Next]_vars

\* The operator's process keeps going, and time passes.
FairSpec == Spec /\ WF_vars(Process) /\ WF_vars(Tick)

-----------------------------------------------------------------------------
TypeOK ==
    /\ exec.status \in Statuses /\ saved.status \in Statuses
    /\ exec.uploaded \subseteq Inputs
    /\ exec.inFlight # NoAction => exec.status \in Active
    /\ at \in {"execute", "apply"} => exec.inFlight # NoAction

\* No crash, lost answer or deadline makes the provider carry out a mutation twice
\* (native_execution.rs:391).
MutatedOnce == tasks <= 1 /\ \A c \in Inputs : uploads[c] <= 1

\* Whatever the process forgets in a crash, the saved execution never trails a mutation it
\* does not at least suspect (native_execution.rs:304).
SavedSuspects ==
    /\ tasks > 0 => saved.status \in {"polling", "succeeded", "failed", "reconcile", "timed_out"}
                    \/ saved.inFlight = CreateTask
    /\ \A c \in Inputs : uploads[c] > 0 =>
         c \in saved.uploaded \/ saved.inFlight = Upload(c) \/ saved.status \in {"reconcile", "timed_out"}

\* "Deadline or bounded polling was exhausted." (native_execution.rs:286): an execution
\* comes to an end, whatever is lost and however often its process is restarted.
Ends == <>[](exec.status \notin Active)
=============================================================================
