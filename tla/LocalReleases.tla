--------------------------- MODULE LocalReleases ---------------------------
(***************************************************************************)
(* Releases in the local ledger, driven by `neuman release` processes that *)
(* share it.  A ledger transition reads the record and then updates it in  *)
(* a second statement; the publication is a call to a provider whose       *)
(* answer may be a refusal, an ambiguity or unreadable; a process may be   *)
(* killed between any two steps.                                           *)
(***************************************************************************)
EXTENDS Naturals

CONSTANTS Operators,   \* processes of the CLI
          Releases,
          Artifacts,
          Bundle,      \* the place artifact of a release's bundle
          Answers,     \* what the provider may answer
          MaxRuns      \* bound on the publications each operator starts

AllAnswers == {"version", "unreadable", "refused", "ambiguous"}

None == "none"

ASSUME ReleasesAssumption ==
    /\ None \notin Releases
    /\ Bundle \in [Releases -> Artifacts]
    /\ Answers \subseteq AllAnswers
    /\ MaxRuns \in Nat

VARIABLES status,    \* releases.status
          receipt,   \* release_receipts of phase "publish": the release of the row keyed by an artifact
          versions,  \* versions the provider created for a release
          answered,  \* releases for which it answered with a version number
          doing,     \* what each process is doing
          runs       \* publications it has started

releaseVars == <<status, receipt, versions, answered, doing, runs>>

ReleaseStatuses == {"awaiting", "approved", "preflighting", "publishing", "published",
             "unknown", "failed"}

\* ReleaseStatus::transition, of the states this program reaches.
Legal == {<<"awaiting", "approved">>, <<"approved", "preflighting">>,
          <<"preflighting", "publishing">>, <<"unknown", "publishing">>,
          <<"preflighting", "failed">>, <<"publishing", "failed">>,
          <<"publishing", "published">>, <<"publishing", "unknown">>}

Free == [at |-> "idle"]

\* A process about to do step s, or a transition of its release, in transition_release.
Step(s, r) == [at |-> s, release |-> r]
Move(s, r, from, to) == [at |-> s, release |-> r, from |-> from, to |-> to]

\* The process goes on, and nothing but doing has changed.
Continue(o, next) == doing' = [doing EXCEPT ![o] = next]

-----------------------------------------------------------------------------
\* release create, with --approved or without.
Create(r) ==
    /\ status[r] = None
    /\ \E s \in {"awaiting", "approved"} : status' = [status EXCEPT ![r] = s]
    /\ UNCHANGED <<receipt, versions, answered, doing, runs>>

\* release publish reads the record; one that is neither approved nor in preflight is refused.
Start(o, r) ==
    /\ doing[o] = Free
    /\ runs[o] < MaxRuns
    /\ \/ status[r] = "approved" /\ Continue(o, Move("read", r, "approved", "preflighting"))
       \/ status[r] = "preflighting" /\ Continue(o, Step("preflight", r))
    /\ runs' = [runs EXCEPT ![o] = @ + 1]
    /\ UNCHANGED <<status, receipt, versions, answered>>

\* transition_release: the first statement.  A status other than the expected one is a conflict.
Read(o) ==
    /\ doing[o].at = "read"
    /\ Continue(o, IF status[doing[o].release] = doing[o].from
                     THEN [doing[o] EXCEPT !.at = "write"] ELSE Free)
    /\ UNCHANGED <<status, receipt, versions, answered, runs>>

\* What a process does after a transition.
After(m) ==
    CASE m.to = "preflighting" -> Step("preflight", m.release)
      [] m.to = "publishing" -> Step("publish", m.release)
      [] OTHER -> Free

\* transition_release: the second statement, which changes no row when the status has
\* changed meanwhile.  The process goes on either way.
Write(o) ==
    /\ doing[o].at = "write"
    /\ status' = [status EXCEPT ![doing[o].release] = IF @ = doing[o].from THEN doing[o].to ELSE @]
    /\ Continue(o, After(doing[o]))
    /\ UNCHANGED <<receipt, versions, answered, runs>>

\* evaluate_preflight: a failed gate ends the process and leaves the release in preflight.
Preflight(o) ==
    /\ doing[o].at = "preflight"
    /\ \E passed \in BOOLEAN :
         Continue(o, IF passed THEN Move("read", doing[o].release, "preflighting", "publishing")
                     ELSE Free)
    /\ UNCHANGED <<status, receipt, versions, answered, runs>>

\* RobloxPlacePublisher::publish and what the command makes of its result.  An answer that
\* cannot be parsed is an error that may not be retried, like a refusal.
Publish(o) ==
    /\ doing[o].at = "publish"
    /\ LET r == doing[o].release
       IN  \E answer \in Answers : \E created \in {0, 1} :
             /\ answer \in {"version", "unreadable"} => created = 1
             /\ answer = "refused" => created = 0
             /\ versions' = [versions EXCEPT ![r] = @ + created]
             /\ answered' = IF answer = "version" THEN answered \cup {r} ELSE answered
             /\ Continue(o, CASE answer = "version" -> Step("record", r)
                              [] answer = "ambiguous" -> Move("read", r, "publishing", "unknown")
                              [] OTHER -> Move("read", r, "publishing", "failed"))
    /\ UNCHANGED <<status, receipt, runs>>

\* Mutant: a receipt that is there already is left alone.
RecordOnce(o) ==
    /\ doing[o].at = "record"
    /\ LET r == doing[o].release
       IN  /\ receipt' = [receipt EXCEPT ![Bundle[r]] = IF @ = None THEN r ELSE @]
           /\ Continue(o, Move("read", r, "publishing", "published"))
    /\ UNCHANGED <<status, versions, answered, runs>>

\* put_receipt: the row's key names the artifact alone, and a second one fails the command.
Record(o) ==
    /\ doing[o].at = "record"
    /\ LET r == doing[o].release
       IN  IF receipt[Bundle[r]] = None
             THEN /\ receipt' = [receipt EXCEPT ![Bundle[r]] = r]
                  /\ Continue(o, Move("read", r, "publishing", "published"))
             ELSE Continue(o, Free) /\ UNCHANGED receipt
    /\ UNCHANGED <<status, versions, answered, runs>>

\* The process is killed.
Kill(o) ==
    /\ doing[o] # Free
    /\ Continue(o, Free)
    /\ UNCHANGED <<status, receipt, versions, answered, runs>>

-----------------------------------------------------------------------------
ReleasesInit ==
    /\ status = [r \in Releases |-> None]
    /\ receipt = [a \in Artifacts |-> None]
    /\ versions = [r \in Releases |-> 0]
    /\ answered = {}
    /\ doing = [o \in Operators |-> Free]
    /\ runs = [o \in Operators |-> 0]

Work(o) ==
    \/ \E r \in Releases : Start(o, r)
    \/ Read(o) \/ Write(o) \/ Preflight(o) \/ Publish(o) \/ Record(o)

ReleasesNext == (\E r \in Releases : Create(r)) \/ (\E o \in Operators : Work(o) \/ Kill(o))

ReleasesSpec == ReleasesInit /\ [][ReleasesNext]_releaseVars

-----------------------------------------------------------------------------
ReleasesTypeOK ==
    /\ status \in [Releases -> ReleaseStatuses \cup {None}]
    /\ \A a \in Artifacts : receipt[a] # None => receipt[a] \in answered /\ Bundle[receipt[a]] = a
    /\ answered \subseteq {r \in Releases : versions[r] > 0}
    /\ \A o \in Operators : doing[o].at \in {"read", "write"} => <<doing[o].from, doing[o].to>> \in Legal

\* A published release has a version, and the receipt for its artifact is its own
\* (neuman_cli.rs:896).
PublishedHasReceipt ==
    \A r \in Releases : status[r] = "published" => versions[r] > 0 /\ receipt[Bundle[r]] = r

\* Whatever processes race for a release and whichever are killed, its status only ever takes a
\* step that ReleaseStatus::transition allows, and a process that lost the race never sets it
\* back: the UPDATE repeats the status that was read (transition_release, core.rs:1392).
StatusFollowsTransitions ==
    [][\A r \in Releases : status[r] # None /\ status'[r] # status[r] =>
          <<status[r], status'[r]>> \in Legal]_releaseVars

\* "Atomically advances a release state if its expected state still holds."
\* (core.rs:1391): of two processes only one gets a release to publish.  The code does not
\* do that: MCPublisher.cfg finds it violated, because transition_release
\* ignores whether its UPDATE has changed a row (core.rs:1421).
OnePublisher ==
    \A o1, o2 \in Operators :
        doing[o1].at = "publish" /\ doing[o2].at = "publish" /\ doing[o1].release = doing[o2].release => o1 = o2
=============================================================================
