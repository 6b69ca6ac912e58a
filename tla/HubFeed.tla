------------------------------- MODULE HubFeed -------------------------------
(***************************************************************************)
(* The desktop adapter's event loop (HubDesktopAdapter::run) against the   *)
(* Hub's outbox: poll a page, process its events one by one - import into  *)
(* the local ledger, then fan out to Studio - and advance the durable      *)
(* cursor after each.  A cursor outside the retained history is cleared    *)
(* and the retained events are replayed.  Every event of the project is    *)
(* taken to change the channel's head (others only advance the cursor).    *)
(* The process may stop between any two steps; the ledger survives.        *)
(***************************************************************************)
EXTENDS HubOutbox

CONSTANTS Project,     \* the configured Hub project
          PageSize,    \* limit=200
          MaxRestarts, MaxFailures, MaxCaptures  \* bounds on restarts, failures, local captures

ASSUME FeedAssumption ==
    Project \in EventProjects /\ {PageSize, MaxRestarts, MaxFailures, MaxCaptures} \subseteq Nat

VARIABLES cursor,      \* hub_stream_cursors: the sequence handled last, 0 = none
          imported,    \* hub_revision_receipts, by sequence
          localHead,   \* the accepted local head, by the sequence imported last
          diverged,    \* a local capture has been accepted on top of it
          page,        \* rest of the page being processed
          full,        \* the page had PageSize events
          at,          \* "poll", "import", "fan_out" or "advance"
          recovery,    \* recovery_mode
          fannedOut,   \* events that reached the bridge
          restarts, failures, captures

durable == <<cursor, imported, localHead, diverged>>
memory == <<page, full, at, recovery>>
counters == <<restarts, failures, captures>>
feedVars == <<outboxVars, durable, memory, fannedOut, counters>>

\* The event that is processed next.
Current == Min(page)

\* The event whose revision the one of event n was made on, 0 if there is none.
Base(n) == Max({0} \cup {m \in EventsOf(Project) : m < n})

-----------------------------------------------------------------------------
\* A mutation of any project commits its event.
Commit == \E p \in EventProjects : Append1(p) /\ UNCHANGED <<durable, memory, fannedOut, counters>>

MaintainOutbox == Prune /\ UNCHANGED <<durable, memory, fannedOut, counters>>

\* Mutant: the expired cursor is kept, and the adapter merely asks again.
PollExpiredKeeping ==
    /\ at = "poll"
    /\ CursorExpired(Project, cursor)
    /\ recovery' = TRUE
    /\ UNCHANGED <<outboxVars, durable, page, full, at, fannedOut, counters>>

\* 410 Gone: the cursor is cleared, and what is still retained will be replayed.
PollExpired ==
    /\ at = "poll"
    /\ CursorExpired(Project, cursor)
    /\ cursor' = 0
    /\ recovery' = TRUE
    /\ UNCHANGED <<outboxVars, imported, localHead, diverged, page, full, at, fannedOut, counters>>

\* Mutant: the cursor moves to the end of the page before the events are handled.
PollAdvancing ==
    /\ at = "poll"
    /\ ~CursorExpired(Project, cursor)
    /\ LET events == Page(Project, cursor, PageSize)
       IN  /\ page' = events
           /\ full' = (Cardinality(events) = PageSize)
           /\ at' = IF events = {} THEN "poll" ELSE "import"
           /\ recovery' = (recovery /\ events # {})
           /\ cursor' = Max({cursor} \cup events)
    /\ UNCHANGED <<outboxVars, imported, localHead, diverged, fannedOut, counters>>

\* An empty page ends a recovery; so does a short one, once it has been processed.
Poll ==
    /\ at = "poll"
    /\ ~CursorExpired(Project, cursor)
    /\ LET events == Page(Project, cursor, PageSize)
       IN  /\ page' = events
           /\ full' = (Cardinality(events) = PageSize)
           /\ at' = IF events = {} THEN "poll" ELSE "import"
           /\ recovery' = (recovery /\ events # {})
    /\ UNCHANGED <<outboxVars, durable, fannedOut, counters>>

\* import_hub_accepted_revision of the event's revision: as a delta on the expected base,
\* or as a full snapshot otherwise, so that it always succeeds.
Import ==
    /\ at = "import"
    /\ Current \notin imported
    /\ imported' = imported \cup {Current}
    /\ localHead' = Current /\ diverged' = FALSE
    /\ at' = "fan_out"
    /\ UNCHANGED <<outboxVars, cursor, page, full, recovery, fannedOut, counters>>

\* outcome.duplicate: the revision was imported before, and process_event is done.
ImportDuplicate ==
    /\ at = "import"
    /\ Current \in imported
    /\ at' = "advance"
    /\ UNCHANGED <<outboxVars, durable, page, full, recovery, fannedOut, counters>>

FanOut ==
    /\ at = "fan_out"
    /\ fannedOut' = fannedOut \cup {Current}
    /\ at' = "advance"
    /\ UNCHANGED <<outboxVars, durable, page, full, recovery, counters>>

\* A request to the Hub fails, or the bridge's context has changed (ContextStale): the page
\* is given up and polled again.
PageFailed ==
    /\ at \in {"import", "fan_out"}
    /\ failures < MaxFailures
    /\ failures' = failures + 1
    /\ at' = "poll" /\ page' = {}
    /\ UNCHANGED <<outboxVars, durable, full, recovery, fannedOut, restarts, captures>>

\* put_hub_stream_cursor never moves the cursor back.
AdvanceCursor ==
    /\ at = "advance"
    /\ cursor' = Max({cursor, Current})
    /\ page' = page \ {Current}
    /\ at' = IF page' = {} THEN "poll" ELSE "import"
    /\ recovery' = (recovery /\ (page' # {} \/ full))
    /\ UNCHANGED <<outboxVars, imported, localHead, diverged, full, fannedOut, counters>>

\* commit_capture accepts a Studio capture on the local head.
LocalCapture ==
    /\ captures < MaxCaptures
    /\ captures' = captures + 1
    /\ diverged' = TRUE
    /\ UNCHANGED <<outboxVars, cursor, imported, localHead, memory, fannedOut, restarts, failures>>

\* The desktop stops and starts again: only the ledger is left.
Restart ==
    /\ restarts < MaxRestarts
    /\ restarts' = restarts + 1
    /\ page' = {} /\ at' = "poll" /\ recovery' = FALSE
    /\ UNCHANGED <<outboxVars, durable, full, fannedOut, failures, captures>>

-----------------------------------------------------------------------------
FeedInit ==
    /\ OutboxInit
    /\ cursor = 0 /\ imported = {} /\ localHead = 0 /\ diverged = FALSE
    /\ page = {} /\ full = FALSE /\ at = "poll" /\ recovery = FALSE
    /\ fannedOut = {} /\ restarts = 0 /\ failures = 0 /\ captures = 0

Work ==
    \/ PollExpired \/ Poll
    \/ Import \/ ImportDuplicate \/ FanOut \/ AdvanceCursor

FeedNext == Commit \/ MaintainOutbox \/ Work \/ PageFailed \/ LocalCapture \/ Restart

FeedSpec == FeedInit /\ [][FeedNext]_feedVars

\* The loop polls again whatever happened, at most 32 seconds later.
FairFeedSpec == FeedSpec /\ WF_feedVars(Work)

-----------------------------------------------------------------------------
FeedTypeOK ==
    /\ retained \subseteq DOMAIN log
    /\ cursor \in Nat
    /\ imported \subseteq EventsOf(Project) /\ fannedOut \subseteq imported
    /\ page \subseteq EventsOf(Project)
    /\ at \in {"poll", "import", "fan_out", "advance"}
    /\ at # "poll" => page # {}
    /\ recovery \in BOOLEAN

\* The cursor never passes an event that the adapter has not imported while the Hub still
\* has it: neither a restart nor a failed page nor a replay leaves a gap
\* (hub_desktop.rs:475-480).
NoGap == \A n \in RetainedOf(Project) : n <= cursor => n \in imported

\* The local head is never set back to an older Hub revision than one imported before, although
\* a recovery replays the retained events and each import moves the head; an adapter whose
\* cursor is at the Hub's latest event has that revision at its head (hub_desktop.rs:647,
\* 475-480).
HeadFollowsHub ==
    /\ localHead = Max({0} \cup imported)
    /\ cursor = Latest(Project) => localHead = Latest(Project)

\* When the Hub falls silent, the adapter ends up with the latest accepted revision, also
\* when its cursor expires on the way.
CatchesUp == <>[](localHead = Latest(Project) /\ cursor = Latest(Project))

\* "cursor advances only after CAS verification, durable local import, and bridge
\* context/fan-out success." (docs/guides/HUB_DESKTOP_ADAPTER.md:76).  The code does not do
\* that: MCFanOut.cfg finds the invariant violated within eight steps, because an event whose
\* fan-out failed counts as a duplicate when it comes again (hub_desktop.rs:647).
FannedOutBeforeCursor == \A n \in imported : n <= cursor => n \in fannedOut
=============================================================================
