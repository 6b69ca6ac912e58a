------------------------------ MODULE HubOutbox ------------------------------
(***************************************************************************)
(* The outbox: every mutation appends one event in its own transaction,    *)
(* sequence numbers are global (AUTOINCREMENT), and maintenance keeps the  *)
(* latest events of each project.                                          *)
(***************************************************************************)
EXTENDS Integers, Sequences, FiniteSets, FiniteSetsExt

CONSTANTS EventProjects,
          Retention,  \* HubConfig::event_retention
          MaxEvents   \* bound on the events

ASSUME OutboxAssumption == Retention \in Nat \ {0} /\ MaxEvents \in Nat

VARIABLES log,        \* the events ever appended: log[n] is the project of sequence n
          retained    \* sequences still in outbox_events

outboxVars == <<log, retained>>

EventsOf(p) == {n \in DOMAIN log : log[n] = p}
RetainedOf(p) == EventsOf(p) \cap retained
Latest(p) == Max({0} \cup EventsOf(p))

\* append_evidence
Append1(p) ==
    /\ Len(log) < MaxEvents
    /\ log' = Append(log, p)
    /\ retained' = retained \cup {Len(log) + 1}

\* The rank of an event among the retained ones of its project, the latest being 1.
RankOf(n) == Cardinality({m \in RetainedOf(log[n]) : m >= n})

\* maintenance: all but the Retention latest events of every project are deleted.
Prune ==
    /\ retained' = {n \in retained : RankOf(n) <= Retention}
    /\ UNCHANGED log

\* events_page: HUB_CURSOR_EXPIRED.  The comparison is with global sequence numbers, so
\* events of other projects in between also count as missed.
CursorExpired(p, after) ==
    /\ after > 0
    /\ RetainedOf(p) # {}
    /\ after < Min(RetainedOf(p)) - 1

Following(p, after) == {n \in RetainedOf(p) : n > after}

\* events_page: the first events after the cursor, oldest first.
Page(p, after, limit) ==
    {n \in Following(p, after) : Cardinality({m \in Following(p, after) : m <= n}) <= limit}

-----------------------------------------------------------------------------
OutboxInit == log = <<>> /\ retained = {}

\* What requests and maintenance do to the outbox, whoever reads it.
OutboxNext == (\E p \in EventProjects : Append1(p)) \/ Prune

OutboxSpec == OutboxInit /\ [][OutboxNext]_outboxVars

-----------------------------------------------------------------------------
\* A client that goes on from a cursor the Hub does not refuse misses nothing: its page leaves
\* out no event of the project up to the page's last one, and an empty page means there is
\* none, although maintenance deletes events between two pages and the sequence numbers are
\* shared with other projects (events_page, hub.rs:3965; maintenance, hub.rs:4139).
PagesAreComplete ==
    \A p \in EventProjects, after, limit \in 1 .. Len(log) :
        ~CursorExpired(p, after) =>
            LET shown == Page(p, after, limit)
            IN  /\ \A n \in EventsOf(p), m \in shown : after < n /\ n <= m => n \in shown
                /\ shown = {} => \A n \in EventsOf(p) : n <= after
=============================================================================
