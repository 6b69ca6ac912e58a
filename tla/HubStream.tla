------------------------------ MODULE HubStream ------------------------------
(***************************************************************************)
(* The Hub's event socket.  A mutation's handler commits its event and     *)
(* then, in two more steps, reads the project's latest event and sends it  *)
(* to a broadcast channel (publish_latest); a socket replays a page of the *)
(* outbox, subscribes to the channel and forwards what it finds there.     *)
(* The handlers of all routes run at the same time.  Clients connect with  *)
(* the cursor of the newest event they know.                               *)
(***************************************************************************)
EXTENDS HubOutbox

CONSTANTS Handlers,     \* requests being served at the same time
          Subscribed,   \* the project the client's sockets are about
          StreamPage,   \* 200, the events a socket replays
          ChannelSize,  \* broadcast::channel(2048)
          MaxSent, MaxConnects, MaxWarnings  \* bounds

ASSUME StreamAssumption == Subscribed \in EventProjects /\ ChannelSize \in Nat \ {0}

VARIABLES handler,   \* what each handler is doing
          sent,      \* the messages ever broadcast, by sequence
          warned,    \* latest events whose publication failed
          socket,    \* the client's socket; since: events committed when it subscribed or lagged last
          got,       \* events that have reached the client
          connects

streamVars == <<outboxVars, handler, sent, warned, socket, got, connects>>

Idle == [at |-> "idle", project |-> Subscribed, event |-> 0]
Closed == [at |-> "closed", replay |-> {}, position |-> 0, since |-> 0]

-----------------------------------------------------------------------------
(* Requests.  Each answers once it has published. *)

\* The repository's transaction: it appends one event, or none when a record of its
\* Idempotency-Key answers.
Committed(h, p) == handler' = [handler EXCEPT ![h] = [at |-> "committed", project |-> p, event |-> 0]]
Executes(h, p) == Append1(p) /\ Committed(h, p)
Replays(h, p) == EventsOf(p) # {} /\ UNCHANGED outboxVars /\ Committed(h, p)
Keyed(h, p) == Executes(h, p) \/ Replays(h, p)

\* create_project publishes for the project it has made, the others for the one in the path.
ProjectRequest(h, p) == Keyed(h, p)
ArtRequest(h, p) == EventsOf(p) # {} /\ Keyed(h, p)

\* release_lease and break_lease know no key: a repeated one is refused.
LeaseRequest(h, p) == EventsOf(p) # {} /\ (Keyed(h, p) \/ Executes(h, p))

\* Negotiating an object the project has already appends nothing and publishes all the same;
\* receiving its bytes and granting a download appends nothing and publishes nothing.
ObjectRequest(h, p) == EventsOf(p) # {} /\ (Keyed(h, p) \/ (UNCHANGED outboxVars /\ Committed(h, p)))
BuildRequest(h, p) == EventsOf(p) # {} /\ Keyed(h, p)
ReleaseRequest(h, p) == EventsOf(p) # {} /\ Keyed(h, p)

Serve(h, p) ==
    /\ handler[h].at = "idle"
    /\ Len(sent) + Cardinality({g \in Handlers : handler[g].at # "idle"}) < MaxSent
    /\ \/ ProjectRequest(h, p) \/ ArtRequest(h, p) \/ LeaseRequest(h, p)
       \/ ObjectRequest(h, p) \/ BuildRequest(h, p) \/ ReleaseRequest(h, p)
    /\ UNCHANGED <<sent, warned, socket, got, connects>>

\* Mutant: a request leaves the publication to another one of the project.
PublishLeftToOthers(h) ==
    /\ handler[h].at = "committed"
    /\ handler' = IF \E g \in Handlers \ {h} : handler[g].at # "idle" /\ handler[g].project = handler[h].project
                  THEN [handler EXCEPT ![h] = Idle]
                  ELSE [handler EXCEPT ![h].at = "read", ![h].event = Latest(handler[h].project)]
    /\ UNCHANGED <<outboxVars, sent, warned, socket, got, connects>>

\* publish_latest, the query: by now the latest event may be another request's.
PublishReads(h) ==
    /\ handler[h].at = "committed"
    /\ handler' = [handler EXCEPT ![h].at = "read", ![h].event = Latest(handler[h].project)]
    /\ UNCHANGED <<outboxVars, sent, warned, socket, got, connects>>

\* The query fails: a warning, and the request succeeds.
PublishFails(h) ==
    /\ handler[h].at = "committed" /\ Cardinality(warned) < MaxWarnings
    /\ warned' = warned \cup {Latest(handler[h].project)}
    /\ handler' = [handler EXCEPT ![h] = Idle]
    /\ UNCHANGED <<outboxVars, sent, socket, got, connects>>

PublishSends(h) ==
    /\ handler[h].at = "read"
    /\ sent' = Append(sent, handler[h].event)
    /\ handler' = [handler EXCEPT ![h] = Idle]
    /\ UNCHANGED <<outboxVars, warned, socket, got, connects>>

-----------------------------------------------------------------------------
(* The socket *)

\* event_stream: the first page after the client's cursor.
Connect ==
    /\ socket.at = "closed" /\ connects < MaxConnects
    /\ LET cursor == Max({0} \cup got)
       IN  /\ ~CursorExpired(Subscribed, cursor)
           /\ socket' = [Closed EXCEPT !.at = "opening", !.replay = Page(Subscribed, cursor, StreamPage)]
    /\ connects' = connects + 1
    /\ UNCHANGED <<outboxVars, handler, sent, warned, got>>

\* 410: the client fetches the current state instead.
Expired ==
    /\ socket.at = "closed"
    /\ CursorExpired(Subscribed, Max({0} \cup got))
    /\ got' = got \cup {Latest(Subscribed)}
    /\ UNCHANGED <<outboxVars, handler, sent, warned, socket, connects>>

\* ... and only then is the channel subscribed to.
Subscribe ==
    /\ socket.at = "opening"
    /\ socket' = [socket EXCEPT !.at = "live", !.position = Len(sent), !.since = Len(log)]
    /\ UNCHANGED <<outboxVars, handler, sent, warned, got, connects>>

SendReplay ==
    /\ socket.at = "live" /\ socket.replay # {}
    /\ got' = got \cup {Min(socket.replay)}
    /\ socket' = [socket EXCEPT !.replay = @ \ {Min(@)}]
    /\ UNCHANGED <<outboxVars, handler, sent, warned, connects>>

Behind == Len(sent) - socket.position

\* Events of other projects are passed over.
Forward ==
    /\ socket.at = "live" /\ socket.replay = {} /\ Behind \in 1 .. ChannelSize
    /\ LET event == sent[socket.position + 1]
       IN  got' = IF log[event] = Subscribed THEN got \cup {event} ELSE got
    /\ socket' = [socket EXCEPT !.position = @ + 1]
    /\ UNCHANGED <<outboxVars, handler, sent, warned, connects>>

\* RecvError::Lagged is passed over too; the receiver goes on with the oldest message left.
Lagged ==
    /\ socket.at = "live" /\ socket.replay = {} /\ Behind > ChannelSize
    /\ socket' = [socket EXCEPT !.position = Len(sent) - ChannelSize, !.since = Len(log)]
    /\ UNCHANGED <<outboxVars, handler, sent, warned, got, connects>>

Disconnect ==
    /\ socket.at # "closed"
    /\ socket' = Closed
    /\ UNCHANGED <<outboxVars, handler, sent, warned, got, connects>>

-----------------------------------------------------------------------------
StreamInit ==
    /\ OutboxInit
    /\ handler = [h \in Handlers |-> Idle] /\ sent = <<>> /\ warned = {}
    /\ socket = Closed /\ got = {} /\ connects = 0

StreamNext ==
    \/ \E h \in Handlers : PublishReads(h) \/ PublishFails(h) \/ PublishSends(h) \/ \E p \in EventProjects : Serve(h, p)
    \/ Connect \/ Expired \/ Subscribe \/ SendReplay \/ Forward \/ Lagged \/ Disconnect
    \/ Prune /\ UNCHANGED <<handler, sent, warned, socket, got, connects>>

StreamSpec == StreamInit /\ [][StreamNext]_streamVars

-----------------------------------------------------------------------------
\* A socket that has nothing left to forward, while no request is being served.
Settled ==
    /\ socket.at = "live" /\ socket.replay = {} /\ Behind = 0
    /\ \A h \in Handlers : handler[h].at = "idle"

\* Events may be left out, doubled or out of order, but a settled socket has delivered the
\* newest event of its project, unless its publication failed or it is older than the
\* subscription or the last lag: also when requests publish each other's events in either
\* order (hub.rs:5178-5228, 5293-5305).
NewestArrives ==
    Settled /\ Latest(Subscribed) > socket.since => Latest(Subscribed) \in got \cup warned

\* "WebSocket delivery is at-least-once; consumers must de-duplicate by event ID"
\* (docs/guides/HUB_README.md:113-114).  The code does not do that: a request publishes the
\* latest event, which need not be its own (hub.rs:5294).
EveryEventArrives ==
    Settled => \A n \in EventsOf(Subscribed) : n > socket.since => n \in got \cup warned
=============================================================================
