---------------------------- MODULE RojoSessions ----------------------------
(***************************************************************************)
(* The desktop's Rojo servers: one retained session for every place of the *)
(* workspace, with its port, its restart budget and at most one child      *)
(* process.  The operations of RojoSessionManager run under one mutex; the *)
(* children, other programs that use ports and the project file go on by   *)
(* themselves.  Whether a running child already answers on its port        *)
(* ("starting" or "healthy") decides nothing and is left out, and so are   *)
(* logs, exit codes and the pinned executable, which does not change.      *)
(***************************************************************************)
EXTENDS Integers, Sequences

CONSTANTS Places,
          Ports,         \* the range of ports
          Projects,      \* contents the project file may have
          MaxRestarts,
          MaxProcesses,  \* bound on the processes spawned
          None

\* RojoChildExitReport
Exits == [kind: {"unexpected", "stop", "restart"}, pid: Nat]

\* The record of a session: what it was made for, the last child it had, whether that one
\* is still owned, and the last exit it knows of.
Session == [context: Projects, port: Ports, restarts: Nat, pid: Nat, owned: BOOLEAN,
            stopped: BOOLEAN, seen: {"running", "exited", "stopped"},
            exit: Exits \cup {None}]

ASSUME RojoAssumption ==
    /\ None \notin Session \cup Exits
    /\ MaxRestarts \in Nat /\ MaxProcesses \in Nat

VARIABLES project,   \* the content of the project file
          session,   \* RojoSessionManager::sessions
          process,   \* the processes spawned so far, by pid
          foreign    \* ports that other programs hold

vars == <<project, session, process, foreign>>

\* "lost" is a process that lives on without an owner, "gone" one that did until it ended.
Alive(pid) == process[pid].fate \in {"running", "lost"}

Occupied(port) ==
    \/ port \in foreign
    \/ \E pid \in DOMAIN process : Alive(pid) /\ process[pid].listening /\ process[pid].port = port

Retained == {p \in Places : session[p] # None}

\* Mutant: only the ports of sessions with a child are reserved.
ReservedByChildren == {session[q].port : q \in {r \in Retained : session[r].owned}}

\* select_port keeps the port of every session, of those without a child as well.
Reserved == {session[q].port : q \in Retained}

\* Of a process that has ended only its fate is kept.
Ended(pid, fate) == [process EXCEPT ![pid] = [fate |-> fate]]
Lost(pid) == [process EXCEPT ![pid].fate = "lost"]

Child(p, port) == [place |-> p, project |-> project, port |-> port, listening |-> FALSE,
                   fate |-> "running"]

\* RojoSupervisor::snapshot: a child that has ended is given up.
State(r) ==
    CASE r.owned /\ process[r.pid].fate = "running" -> "running"
      [] ~r.owned /\ r.stopped -> "stopped"
      [] OTHER -> "exited"

\* refresh_managed_session: an end that nobody asked for is reported once.
Refreshed(r) ==
    LET state == State(r)
    IN  [r EXCEPT !.owned = state = "running",
                  !.seen = state,
                  !.exit = IF state = "exited" /\ r.seen = "running"
                           THEN [kind |-> "unexpected", pid |-> r.pid] ELSE @]

\* RojoSupervisor::stop of a session with a child; kind is what the manager reports.
Halted(r, kind) ==
    [r EXCEPT !.owned = FALSE, !.stopped = TRUE, !.exit = [kind |-> kind, pid |-> r.pid]]

\* The handle is taken out of the supervisor before the child is killed: when that
\* fails, the process has no owner any more.
Abandoned(r) == [r EXCEPT !.owned = FALSE]

-----------------------------------------------------------------------------
(***************************************************************************)
(* RojoSessionManager                                                      *)
(***************************************************************************)

\* start of a place without a session.  The hash of the place decides which of the free
\* ports comes first.
Start(p, port) ==
    /\ p \notin Retained
    /\ port \notin Reserved /\ ~Occupied(port)
    /\ Len(process) < MaxProcesses
    /\ process' = Append(process, Child(p, port))
    /\ session' = [session EXCEPT ![p] =
                      [context |-> project, port |-> port, restarts |-> 0, pid |-> Len(process) + 1,
                       owned |-> TRUE, stopped |-> FALSE, seen |-> "running", exit |-> None]]
    /\ UNCHANGED <<project, foreign>>

\* status_by_key, and start of a place that has a session, whether the project is still
\* the same (the session is reused, with or without a child) or not (a conflict).
Observe(p) ==
    /\ p \in Retained
    /\ session' = [session EXCEPT ![p] = Refreshed(@)]
    /\ UNCHANGED <<project, process, foreign>>

ObserveAll ==
    /\ session' = [p \in Places |-> IF p \in Retained THEN Refreshed(session[p]) ELSE None]
    /\ UNCHANGED <<project, process, foreign>>

\* stop.  A child may end by itself before it is killed.
Stop(p) ==
    /\ p \in Retained
    /\ LET r == Refreshed(session[p])
       IN  \/ /\ r.owned
              /\ process' \in {Ended(r.pid, "killed"), Ended(r.pid, "died")}
              /\ session' = [session EXCEPT ![p] = [Halted(r, "stop") EXCEPT !.seen = "stopped"]]
           \/ /\ r.owned
              /\ process' = Lost(r.pid)
              /\ session' = [session EXCEPT ![p] = Abandoned(r)]
           \/ /\ ~r.owned
              /\ session' = [session EXCEPT ![p] = [r EXCEPT !.stopped = TRUE, !.seen = "stopped"]]
              /\ UNCHANGED process
    /\ UNCHANGED <<project, foreign>>

\* stop_all goes on when one of the stops fails.
StopAll ==
    LET now == [p \in Places |-> IF p \in Retained THEN Refreshed(session[p]) ELSE None]
        owning == {p \in Retained : now[p].owned}
    IN  \E failing \in SUBSET owning :
          /\ session' = [p \in Places |->
                CASE p \in failing -> Abandoned(now[p])
                  [] p \in owning \ failing -> [Halted(now[p], "stop") EXCEPT !.seen = "stopped"]
                  [] p \in Retained \ owning -> [now[p] EXCEPT !.stopped = TRUE, !.seen = "stopped"]
                  [] OTHER -> None]
          /\ process' = [i \in DOMAIN process |->
                CASE \E p \in failing : now[p].pid = i -> [process[i] EXCEPT !.fate = "lost"]
                  [] \E p \in owning \ failing : now[p].pid = i -> [fate |-> "killed"]
                  [] OTHER -> process[i]]
          /\ UNCHANGED <<project, foreign>>

\* Mutant: the new child is not noted as one that may end.
RespawnUnnoted(p, r, processes) ==
    /\ r.restarts < MaxRestarts /\ r.context = project /\ Len(processes) < MaxProcesses
    /\ process' = Append(processes, Child(p, r.port))
    /\ session' = [session EXCEPT ![p] =
                      [r EXCEPT !.restarts = @ + 1, !.pid = Len(processes) + 1, !.owned = TRUE,
                                !.stopped = FALSE]]

\* RojoSupervisor::restart and spawn_child, on the port the session has: refused when the
\* budget is used up, and failed, with one restart less, when the project has changed or
\* the process does not start.
Respawn(p, r, processes) ==
    \/ /\ r.restarts < MaxRestarts /\ r.context = project /\ Len(processes) < MaxProcesses
       /\ process' = Append(processes, Child(p, r.port))
       /\ session' = [session EXCEPT ![p] =
                         [r EXCEPT !.restarts = @ + 1, !.pid = Len(processes) + 1, !.owned = TRUE,
                                   !.stopped = FALSE, !.seen = "running"]]
    \/ /\ r.restarts < MaxRestarts
       /\ process' = processes
       /\ session' = [session EXCEPT ![p] = [r EXCEPT !.restarts = @ + 1]]
    \/ /\ r.restarts = MaxRestarts
       /\ process' = processes
       /\ session' = [session EXCEPT ![p] = r]

\* restart.  The child is stopped first, whatever comes of the rest.
Restart(p) ==
    /\ p \in Retained
    /\ LET r == Refreshed(session[p])
       IN  \/ /\ r.owned
              /\ \E fate \in {"killed", "died"} : Respawn(p, Halted(r, "restart"), Ended(r.pid, fate))
           \/ /\ r.owned
              /\ process' = Lost(r.pid)
              /\ session' = [session EXCEPT ![p] = Abandoned(r)]
           \/ ~r.owned /\ Respawn(p, r, process)
    /\ UNCHANGED <<project, foreign>>

\* Mutant: a session is removed with its child.
RemoveAnyway(p) ==
    /\ p \in Retained
    /\ session' = [session EXCEPT ![p] = None]
    /\ UNCHANGED <<project, process, foreign>>

\* remove_inactive
RemoveInactive(p) ==
    /\ p \in Retained
    /\ session' = [session EXCEPT ![p] = IF Refreshed(@).owned THEN Refreshed(@) ELSE None]
    /\ UNCHANGED <<project, process, foreign>>

\* The desktop ends and is started again: dropping the manager stops the children, a
\* crash or an exit without destructors leaves some of them running.
DesktopEnds ==
    \E killed \in SUBSET {i \in DOMAIN process : process[i].fate = "running"} :
      /\ session' = [p \in Places |-> None]
      /\ process' = [i \in DOMAIN process |->
            CASE i \in killed -> [fate |-> "killed"]
              [] i \notin killed /\ process[i].fate = "running" -> [process[i] EXCEPT !.fate = "lost"]
              [] OTHER -> process[i]]
      /\ UNCHANGED <<project, foreign>>

-----------------------------------------------------------------------------
(***************************************************************************)
(* The children and their surroundings                                     *)
(***************************************************************************)

\* A Rojo server takes its port.
Listen(pid) ==
    /\ Alive(pid) /\ ~process[pid].listening
    /\ ~Occupied(process[pid].port)
    /\ process' = [process EXCEPT ![pid].listening = TRUE]
    /\ UNCHANGED <<project, session, foreign>>

\* A Rojo server ends by itself, for one because its port is taken.
Exit(pid) ==
    /\ Alive(pid)
    /\ process' = Ended(pid, IF process[pid].fate = "running" THEN "died" ELSE "gone")
    /\ UNCHANGED <<project, session, foreign>>

TakePort(port) ==
    /\ ~Occupied(port)
    /\ foreign' = foreign \cup {port}
    /\ UNCHANGED <<project, session, process>>

FreePort(port) ==
    /\ port \in foreign
    /\ foreign' = foreign \ {port}
    /\ UNCHANGED <<project, session, process>>

Edit(content) ==
    /\ project' = content
    /\ UNCHANGED <<session, process, foreign>>

-----------------------------------------------------------------------------
Init ==
    /\ project \in Projects
    /\ session = [p \in Places |-> None]
    /\ process = <<>>
    /\ foreign \in SUBSET Ports

Next ==
    \/ \E p \in Places : \/ \E port \in Ports : Start(p, port)
                         \/ Observe(p) \/ Stop(p) \/ Restart(p) \/ RemoveInactive(p)
    \/ ObserveAll \/ StopAll \/ DesktopEnds
    \/ \E pid \in DOMAIN process : Listen(pid) \/ Exit(pid)
    \/ \E port \in Ports : TakePort(port) \/ FreePort(port)
    \/ \E content \in Projects : Edit(content)

Spec == Init /\ [][Next]_vars

-----------------------------------------------------------------------------
Live == [place: Places, project: Projects, port: Ports, listening: BOOLEAN,
         fate: {"running", "lost"}]
Processes == Live \cup [fate: {"died", "killed", "gone"}]

TypeOK ==
    /\ project \in Projects
    /\ session \in [Places -> Session \cup {None}]
    /\ process \in Seq(Processes)
    /\ foreign \in SUBSET Ports

\* A Rojo server that runs is the one child of the session of its place, on the session's
\* port and started from the project the session was made for, over every stop, restart
\* and removal; the exceptions are those a failed kill or the end of the desktop left
\* behind (git_rojo.rs:2086 "Single-owner Rojo child supervisor").
OneServerPerPlace ==
    \A pid \in DOMAIN process :
        process[pid].fate = "running" =>
            LET child == process[pid]
                r == session[child.place]
            IN  /\ r # None /\ r.owned /\ r.pid = pid
                /\ child.port = r.port /\ child.project = r.context

\* Two sessions never have one port, although a session keeps its port while it has no
\* child and nobody listens there (git_rojo.rs:2723).
PortsDistinct ==
    \A p, q \in Retained : p # q => session[p].port # session[q].port

\* A child that ended by itself is reported as such, also after restarts, and a child the
\* manager stopped never is: what the session says of the last exit is about the last child
\* that ended (git_rojo.rs:2416).  A process lost by a failed kill counts as ended.
ExitsToldApart ==
    \A p \in Retained :
        LET r == session[p]
        IN  /\ r.seen = "exited" => r.exit = [kind |-> "unexpected", pid |-> r.pid]
            /\ r.exit # None =>
                 /\ r.exit.kind = "unexpected" => process[r.exit.pid].fate \in {"died", "lost", "gone"}
                 /\ r.exit.kind # "unexpected" => process[r.exit.pid].fate \in {"killed", "died"}
                 /\ ~r.owned /\ r.stopped => r.exit.pid = r.pid
=============================================================================
