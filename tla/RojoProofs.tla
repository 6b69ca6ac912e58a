----------------------------- MODULE RojoProofs -----------------------------
(***************************************************************************)
(* Rojo's servers and what they may control.  For any places, ports and    *)
(* budgets: one server per place, one port per session, and exits that are *)
(* told apart; the inductive invariant says of every session what its      *)
(* record means for the processes (Meaning).  For every manifest and all   *)
(* project files: what the preflight accepts controls only what git-code   *)
(* owns, wherever Rojo puts the projects that are included.                *)
(***************************************************************************)
EXTENDS RojoSessions, Ownership, SequenceTheorems, WellFoundedInduction, TLAPS

-----------------------------------------------------------------------------
(***************************************************************************)
(* The servers                                                             *)
(***************************************************************************)

Report(pid) == [kind |-> "unexpected", pid |-> pid]

\* What the record r of place p means when procs are the processes.
Meaning(p, r, procs) ==
    /\ r.pid \in DOMAIN procs
    /\ r.owned => /\ procs[r.pid].fate \in {"running", "died"}
                  /\ r.seen = "running" /\ ~r.stopped
                  /\ procs[r.pid].fate = "running" =>
                        /\ procs[r.pid].place = p
                        /\ procs[r.pid].port = r.port
                        /\ procs[r.pid].project = r.context
    /\ ~r.owned /\ ~r.stopped => \/ r.seen = "exited"
                                 \/ r.seen = "running" /\ procs[r.pid].fate \in {"lost", "gone"}
    /\ r.seen = "exited" => r.exit = Report(r.pid)
    /\ r.stopped => r.exit # None /\ r.exit.pid = r.pid
    /\ r.exit # None =>
         /\ r.exit.pid \in DOMAIN procs
         /\ r.exit.kind = "unexpected" => procs[r.exit.pid].fate \in {"died", "lost", "gone"}
         /\ r.exit.kind # "unexpected" => procs[r.exit.pid].fate \in {"killed", "died"}

\* What may happen to a process in one step.
Evolves(old, new) ==
    \/ new = old
    \/ /\ old.fate = "running" /\ new.fate = "running"
       /\ new.place = old.place /\ new.port = old.port /\ new.project = old.project
    \/ old.fate = "lost" /\ new.fate \in {"lost", "gone"}
    \/ old.fate = "running" /\ new.fate \in {"died", "killed", "lost"}

\* The processes after a step.
Follows(new) ==
    /\ new \in Seq(Processes)
    /\ DOMAIN process \subseteq DOMAIN new
    /\ \A i \in DOMAIN process : Evolves(process[i], new[i])

\* No child is killed or lost.
Unharmed(new) ==
    /\ DOMAIN new = DOMAIN process
    /\ \A i \in DOMAIN process :
          process[i].fate \in {"running", "died"} => new[i].fate \in {"running", "died"}

\* The other sessions have other ports than r and keep their children,
Apart(p, r, new) ==
    \A q \in Retained \ {p} :
        /\ session[q].port # r.port
        /\ session[q].owned => new[session[q].pid].fate \in {"running", "died"}

\* and every process that runs is the child of one of them or of r.
Accounted(p, r, new) ==
    \A pid \in DOMAIN new : new[pid].fate = "running" =>
        \/ \E q \in Retained \ {p} : session[q].owned /\ session[q].pid = pid
        \/ r.owned /\ r.pid = pid

\* Whatever runs with an owner is the child of some session.
Owned(pid) == \E p \in Retained : session[p].owned /\ session[p].pid = pid

RInv ==
    /\ TypeOK
    /\ \A p \in Retained : Meaning(p, session[p], process)
    /\ \A pid \in DOMAIN process : process[pid].fate = "running" => Owned(pid)
    /\ PortsDistinct

\* A session that is not touched keeps its meaning when the processes go on, unless somebody
\* else ends its child or takes it away.
LEMMA MeaningKept ==
    ASSUME NEW p, NEW r \in Session, NEW old \in Seq(Processes), NEW new \in Seq(Processes),
           Meaning(p, r, old), DOMAIN old \subseteq DOMAIN new,
           \A i \in DOMAIN old : Evolves(old[i], new[i]),
           r.owned => new[r.pid].fate \in {"running", "died"}
    PROVE  Meaning(p, r, new)
<1>1. r.pid \in DOMAIN old /\ Evolves(old[r.pid], new[r.pid])
  BY DEF Meaning
<1>2. r.owned => /\ new[r.pid].fate \in {"running", "died"}
                 /\ new[r.pid].fate = "running" => /\ new[r.pid].place = p
                                                   /\ new[r.pid].port = r.port
                                                   /\ new[r.pid].project = r.context
  BY <1>1 DEF Meaning, Evolves
<1>3. old[r.pid].fate \in {"lost", "gone"} => new[r.pid].fate \in {"lost", "gone"}
  BY <1>1 DEF Evolves
<1>4. r.exit # None =>
         /\ r.exit.pid \in DOMAIN new
         /\ r.exit.kind = "unexpected" => new[r.exit.pid].fate \in {"died", "lost", "gone"}
         /\ r.exit.kind # "unexpected" => new[r.exit.pid].fate \in {"killed", "died"}
  BY DEF Meaning, Evolves
<1> QED
  BY <1>1, <1>2, <1>3, <1>4 DEF Meaning

\* Looking at a session keeps its record in shape and its meaning; what is owned
\* afterwards is a running child.
LEMMA RefreshedMeans ==
    ASSUME NEW p, NEW r \in Session, Meaning(p, r, process)
    PROVE  /\ Refreshed(r) \in Session
           /\ Meaning(p, Refreshed(r), process)
           /\ Refreshed(r).pid = r.pid /\ Refreshed(r).port = r.port
           /\ Refreshed(r).owned <=> r.owned /\ process[r.pid].fate = "running"
           /\ ~Refreshed(r).owned /\ ~Refreshed(r).stopped => Refreshed(r).seen = "exited"
<1>1. CASE r.owned /\ process[r.pid].fate = "running"
  BY <1>1 DEF Refreshed, State, Meaning, Session, Report
<1>2. CASE ~r.owned /\ r.stopped
  BY <1>2 DEF Refreshed, State, Meaning, Session, Report
<1>3. CASE ~(r.owned /\ process[r.pid].fate = "running") /\ ~(~r.owned /\ r.stopped)
  <2>1. State(r) = "exited"
    BY <1>3 DEF State
  <2>2. r.pid \in Nat
    BY DEF Session
  <2>3. CASE r.seen = "running"
    <3>1. Refreshed(r) = [r EXCEPT !.owned = FALSE, !.seen = "exited", !.exit = Report(r.pid)]
      BY <2>1, <2>3 DEF Refreshed, Report
    <3>2. Report(r.pid) \in Exits /\ Report(r.pid) # None
      BY <2>2, RojoAssumption DEF Report, Exits
    <3>3. process[r.pid].fate \in {"died", "lost", "gone"}
      BY <1>3, <2>3 DEF Meaning
    <3>4. r.pid \in DOMAIN process /\ ~r.stopped
      BY <1>3, <2>3 DEF Meaning
    <3>5. Refreshed(r) \in Session
      BY <3>1, <3>2 DEF Session
    <3>6. /\ Refreshed(r).pid = r.pid /\ Refreshed(r).port = r.port
          /\ Refreshed(r).owned = FALSE /\ Refreshed(r).seen = "exited"
          /\ Refreshed(r).exit = Report(r.pid) /\ Refreshed(r).stopped = r.stopped
      BY <3>1 DEF Session
    <3>7. Report(r.pid).pid = r.pid /\ Report(r.pid).kind = "unexpected"
      BY DEF Report
    <3>8. Meaning(p, Refreshed(r), process)
      BY <3>2, <3>3, <3>4, <3>6, <3>7 DEF Meaning
    <3> QED
      BY <1>3, <3>4, <3>5, <3>6, <3>8
  <2>4. CASE r.seen # "running"
    <3>1. Refreshed(r) = [r EXCEPT !.owned = FALSE, !.seen = "exited"]
      BY <2>1, <2>4 DEF Refreshed, Session
    <3>2. ~r.owned /\ ~r.stopped /\ r.seen = "exited"
      BY <1>3, <2>4 DEF Meaning
    <3> QED
      BY <3>1, <3>2, <1>3 DEF Meaning, Session
  <2> QED
    BY <2>3, <2>4
<1> QED
  BY <1>1, <1>2, <1>3

\* A running child has one session.
LEMMA OneOwner ==
    ASSUME RInv, NEW p \in Retained, NEW q \in Retained, session[p].owned, session[q].owned,
           session[p].pid = session[q].pid, process[session[p].pid].fate = "running"
    PROVE  p = q
BY DEF RInv, Meaning

\* An operation on one session that leaves the others and their children alone.
LEMMA OneSessionStep ==
    ASSUME RInv, NEW p \in Places, NEW r \in Session,
           project' = project, foreign' = foreign, session' = [session EXCEPT ![p] = r],
           Follows(process'), Meaning(p, r, process'),
           Apart(p, r, process'), Accounted(p, r, process')
    PROVE  RInv'
<1>1. TypeOK /\ session \in [Places -> Session \cup {None}] /\ process \in Seq(Processes)
  BY DEF RInv, TypeOK
<1>2. r # None
  BY RojoAssumption
<1>3. TypeOK'
  BY <1>1 DEF TypeOK, Follows
<1>4. /\ Retained' = Retained \cup {p} /\ session'[p] = r
      /\ \A q \in Retained \ {p} : session'[q] = session[q]
  BY <1>1, <1>2 DEF Retained
<1>5. ASSUME NEW q \in Retained'
      PROVE  Meaning(q, session'[q], process')
  <2>1. CASE q = p
    BY <1>4, <2>1
  <2>2. CASE q # p
    <3>1. q \in Retained \ {p} /\ session'[q] = session[q] /\ session[q] \in Session
      BY <1>1, <1>4, <1>5, <2>2 DEF Retained
    <3>2. Meaning(q, session[q], process)
      BY <3>1 DEF RInv
    <3> QED
      BY <1>1, <3>1, <3>2, MeaningKept DEF Follows, Apart
  <2> QED
    BY <2>1, <2>2
<1>6. \A pid \in DOMAIN process' : process'[pid].fate = "running" => Owned(pid)'
  BY <1>4 DEF Owned, Accounted
<1>7. PortsDistinct'
  BY <1>4 DEF PortsDistinct, RInv, Apart
<1> QED
  BY <1>3, <1>5, <1>6, <1>7 DEF RInv

\* A step of a process or of another program, which touches no session.
LEMMA NoSessionStep ==
    ASSUME RInv, project' \in Projects, foreign' \in SUBSET Ports, session' = session,
           Follows(process'), Unharmed(process')
    PROVE  RInv'
<1>1. session \in [Places -> Session \cup {None}] /\ process \in Seq(Processes) /\ TypeOK'
  BY DEF RInv, TypeOK, Follows
<1>2. Retained' = Retained
  BY DEF Retained
<1>3. ASSUME NEW q \in Retained'
      PROVE  Meaning(q, session'[q], process')
  <2>1. Meaning(q, session[q], process) /\ session[q] \in Session
    BY <1>1, <1>2, <1>3 DEF RInv, Retained
  <2>2. session[q].owned => process'[session[q].pid].fate \in {"running", "died"}
    BY <2>1 DEF Meaning, Unharmed
  <2> QED
    BY <1>1, <2>1, <2>2, MeaningKept DEF Follows
<1>4. ASSUME NEW pid \in DOMAIN process', process'[pid].fate = "running"
      PROVE  Owned(pid)'
  <2>1. pid \in DOMAIN process /\ process[pid].fate = "running"
    BY <1>4 DEF Evolves, Follows, Unharmed
  <2> QED
    BY <1>2, <2>1 DEF RInv, Owned
<1>5. PortsDistinct'
  BY <1>2 DEF PortsDistinct, RInv
<1> QED
  BY <1>1, <1>3, <1>4, <1>5 DEF RInv

\* The end of a running child, or its loss, and what it leaves alone.
LEMMA ChildEnds ==
    ASSUME RInv, NEW pid \in DOMAIN process, process[pid].fate = "running",
           NEW new \in {Ended(pid, "killed"), Ended(pid, "died"), Lost(pid)}
    PROVE  /\ new \in Seq(Processes) /\ DOMAIN new = DOMAIN process
           /\ \A i \in DOMAIN process : Evolves(process[i], new[i])
           /\ \A i \in DOMAIN process \ {pid} : new[i] = process[i]
           /\ new = Ended(pid, "killed") => new[pid].fate = "killed"
           /\ new = Ended(pid, "died") => new[pid].fate = "died"
           /\ new = Lost(pid) => new[pid].fate = "lost"
           /\ new[pid].fate # "running"
<1>1. process \in Seq(Processes) /\ pid \in 1 .. Len(process) /\ process[pid] \in Live
  BY DEF RInv, TypeOK, Processes, Live
<1>2. DEFINE killed == [fate |-> "killed"]
             died == [fate |-> "died"]
             lost == [process[pid] EXCEPT !.fate = "lost"]
<1>3. /\ killed \in Processes /\ killed.fate = "killed"
      /\ died \in Processes /\ died.fate = "died"
      /\ lost \in Processes /\ lost.fate = "lost"
  BY <1>1 DEF Processes, Live
<1>4. PICK x \in {killed, died, lost} : new = [process EXCEPT ![pid] = x]
  BY DEF Ended, Lost
<1>5. x \in Processes /\ x.fate \in {"killed", "died", "lost"}
  BY <1>3, <1>4
<1>6. new \in Seq(Processes) /\ Len(new) = Len(process)
  BY <1>1, <1>4, <1>5, ExceptSeq
<1>7. DOMAIN new = DOMAIN process
  BY <1>4
<1>8. new[pid] = x /\ \A i \in DOMAIN process \ {pid} : new[i] = process[i]
  BY <1>4
<1>9. /\ new = Ended(pid, "killed") => new[pid] = killed
      /\ new = Ended(pid, "died") => new[pid] = died
      /\ new = Lost(pid) => new[pid] = lost
  BY DEF Ended, Lost
<1>10. \A i \in DOMAIN process : Evolves(process[i], new[i])
  BY <1>5, <1>8 DEF Evolves
<1> HIDE DEF killed, died, lost
<1> QED
  BY <1>3, <1>5, <1>6, <1>7, <1>8, <1>9, <1>10

\* What an operation knows of a session it has looked at: nobody else has its child or its
\* port, and every other running child has another session.
LEMMA Looked ==
    ASSUME RInv, NEW p \in Retained, NEW r, r = Refreshed(session[p])
    PROVE  /\ r \in Session /\ Meaning(p, r, process)
           /\ r.owned => process[r.pid].fate = "running"
           /\ ~r.owned /\ ~r.stopped => r.seen = "exited"
           /\ Follows(process) /\ Apart(p, r, process) /\ Accounted(p, r, process)
           /\ \A q \in Retained \ {p} : session[q].owned /\ r.owned => session[q].pid # r.pid
<1>1. session[p] \in Session /\ Meaning(p, session[p], process)
  BY DEF RInv, TypeOK, Retained
<1>2. /\ r \in Session
      /\ Meaning(p, r, process)
      /\ r.pid = session[p].pid /\ r.port = session[p].port
      /\ r.owned <=> session[p].owned /\ process[session[p].pid].fate = "running"
      /\ ~r.owned /\ ~r.stopped => r.seen = "exited"
  BY <1>1, RefreshedMeans
<1>3. ASSUME NEW q \in Retained \ {p}
      PROVE  /\ session[q].port # r.port
             /\ session[q].owned => process[session[q].pid].fate \in {"running", "died"}
             /\ session[q].owned /\ r.owned => session[q].pid # r.pid
  <2>1. session[q].port # r.port
    BY <1>2 DEF RInv, PortsDistinct
  <2>2. Meaning(q, session[q], process)
    BY DEF RInv
  <2>3. session[q].owned /\ r.owned => session[q].pid # r.pid
    BY <1>2, OneOwner
  <2> QED
    BY <2>1, <2>2, <2>3 DEF Meaning
<1>4. Apart(p, r, process)
  BY <1>3 DEF Apart
<1>5. Accounted(p, r, process)
  BY <1>2 DEF RInv, Owned, Accounted
<1>6. Follows(process)
  BY DEF RInv, TypeOK, Follows, Evolves
<1> QED
  BY <1>2, <1>3, <1>4, <1>5, <1>6

\* A session whose child was stopped, and one whose child was lost.
LEMMA HaltedMeans ==
    ASSUME NEW p, NEW r \in Session, NEW procs, NEW kind \in {"stop", "restart"},
           r.pid \in DOMAIN procs, procs[r.pid].fate \in {"killed", "died"}, r.seen = "running",
           NEW s \in {Halted(r, kind), [Halted(r, kind) EXCEPT !.seen = "stopped"]}
    PROVE  s \in Session /\ Meaning(p, s, procs) /\ ~s.owned /\ s.port = r.port
<1> DEFINE e == [kind |-> kind, pid |-> r.pid]
<1>1. e \in Exits /\ e # None /\ e.kind = kind /\ e.pid = r.pid
  BY RojoAssumption DEF Exits, Session
<1>2. /\ Halted(r, kind) = [r EXCEPT !.owned = FALSE, !.stopped = TRUE, !.exit = e]
  BY DEF Halted
<1> HIDE DEF e
<1>3. DEFINE h == [r EXCEPT !.owned = FALSE, !.stopped = TRUE, !.exit = e]
<1>4. /\ h \in Session /\ ~h.owned /\ h.stopped /\ h.exit = e
      /\ h.pid = r.pid /\ h.port = r.port /\ h.seen = "running"
  BY <1>1 DEF Session
<1>5. h = Halted(r, kind)
  BY <1>2
<1> HIDE DEF h
<1>6. DEFINE t == [h EXCEPT !.seen = "stopped"]
<1>7. /\ t \in Session /\ ~t.owned /\ t.stopped /\ t.exit = e
      /\ t.pid = r.pid /\ t.port = r.port /\ t.seen = "stopped"
  BY <1>4 DEF Session
<1>8. s \in {h, t}
  BY <1>5
<1> HIDE DEF t
<1>9. /\ s \in Session /\ ~s.owned /\ s.stopped /\ s.exit = e
      /\ s.pid = r.pid /\ s.port = r.port /\ s.seen \in {"running", "stopped"}
  BY <1>4, <1>7, <1>8
<1>10. e.kind # "unexpected"
  BY <1>1
<1> QED
  BY <1>1, <1>9, <1>10 DEF Meaning

\* The ports and children of the sessions are distinct after losses, as before.
LEMMA AbandonedMeans ==
    ASSUME NEW p, NEW r \in Session, r.owned, Meaning(p, r, process),
           NEW new, new[r.pid].fate = "lost", Follows(new)
    PROVE  /\ Abandoned(r) \in Session /\ Meaning(p, Abandoned(r), new)
           /\ ~Abandoned(r).owned /\ Abandoned(r).port = r.port /\ Abandoned(r).pid = r.pid
<1>1. /\ Abandoned(r) \in Session /\ ~Abandoned(r).owned
      /\ Abandoned(r).port = r.port /\ Abandoned(r).pid = r.pid
      /\ Abandoned(r).stopped = r.stopped /\ Abandoned(r).seen = r.seen
      /\ Abandoned(r).exit = r.exit
  BY DEF Abandoned, Session
<1>2. r.exit # None =>
         /\ r.exit.pid \in DOMAIN new
         /\ r.exit.kind = "unexpected" => new[r.exit.pid].fate \in {"died", "lost", "gone"}
         /\ r.exit.kind # "unexpected" => new[r.exit.pid].fate \in {"killed", "died"}
  BY DEF Meaning, Evolves, Follows
<1> QED
  BY <1>1, <1>2 DEF Meaning, Follows

\* A session without a child that is told to stop.
LEMMA IdleStopped ==
    ASSUME NEW p, NEW r \in Session, ~r.owned, ~r.stopped => r.seen = "exited",
           Meaning(p, r, process), NEW s, s = [r EXCEPT !.stopped = TRUE, !.seen = "stopped"]
    PROVE  s \in Session /\ Meaning(p, s, process) /\ ~s.owned /\ s.port = r.port
<1>1. /\ s \in Session /\ ~s.owned /\ s.stopped /\ s.seen = "stopped" /\ s.exit = r.exit
      /\ s.port = r.port /\ s.pid = r.pid
  BY DEF Session
<1>2. r.exit # None /\ r.exit.pid = r.pid
  <2>1. r.stopped \/ r.exit = Report(r.pid)
    BY DEF Meaning
  <2>2. Report(r.pid) # None /\ Report(r.pid).pid = r.pid
    BY RojoAssumption DEF Report, Exits, Session
  <2> QED
    BY <2>1, <2>2 DEF Meaning
<1> QED
  BY <1>1, <1>2 DEF Meaning

\* The processes with a new child.
LEMMA ChildAdded ==
    ASSUME RInv, NEW procs \in Seq(Processes), NEW p \in Places, NEW port \in Ports,
           NEW pid, pid = Len(procs) + 1, process' = Append(procs, Child(p, port))
    PROVE  /\ process' \in Seq(Processes) /\ pid \in Nat /\ pid \notin DOMAIN procs
           /\ DOMAIN process' = DOMAIN procs \cup {pid}
           /\ \A i \in DOMAIN procs : process'[i] = procs[i]
           /\ process'[pid].fate = "running" /\ process'[pid].place = p
           /\ process'[pid].port = port /\ process'[pid].project = project
<1>1. Child(p, port) \in Processes
  BY DEF Child, Processes, Live, RInv, TypeOK
<1>2. Len(procs) \in Nat /\ DOMAIN procs = 1 .. Len(procs)
  OBVIOUS
<1>3. /\ process' \in Seq(Processes) /\ Len(process') = Len(procs) + 1
      /\ \A i \in 1 .. Len(procs) : process'[i] = procs[i]
      /\ process'[Len(procs) + 1] = Child(p, port)
  BY <1>1, AppendProperties
<1>4. DOMAIN process' = 1 .. Len(procs) + 1
  BY <1>3
<1>5. /\ Child(p, port).fate = "running" /\ Child(p, port).place = p
      /\ Child(p, port).port = port /\ Child(p, port).project = project
  BY DEF Child
<1> QED
  BY <1>2, <1>3, <1>4, <1>5

\* Looking at a session keeps the invariant.
LEMMA ObserveStep ==
    ASSUME RInv, NEW p \in Places, Observe(p)
    PROVE  RInv'
<1> DEFINE r == Refreshed(session[p])
<1>1. p \in Retained /\ session' = [session EXCEPT ![p] = r]
      /\ project' = project /\ process' = process /\ foreign' = foreign
  BY DEF Observe
<1>2. /\ r \in Session /\ Meaning(p, r, process)
      /\ Follows(process) /\ Apart(p, r, process) /\ Accounted(p, r, process)
  BY <1>1, Looked
<1> HIDE DEF r
<1>3. /\ Meaning(p, r, process') /\ Follows(process')
      /\ Apart(p, r, process') /\ Accounted(p, r, process')
  BY <1>1, <1>2
<1> QED
  BY <1>1, <1>2, <1>3, OneSessionStep

\* Starting a place keeps the invariant.
LEMMA StartStep ==
    ASSUME RInv, NEW p \in Places, NEW port \in Ports, Start(p, port)
    PROVE  RInv'
<1> DEFINE pid == Len(process) + 1
           r == [context |-> project, port |-> port, restarts |-> 0, pid |-> pid, owned |-> TRUE,
                 stopped |-> FALSE, seen |-> "running", exit |-> None]
<1>1. /\ p \notin Retained /\ port \notin Reserved
      /\ process' = Append(process, Child(p, port)) /\ session' = [session EXCEPT ![p] = r]
      /\ project' = project /\ foreign' = foreign
  BY DEF Start
<1>2. project \in Projects /\ process \in Seq(Processes)
  BY DEF RInv, TypeOK
<1>3. /\ process' \in Seq(Processes) /\ pid \in Nat /\ pid \notin DOMAIN process
      /\ DOMAIN process' = DOMAIN process \cup {pid}
      /\ \A i \in DOMAIN process : process'[i] = process[i]
      /\ process'[pid].fate = "running" /\ process'[pid].place = p
      /\ process'[pid].port = port /\ process'[pid].project = project
  <2>1. pid = Len(process) + 1
    OBVIOUS
  <2>2. process' = Append(process, Child(p, port))
    BY <1>1
  <2> HIDE DEF pid, r
  <2> QED
    BY <1>2, <2>1, <2>2, ChildAdded
<1> HIDE DEF pid
<1>4. /\ r \in Session /\ r.owned /\ ~r.stopped /\ r.seen = "running" /\ r.exit = None
      /\ r.pid = pid /\ r.port = port /\ r.context = project
  BY <1>2, <1>3 DEF Session
<1> HIDE DEF r
<1>5. Meaning(p, r, process')
  BY <1>3, <1>4 DEF Meaning
<1>6. Apart(p, r, process')
  BY <1>1, <1>3, <1>4 DEF Apart, Reserved, RInv, Meaning
<1>7. Accounted(p, r, process')
  BY <1>1, <1>3, <1>4 DEF Accounted, RInv, Owned
<1>8. Follows(process')
  BY <1>3 DEF Follows, Evolves
<1> QED
  BY <1>1, <1>4, <1>5, <1>6, <1>7, <1>8, OneSessionStep

\* What the stop or the loss of a session's child leaves to the others.
LEMMA ChildlessStep ==
    ASSUME RInv, NEW p \in Retained, NEW r, r = Refreshed(session[p]), r.owned,
           NEW new \in {Ended(r.pid, "killed"), Ended(r.pid, "died"), Lost(r.pid)},
           NEW s, ~s.owned, s.port = r.port
    PROVE  DOMAIN new = DOMAIN process /\ Follows(new) /\ Apart(p, s, new) /\ Accounted(p, s, new)
<1>1. /\ r.pid \in DOMAIN process /\ process[r.pid].fate = "running"
      /\ Apart(p, r, process) /\ Accounted(p, r, process)
      /\ \A q \in Retained \ {p} : session[q].owned => session[q].pid # r.pid
  BY Looked DEF Meaning
<1>2. /\ new \in Seq(Processes) /\ DOMAIN new = DOMAIN process
      /\ \A i \in DOMAIN process : Evolves(process[i], new[i])
      /\ \A i \in DOMAIN process \ {r.pid} : new[i] = process[i]
      /\ new[r.pid].fate # "running"
  BY <1>1, ChildEnds
<1>3. \A q \in Retained \ {p} : session[q].owned => session[q].pid \in DOMAIN process
  BY DEF RInv, Meaning
<1>4. Apart(p, s, new)
  BY <1>1, <1>2, <1>3 DEF Apart
<1>5. Accounted(p, s, new)
  BY <1>1, <1>2 DEF Accounted
<1> QED
  BY <1>2, <1>4, <1>5 DEF Follows

\* A kill that fails leaves a child nobody owns, which the invariant excepts.
LEMMA LossStep ==
    ASSUME RInv, NEW p \in Retained, NEW r, r = Refreshed(session[p]), r.owned,
           project' = project, foreign' = foreign,
           process' = Lost(r.pid), session' = [session EXCEPT ![p] = Abandoned(r)]
    PROVE  RInv'
<1>1. r \in Session /\ Meaning(p, r, process) /\ p \in Places
  BY Looked DEF Retained
<1>2. process'[r.pid].fate = "lost" /\ Follows(process')
  BY <1>1, Looked, ChildEnds DEF Meaning, Follows
<1>3. /\ Abandoned(r) \in Session /\ Meaning(p, Abandoned(r), process')
      /\ ~Abandoned(r).owned /\ Abandoned(r).port = r.port
  BY <1>1, <1>2, AbandonedMeans
<1>4. Apart(p, Abandoned(r), process') /\ Accounted(p, Abandoned(r), process')
  BY <1>3, ChildlessStep
<1> QED
  BY <1>1, <1>2, <1>3, <1>4, OneSessionStep

\* Stopping a session keeps the invariant.
LEMMA StopStep ==
    ASSUME RInv, NEW p \in Places, Stop(p)
    PROVE  RInv'
<1> DEFINE r == Refreshed(session[p])
<1>1. p \in Retained /\ project' = project /\ foreign' = foreign
  BY DEF Stop
<1>2. r = Refreshed(session[p])
  OBVIOUS
<1>3. \/ /\ r.owned
         /\ process' \in {Ended(r.pid, "killed"), Ended(r.pid, "died")}
         /\ session' = [session EXCEPT ![p] = [Halted(r, "stop") EXCEPT !.seen = "stopped"]]
      \/ /\ r.owned
         /\ process' = Lost(r.pid)
         /\ session' = [session EXCEPT ![p] = Abandoned(r)]
      \/ /\ ~r.owned
         /\ session' = [session EXCEPT ![p] = [r EXCEPT !.stopped = TRUE, !.seen = "stopped"]]
         /\ process' = process
  BY DEF Stop
<1> HIDE DEF r
<1>4. r \in Session /\ Meaning(p, r, process) /\ process \in Seq(Processes)
  BY <1>1, <1>2, Looked DEF RInv, TypeOK
<1>5. CASE /\ r.owned
           /\ process' \in {Ended(r.pid, "killed"), Ended(r.pid, "died")}
           /\ session' = [session EXCEPT ![p] = [Halted(r, "stop") EXCEPT !.seen = "stopped"]]
  <2> DEFINE s == [Halted(r, "stop") EXCEPT !.seen = "stopped"]
  <2>1. r.pid \in DOMAIN process' /\ process'[r.pid].fate \in {"killed", "died"} /\ r.seen = "running"
    BY <1>1, <1>2, <1>4, <1>5, Looked, ChildEnds DEF Meaning
  <2>2. s \in Session /\ Meaning(p, s, process') /\ ~s.owned /\ s.port = r.port
    BY <1>4, <2>1, HaltedMeans
  <2>3. session' = [session EXCEPT ![p] = s]
    BY <1>5
  <2> HIDE DEF s
  <2>4. Follows(process') /\ Apart(p, s, process') /\ Accounted(p, s, process')
    BY <1>1, <1>2, <1>5, <2>2, ChildlessStep
  <2> QED
    BY <1>1, <2>2, <2>3, <2>4, OneSessionStep
<1>6. CASE /\ r.owned
           /\ process' = Lost(r.pid)
           /\ session' = [session EXCEPT ![p] = Abandoned(r)]
  BY <1>1, <1>2, <1>6, LossStep
<1>7. CASE /\ ~r.owned
           /\ session' = [session EXCEPT ![p] = [r EXCEPT !.stopped = TRUE, !.seen = "stopped"]]
           /\ process' = process
  <2> DEFINE s == [r EXCEPT !.stopped = TRUE, !.seen = "stopped"]
  <2>1. s = [r EXCEPT !.stopped = TRUE, !.seen = "stopped"]
    OBVIOUS
  <2>2. session' = [session EXCEPT ![p] = s]
    BY <1>7
  <2> HIDE DEF s
  <2>3. ~r.stopped => r.seen = "exited"
    BY <1>1, <1>2, <1>7, Looked
  <2>4. s \in Session /\ Meaning(p, s, process) /\ ~s.owned /\ s.port = r.port
    BY <1>4, <1>7, <2>1, <2>3, IdleStopped
  <2>5. Follows(process) /\ Apart(p, r, process) /\ Accounted(p, r, process)
    BY <1>1, <1>2, Looked
  <2>6. /\ Follows(process') /\ Meaning(p, s, process')
        /\ Apart(p, s, process') /\ Accounted(p, s, process')
    BY <1>7, <2>4, <2>5 DEF Apart, Accounted
  <2> QED
    BY <1>1, <2>2, <2>4, <2>6, OneSessionStep
<1> QED
  BY <1>3, <1>5, <1>6, <1>7

\* A session without a child gets a new one or none, after its last child was given up.
LEMMA RespawnStep ==
    ASSUME RInv, NEW p \in Retained, NEW r \in Session, ~r.owned,
           NEW procs, DOMAIN procs = DOMAIN process, Follows(procs), Meaning(p, r, procs),
           Apart(p, r, procs), Accounted(p, r, procs),
           Respawn(p, r, procs), project' = project, foreign' = foreign
    PROVE  RInv'
<1>1. p \in Places /\ procs \in Seq(Processes) /\ project \in Projects
  BY DEF RInv, TypeOK, Retained, Follows
<1>2. CASE /\ r.restarts < MaxRestarts /\ r.context = project /\ Len(procs) < MaxProcesses
           /\ process' = Append(procs, Child(p, r.port))
           /\ session' = [session EXCEPT ![p] =
                             [r EXCEPT !.restarts = @ + 1, !.pid = Len(procs) + 1, !.owned = TRUE,
                                       !.stopped = FALSE, !.seen = "running"]]
  <2> DEFINE pid == Len(procs) + 1
             s == [r EXCEPT !.restarts = @ + 1, !.pid = pid, !.owned = TRUE,
                            !.stopped = FALSE, !.seen = "running"]
  <2>1. pid = Len(procs) + 1 /\ r.port \in Ports
    BY DEF Session
  <2>2. session' = [session EXCEPT ![p] = s] /\ process' = Append(procs, Child(p, r.port))
    BY <1>2
  <2> HIDE DEF pid, s
  <2>3. /\ process' \in Seq(Processes) /\ pid \in Nat /\ pid \notin DOMAIN procs
        /\ DOMAIN process' = DOMAIN procs \cup {pid}
        /\ \A i \in DOMAIN procs : process'[i] = procs[i]
        /\ process'[pid].fate = "running" /\ process'[pid].place = p
        /\ process'[pid].port = r.port /\ process'[pid].project = project
    BY <1>1, <2>1, <2>2, ChildAdded
  <2>4. r.context = project /\ r.restarts + 1 \in Nat
    BY <1>2 DEF Session
  <2>5. /\ s \in Session /\ s.owned /\ ~s.stopped /\ s.seen = "running" /\ s.exit = r.exit
        /\ s.pid = pid /\ s.port = r.port /\ s.context = project
    BY <2>3, <2>4 DEF s, Session
  <2>6. Meaning(p, s, process')
    BY <2>3, <2>5 DEF Meaning
  <2>7. \A q \in Retained : session[q].owned => session[q].pid \in DOMAIN procs
    BY DEF RInv, Meaning
  <2>8. Apart(p, s, process')
    BY <2>3, <2>5, <2>7 DEF Apart
  <2>9. Accounted(p, s, process')
    BY <2>3, <2>5 DEF Accounted
  <2>10. Follows(process')
    BY <2>3 DEF Follows
  <2> QED
    BY <1>1, <2>2, <2>5, <2>6, <2>8, <2>9, <2>10, OneSessionStep
<1>3. CASE /\ process' = procs
           /\ session' = [session EXCEPT ![p] = [r EXCEPT !.restarts = @ + 1]]
  <2> DEFINE s == [r EXCEPT !.restarts = @ + 1]
  <2>1. /\ s \in Session /\ ~s.owned /\ s.stopped = r.stopped /\ s.seen = r.seen
        /\ s.exit = r.exit /\ s.pid = r.pid /\ s.port = r.port
    BY DEF Session
  <2>2. session' = [session EXCEPT ![p] = s]
    BY <1>3
  <2> HIDE DEF s
  <2>3. Meaning(p, s, procs)
    BY <2>1 DEF Meaning
  <2>4. Apart(p, s, procs) /\ Accounted(p, s, procs)
    BY <2>1 DEF Apart, Accounted
  <2> QED
    BY <1>1, <1>3, <2>1, <2>2, <2>3, <2>4, OneSessionStep
<1>4. CASE process' = procs /\ session' = [session EXCEPT ![p] = r]
  BY <1>1, <1>4, OneSessionStep
<1> QED
  BY <1>2, <1>3, <1>4 DEF Respawn

\* A restart keeps the invariant, also when it is refused after the stop.
LEMMA RestartStep ==
    ASSUME RInv, NEW p \in Places, Restart(p)
    PROVE  RInv'
<1> DEFINE r == Refreshed(session[p])
<1>1. p \in Retained /\ project' = project /\ foreign' = foreign
  BY DEF Restart
<1>2. r = Refreshed(session[p])
  OBVIOUS
<1>3. \/ /\ r.owned
         /\ \E fate \in {"killed", "died"} : Respawn(p, Halted(r, "restart"), Ended(r.pid, fate))
      \/ /\ r.owned
         /\ process' = Lost(r.pid)
         /\ session' = [session EXCEPT ![p] = Abandoned(r)]
      \/ ~r.owned /\ Respawn(p, r, process)
  BY DEF Restart
<1> HIDE DEF r
<1>4. r \in Session /\ Meaning(p, r, process)
  BY <1>1, <1>2, Looked
<1>5. ASSUME r.owned, NEW fate \in {"killed", "died"},
             Respawn(p, Halted(r, "restart"), Ended(r.pid, fate))
      PROVE  RInv'
  <2> DEFINE s == Halted(r, "restart")
             new == Ended(r.pid, fate)
  <2>1. /\ DOMAIN new = DOMAIN process /\ r.pid \in DOMAIN new
        /\ new[r.pid].fate \in {"killed", "died"} /\ r.seen = "running"
    BY <1>1, <1>2, <1>4, <1>5, Looked, ChildEnds DEF Meaning
  <2>2. new \in {Ended(r.pid, "killed"), Ended(r.pid, "died"), Lost(r.pid)}
    OBVIOUS
  <2>4. Respawn(p, s, new)
    BY <1>5
  <2> HIDE DEF new
  <2>5. s \in Session /\ Meaning(p, s, new) /\ ~s.owned /\ s.port = r.port
    BY <1>4, <2>1, HaltedMeans
  <2> HIDE DEF s
  <2>6. Follows(new) /\ Apart(p, s, new) /\ Accounted(p, s, new)
    BY <1>1, <1>2, <1>5, <2>2, <2>5, ChildlessStep
  <2> QED
    BY <1>1, <2>1, <2>4, <2>5, <2>6, RespawnStep
<1>6. CASE /\ r.owned
           /\ process' = Lost(r.pid)
           /\ session' = [session EXCEPT ![p] = Abandoned(r)]
  BY <1>1, <1>2, <1>6, LossStep
<1>7. ASSUME ~r.owned, Respawn(p, r, process)
      PROVE  RInv'
  <2>1. Follows(process) /\ Apart(p, r, process) /\ Accounted(p, r, process)
    BY <1>1, <1>2, Looked
  <2> QED
    BY <1>1, <1>4, <1>7, <2>1, RespawnStep
<1> QED
  BY <1>3, <1>5, <1>6, <1>7

\* Removing an inactive session keeps the invariant.
LEMMA RemoveStep ==
    ASSUME RInv, NEW p \in Places, RemoveInactive(p)
    PROVE  RInv'
<1> DEFINE r == Refreshed(session[p])
<1>1. /\ p \in Retained /\ project' = project /\ process' = process /\ foreign' = foreign
      /\ session' = [session EXCEPT ![p] = IF r.owned THEN r ELSE None]
  BY DEF RemoveInactive
<1>2. /\ r \in Session /\ Meaning(p, r, process)
      /\ Follows(process) /\ Apart(p, r, process) /\ Accounted(p, r, process)
  BY <1>1, Looked
<1> HIDE DEF r
<1>3. CASE r.owned
  <2>1. /\ session' = [session EXCEPT ![p] = r] /\ Meaning(p, r, process') /\ Follows(process')
        /\ Apart(p, r, process') /\ Accounted(p, r, process')
    BY <1>1, <1>2, <1>3
  <2> QED
    BY <1>1, <1>2, <2>1, OneSessionStep
<1>4. CASE ~r.owned
  <2>1. session \in [Places -> Session \cup {None}] /\ session' = [session EXCEPT ![p] = None]
    BY <1>1, <1>4 DEF RInv, TypeOK
  <2>2. Retained' = Retained \ {p} /\ \A q \in Retained \ {p} : session'[q] = session[q]
    BY <2>1 DEF Retained
  <2>3. TypeOK'
    BY <1>1, <2>1 DEF RInv, TypeOK
  <2>4. \A q \in Retained' : Meaning(q, session'[q], process')
    BY <1>1, <2>2 DEF RInv
  <2>5. \A pid \in DOMAIN process' : process'[pid].fate = "running" => Owned(pid)'
    BY <1>1, <1>2, <1>4, <2>2 DEF Accounted, Owned
  <2>6. PortsDistinct'
    BY <2>2 DEF RInv, PortsDistinct
  <2> QED
    BY <2>3, <2>4, <2>5, <2>6 DEF RInv
<1> QED
  BY <1>3, <1>4

\* Looking at all sessions keeps the invariant.
LEMMA ObserveAllStep ==
    ASSUME RInv, ObserveAll
    PROVE  RInv'
<1>1. session \in [Places -> Session \cup {None}]
  BY DEF RInv, TypeOK
<1>2. /\ project' = project /\ process' = process /\ foreign' = foreign
      /\ session' = [p \in Places |-> IF p \in Retained THEN Refreshed(session[p]) ELSE None]
  BY DEF ObserveAll
<1>3. ASSUME NEW p \in Retained
      PROVE  /\ session'[p] \in Session /\ Meaning(p, session'[p], process)
             /\ session'[p].pid = session[p].pid /\ session'[p].port = session[p].port
             /\ session'[p].owned <=> session[p].owned /\ process[session[p].pid].fate = "running"
  <2>1. session[p] \in Session /\ Meaning(p, session[p], process)
    BY <1>1 DEF RInv, Retained
  <2>2. session'[p] = Refreshed(session[p])
    BY <1>2 DEF Retained
  <2> QED
    BY <2>1, <2>2, RefreshedMeans
<1>4. \A p \in Places \ Retained : session'[p] = None
  BY <1>2
<1>5. Retained' = Retained
  BY <1>3, <1>4, RojoAssumption DEF Retained
<1>6. TypeOK'
  <2>1. session' \in [Places -> Session \cup {None}]
    BY <1>2, <1>3, <1>4 DEF Retained
  <2> QED
    BY <1>2, <2>1 DEF RInv, TypeOK
<1>7. \A p \in Retained' : Meaning(p, session'[p], process')
  BY <1>2, <1>3, <1>5
<1>8. ASSUME NEW pid \in DOMAIN process', process'[pid].fate = "running"
      PROVE  Owned(pid)'
  <2>1. PICK p \in Retained : session[p].owned /\ session[p].pid = pid
    BY <1>2, <1>8 DEF RInv, Owned
  <2>2. p \in Retained' /\ session'[p].owned /\ session'[p].pid = pid
    BY <1>2, <1>3, <1>5, <1>8, <2>1
  <2> QED
    BY <2>2 DEF Owned
<1>9. PortsDistinct'
  BY <1>3, <1>5 DEF RInv, PortsDistinct
<1> QED
  BY <1>6, <1>7, <1>8, <1>9 DEF RInv

\* A step of a process.
LEMMA ProcessStep ==
    ASSUME RInv, NEW pid \in DOMAIN process, Listen(pid) \/ Exit(pid)
    PROVE  RInv'
<1>1. /\ project' = project /\ session' = session /\ foreign' = foreign
      /\ process[pid].fate \in {"running", "lost"}
  BY DEF Listen, Exit, Alive
<1>2. process \in Seq(Processes) /\ pid \in 1 .. Len(process) /\ process[pid] \in Live
  BY <1>1 DEF RInv, TypeOK, Processes, Live
<1>3. PICK x \in Processes : /\ process' = [process EXCEPT ![pid] = x]
                             /\ Evolves(process[pid], x)
                             /\ process[pid].fate = "running" => x.fate \in {"running", "died"}
  <2>1. CASE Listen(pid)
    <3> DEFINE x == [process[pid] EXCEPT !.listening = TRUE]
    <3>1. x \in Processes /\ Evolves(process[pid], x) /\ x.fate = process[pid].fate
      BY <1>1, <1>2 DEF Processes, Live, Evolves
    <3>2. process' = [process EXCEPT ![pid] = x]
      BY <2>1 DEF Listen
    <3> HIDE DEF x
    <3> QED
      BY <3>1, <3>2
  <2>2. CASE Exit(pid)
    <3> DEFINE x == [fate |-> IF process[pid].fate = "running" THEN "died" ELSE "gone"]
    <3>1. x \in Processes /\ x.fate = IF process[pid].fate = "running" THEN "died" ELSE "gone"
      BY DEF Processes
    <3>2. process' = [process EXCEPT ![pid] = x]
      BY <2>2 DEF Exit, Ended
    <3> HIDE DEF x
    <3>3. Evolves(process[pid], x)
      BY <1>1, <3>1 DEF Evolves
    <3> QED
      BY <3>1, <3>2, <3>3
  <2> QED
    BY <2>1, <2>2
<1>4. process' \in Seq(Processes)
  BY <1>2, <1>3, ExceptSeq
<1>5. /\ DOMAIN process' = DOMAIN process /\ process'[pid] = x
      /\ \A i \in DOMAIN process \ {pid} : process'[i] = process[i]
  BY <1>3
<1>6. Follows(process') /\ Unharmed(process')
  BY <1>1, <1>3, <1>4, <1>5 DEF Evolves, Follows, Unharmed
<1>7. project' \in Projects /\ foreign' \in SUBSET Ports
  BY <1>1 DEF RInv, TypeOK
<1> QED
  BY <1>1, <1>6, <1>7, NoSessionStep

\* What other programs and the user do, and nothing at all.
LEMMA OutsideStep ==
    ASSUME RInv, \/ \E port \in Ports : TakePort(port) \/ FreePort(port)
                 \/ \E content \in Projects : Edit(content)
                 \/ UNCHANGED vars
    PROVE  RInv'
<1>1. project' \in Projects /\ foreign' \in SUBSET Ports /\ session' = session /\ process' = process
  BY DEF RInv, TypeOK, TakePort, FreePort, Edit, vars
<1>2. Follows(process') /\ Unharmed(process')
  BY <1>1 DEF Follows, Unharmed, Evolves, RInv, TypeOK
<1> QED
  BY <1>1, <1>2, NoSessionStep

\* A function on the pids is a sequence of processes.
LEMMA ProcessesAre ==
    ASSUME NEW old \in Seq(Processes), NEW new \in [DOMAIN old -> Processes]
    PROVE  new \in Seq(Processes) /\ DOMAIN new = DOMAIN old
<1>1. Len(old) \in Nat /\ DOMAIN old = 1 .. Len(old)
  OBVIOUS
<1> QED
  BY <1>1

\* The end of the desktop keeps the invariant.
LEMMA DesktopEndsStep ==
    ASSUME RInv, DesktopEnds
    PROVE  RInv'
<1>1. PICK killed \in SUBSET {i \in DOMAIN process : process[i].fate = "running"} :
        process' = [i \in DOMAIN process |->
            CASE i \in killed -> [fate |-> "killed"]
              [] i \notin killed /\ process[i].fate = "running" -> [process[i] EXCEPT !.fate = "lost"]
              [] OTHER -> process[i]]
  BY DEF DesktopEnds
<1>2. session' = [p \in Places |-> None] /\ project' = project /\ foreign' = foreign
  BY DEF DesktopEnds
<1>3. process \in Seq(Processes)
  BY DEF RInv, TypeOK
<1>4. ASSUME NEW i \in DOMAIN process
      PROVE  process'[i] \in Processes /\ process'[i].fate # "running"
  <2>1. process[i] \in Processes /\ (process[i].fate = "running" => process[i] \in Live)
    BY <1>3 DEF Processes, Live
  <2>2. CASE i \in killed
    <3>1. process'[i] = [fate |-> "killed"]
      BY <1>1, <2>2
    <3> QED
      BY <3>1 DEF Processes
  <2>3. CASE i \notin killed /\ process[i].fate = "running"
    <3>1. process'[i] = [process[i] EXCEPT !.fate = "lost"]
      BY <1>1, <2>3
    <3> QED
      BY <2>1, <2>3, <3>1 DEF Processes, Live
  <2>4. CASE i \notin killed /\ process[i].fate # "running"
    BY <1>1, <2>1, <2>4
  <2> QED
    BY <2>2, <2>3, <2>4
<1>5. process' \in [DOMAIN process -> Processes]
  BY <1>1, <1>4
<1>6. process' \in Seq(Processes) /\ DOMAIN process' = DOMAIN process
  BY <1>3, <1>5, ProcessesAre
<1>7. TypeOK' /\ Retained' = {}
  BY <1>2, <1>6 DEF RInv, TypeOK, Retained
<1> QED
  BY <1>4, <1>6, <1>7 DEF RInv, PortsDistinct

\* Stopping all sessions keeps the invariant.
LEMMA StopAllStep ==
    ASSUME RInv, StopAll
    PROVE  RInv'
<1> DEFINE now == [p \in Places |-> IF p \in Retained THEN Refreshed(session[p]) ELSE None]
           owning == {p \in Retained : now[p].owned}
<1>1. PICK failing \in SUBSET owning :
        /\ session' = [p \in Places |->
              CASE p \in failing -> Abandoned(now[p])
                [] p \in owning \ failing -> [Halted(now[p], "stop") EXCEPT !.seen = "stopped"]
                [] p \in Retained \ owning -> [now[p] EXCEPT !.stopped = TRUE, !.seen = "stopped"]
                [] OTHER -> None]
        /\ process' = [i \in DOMAIN process |->
              CASE \E p \in failing : now[p].pid = i -> [process[i] EXCEPT !.fate = "lost"]
                [] \E p \in owning \ failing : now[p].pid = i -> [fate |-> "killed"]
                [] OTHER -> process[i]]
        /\ project' = project /\ foreign' = foreign
  BY DEF StopAll
<1>2. session \in [Places -> Session \cup {None}] /\ process \in Seq(Processes)
  BY DEF RInv, TypeOK
<1>3. ASSUME NEW p \in Retained
      PROVE  /\ now[p] \in Session /\ Meaning(p, now[p], process)
             /\ now[p].pid = session[p].pid /\ now[p].port = session[p].port
             /\ now[p].owned <=> session[p].owned /\ process[session[p].pid].fate = "running"
             /\ ~now[p].owned /\ ~now[p].stopped => now[p].seen = "exited"
  <2>1. session[p] \in Session /\ Meaning(p, session[p], process)
    BY <1>2 DEF RInv, Retained
  <2>2. now[p] = Refreshed(session[p])
    BY DEF Retained
  <2> HIDE DEF now
  <2> QED
    BY <2>1, <2>2, RefreshedMeans
<1>4. owning \subseteq Retained /\ \A p \in Retained : p \in owning <=> now[p].owned
  OBVIOUS
<1> HIDE DEF now, owning
<1>5. \A p, q \in owning : now[p].pid = now[q].pid => p = q
  BY <1>3, <1>4, OneOwner
<1>6. \A p \in owning : now[p].pid \in DOMAIN process /\ process[now[p].pid].fate = "running"
  BY <1>3, <1>4 DEF Meaning
<1>7. ASSUME NEW i \in DOMAIN process
      PROVE  /\ process'[i] \in Processes /\ Evolves(process[i], process'[i])
             /\ process'[i].fate # "running"
             /\ \A p \in failing : now[p].pid = i => process'[i].fate = "lost"
             /\ \A p \in owning \ failing : now[p].pid = i => process'[i].fate = "killed"
  <2>1. process[i] \in Processes /\ (process[i].fate = "running" => process[i] \in Live)
    BY <1>2 DEF Processes, Live
  <2>2. CASE \E p \in failing : now[p].pid = i
    <3>1. process[i].fate = "running" /\ ~ \E p \in owning \ failing : now[p].pid = i
      BY <1>5, <1>6, <2>2
    <3>2. process'[i] = [process[i] EXCEPT !.fate = "lost"]
      BY <1>1, <2>2, <3>1
    <3>3. process'[i] \in Processes /\ process'[i].fate = "lost"
      BY <2>1, <3>1, <3>2 DEF Processes, Live
    <3> QED
      BY <3>1, <3>3 DEF Evolves
  <2>3. CASE (~ \E p \in failing : now[p].pid = i) /\ \E p \in owning \ failing : now[p].pid = i
    <3>1. process[i].fate = "running"
      BY <1>6, <2>3
    <3>2. process'[i] = [fate |-> "killed"]
      BY <1>1, <2>3
    <3>3. process'[i] \in Processes /\ process'[i].fate = "killed"
      BY <3>2 DEF Processes
    <3> QED
      BY <2>3, <3>1, <3>3 DEF Evolves
  <2>4. CASE ~ \E p \in owning : now[p].pid = i
    <3>1. process'[i] = process[i]
      BY <1>1, <2>4
    <3>2. process[i].fate # "running"
      BY <1>3, <1>4, <2>4 DEF RInv, Owned
    <3> QED
      BY <2>1, <2>4, <3>1, <3>2 DEF Evolves
  <2> QED
    BY <2>2, <2>3, <2>4
<1>8. process' \in Seq(Processes) /\ DOMAIN process' = DOMAIN process /\ Follows(process')
  <2>1. process' \in [DOMAIN process -> Processes]
    BY <1>1, <1>7
  <2> QED
    BY <1>2, <1>7, <2>1, ProcessesAre DEF Follows
<1>9. ASSUME NEW p \in Retained
      PROVE  /\ session'[p] \in Session /\ Meaning(p, session'[p], process')
             /\ session'[p].port = session[p].port
  <2>1. PICK r \in Session : r = now[p]
    BY <1>3
  <2>2. p \in Places /\ Meaning(p, r, process) /\ r.port = session[p].port
    BY <1>3, <2>1 DEF Retained
  <2>3. CASE p \in failing
    <3>1. session'[p] = Abandoned(r)
      BY <1>1, <2>1, <2>2, <2>3, <1>4
    <3>2. r.owned /\ process'[r.pid].fate = "lost"
      BY <1>4, <1>6, <1>7, <2>1, <2>3
    <3> QED
      BY <1>8, <2>2, <3>1, <3>2, AbandonedMeans
  <2>4. CASE p \in owning \ failing
    <3> DEFINE s == [Halted(r, "stop") EXCEPT !.seen = "stopped"]
    <3>1. session'[p] = s
      BY <1>1, <2>1, <2>2, <2>4
    <3>2. r.pid \in DOMAIN process' /\ process'[r.pid].fate \in {"killed", "died"} /\ r.seen = "running"
      BY <1>4, <1>6, <1>7, <1>8, <2>1, <2>2, <2>4 DEF Meaning
    <3>3. s \in Session /\ Meaning(p, s, process') /\ s.port = r.port
      BY <3>2, HaltedMeans
    <3> HIDE DEF s
    <3> QED
      BY <2>2, <3>1, <3>3
  <2>5. CASE p \in Retained \ owning
    <3> DEFINE s == [r EXCEPT !.stopped = TRUE, !.seen = "stopped"]
    <3>1. session'[p] = s
      BY <1>1, <1>4, <2>1, <2>2, <2>5
    <3>2. ~r.owned /\ (~r.stopped => r.seen = "exited") /\ Meaning(p, r, process)
      BY <1>3, <1>4, <2>1, <2>2, <2>5
    <3>3. s = [r EXCEPT !.stopped = TRUE, !.seen = "stopped"]
      OBVIOUS
    <3> HIDE DEF s
    <3>4. s \in Session /\ Meaning(p, s, process) /\ ~s.owned /\ s.port = r.port
      BY <3>2, <3>3, IdleStopped, Zenon
    <3>5. Meaning(p, s, process')
      BY <1>2, <1>7, <1>8, <3>4, MeaningKept
    <3> QED
      BY <2>2, <3>1, <3>4, <3>5
  <2> QED
    BY <2>3, <2>4, <2>5
<1>10. \A p \in Places \ Retained : session'[p] = None
  BY <1>1, <1>4
<1>11. Retained' = Retained
  BY <1>9, <1>10, RojoAssumption DEF Retained
<1>12. TypeOK'
  <2>1. session' \in [Places -> Session \cup {None}]
    BY <1>1, <1>9, <1>10 DEF Retained
  <2> QED
    BY <1>1, <1>8, <2>1 DEF RInv, TypeOK
<1>13. PortsDistinct'
  BY <1>9, <1>11 DEF RInv, PortsDistinct
<1> QED
  BY <1>7, <1>8, <1>9, <1>11, <1>12, <1>13 DEF RInv

\* Every step of the desktop, its children and the other programs keeps the invariant.
LEMMA RojoStep ==
    ASSUME RInv, [Next]_vars
    PROVE  RInv'
<1>1. ASSUME NEW p \in Places, \/ \E port \in Ports : Start(p, port)
                               \/ Observe(p) \/ Stop(p) \/ Restart(p) \/ RemoveInactive(p)
      PROVE  RInv'
  BY <1>1, StartStep, ObserveStep, StopStep, RestartStep, RemoveStep
<1>2. CASE ObserveAll \/ StopAll \/ DesktopEnds
  BY <1>2, ObserveAllStep, StopAllStep, DesktopEndsStep
<1>3. ASSUME NEW pid \in DOMAIN process, Listen(pid) \/ Exit(pid)
      PROVE  RInv'
  BY <1>3, ProcessStep
<1>4. CASE \/ \E port \in Ports : TakePort(port) \/ FreePort(port)
           \/ \E content \in Projects : Edit(content)
           \/ UNCHANGED vars
  BY <1>4, OutsideStep
<1> QED
  BY <1>1, <1>2, <1>3, <1>4 DEF Next

\* Every reachable state satisfies the inductive invariant; with it the types are right.
THEOREM SessionsMeanProcesses == Spec => []RInv
<1>1. Init => RInv
  BY EmptySeq DEF Init, RInv, TypeOK, Retained, PortsDistinct
<1> QED
  BY <1>1, RojoStep, PTL DEF Spec

\* Whatever runs with an owner is the one child of the session of its place, on the session's
\* port and from the project the session was made for (RojoSupervisor, git_rojo.rs:2086).
THEOREM OneServerPerPlaceHolds == Spec => []OneServerPerPlace
<1>1. RInv => OneServerPerPlace
  BY DEF RInv, Owned, Meaning, OneServerPerPlace, Retained
<1> QED
  BY <1>1, SessionsMeanProcesses, PTL

\* select_port gives no port to two sessions (git_rojo.rs:2721).
THEOREM PortsDistinctHolds == Spec => []PortsDistinct
<1>1. RInv => PortsDistinct
  BY DEF RInv
<1> QED
  BY <1>1, SessionsMeanProcesses, PTL

\* An end that nobody asked for is told from a stop and from the stop before a restart
\* (refresh_managed_session, git_rojo.rs:2754).
THEOREM ExitsToldApartHolds == Spec => []ExitsToldApart
<1>1. RInv => ExitsToldApart
  BY DEF RInv, Meaning, Report, ExitsToldApart
<1> QED
  BY <1>1, SessionsMeanProcesses, PTL

-----------------------------------------------------------------------------
(***************************************************************************)
(* The ownership preflight                                                 *)
(***************************************************************************)

(* Least numbers and prefixes *)

\* A non-empty set of naturals has a least element: the well-foundedness of an order that
\* contains < on the naturals.
LEMMA LeastInRelation ==
  ASSUME NEW R, IsWellFoundedOn(R, Nat), \A x, y \in Nat : x < y => <<x, y>> \in R,
         NEW T, T \subseteq Nat, T # {}
  PROVE  \E x \in T : \A y \in T : x <= y
<1>1. PICK x \in T : \A y \in T : ~ (<<y, x>> \in R)
  <2>1. IsWellFoundedOn(R, Nat) /\ T \subseteq Nat /\ T # {}
    OBVIOUS
  <2>2. QED BY <2>1, WFMin, ZenonT(60)
<1>2. ASSUME NEW y \in T PROVE x <= y
  <2>1. x \in Nat /\ y \in Nat
    OBVIOUS
  <2>2. ~(y < x)
    BY <1>1, <2>1, Zenon
  <2>3. QED BY <2>1, <2>2
<1>3. QED BY <1>2

\* Every non-empty set of naturals has a least element.
LEMMA Least ==
  ASSUME NEW T, T \subseteq Nat, T # {}
  PROVE  \E x \in T : \A y \in T : x <= y
<1>1. \A x, y \in Nat : x < y => <<x, y>> \in OpToRel(<, Nat)
  BY Zenon DEF OpToRel
<1>2. QED BY <1>1, NatLessThanWellFounded, LeastInRelation, Zenon

\* A path is a prefix of another one when it is no longer and agrees with it.
LEMMA PrefixPointwise ==
  ASSUME NEW s \in Path, NEW t \in Path
  PROVE  IsPrefix(s, t) <=> Len(s) <= Len(t) /\ \A i \in 1 .. Len(s) : s[i] = t[i]
<1>1. SubSeq(s, 1, Len(s)) = s
  BY SubSeqFull DEF Path
<1>2. CASE Len(s) <= Len(t)
  <2>1. \A i \in 1 .. Len(s) : t[i] \in STRING
    BY <1>2, ElementOfSeq, LenProperties DEF Path
  <2>2. /\ SubSeq(t, 1, Len(s)) \in Path
        /\ Len(SubSeq(t, 1, Len(s))) = Len(s)
        /\ \A i \in 1 .. Len(s) : SubSeq(t, 1, Len(s))[i] = t[i]
    BY <2>1, SubSeqProperties, LenProperties, SMTT(30) DEF Path
  <2>3. (\A i \in 1 .. Len(s) : s[i] = t[i]) => s = SubSeq(t, 1, Len(s))
    <3> DEFINE u == SubSeq(t, 1, Len(s))
    <3> HIDE DEF u
    <3>1. u \in Path /\ Len(u) = Len(s) /\ \A i \in 1 .. Len(s) : u[i] = t[i]
      BY <2>2 DEF u
    <3>2. (\A i \in 1 .. Len(s) : s[i] = t[i]) => s = u
      BY <3>1, SeqEqual DEF Path
    <3>3. QED BY <3>2 DEF u
  <2>4. QED BY <1>1, <1>2, <2>2, <2>3 DEF IsPrefix
<1>3. CASE ~(Len(s) <= Len(t))
  BY <1>3 DEF IsPrefix
<1>4. QED BY <1>2, <1>3

\* Being a prefix is transitive.
LEMMA PrefixTransitive ==
  ASSUME NEW s \in Path, NEW t \in Path, NEW u \in Path, IsPrefix(s, t), IsPrefix(t, u)
  PROVE  IsPrefix(s, u)
BY PrefixPointwise, LenProperties DEF Path

\* Every path is a prefix of itself.
LEMMA PrefixReflexive ==
  ASSUME NEW s \in Path
  PROVE  IsPrefix(s, s)
BY PrefixPointwise, LenProperties DEF Path

\* Of two prefixes of one path the shorter is a prefix of the longer.
LEMMA PrefixesOfOne ==
  ASSUME NEW s \in Path, NEW t \in Path, NEW u \in Path,
         IsPrefix(s, u), IsPrefix(t, u), Len(s) <= Len(t)
  PROVE  IsPrefix(s, t)
BY PrefixPointwise, LenProperties DEF Path

\* Prefixes of equal length are equal.
LEMMA PrefixOfEqualLength ==
  ASSUME NEW s \in Path, NEW t \in Path, IsPrefix(s, t), Len(s) = Len(t)
  PROVE  s = t
BY PrefixPointwise, SeqEqual DEF Path

\* What is appended to a path lies below it.
LEMMA PrefixOfConcatenation ==
  ASSUME NEW s \in Path, NEW t \in Path
  PROVE  s \o t \in Path /\ IsPrefix(s, s \o t)
<1> DEFINE u == s \o t
<1>1. /\ u \in Path /\ Len(s) \in Nat /\ Len(t) \in Nat
      /\ Len(u) = Len(s) + Len(t)
      /\ \A i \in 1 .. Len(s) : u[i] = s[i]
  BY ConcatProperties, LenProperties DEF Path
<1> HIDE DEF u
<1>2. u \in Path /\ IsPrefix(s, u)
  BY <1>1, PrefixPointwise
<1>3. QED BY <1>2 DEF u

-----------------------------------------------------------------------------
(* The ownership table *)

Table == ownership \subseteq OwnershipConfig /\ Valid(ownership)

\* The root of an ownership entry is a path.
LEMMA RootPaths ==
  ASSUME Table, NEW root \in ownership
  PROVE  root.path \in Path /\ Len(root.path) \in Nat
<1>1. root.path \in Locations
  BY DEF Table, OwnershipConfig
<1>2. root.path \in Path
  BY <1>1, OwnershipAssumption, Zenon
<1>3. QED BY <1>2, LenProperties, Zenon DEF Path

\* OwnerOf is the deepest of the roots that contain a location.
LEMMA OwnerIsDeepest ==
  ASSUME Table, NEW at \in Path, Containing(at) # {}
  PROVE  /\ OwnerOf(at) \in Containing(at)
         /\ \A root \in Containing(at) : Len(root.path) <= Len(OwnerOf(at).path)
<1> DEFINE Left == {Len(at) - Len(root.path) : root \in Containing(at)}
<1>1. ASSUME NEW root \in Containing(at)
      PROVE  Len(root.path) \in Nat /\ Len(at) \in Nat /\ Len(root.path) <= Len(at)
  <2>1. root \in ownership /\ IsPrefix(root.path, at)
    BY DEF Containing
  <2>2. root.path \in Path /\ Len(root.path) \in Nat /\ Len(at) \in Nat
    BY <2>1, RootPaths, LenProperties DEF Path
  <2>3. QED BY <2>1, <2>2, PrefixPointwise
<1>2. Left \subseteq Nat /\ Left # {}
  BY <1>1
<1>3. PICK n \in Left : \A m \in Left : n <= m
  <2> HIDE DEF Left
  <2>1. QED BY <1>2, Least
<1>4. PICK owner \in Containing(at) : n = Len(at) - Len(owner.path)
  BY <1>3
<1>5. ASSUME NEW root \in Containing(at) PROVE Len(root.path) <= Len(owner.path)
  <2>1. Len(at) - Len(root.path) \in Left
    OBVIOUS
  <2>2. Len(at) - Len(owner.path) <= Len(at) - Len(root.path)
    BY <1>3, <1>4, <2>1
  <2>3. QED BY <1>1, <2>2
<1>6. QED BY <1>5, Zenon DEF OwnerOf

\* owner_for with the scope of a subtree speaks for every location in it.
LEMMA SubtreeIsGits ==
  ASSUME Table, NEW at \in Path, NEW below \in Path, IsPrefix(at, below),
         NEW deep, deep, OwnedByGit(at, deep)
  PROVE  Containing(below) # {} /\ OwnerOf(below).owner = "git-code"
<1> DEFINE top == OwnerOf(at)
           owner == OwnerOf(below)
<1>1. Containing(at) # {} /\ top.owner = "git-code"
      /\ \A root \in ownership : IsPrefix(at, root.path) => root = top
  BY DEF OwnedByGit
<1>2. top \in Containing(at) /\ \A root \in Containing(at) : Len(root.path) <= Len(top.path)
  BY <1>1, OwnerIsDeepest
<1>3. \A root \in Containing(at) : root \in Containing(below)
  <2>1. SUFFICES ASSUME NEW root \in ownership, IsPrefix(root.path, at)
                 PROVE  IsPrefix(root.path, below)
    BY DEF Containing
  <2>2. QED BY <2>1, RootPaths, PrefixTransitive
<1>4. owner \in Containing(below) /\ \A root \in Containing(below) : Len(root.path) <= Len(owner.path)
  BY <1>2, <1>3, OwnerIsDeepest
<1> HIDE DEF top, owner
<1>5. /\ owner \in ownership /\ owner.path \in Path /\ IsPrefix(owner.path, below)
      /\ top \in ownership /\ top.path \in Path /\ IsPrefix(top.path, below)
      /\ Len(owner.path) \in Nat /\ Len(top.path) \in Nat /\ Len(at) \in Nat
  BY <1>2, <1>3, <1>4, RootPaths, LenProperties DEF Containing, Path
<1>6. CASE Len(owner.path) <= Len(at)
  <2>1. IsPrefix(owner.path, at)
    BY <1>5, <1>6, PrefixesOfOne
  <2>2. Len(owner.path) = Len(top.path)
    <3>1. owner \in Containing(at)
      BY <1>5, <2>1 DEF Containing
    <3>2. QED BY <1>2, <1>3, <1>4, <1>5, <3>1
  <2>3. owner.path = top.path
    <3>1. IsPrefix(owner.path, top.path)
      BY <1>5, <2>2, PrefixesOfOne
    <3>2. QED BY <1>5, <2>2, <3>1, PrefixOfEqualLength
  <2>4. owner = top
    BY <1>5, <2>3, PrefixReflexive, Zenon DEF Table, Valid
  <2>5. QED BY <1>1, <1>4, <2>4 DEF owner, top
<1>7. CASE ~(Len(owner.path) <= Len(at))
  <2>1. IsPrefix(at, owner.path)
    BY <1>5, <1>7, PrefixesOfOne
  <2>2. QED BY <1>1, <1>4, <1>5, <2>1 DEF owner, top
<1>8. QED BY <1>6, <1>7

-----------------------------------------------------------------------------
(* What a node claims and includes *)

\* The claims of a node are about the place where it is seated.
LEMMA ClaimsAreAt ==
  ASSUME NEW node, NEW at, NEW claim \in Claims(node, at)
  PROVE  claim.at = at /\ claim.deep \in BOOLEAN
<1>1. \E deep \in BOOLEAN, source \in {NoFile, node.source} :
        claim = [at |-> at, deep |-> deep, source |-> source]
  <2>1. \/ claim = [at |-> at, deep |-> TRUE, source |-> NoFile]
        \/ claim = [at |-> at, deep |-> FALSE, source |-> NoFile]
        \/ claim = [at |-> at, deep |-> TRUE, source |-> node.source]
    BY Zenon DEF Claims
  <2>2. QED BY <2>1, Zenon
<1>2. PICK deep \in BOOLEAN, source \in {NoFile, node.source} :
        claim = [at |-> at, deep |-> deep, source |-> source]
  BY <1>1
<1>3. QED BY <1>2

\* A node with a source claims its place with all that is below.
LEMMA MappedIsClaimed ==
  ASSUME NEW node, NEW at, Maps(node)
  PROVE  \E claim \in Claims(node, at) : claim.deep /\ claim.at = at
<1> DEFINE claim == [at |-> at, deep |-> TRUE, source |-> node.source]
<1>1. claim \in Claims(node, at)
  BY DEF Claims
<1>2. claim.deep /\ claim.at = at
  OBVIOUS
<1>3. QED BY <1>1, <1>2

\* A project is put below its include's place only when the include is mapped as a whole.
LEMMA SeatsBelowMapped ==
  ASSUME NEW node \in Node, NEW file \in Includes(node.source)
  PROVE  /\ file \in ProjectFiles
         /\ Seat(node.source, file) \in Path
         /\ Seat(node.source, file) = <<>> \/ Maps(node)
<1> DEFINE source == node.source
           path == SubSeq(file, Len(source) + 1, Len(file))
<1>1. source \in DOMAIN Files /\ source # NoFile
  BY DEF Includes, Node
<1> HIDE DEF source
<1>2. source \in Path /\ Len(source) \in Nat
  <2>1. source \in Path
    BY <1>1, OwnershipAssumption, Zenon
  <2>2. QED BY <2>1, LenProperties, Zenon DEF Path
<1>3. file \in ProjectFiles
  BY <1>1 DEF Includes, source, HasDefault, ProjectFiles
<1>4. file \in Path /\ Len(file) \in Nat
  <2>1. file \in Path
    BY <1>3, OwnershipAssumption, Zenon DEF ProjectFiles
  <2>2. QED BY <2>1, LenProperties, Zenon DEF Path
<1>5. path \in Path
  <2>1. \A i \in Len(source) + 1 .. Len(file) : file[i] \in STRING
    BY <1>2, <1>4, ElementOfSeq DEF Path
  <2>2. QED BY <1>2, <1>4, <2>1, SubSeqProperties DEF Path
<1>6. Seat(source, file) \in Path
  <2>1. CASE path = <<>> \/ Last(path) # DefaultProject
    BY <1>5, <2>1 DEF Seat
  <2>2. CASE path # <<>> /\ Last(path) = DefaultProject
    <3>1. Seat(source, file) = Front(path)
      BY <2>2 DEF Seat
    <3> HIDE DEF path
    <3>2. Len(path) \in Nat /\ \A i \in 1 .. Len(path) - 1 : path[i] \in STRING
      BY <1>5, ElementOfSeq, LenProperties DEF Path
    <3>3. Front(path) \in Path
      BY <3>2, SubSeqProperties DEF Front, Path
    <3>4. QED BY <3>1, <3>3
  <2>3. QED BY <2>1, <2>2
<1>7. CASE Files[source] = "project"
  <2>1. file = source
    BY <1>1, <1>7 DEF Includes, source
  <2>2. path = <<>>
    BY <1>2, <2>1, SubSeqEmpty
  <2>3. Seat(source, file) = <<>>
    BY <2>2 DEF Seat
  <2>4. QED BY <1>3, <2>3, <1>6 DEF source
<1>8. CASE Files[source] # "project" /\ HasDefault(source)
  <2>1. file = Append(source, DefaultProject)
    BY <1>1, <1>8 DEF Includes, source, Default
  <2>2. path = <<DefaultProject>>
    <3>1. Len(file) = Len(source) + 1 /\ file[Len(source) + 1] = DefaultProject
      BY <1>2, <2>1 DEF Path
    <3>2. DefaultProject \in STRING
      BY OwnershipAssumption
    <3> HIDE DEF path
    <3>3. path \in Seq(STRING) /\ Len(path) = 1 /\ path[1] = DefaultProject
      <4>1. \A i \in Len(source) + 1 .. Len(source) + 1 : file[i] \in STRING
        BY <1>2, <3>1, <3>2
      <4>2. QED BY <1>2, <3>1, <4>1, SubSeqProperties DEF path
    <3>4. <<DefaultProject>> \in Seq(STRING)
      BY <3>2
    <3>5. QED BY <3>3, <3>4, SeqEqual
  <2>3. Seat(source, file) = <<>>
    <3>1. Last(path) = DefaultProject /\ Front(path) = <<>> /\ path # <<>>
      <4> HIDE DEF path
      <4>1. QED BY <2>2 DEF Last, Front
    <3>2. QED BY <3>1 DEF Seat
  <2>4. QED BY <1>3, <2>3, <1>6 DEF source
<1>9. CASE Files[source] # "project" /\ ~HasDefault(source)
  <2>1. Maps(node)
    BY <1>1, <1>9 DEF Maps, source
  <2>2. QED BY <1>3, <1>6, <2>1 DEF source
<1>10. QED BY <1>7, <1>8, <1>9

-----------------------------------------------------------------------------
(* The invariant: a destination at which Rojo puts something is the one that was looked  *)
(* at, or lies in a subtree that was claimed.                                            *)

Within(at, claims) == \E claim \in claims : claim.deep /\ IsPrefix(claim.at, at)

Claimed(claims) ==
    \A claim \in claims : /\ claim.at \in Path /\ claim.deep \in BOOLEAN
                          /\ OwnedByGit(claim.at, claim.deep)

Controlled(places, claims) ==
    \A claim \in places :
        /\ claim.at \in Path /\ claim.deep \in BOOLEAN
        /\ claim \in claims \/ Within(claim.at, claims)

Visited(visits, claims) ==
    \A visit \in visits :
        /\ visit.file \in ProjectFiles /\ visit.at \in Path /\ visit.seat \in Path
        /\ visit.seat = visit.at \/ Within(visit.seat, claims)

Contents == DOMAIN tree = ProjectFiles
            /\ \A file \in ProjectFiles : \A n \in DOMAIN tree[file] :
                 n \in Path /\ tree[file][n] \in Node

OwnershipInv ==
    /\ Table
    /\ Contents
    /\ Claimed(mappings)
    /\ Controlled(controls, mappings)
    /\ Visited(todo, mappings)

\* A place that is covered by a claim stays covered when claims are added.
LEMMA WithinGrows ==
  ASSUME NEW at, NEW claims, NEW more, Within(at, claims)
  PROVE  Within(at, claims \cup more)
BY Zenon DEF Within

\* The preflight starts with the root project at the root and no claim.
LEMMA InitialInv == OwnershipInit => OwnershipInv
<1> SUFFICES ASSUME OwnershipInit PROVE OwnershipInv
  OBVIOUS
<1>1. Table
  BY ManifestsAssumption DEF OwnershipInit, Table
<1>2. Contents
  <2>1. tree \in Trees
    BY DEF OwnershipInit
  <2>2. /\ DOMAIN tree = ProjectFiles
        /\ \A file \in ProjectFiles : /\ tree[file] \in [DOMAIN tree[file] -> Node]
                                     /\ DOMAIN tree[file] \subseteq Path
    BY <2>1, TreesAssumption, Zenon
  <2>3. QED BY <2>2 DEF Contents
<1>3. Visited(todo, mappings)
  <2>1. <<>> \in Path
    BY OwnershipAssumption
  <2>2. RootProject \in ProjectFiles
    BY OwnershipAssumption
  <2>3. QED BY <2>1, <2>2 DEF OwnershipInit, Visited
<1>4. QED BY <1>1, <1>2, <1>3 DEF OwnershipInit, OwnershipInv, Claimed, Controlled

\* What a visit that is accepted adds.
LEMMA AcceptedVisit ==
  ASSUME OwnershipInv, NEW visit \in todo, NEW more,
         NEW n \in DOMAIN tree[visit.file],
         Claims(tree[visit.file][n], visit.at \o n) \subseteq more
  PROVE  LET node == tree[visit.file][n]
             at == visit.at \o n
             seat == visit.seat \o n
             claims == mappings \cup more
         IN  /\ node \in Node /\ at \in Path /\ seat \in Path
             /\ seat = at \/ Within(seat, claims)
             /\ Controlled(Claims(node, seat), claims)
             /\ \A file \in Includes(node.source) :
                  LET place == seat \o Seat(node.source, file)
                  IN  /\ file \in ProjectFiles /\ place \in Path
                      /\ place = at \/ Within(place, claims)
<1> DEFINE node == tree[visit.file][n]
           at == visit.at \o n
           seat == visit.seat \o n
           claims == mappings \cup more
<1>1. /\ visit.file \in ProjectFiles /\ visit.at \in Path /\ visit.seat \in Path
      /\ visit.seat = visit.at \/ Within(visit.seat, mappings)
  BY DEF OwnershipInv, Visited
<1>2. node \in Node /\ n \in Path
  BY <1>1 DEF OwnershipInv, Contents
<1>3. at \in Path /\ seat \in Path /\ IsPrefix(visit.seat, seat)
  BY <1>1, <1>2, PrefixOfConcatenation
<1>4. \A claim \in claims : claim.deep => claim \in mappings \/ claim \in more
  OBVIOUS
<1>5. ASSUME NEW place \in Path, Within(visit.seat, mappings), IsPrefix(visit.seat, place)
      PROVE  Within(place, claims)
  <2>1. PICK claim \in mappings : claim.deep /\ IsPrefix(claim.at, visit.seat)
    BY <1>5 DEF Within
  <2>2. claim.at \in Path
    BY <2>1 DEF OwnershipInv, Claimed
  <2>3. IsPrefix(claim.at, place)
    BY <1>1, <1>5, <2>1, <2>2, PrefixTransitive
  <2>4. QED BY <2>1, <2>3 DEF Within
<1>6. seat = at \/ Within(seat, claims)
  BY <1>1, <1>3, <1>5
<1>7. Controlled(Claims(node, seat), claims)
  <2>1. SUFFICES ASSUME NEW claim \in Claims(node, seat)
                 PROVE  /\ claim.at \in Path /\ claim.deep \in BOOLEAN
                        /\ claim \in claims \/ Within(claim.at, claims)
    BY DEF Controlled
  <2>2. claim.at = seat /\ claim.deep \in BOOLEAN
    BY ClaimsAreAt
  <2>3. CASE seat = at
    BY <1>3, <2>2, <2>3
  <2>4. CASE Within(seat, claims)
    BY <1>3, <2>2, <2>4
  <2>5. QED BY <1>6, <2>3, <2>4
<1>8. ASSUME NEW file \in Includes(node.source)
      PROVE  LET place == seat \o Seat(node.source, file)
             IN  /\ file \in ProjectFiles /\ place \in Path
                 /\ place = at \/ Within(place, claims)
  <2> DEFINE tail == Seat(node.source, file)
             place == seat \o tail
  <2>1. file \in ProjectFiles /\ tail \in Path /\ (tail = <<>> \/ Maps(node))
    BY <1>2, SeatsBelowMapped
  <2>2. place \in Path /\ IsPrefix(seat, place)
    BY <1>3, <2>1, PrefixOfConcatenation
  <2>3. IsPrefix(visit.seat, place)
    BY <1>1, <1>3, <2>2, PrefixTransitive
  <2>4. CASE Within(visit.seat, mappings)
    BY <1>5, <2>1, <2>2, <2>3, <2>4
  <2>5. CASE visit.seat = visit.at /\ tail = <<>>
    <3>1. place = seat
      <4> HIDE DEF seat, tail
      <4>1. QED BY <1>3, <2>5, ConcatEmptySeq DEF Path
    <3>2. QED BY <2>1, <2>2, <2>5, <3>1
  <2>6. CASE visit.seat = visit.at /\ Maps(node)
    <3>1. PICK claim \in Claims(node, at) : claim.deep /\ claim.at = at
      BY <2>6, MappedIsClaimed
    <3>2. Within(place, claims)
      BY <2>2, <2>6, <3>1 DEF Within
    <3>3. QED BY <2>1, <2>2, <3>2
  <2>7. QED BY <1>1, <2>1, <2>4, <2>5, <2>6
<1>9. QED BY <1>2, <1>3, <1>6, <1>7, <1>8, Zenon

\* The ownership table does not change during a preflight.
LEMMA OwnersStay ==
  ASSUME ownership' = ownership, NEW at, NEW deep
  PROVE  OwnedByGit(at, deep)' <=> OwnedByGit(at, deep)
<1>1. Containing(at)' = Containing(at)
  BY DEF Containing
<1>2. OwnerOf(at)' = OwnerOf(at)
  BY <1>1 DEF OwnerOf
<1>3. QED BY <1>1, <1>2 DEF OwnedByGit

\* Visiting a project keeps what its claims and the projects it includes say.
LEMMA VisitKeepsInv ==
  ASSUME OwnershipInv, NEW visit \in todo, VisitProject(visit)
  PROVE  OwnershipInv'
<1> DEFINE nodes == tree[visit.file]
           claimed == UNION {Claims(nodes[n], visit.at \o n) : n \in DOMAIN nodes}
           refused == visit.file \in visit.active \/ \E claim \in claimed : ~Permitted(claim)
           within == visit.active \cup {visit.file}
           visits == UNION {{[file |-> file, at |-> visit.at \o n, active |-> within,
                              seat |-> visit.seat \o n \o Seat(nodes[n].source, file)]
                                : file \in Includes(nodes[n].source)} : n \in DOMAIN nodes}
           places == UNION {Claims(nodes[n], visit.seat \o n) : n \in DOMAIN nodes}
<1>1. ownership' = ownership /\ tree' = tree
  BY DEF VisitProject
<1>2. Table' /\ Contents'
  BY <1>1 DEF OwnershipInv, Table, Contents, Valid
<1>3. CASE refused
  <2>1. mappings' = mappings /\ controls' = controls /\ todo' = todo
    BY <1>3, Zenon DEF VisitProject
  <2>2. Claimed(mappings)'
    BY <1>1, <2>1, OwnersStay DEF OwnershipInv, Claimed
  <2>3. Controlled(controls, mappings)' /\ Visited(todo, mappings)'
    BY <2>1 DEF OwnershipInv, Controlled, Visited, Within
  <2>4. QED BY <1>2, <2>2, <2>3 DEF OwnershipInv
<1>4. CASE ~refused
  <2>1. /\ mappings' = mappings \cup claimed /\ controls' = controls \cup places
        /\ todo' = (todo \ {visit}) \cup visits
    BY <1>4, Zenon DEF VisitProject
  <2>2. ASSUME NEW n \in DOMAIN nodes
        PROVE  Claims(nodes[n], visit.at \o n) \subseteq claimed
    OBVIOUS
  <2>3. ASSUME NEW claim \in claimed
        PROVE  /\ claim.at \in Path /\ claim.deep \in BOOLEAN
               /\ OwnedByGit(claim.at, claim.deep)
    <3>1. OwnedByGit(claim.at, claim.deep)
      <4>1. Permitted(claim)
        BY <1>4, <2>3
      <4>2. QED BY <4>1 DEF Permitted
    <3>2. PICK n \in DOMAIN nodes : claim \in Claims(nodes[n], visit.at \o n)
      OBVIOUS
    <3>3. claim.at = visit.at \o n /\ claim.deep \in BOOLEAN
      BY <3>2, ClaimsAreAt
    <3>4. visit.at \o n \in Path
      <4> HIDE DEF claimed
      <4>1. QED BY <2>2, AcceptedVisit
    <3>5. QED BY <3>1, <3>3, <3>4
  <2>4. ASSUME NEW at, Within(at, mappings) PROVE Within(at, mappings')
    BY <2>1, <2>4, WithinGrows
  <2>5. Claimed(mappings)'
    <3>1. \A claim \in mappings' :
             /\ claim.at \in Path /\ claim.deep \in BOOLEAN
             /\ OwnedByGit(claim.at, claim.deep)
      <4> HIDE DEF claimed
      <4>1. QED BY <2>1, <2>3 DEF OwnershipInv, Claimed
    <3>2. QED BY <1>1, <3>1, OwnersStay DEF Claimed
  <2>6. Controlled(controls, mappings')
    BY <2>1, <2>4 DEF OwnershipInv, Controlled
  <2>7. Controlled(places, mappings')
    <3>1. SUFFICES ASSUME NEW n \in DOMAIN nodes
                   PROVE  Controlled(Claims(nodes[n], visit.seat \o n), mappings')
      BY DEF Controlled
    <3> HIDE DEF claimed
    <3>2. QED BY <2>1, <2>2, AcceptedVisit
  <2>8. Controlled(controls, mappings)'
    <3>1. Controlled(controls', mappings')
      BY <2>1, <2>6, <2>7 DEF Controlled
    <3>2. QED BY <3>1 DEF Controlled, Within
  <2>9. ASSUME NEW next \in visits
        PROVE  /\ next.file \in ProjectFiles /\ next.at \in Path /\ next.seat \in Path
               /\ next.seat = next.at \/ Within(next.seat, mappings')
    <3>1. PICK n \in DOMAIN nodes : \E file \in Includes(nodes[n].source) :
            /\ next.file = file /\ next.at = visit.at \o n
            /\ next.seat = visit.seat \o n \o Seat(nodes[n].source, file)
      <4>1. PICK n \in DOMAIN nodes : \E file \in Includes(nodes[n].source) :
              next = [file |-> file, at |-> visit.at \o n, active |-> within,
                      seat |-> visit.seat \o n \o Seat(nodes[n].source, file)]
        <5> HIDE DEF nodes, within
        <5>1. QED BY Zenon DEF visits
      <4>2. PICK file \in Includes(nodes[n].source) :
              next = [file |-> file, at |-> visit.at \o n, active |-> within,
                      seat |-> visit.seat \o n \o Seat(nodes[n].source, file)]
        BY <4>1
      <4> HIDE DEF nodes, within, visits
      <4>3. QED BY <4>2
    <3> HIDE DEF claimed, visits
    <3>2. QED BY <2>1, <2>2, <3>1, AcceptedVisit
  <2>10. Visited(todo, mappings)'
    <3>1. ASSUME NEW next \in todo
          PROVE  /\ next.file \in ProjectFiles /\ next.at \in Path /\ next.seat \in Path
                 /\ next.seat = next.at \/ Within(next.seat, mappings')
      BY <2>4 DEF OwnershipInv, Visited
    <3>2. \A next \in todo' :
            /\ next.file \in ProjectFiles /\ next.at \in Path /\ next.seat \in Path
            /\ next.seat = next.at \/ Within(next.seat, mappings')
      <4> HIDE DEF visits
      <4>1. QED BY <2>1, <2>9, <3>1
    <3>3. QED BY <3>2 DEF Visited, Within
  <2>11. QED BY <1>2, <2>5, <2>8, <2>10 DEF OwnershipInv
<1>5. QED BY <1>3, <1>4

\* Every step of the preflight keeps the invariant.
LEMMA StepKeepsInv == OwnershipInv /\ [OwnershipNext]_ownershipVars => OwnershipInv'
<1> SUFFICES ASSUME OwnershipInv, [OwnershipNext]_ownershipVars PROVE OwnershipInv'
  OBVIOUS
<1>1. ASSUME NEW visit \in todo, VisitProject(visit) PROVE OwnershipInv'
  BY <1>1, VisitKeepsInv
<1>2. ASSUME UNCHANGED <<ownership, tree, todo, mappings, controls>> PROVE OwnershipInv'
  <2>1. Table' /\ Contents'
    BY <1>2 DEF OwnershipInv, Table, Contents, Valid
  <2>2. Claimed(mappings)'
    BY <1>2, OwnersStay DEF OwnershipInv, Claimed
  <2>3. Controlled(controls, mappings)' /\ Visited(todo, mappings)'
    BY <1>2 DEF OwnershipInv, Controlled, Visited, Within
  <2>4. QED BY <2>1, <2>2, <2>3 DEF OwnershipInv
<1>3. CASE Finish
  BY <1>2, <1>3 DEF Finish
<1>4. CASE Reject
  BY <1>2, <1>4 DEF Reject
<1>5. CASE \E slot \in Locations \ {<<>>} : ValidateStudioSlot(slot)
  BY <1>2, <1>5 DEF ValidateStudioSlot
<1>6. CASE UNCHANGED ownershipVars
  BY <1>2, <1>6 DEF ownershipVars
<1>7. QED BY <1>1, <1>3, <1>4, <1>5, <1>6 DEF OwnershipNext

-----------------------------------------------------------------------------
\* When the visit is over, whatever is controlled was accepted as git-code's.
LEMMA InvImpliesControls == OwnershipInv => ControlsAreGits
<1> SUFFICES ASSUME OwnershipInv, NEW claim \in controls, NEW at \in Covered(claim)
             PROVE  Containing(at) # {} /\ OwnerOf(at).owner = "git-code"
  BY DEF ControlsAreGits
<1>1. /\ claim.at \in Path /\ claim.deep \in BOOLEAN
      /\ claim \in mappings \/ Within(claim.at, mappings)
  BY DEF OwnershipInv, Controlled
<1>2. at \in Path /\ IsPrefix(claim.at, at) /\ (claim.deep \/ at = claim.at)
  BY <1>1, OwnershipAssumption, PrefixReflexive DEF Covered
<1>3. CASE claim \in mappings
  <2>1. OwnedByGit(claim.at, claim.deep)
    BY <1>3 DEF OwnershipInv, Claimed
  <2>2. CASE claim.deep
    BY <1>1, <1>2, <2>1, <2>2, SubtreeIsGits DEF OwnershipInv
  <2>3. CASE at = claim.at
    BY <2>1, <2>3 DEF OwnedByGit
  <2>4. QED BY <1>2, <2>2, <2>3
<1>4. CASE Within(claim.at, mappings)
  <2>1. PICK upper \in mappings : upper.deep /\ IsPrefix(upper.at, claim.at)
    BY <1>4 DEF Within
  <2>2. upper.at \in Path /\ OwnedByGit(upper.at, upper.deep)
    BY <2>1 DEF OwnershipInv, Claimed
  <2>3. IsPrefix(upper.at, at)
    BY <1>1, <1>2, <2>1, <2>2, PrefixTransitive
  <2>4. QED BY <1>2, <2>1, <2>2, <2>3, SubtreeIsGits DEF OwnershipInv
<1>5. QED BY <1>1, <1>3, <1>4

\* A project that the preflight has accepted controls only what git-code owns, also where
\* Rojo puts an included project below the place that was looked at
\* (rojo_desktop_config.rs:647, :738), for every ownership table that the manifest's
\* validation passes and all project files.
THEOREM ControlsAreGitsHolds == OwnershipSpec => []ControlsAreGits
<1>1. OwnershipSpec => []OwnershipInv
  BY InitialInv, StepKeepsInv, PTL DEF OwnershipSpec
<1>2. QED BY <1>1, InvImpliesControls, PTL
=============================================================================
