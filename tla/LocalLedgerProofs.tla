-------------------------- MODULE LocalLedgerProofs --------------------------
(***************************************************************************)
(* The local ledger, for any number of workers, processes, transfers and   *)
(* releases: its revisions can be read back, form one line and come from   *)
(* one capture each, the imported ones are what the Hub has accepted, a    *)
(* status takes legal steps only, and a published release has a receipt of *)
(* its own.                                                                *)
(***************************************************************************)
EXTENDS LocalLedger, LocalReleases, SequenceTheorems, FunctionTheorems, FiniteSetTheorems,
        WellFoundedInduction, TLAPS

(***************************************************************************)
(* Revisions                                                               *)
(***************************************************************************)

RevisionRow == [parent: Nat, state: States, accepted: BOOLEAN, from: {"capture", "import", "cli"}]

\* A state whose bytes are all in the store.
Stored(state, store) == state \in States /\ BytesOf(state) \subseteq store

\* What a worker may be doing, with so many revisions, this store and these receipts.
Planned(o, count, store, receipts) ==
    \/ o = Idle
    \/ /\ o = [at |-> "ingest", transfer |-> o.transfer]
       /\ o.transfer \in Transfers /\ Bytes[o.transfer] \in store
    \/ o.at = "clean" /\ o.transfer \in receipts
    \/ /\ o.at \in {"capture", "import", "cli"}
       /\ o.base \in 0 .. count /\ o.accepted \in BOOLEAN /\ Stored(o.state, store)
       /\ o.at = "capture" => o.transfer \in Transfers
       /\ o.at = "import" => o.accepted

LedgerTypes ==
    /\ revisions \in Seq(RevisionRow)
    /\ head \in 0 .. Len(revisions)
    /\ captured \in [Transfers -> Nat]
    /\ ingested \subseteq Transfers
    /\ DOMAIN op = Workers /\ op = [w \in Workers |-> op[w]]

BytesKept ==
    /\ BytesStored
    /\ \A t \in ingested : Bytes[t] \in cas
    /\ \A t \in Transfers \ quarantine : t \in ingested

Plans == \A w \in Workers : Planned(op[w], Len(revisions), cas, ingested)

\* The head is the end of the line.
HeadEnds ==
    \/ head = 0 /\ Line = {}
    \/ head \in Line /\ \A i \in Line : i <= head

Adjacent ==
    \A i, j \in Line : i < j /\ (\A k \in Line : k <= i \/ k >= j) => revisions[j].parent = i

\* The receipts number the captures one to one.
CapturesCounted ==
    /\ \A t \in Transfers : captured[t] # 0 =>
         captured[t] \in Ids /\ revisions[captured[t]].from = "capture"
    /\ \A t, u \in Transfers : captured[t] = captured[u] /\ captured[t] # 0 => t = u
    /\ \A i \in Ids : revisions[i].from = "capture" => \E t \in Transfers : captured[t] = i

LedgerInv ==
    /\ LedgerTypes /\ BytesKept /\ Plans
    /\ HeadEnds /\ Adjacent /\ CapturesCounted

-----------------------------------------------------------------------------
\* A non-empty set of naturals has a least element: the well-foundedness of an order that
\* contains < on the naturals.
LEMMA LeastInRelation ==
  ASSUME NEW R, IsWellFoundedOn(R, Nat), \A x, y \in Nat : x < y => <<x, y>> \in R,
         NEW T, T \subseteq Nat, T # {}
  PROVE  \E x \in T : \A y \in T : x <= y
<1>1. PICK x \in T : \A y \in T : ~ (<<y, x>> \in R)
  <2>1. IsWellFoundedOn(R, Nat) /\ T \subseteq Nat /\ T # {}
    OBVIOUS
  <2>2. QED BY <2>1, WFMin, ZenonT(60)
<1>2. ASSUME NEW y \in T PROVE x <= y
  <2>1. x \in Nat /\ y \in Nat
    OBVIOUS
  <2>2. ~(y < x)
    BY <1>1, <2>1, Zenon
  <2>3. QED BY <2>1, <2>2
<1>3. QED BY <1>2

\* Every non-empty set of naturals has a least element.
LEMMA Least ==
  ASSUME NEW T, T \subseteq Nat, T # {}
  PROVE  \E x \in T : \A y \in T : x <= y
<1>1. \A x, y \in Nat : x < y => <<x, y>> \in OpToRel(<, Nat)
  BY Zenon DEF OpToRel
<1>2. QED BY <1>1, NatLessThanWellFounded, LeastInRelation, Zenon

\* A non-empty set of numbers up to n has a maximum.
LEMMA MaxOfBounded ==
  ASSUME NEW n \in Nat, NEW S, S \subseteq 0 .. n, S # {}
  PROVE  Max(S) \in S
<1> DEFINE Left == {n - x : x \in S}
<1>1. Left \subseteq Nat /\ Left # {}
  <2>1. \A x \in S : x \in Nat /\ x <= n
    OBVIOUS
  <2>2. \A x \in S : n - x \in Nat
    BY <2>1
  <2>3. QED BY <2>2
<1>2. PICK m \in Left : \A y \in Left : m <= y
  <2> HIDE DEF Left
  <2>1. QED BY <1>1, Least
<1>3. PICK x \in S : m = n - x
  OBVIOUS
<1>4. \A y \in S : x >= y
  <2>1. SUFFICES ASSUME NEW y \in S PROVE x >= y
    OBVIOUS
  <2>2. n - y \in Left
    OBVIOUS
  <2>3. n - x <= n - y
    BY <1>2, <1>3, <2>2
  <2>4. QED BY <2>3
<1>5. QED BY <1>4, Zenon DEF Max

\* A member that no other exceeds is the maximum.
LEMMA MaxIs ==
  ASSUME NEW S, S \subseteq Nat, NEW x \in S, \A y \in S : y <= x
  PROVE  Max(S) = x
<1> DEFINE m == Max(S)
<1>1. m \in S /\ \A y \in S : m >= y
  BY Zenon DEF Max
<1> HIDE DEF m
<1>2. m = x
  BY <1>1
<1>3. QED BY <1>2 DEF m

\* accepted_art_head names a revision, or 0.
LEMMA HeadIsARevision ==
  ASSUME LedgerTypes
  PROVE  AcceptedHead \in 0 .. Len(revisions)
<1>1. Len(revisions) \in Nat /\ Ids = 1 .. Len(revisions) /\ head \in 0 .. Len(revisions)
  BY LenProperties DEF LedgerTypes, Ids
<1>2. {0} \cup Accepted \subseteq 0 .. Len(revisions)
  BY <1>1 DEF Accepted
<1>3. Max({0} \cup Accepted) \in 0 .. Len(revisions)
  BY <1>1, <1>2, MaxOfBounded
<1>4. QED BY <1>1, <1>3 DEF AcceptedHead

\* The state before the first revision needs no bytes.
LEMMA NothingIsStored ==
  ASSUME NEW store
  PROVE  Stored(Nothing, store)
BY DEF Stored, Nothing, States, BytesOf

\* The state of any revision is stored.
LEMMA StatesOfRevisions ==
  ASSUME LedgerTypes, BytesStored, NEW i \in 0 .. Len(revisions)
  PROVE  Stored(StateOf(i), cas)
<1>1. CASE i = 0
  BY <1>1, NothingIsStored DEF StateOf
<1>2. CASE i # 0
  <2>1. i \in Ids /\ revisions[i] \in RevisionRow
    BY <1>2, LenProperties, ElementOfSeq DEF LedgerTypes, Ids
  <2>2. QED BY <1>2, <2>1 DEF StateOf, Stored, BytesStored, RevisionRow
<1>3. QED BY <1>1, <1>2

\* What a worker has planned stays right when others add bytes, revisions and receipts.
LEMMA PlannedStays ==
  ASSUME NEW o, NEW m \in Nat, NEW n \in Nat, m <= n, NEW store, NEW more, store \subseteq more,
         NEW receipts, NEW others, receipts \subseteq others, Planned(o, m, store, receipts)
  PROVE  Planned(o, n, more, others)
BY DEF Planned, Stored

\* The empty ledger satisfies the invariant.
LEMMA InitialLedger == LedgerInit => LedgerInv
<1> SUFFICES ASSUME LedgerInit PROVE LedgerInv
  OBVIOUS
<1>1. revisions = <<>> /\ Len(revisions) = 0 /\ Ids = {} /\ revisions \in Seq(RevisionRow)
  BY DEF LedgerInit, Ids
<1>2. Line = {}
  BY <1>1 DEF Line, Accepted
<1>3. QED
  BY <1>1, <1>2 DEF LedgerInit, LedgerInv, LedgerTypes, BytesKept, BytesStored, Plans, Planned,
     HeadEnds, Adjacent, CapturesCounted

\* Steps that insert no revision: what they leave must be planned and stored.
LEMMA QuietStep ==
  ASSUME LedgerInv, UNCHANGED <<revisions, head, captured>>,
         NEW w \in Workers, NEW next, Turn(w, next),
         cas \subseteq cas', ingested \subseteq ingested', ingested' \subseteq Transfers,
         \A t \in ingested' : Bytes[t] \in cas',
         \A t \in Transfers \ quarantine' : t \in ingested',
         Planned(next, Len(revisions), cas', ingested')
  PROVE  LedgerInv'
<1>1. LedgerTypes'
  BY DEF LedgerInv, LedgerTypes, Turn
<1>2. BytesKept'
  BY DEF LedgerInv, BytesKept, BytesStored, Ids
<1>3. Plans'
  <2>1. ASSUME NEW v \in Workers PROVE Planned(op'[v], Len(revisions), cas', ingested')
    <3>1. CASE v = w
      BY <3>1 DEF LedgerInv, LedgerTypes, Turn
    <3>2. CASE v # w
      <4>1. op'[v] = op[v] /\ Planned(op[v], Len(revisions), cas, ingested)
        BY <3>2 DEF LedgerInv, LedgerTypes, Plans, Turn
      <4>2. Len(revisions) \in Nat
        BY LenProperties DEF LedgerInv, LedgerTypes
      <4>3. QED BY <4>1, <4>2, PlannedStays
    <3>3. QED BY <3>1, <3>2
  <2>2. QED BY <2>1 DEF Plans
<1>4. HeadEnds' /\ Adjacent' /\ CapturesCounted'
  BY DEF LedgerInv, HeadEnds, Adjacent, CapturesCounted, Line, Accepted, Ids
<1>5. QED BY <1>1, <1>2, <1>3, <1>4 DEF LedgerInv

\* The steps of a transfer.
LEMMA IngestSteps ==
  ASSUME LedgerInv, NEW w \in Workers,
         (\E t \in Transfers : Ingest(w, t)) \/ PutTransfer(w) \/ Clean(w) \/ Stop(w)
  PROVE  LedgerInv'
<1>1. /\ ingested \subseteq Transfers /\ \A t \in ingested : Bytes[t] \in cas
      /\ \A t \in Transfers \ quarantine : t \in ingested
  BY DEF LedgerInv, LedgerTypes, BytesKept
<1> DEFINE o == op[w]
<1>2. Planned(o, Len(revisions), cas, ingested)
  BY DEF LedgerInv, Plans
<1>3. CASE \E t \in Transfers : Ingest(w, t)
  <2>1. PICK t \in Transfers : Ingest(w, t)
    BY <1>3
  <2>2. Planned([at |-> "ingest", transfer |-> t], Len(revisions), cas', ingested')
    BY <2>1 DEF Ingest, Planned
  <2>3. QED BY <1>1, <2>1, <2>2, QuietStep DEF Ingest, transfersVars
<1>4. CASE PutTransfer(w)
  <2>1. /\ o.at = "ingest" /\ ingested' = ingested \cup {o.transfer}
        /\ Turn(w, [o EXCEPT !.at = "clean"])
        /\ UNCHANGED <<revisions, head, cas, quarantine, captured, imported>>
    BY <1>4 DEF PutTransfer
  <2> HIDE DEF o
  <2>2. /\ o = [at |-> "ingest", transfer |-> o.transfer]
        /\ o.transfer \in Transfers /\ Bytes[o.transfer] \in cas
    BY <1>2, <2>1 DEF Planned, Idle
  <2>3. Planned([o EXCEPT !.at = "clean"], Len(revisions), cas', ingested')
    <3>1. [o EXCEPT !.at = "clean"] = [at |-> "clean", transfer |-> o.transfer]
      BY <2>2
    <3>2. QED BY <2>1, <3>1 DEF Planned
  <2>4. QED BY <1>1, <2>1, <2>2, <2>3, QuietStep
<1>5. CASE Clean(w)
  <2>1. /\ o.at = "clean" /\ quarantine' = quarantine \ {o.transfer} /\ Turn(w, Idle)
        /\ UNCHANGED <<revisions, head, cas, ingested, captured, imported>>
    BY <1>5 DEF Clean
  <2> HIDE DEF o
  <2>2. o.transfer \in ingested
    BY <1>2, <2>1 DEF Planned, Idle
  <2>3. Planned(Idle, Len(revisions), cas', ingested')
    BY DEF Planned
  <2>4. QED BY <1>1, <2>1, <2>2, <2>3, QuietStep
<1>6. CASE Stop(w)
  <2>1. Planned(Idle, Len(revisions), cas', ingested')
    BY DEF Planned
  <2>2. QED BY <1>1, <1>6, <2>1, QuietStep DEF Stop, transfersVars
<1>7. QED BY <1>3, <1>4, <1>5, <1>6

\* A capture plans a revision on the head it has read.
LEMMA CaptureStep ==
  ASSUME LedgerInv, NEW w \in Workers, NEW t \in Transfers, NEW c \in Cells, Capture(w, t, c)
  PROVE  LedgerInv'
<1> DEFINE base == AcceptedHead
           state == [StateOf(base) EXCEPT ![c] = Bytes[t]]
           plan(accepted) == [at |-> "capture", transfer |-> t, base |-> base,
                              accepted |-> accepted, state |-> state]
<1>1. PICK accepted \in BOOLEAN : Turn(w, plan(accepted))
  BY DEF Capture
<1>2. t \in ingested /\ UNCHANGED <<revisions, head, cas, quarantine, ingested, captured, imported>>
  BY DEF Capture, transfersVars
<1>3. /\ ingested \subseteq Transfers /\ \A u \in ingested : Bytes[u] \in cas
      /\ \A u \in Transfers \ quarantine : u \in ingested
  BY DEF LedgerInv, LedgerTypes, BytesKept
<1>4. base \in 0 .. Len(revisions)
  BY HeadIsARevision DEF LedgerInv
<1>5. Stored(state, cas)
  <2>1. Stored(StateOf(base), cas)
    BY <1>4, StatesOfRevisions DEF LedgerInv, BytesKept
  <2>2. Bytes[t] \in Contents /\ Bytes[t] \in cas
    BY <1>2, <1>3, LedgerAssumption
  <2> HIDE DEF base
  <2>3. QED BY <2>1, <2>2 DEF Stored, States, BytesOf
<1>6. Planned(plan(accepted), Len(revisions), cas', ingested')
  <2> HIDE DEF base, state
  <2>1. QED BY <1>2, <1>4, <1>5 DEF Planned
<1> HIDE DEF plan
<1>7. QED BY <1>1, <1>2, <1>3, <1>6, QuietStep

\* An import plans a remote revision and stores the cells that changed.
LEMMA ImportStep ==
  ASSUME LedgerInv, NEW w \in Workers, NEW n \in 1 .. Remotes, Import(w, n)
  PROVE  LedgerInv'
<1> DEFINE state == RemoteState[n]
           before == IF n = 1 THEN Nothing ELSE RemoteState[n - 1]
           base == AcceptedHead
           plan == [at |-> "import", remote |-> n, base |-> base, accepted |-> TRUE,
                    state |-> state]
           Fetched(recovery) == IF recovery \/ StateOf(base) # before THEN Cells
                                ELSE {c \in Cells : state[c] # before[c]}
<1>1. PICK recovery \in BOOLEAN :
        cas' = cas \cup ({state[c] : c \in Fetched(recovery)} \ {Absent})
  BY DEF Import
<1>2. Turn(w, plan) /\ UNCHANGED <<revisions, head, quarantine, ingested, captured, imported>>
  BY DEF Import, transfersVars
<1>3. /\ ingested \subseteq Transfers /\ \A u \in ingested : Bytes[u] \in cas
      /\ \A u \in Transfers \ quarantine : u \in ingested
  BY DEF LedgerInv, LedgerTypes, BytesKept
<1>4. base \in 0 .. Len(revisions)
  BY HeadIsARevision DEF LedgerInv
<1>5. Stored(StateOf(base), cas)
  BY <1>4, StatesOfRevisions DEF LedgerInv, BytesKept
<1>6. state \in States
  BY LedgerAssumption
<1> HIDE DEF base
<1>7. ASSUME NEW c \in Cells, state[c] # Absent PROVE state[c] \in cas'
  <2>1. CASE c \in Fetched(recovery)
    <3> HIDE DEF Fetched, state
    <3>1. QED BY <1>1, <1>7, <2>1
  <2>2. CASE c \notin Fetched(recovery)
    <3>1. state[c] = StateOf(base)[c]
      <4> HIDE DEF state
      <4>1. QED BY <2>2
    <3>2. state[c] \in BytesOf(StateOf(base))
      <4> HIDE DEF state
      <4>1. QED BY <1>7, <3>1 DEF BytesOf
    <3>3. QED BY <1>1, <1>5, <3>2 DEF Stored
  <2>3. QED BY <2>1, <2>2
<1>8. Stored(state, cas')
  <2> HIDE DEF state
  <2>1. QED BY <1>6, <1>7 DEF Stored, BytesOf
<1>9. Planned(plan, Len(revisions), cas', ingested')
  <2> HIDE DEF state
  <2>1. QED BY <1>4, <1>8 DEF Planned
<1>10. cas \subseteq cas'
  BY <1>1
<1> HIDE DEF plan
<1>11. QED BY <1>2, <1>3, <1>9, <1>10, QuietStep

\* The command line plans a capture of its own.
LEMMA CliStep ==
  ASSUME LedgerInv, NEW w \in Workers, NEW c \in Cells, NEW b \in Contents, CliCapture(w, c, b)
  PROVE  LedgerInv'
<1> DEFINE state == [Nothing EXCEPT ![c] = b]
           plan(parent, accepted) == [at |-> "cli", base |-> parent, accepted |-> accepted,
                                      state |-> state]
<1>1. PICK parent \in {0} \cup Ids, accepted \in BOOLEAN : Turn(w, plan(parent, accepted))
  BY DEF CliCapture
<1>2. cas' = cas \cup {b} /\ UNCHANGED <<revisions, head, quarantine, ingested, captured, imported>>
  BY DEF CliCapture, transfersVars
<1>3. /\ ingested \subseteq Transfers /\ \A u \in ingested : Bytes[u] \in cas
      /\ \A u \in Transfers \ quarantine : u \in ingested
  BY DEF LedgerInv, LedgerTypes, BytesKept
<1>4. parent \in 0 .. Len(revisions)
  BY LenProperties DEF LedgerInv, LedgerTypes, Ids
<1>5. Stored(state, cas')
  BY <1>2 DEF Stored, States, BytesOf, Nothing
<1>6. Planned(plan(parent, accepted), Len(revisions), cas', ingested')
  <2> HIDE DEF state
  <2>1. QED BY <1>4, <1>5 DEF Planned
<1> HIDE DEF plan
<1>7. QED BY <1>1, <1>2, <1>3, <1>6, QuietStep

-----------------------------------------------------------------------------
\* What an insertion appends.
LEMMA Inserted ==
  ASSUME LedgerTypes, NEW row \in RevisionRow, revisions' = Append(revisions, row)
  PROVE  LET new == Len(revisions) + 1
         IN  /\ revisions' \in Seq(RevisionRow)
             /\ Len(revisions) \in Nat /\ Len(revisions') = new
             /\ Ids = 1 .. Len(revisions) /\ Ids' = 1 .. new
             /\ \A i \in Ids : revisions'[i] = revisions[i]
             /\ revisions'[new] = row
             /\ Line' = IF row.accepted /\ row.from # "cli" THEN Line \cup {new} ELSE Line
             /\ \A i \in Line : i \in Ids
<1> DEFINE new == Len(revisions) + 1
<1>1. /\ revisions' \in Seq(RevisionRow)
      /\ Len(revisions) \in Nat /\ Len(revisions') = new
      /\ Ids = 1 .. Len(revisions) /\ Ids' = 1 .. new
      /\ \A i \in Ids : revisions'[i] = revisions[i]
      /\ revisions'[new] = row
  BY AppendProperties, LenProperties DEF LedgerTypes, Ids
<1> HIDE DEF new
<1>2. new = Len(revisions) + 1
  BY DEF new
<1>3. Line' = IF row.accepted /\ row.from # "cli" THEN Line \cup {new} ELSE Line
  BY <1>1, <1>2 DEF Line, Accepted
<1>4. \A i \in Line : i \in Ids
  BY DEF Line, Accepted
<1>5. QED BY <1>1, <1>2, <1>3, <1>4

\* A worker inserts what it has planned, at the end of the line if it belongs there.
LEMMA InsertStep ==
  ASSUME LedgerInv, NEW w \in Workers,
         op[w].at \in {"capture", "import", "cli"},
         revisions' = Append(revisions, Revision(op[w])), Turn(w, Idle),
         UNCHANGED <<cas, quarantine, ingested>>,
         \/ /\ head' = Len(revisions) + 1 /\ op[w].accepted /\ op[w].at # "cli"
            /\ head # 0 => op[w].base = head
         \/ head' = head /\ (op[w].at = "cli" \/ ~op[w].accepted),
         captured' \in [Transfers -> Nat], CapturesCounted'
  PROVE  LedgerInv'
<1> DEFINE o == op[w]
           row == Revision(o)
           new == Len(revisions) + 1
<1>1. Planned(o, Len(revisions), cas, ingested)
  BY DEF LedgerInv, Plans
<1>2. /\ row \in RevisionRow /\ Stored(row.state, cas)
      /\ row.parent = o.base /\ row.accepted = o.accepted /\ row.from = o.at
  <2>1. Len(revisions) \in Nat
    BY LenProperties DEF LedgerInv, LedgerTypes
  <2> HIDE DEF o
  <2>2. o.base \in Nat /\ o.accepted \in BOOLEAN /\ Stored(o.state, cas)
    BY <1>1, <2>1 DEF Planned, Idle, o
  <2>3. QED BY <2>2 DEF RevisionRow, Revision, Stored, o
<1> HIDE DEF o
<1>3. revisions' = Append(revisions, row)
  BY DEF o
<1> HIDE DEF row
<1>4. /\ revisions' \in Seq(RevisionRow)
      /\ Len(revisions) \in Nat /\ Len(revisions') = new
      /\ Ids = 1 .. Len(revisions) /\ Ids' = 1 .. new
      /\ \A i \in Ids : revisions'[i] = revisions[i]
      /\ revisions'[new] = row
      /\ Line' = IF row.accepted /\ row.from # "cli" THEN Line \cup {new} ELSE Line
      /\ \A i \in Line : i \in Ids
  BY <1>2, <1>3, Inserted DEF LedgerInv
<1>5. /\ head \in 0 .. Len(revisions)
      /\ \/ head' = new /\ o.accepted /\ o.at # "cli" /\ (head # 0 => o.base = head)
         \/ head' = head /\ (o.at = "cli" \/ ~o.accepted)
  BY DEF LedgerInv, LedgerTypes, o
<1> HIDE DEF new
<1>6. new = Len(revisions) + 1
  BY DEF new
<1>7. LedgerTypes'
  <2>1. DOMAIN op' = Workers /\ op' = [v \in Workers |-> op'[v]]
    BY DEF LedgerInv, LedgerTypes, Turn
  <2>2. head' \in 0 .. Len(revisions')
    BY <1>4, <1>5, <1>6
  <2>3. QED BY <1>4, <2>1, <2>2 DEF LedgerInv, LedgerTypes
<1>8. BytesKept'
  <2>1. ASSUME NEW i \in Ids' PROVE BytesOf(revisions'[i].state) \subseteq cas
    <3>1. CASE i \in Ids
      BY <1>4, <3>1 DEF LedgerInv, BytesKept, BytesStored
    <3>2. CASE i = new
      BY <1>2, <1>4, <3>2 DEF Stored
    <3>3. QED BY <1>4, <1>6, <3>1, <3>2
  <2>2. QED BY <2>1 DEF LedgerInv, BytesKept, BytesStored
<1>9. Plans'
  <2>1. ASSUME NEW v \in Workers PROVE Planned(op'[v], Len(revisions'), cas, ingested)
    <3>1. op'[v] = Idle \/ op'[v] = op[v]
      BY DEF LedgerInv, LedgerTypes, Turn
    <3>2. Planned(op[v], Len(revisions), cas, ingested)
      BY DEF LedgerInv, Plans
    <3>3. Planned(op[v], Len(revisions'), cas, ingested)
      BY <1>4, <1>6, <3>2, PlannedStays
    <3>4. QED BY <3>1, <3>3 DEF Planned
  <2>2. QED BY <2>1 DEF Plans
<1>10. HeadEnds'
  BY <1>2, <1>4, <1>5, <1>6 DEF LedgerInv, HeadEnds
<1>11. Adjacent'
  <2>1. SUFFICES ASSUME NEW i \in Line', NEW j \in Line', i < j,
                        \A k \in Line' : k <= i \/ k >= j
                 PROVE  revisions'[j].parent = i
    BY DEF Adjacent
  <2>2. CASE j \in Line
    <3>1. j \in Ids /\ i \in Line
      BY <1>4, <1>6, <2>1, <2>2
    <3>2. revisions[j].parent = i
      BY <1>4, <2>1, <2>2, <3>1 DEF LedgerInv, Adjacent
    <3>3. QED BY <1>4, <3>1, <3>2
  <2>3. CASE j \notin Line
    <3>1. j = new /\ row.accepted /\ row.from # "cli" /\ i \in Line
      BY <1>4, <2>1, <2>3
    <3>2. head \in Line /\ i <= head
      BY <3>1 DEF LedgerInv, HeadEnds
    <3>3. head \in Nat /\ head # 0 /\ i \in Nat /\ head < new
      BY <1>4, <1>6, <3>1, <3>2
    <3>4. head = i
      BY <1>4, <2>1, <3>1, <3>2, <3>3
    <3>5. QED BY <1>2, <1>4, <1>5, <3>1, <3>3, <3>4
  <2>4. QED BY <2>2, <2>3
<1>12. QED BY <1>7, <1>8, <1>9, <1>10, <1>11 DEF LedgerInv

\* A capture commits once and, when accepted, on the head.
LEMMA CommitStep ==
  ASSUME LedgerInv, NEW w \in Workers, Commit(w)
  PROVE  LedgerInv'
<1> DEFINE o == op[w]
           new == Len(revisions) + 1
           t == o.transfer
<1>1. /\ o.at = "capture" /\ captured[t] = 0 /\ (o.accepted => AcceptedHead = o.base)
      /\ revisions' = Append(revisions, Revision(o))
      /\ captured' = [captured EXCEPT ![t] = new]
      /\ head' = IF o.accepted THEN new ELSE head
      /\ Turn(w, Idle) /\ UNCHANGED <<cas, quarantine, ingested, imported>>
  BY DEF Commit, InsertCapture
<1>2. Planned(o, Len(revisions), cas, ingested)
  BY DEF LedgerInv, Plans
<1> HIDE DEF o
<1>3. t \in Transfers /\ Revision(o) \in RevisionRow /\ Revision(o).from = "capture"
  <2>1. Len(revisions) \in Nat
    BY LenProperties DEF LedgerInv, LedgerTypes
  <2>2. o.base \in Nat /\ o.accepted \in BOOLEAN /\ Stored(o.state, cas) /\ t \in Transfers
    BY <1>1, <1>2, <2>1 DEF Planned, Idle
  <2>3. QED BY <1>1, <2>2 DEF RevisionRow, Revision, Stored
<1>4. /\ Len(revisions) \in Nat /\ Ids = 1 .. Len(revisions) /\ Ids' = 1 .. new
      /\ \A i \in Ids : revisions'[i] = revisions[i]
      /\ revisions'[new] = Revision(o)
  BY <1>1, <1>3, Inserted DEF LedgerInv
<1> HIDE DEF t, new
<1>5. new = Len(revisions) + 1 /\ captured \in [Transfers -> Nat]
  BY DEF new, LedgerInv, LedgerTypes
<1>6. /\ captured' \in [Transfers -> Nat]
      /\ \A u \in Transfers : captured'[u] = IF u = t THEN new ELSE captured[u]
  BY <1>1, <1>3, <1>4, <1>5
<1>7. CapturesCounted'
  <2>1. /\ \A u \in Transfers : captured[u] # 0 =>
             captured[u] \in Ids /\ revisions[captured[u]].from = "capture"
        /\ \A u, v \in Transfers : captured[u] = captured[v] /\ captured[u] # 0 => u = v
        /\ \A i \in Ids : revisions[i].from = "capture" => \E u \in Transfers : captured[u] = i
    BY DEF LedgerInv, CapturesCounted
  <2>2. \A u \in Transfers : captured'[u] # 0 =>
           captured'[u] \in Ids' /\ revisions'[captured'[u]].from = "capture"
    BY <1>3, <1>4, <1>5, <1>6, <2>1
  <2>3. \A u, v \in Transfers : captured'[u] = captured'[v] /\ captured'[u] # 0 => u = v
    BY <1>4, <1>5, <1>6, <2>1
  <2>4. \A i \in Ids' : revisions'[i].from = "capture" => \E u \in Transfers : captured'[u] = i
    <3>1. SUFFICES ASSUME NEW i \in Ids', revisions'[i].from = "capture"
                   PROVE  \E u \in Transfers : captured'[u] = i
      OBVIOUS
    <3>2. CASE i = new
      BY <1>3, <1>6, <3>2
    <3>3. CASE i # new
      <4>1. i \in Ids /\ revisions[i].from = "capture" /\ i # 0
        BY <1>4, <1>5, <3>1, <3>3
      <4>2. PICK u \in Transfers : captured[u] = i
        BY <2>1, <4>1
      <4>3. u # t
        BY <1>1, <4>1, <4>2
      <4>4. QED BY <1>6, <4>2, <4>3
    <3>4. QED BY <3>2, <3>3
  <2>5. QED BY <2>2, <2>3, <2>4 DEF CapturesCounted
<1>8. \/ head' = Len(revisions) + 1 /\ o.accepted /\ o.at # "cli" /\ (head # 0 => o.base = head)
      \/ head' = head /\ (o.at = "cli" \/ ~o.accepted)
  BY <1>1, <1>5 DEF AcceptedHead
<1>9. QED BY <1>1, <1>6, <1>7, <1>8, InsertStep DEF o

\* The receipts of captures do not change when anything else is inserted.
LEMMA CapturesStay ==
  ASSUME LedgerInv, NEW row \in RevisionRow, row.from # "capture",
         revisions' = Append(revisions, row), captured' = captured
  PROVE  CapturesCounted'
<1> DEFINE new == Len(revisions) + 1
<1>1. /\ Len(revisions) \in Nat /\ Ids = 1 .. Len(revisions) /\ Ids' = 1 .. new
      /\ \A i \in Ids : revisions'[i] = revisions[i]
      /\ revisions'[new] = row
  BY Inserted DEF LedgerInv
<1> HIDE DEF new
<1>2. new = Len(revisions) + 1
  BY DEF new
<1>3. /\ \A u \in Transfers : captured[u] # 0 =>
           captured[u] \in Ids /\ revisions[captured[u]].from = "capture"
      /\ \A u, v \in Transfers : captured[u] = captured[v] /\ captured[u] # 0 => u = v
      /\ \A i \in Ids : revisions[i].from = "capture" => \E u \in Transfers : captured[u] = i
  BY DEF LedgerInv, CapturesCounted
<1>4. /\ \A u \in Transfers : captured[u] # 0 =>
           captured[u] \in Ids' /\ revisions'[captured[u]].from = "capture"
      /\ \A i \in Ids' : revisions'[i].from = "capture" => i \in Ids
  BY <1>1, <1>2, <1>3
<1>5. QED BY <1>1, <1>3, <1>4 DEF CapturesCounted

\* Imports and the command line insert a revision or nothing.
LEMMA OtherInsertions ==
  ASSUME LedgerInv, NEW w \in Workers, CommitImport(w) \/ CliPut(w)
  PROVE  LedgerInv'
<1> DEFINE o == op[w]
<1>1. /\ o.at \in {"import", "cli"}
      /\ revisions' = Append(revisions, Revision(o)) /\ Turn(w, Idle)
      /\ UNCHANGED <<cas, quarantine, ingested, captured>>
      /\ \/ o.at = "import" /\ head' = Len(revisions) + 1 /\ head = o.base
         \/ o.at = "cli" /\ head' = head
  BY DEF CommitImport, CliPut, transfersVars
<1>2. Planned(o, Len(revisions), cas, ingested)
  BY DEF LedgerInv, Plans
<1> HIDE DEF o
<1>3. /\ Revision(o) \in RevisionRow /\ Revision(o).from = o.at
      /\ o.at = "import" => o.accepted
  <2>1. Len(revisions) \in Nat
    BY LenProperties DEF LedgerInv, LedgerTypes
  <2>2. /\ o.base \in Nat /\ o.accepted \in BOOLEAN /\ Stored(o.state, cas)
        /\ o.at = "import" => o.accepted
    BY <1>1, <1>2, <2>1 DEF Planned, Idle
  <2>3. QED BY <1>1, <2>2 DEF RevisionRow, Revision, Stored
<1>4. CapturesCounted'
  <2> DEFINE row == Revision(o)
  <2>1. row \in RevisionRow /\ row.from # "capture" /\ revisions' = Append(revisions, row)
    BY <1>1, <1>3
  <2> HIDE DEF row
  <2>2. QED BY <1>1, <2>1, CapturesStay
<1>5. captured' \in [Transfers -> Nat]
  BY <1>1 DEF LedgerInv, LedgerTypes
<1>6. QED BY <1>1, <1>3, <1>4, <1>5, InsertStep DEF o

\* Every step of every worker keeps the invariant.
LEMMA LedgerStep == LedgerInv /\ [LedgerNext]_ledgerVars => LedgerInv'
<1> SUFFICES ASSUME LedgerInv, [LedgerNext]_ledgerVars PROVE LedgerInv'
  OBVIOUS
<1>1. CASE LedgerNext
  BY <1>1, IngestSteps, CaptureStep, ImportStep, CliStep, CommitStep, OtherInsertions DEF LedgerNext
<1>2. CASE UNCHANGED ledgerVars
  BY <1>2 DEF ledgerVars, transfersVars, LedgerInv, LedgerTypes, BytesKept, BytesStored, Plans,
     HeadEnds, Adjacent, CapturesCounted, Line, Accepted, Ids
<1>3. QED BY <1>1, <1>2

\* The invariant of the ledger holds.
LEMMA LedgerInvHolds == LedgerSpec => []LedgerInv
BY InitialLedger, LedgerStep, PTL DEF LedgerSpec

-----------------------------------------------------------------------------
\* Every cell of every revision can be read back, although imports store only the cells
\* that changed and the head may move before they commit (core.rs:2030).
THEOREM BytesStoredHolds == LedgerSpec => []BytesStored
<1>1. LedgerInv => BytesStored
  BY DEF LedgerInv, BytesKept
<1>2. QED BY <1>1, LedgerInvHolds, PTL

\* A verified transfer survives a kill between any two steps of its ingestion (core.rs:1766).
THEOREM NoTransferLostHolds == LedgerSpec => []NoTransferLost
<1>1. LedgerInv => NoTransferLost
  BY DEF LedgerInv, BytesKept, NoTransferLost
<1>2. QED BY <1>1, LedgerInvHolds, PTL

\* Accepted captures and imports form one line that ends at the head, whatever workers
\* commit what they have read before (core.rs:1094, 1227).
THEOREM OneLineHolds == LedgerSpec => []OneLine
<1>1. LedgerInv => OneLine
  <2> SUFFICES ASSUME LedgerInv PROVE head = Max({0} \cup Line)
    BY DEF OneLine, LedgerInv, Adjacent
  <2> DEFINE S == {0} \cup Line
  <2>1. S \subseteq Nat /\ head \in Nat
    BY LenProperties DEF LedgerInv, LedgerTypes, Line, Accepted, Ids
  <2>2. head \in S /\ \A i \in S : i <= head
    BY <2>1 DEF LedgerInv, HeadEnds
  <2> HIDE DEF S
  <2>3. head = Max(S)
    BY <2>1, <2>2, MaxIs
  <2>4. QED BY <2>3 DEF S
<1>2. QED BY <1>1, LedgerInvHolds, PTL

\* There are as many captures as transfers with a receipt, and every receipt names its own:
\* a transfer is captured once, however often it is asked for (core.rs:1049).
THEOREM OneRevisionPerTransferHolds == LedgerSpec => []OneRevisionPerTransfer
<1>1. LedgerInv => OneRevisionPerTransfer
  <2> SUFFICES ASSUME LedgerInv PROVE OneRevisionPerTransfer
    OBVIOUS
  <2> DEFINE S == {t \in Transfers : captured[t] # 0}
             T == {i \in Ids : revisions[i].from = "capture"}
             f == [t \in S |-> captured[t]]
  <2>1. f \in Bijection(S, T)
    <3>1. /\ \A t \in S : captured[t] \in T
          /\ \A t, u \in S : captured[t] = captured[u] => t = u
          /\ \A i \in T : \E t \in S : captured[t] = i
      BY LenProperties DEF LedgerInv, LedgerTypes, CapturesCounted, Ids
    <3> HIDE DEF S, T
    <3>2. f \in [S -> T]
      BY <3>1
    <3>3. f \in Injection(S, T)
      BY <3>1, <3>2 DEF Injection, IsInjective
    <3>4. f \in Surjection(S, T)
      BY <3>1, <3>2 DEF Surjection
    <3>5. QED BY <3>3, <3>4 DEF Bijection
  <2>2. IsFiniteSet(T)
    <3>1. Len(revisions) \in Nat /\ T \subseteq 1 .. Len(revisions)
      BY LenProperties DEF LedgerInv, LedgerTypes, Ids
    <3>2. IsFiniteSet(1 .. Len(revisions))
      <4> DEFINE n == Len(revisions)
      <4>1. n \in Int /\ 1 \in Int
        BY <3>1
      <4> HIDE DEF n
      <4>2. IsFiniteSet(1 .. n)
        BY <4>1, FS_Interval
      <4>3. QED BY <4>2 DEF n
    <3> HIDE DEF T
    <3>3. QED BY <3>1, <3>2, FS_Subset
  <2>3. Cardinality(S) = Cardinality(T)
    <3> HIDE DEF S, T, f
    <3>1. ExistsBijection(T, S)
      BY <2>1, Fun_ExistsBijSymmetric DEF ExistsBijection
    <3>2. QED BY <2>2, <3>1, FS_Bijection
  <2>4. QED BY <2>3 DEF OneRevisionPerTransfer
<1>2. QED BY <1>1, LedgerInvHolds, PTL

-----------------------------------------------------------------------------
\* What a worker imports is the state of a Hub revision.
ImportsPlanned ==
    \A w \in Workers : op[w].at = "import" =>
        op[w].remote \in 1 .. Remotes /\ op[w].state = RemoteState[op[w].remote]

ImportInv ==
    /\ imported \in [1 .. Remotes -> Nat]
    /\ ImportsPlanned /\ ImportedAsAccepted

\* A step that inserts no revision keeps the imports if what it plans is a Hub revision.
LEMMA QuietImports ==
  ASSUME LedgerInv, ImportInv, NEW w \in Workers, NEW next, Turn(w, next),
         UNCHANGED <<revisions, imported>>,
         next.at = "import" =>
            next.remote \in 1 .. Remotes /\ next.state = RemoteState[next.remote]
  PROVE  ImportInv'
<1>1. ASSUME NEW v \in Workers, op'[v].at = "import"
      PROVE  op'[v].remote \in 1 .. Remotes /\ op'[v].state = RemoteState[op'[v].remote]
  <2>1. op'[v] = IF v = w THEN next ELSE op[v]
    BY DEF LedgerInv, LedgerTypes, Turn
  <2>2. QED BY <1>1, <2>1 DEF ImportInv, ImportsPlanned
<1>2. ImportsPlanned'
  BY <1>1 DEF ImportsPlanned
<1>3. QED BY <1>2 DEF ImportInv, ImportedAsAccepted, Ids, Accepted

\* An insertion leaves a worker idle.
LEMMA InsertsAndRests ==
  ASSUME LedgerInv, ImportInv, NEW w \in Workers, Turn(w, Idle)
  PROVE  ImportsPlanned'
<1>1. ASSUME NEW v \in Workers PROVE op'[v] = IF v = w THEN Idle ELSE op[v]
  BY DEF LedgerInv, LedgerTypes, Turn
<1>2. Idle.at # "import"
  BY DEF Idle
<1>3. QED BY <1>1, <1>2 DEF ImportInv, ImportsPlanned

\* The row a worker inserts.
LEMMA InsertedRow ==
  ASSUME LedgerInv, NEW w \in Workers, op[w].at \in {"capture", "import", "cli"}
  PROVE  /\ Revision(op[w]) \in RevisionRow /\ Revision(op[w]).from = op[w].at
         /\ Revision(op[w]).state = op[w].state
         /\ Revision(op[w]).parent = op[w].base /\ op[w].base \in 0 .. Len(revisions)
         /\ op[w].at = "import" => Revision(op[w]).accepted
<1> DEFINE o == op[w]
<1>1. Planned(o, Len(revisions), cas, ingested)
  BY DEF LedgerInv, Plans
<1>2. Len(revisions) \in Nat
  BY LenProperties DEF LedgerInv, LedgerTypes
<1>3. o.at \in {"capture", "import", "cli"}
  OBVIOUS
<1> HIDE DEF o
<1>4. /\ o.base \in 0 .. Len(revisions) /\ o.accepted \in BOOLEAN /\ Stored(o.state, cas)
      /\ o.at = "import" => o.accepted
  BY <1>1, <1>2, <1>3 DEF Planned, Idle
<1>5. QED BY <1>2, <1>3, <1>4 DEF RevisionRow, Revision, Stored, o

\* A capture inserts no import.
LEMMA OtherRevisions ==
  ASSUME LedgerInv, ImportInv, NEW w \in Workers, op[w].at \in {"capture", "cli"},
         revisions' = Append(revisions, Revision(op[w])), imported' = imported,
         Turn(w, Idle)
  PROVE  ImportInv'
<1> DEFINE row == Revision(op[w])
           new == Len(revisions) + 1
<1>1. row \in RevisionRow /\ row.from # "import" /\ revisions' = Append(revisions, row)
  BY InsertedRow
<1> HIDE DEF row
<1>2. /\ Len(revisions) \in Nat /\ Ids = 1 .. Len(revisions) /\ Ids' = 1 .. new
      /\ \A i \in Ids : revisions'[i] = revisions[i]
      /\ revisions'[new] = row
  BY <1>1, Inserted DEF LedgerInv
<1>3. new = Len(revisions) + 1
  OBVIOUS
<1> HIDE DEF new
<1>4. \A i \in Ids' : i \in Ids \/ i = new
  BY <1>2, <1>3
<1>5. \A i \in Ids : i \in Ids' /\ (i \in Accepted => i \in Accepted')
  BY <1>2, <1>3 DEF Accepted
<1>6. ImportsPlanned'
  BY InsertsAndRests
<1>7. ImportedAsAccepted'
  <2>1. \A n \in 1 .. Remotes : imported[n] # 0 =>
           imported[n] \in Accepted /\ imported[n] \in Ids
           /\ revisions[imported[n]].from = "import"
           /\ revisions[imported[n]].state = RemoteState[n]
    BY DEF ImportInv, ImportedAsAccepted, Accepted
  <2>2. \A n \in 1 .. Remotes : imported[n] # 0 =>
           imported[n] \in Accepted' /\ revisions'[imported[n]].from = "import"
           /\ revisions'[imported[n]].state = RemoteState[n]
    BY <1>2, <1>5, <2>1
  <2>3. \A i \in Ids' : revisions'[i].from = "import" => \E n \in 1 .. Remotes : imported[n] = i
    BY <1>1, <1>2, <1>4 DEF ImportInv, ImportedAsAccepted
  <2>4. QED BY <2>2, <2>3 DEF ImportInv, ImportedAsAccepted
<1>8. QED BY <1>6, <1>7 DEF ImportInv

\* An import inserts the state it has planned and records where it is.
LEMMA ImportCommits ==
  ASSUME LedgerInv, ImportInv, NEW w \in Workers, CommitImport(w)
  PROVE  ImportInv'
<1> DEFINE row == Revision(op[w])
           new == Len(revisions) + 1
           r == op[w].remote
<1>1. /\ op[w].at = "import" /\ imported[r] = 0
      /\ revisions' = Append(revisions, row)
      /\ imported' = [imported EXCEPT ![r] = new] /\ Turn(w, Idle)
  BY DEF CommitImport
<1>2. /\ row \in RevisionRow /\ row.from = "import" /\ row.accepted
      /\ row.state = RemoteState[r] /\ r \in 1 .. Remotes
  BY <1>1, InsertedRow DEF ImportInv, ImportsPlanned
<1> HIDE DEF row, r
<1>3. /\ Len(revisions) \in Nat /\ Ids = 1 .. Len(revisions) /\ Ids' = 1 .. new
      /\ \A i \in Ids : revisions'[i] = revisions[i]
      /\ revisions'[new] = row
  BY <1>1, <1>2, Inserted DEF LedgerInv
<1>4. new = Len(revisions) + 1
  OBVIOUS
<1> HIDE DEF new
<1>5. new \in Nat /\ new # 0 /\ new \in Ids' /\ new \notin Ids /\ new \in Accepted'
  BY <1>2, <1>3, <1>4 DEF Accepted
<1>6. \A i \in Ids : i \in Ids' /\ (i \in Accepted => i \in Accepted')
  BY <1>3, <1>4 DEF Accepted
<1>7. \A i \in Ids' : i \in Ids \/ i = new
  BY <1>3, <1>4
<1>8. /\ imported' \in [1 .. Remotes -> Nat]
      /\ \A n \in 1 .. Remotes : imported'[n] = IF n = r THEN new ELSE imported[n]
  BY <1>1, <1>2, <1>5 DEF ImportInv
<1>9. ImportsPlanned'
  BY <1>1, InsertsAndRests
<1>10. ImportedAsAccepted'
  <2>1. \A n \in 1 .. Remotes : imported[n] # 0 =>
           imported[n] \in Accepted /\ imported[n] \in Ids
           /\ revisions[imported[n]].from = "import"
           /\ revisions[imported[n]].state = RemoteState[n]
    BY DEF ImportInv, ImportedAsAccepted, Accepted
  <2>2. \A n \in 1 .. Remotes : imported'[n] # 0 =>
           imported'[n] \in Accepted' /\ revisions'[imported'[n]].from = "import"
           /\ revisions'[imported'[n]].state = RemoteState[n]
    BY <1>2, <1>3, <1>5, <1>6, <1>8, <2>1
  <2>3. ASSUME NEW i \in Ids', revisions'[i].from = "import"
        PROVE  \E n \in 1 .. Remotes : imported'[n] = i
    <3>1. CASE i = new
      BY <1>2, <1>8, <3>1
    <3>2. CASE i # new
      <4>1. i \in Ids /\ revisions[i].from = "import" /\ i # 0
        BY <1>3, <1>7, <2>3, <3>2
      <4>2. PICK n \in 1 .. Remotes : imported[n] = i
        BY <4>1 DEF ImportInv, ImportedAsAccepted
      <4>3. n # r
        BY <1>1, <4>1, <4>2
      <4>4. QED BY <1>8, <4>2, <4>3
    <3>3. QED BY <3>1, <3>2
  <2>4. \A m, n \in 1 .. Remotes : imported'[m] = imported'[n] /\ imported'[m] # 0 => m = n
    BY <1>5, <1>8, <2>1 DEF ImportInv, ImportedAsAccepted
  <2>5. QED BY <2>2, <2>3, <2>4 DEF ImportedAsAccepted
<1>11. QED BY <1>8, <1>9, <1>10 DEF ImportInv

\* Every step of every worker keeps the imports as the Hub has accepted them.
LEMMA ImportsStep ==
  ASSUME LedgerInv, ImportInv, [LedgerNext]_ledgerVars
  PROVE  ImportInv'
<1>1. CASE UNCHANGED ledgerVars
  BY <1>1 DEF ledgerVars, ImportInv, ImportsPlanned, ImportedAsAccepted, Ids, Accepted
<1>2. CASE LedgerNext
  <2>1. PICK w \in Workers :
          \/ \E t \in Transfers : Ingest(w, t) \/ (\E c \in Cells : Capture(w, t, c))
          \/ \E n \in 1 .. Remotes : Import(w, n)
          \/ \E c \in Cells, b \in Contents : CliCapture(w, c, b)
          \/ PutTransfer(w) \/ Clean(w) \/ Commit(w) \/ CommitImport(w) \/ CliPut(w)
          \/ Stop(w)
    BY <1>2 DEF LedgerNext
  <2>2. CASE \E t \in Transfers : Ingest(w, t)
    BY <2>2, QuietImports DEF Ingest
  <2>3. CASE \E t \in Transfers : \E c \in Cells : Capture(w, t, c)
    <3>1. PICK t \in Transfers, c \in Cells : Capture(w, t, c)
      BY <2>3
    <3>2. PICK next : Turn(w, next) /\ next.at = "capture"
      BY <3>1 DEF Capture
    <3>3. QED BY <3>1, <3>2, QuietImports DEF Capture
  <2>4. CASE \E n \in 1 .. Remotes : Import(w, n)
    <3>1. PICK n \in 1 .. Remotes : Import(w, n)
      BY <2>4
    <3>2. PICK next : Turn(w, next) /\ next.remote = n /\ next.state = RemoteState[n]
      BY <3>1 DEF Import
    <3>3. QED BY <3>1, <3>2, QuietImports DEF Import
  <2>5. CASE \E c \in Cells, b \in Contents : CliCapture(w, c, b)
    <3>1. PICK c \in Cells, b \in Contents : CliCapture(w, c, b)
      BY <2>5
    <3>2. PICK next : Turn(w, next) /\ next.at = "cli"
      BY <3>1 DEF CliCapture
    <3>3. QED BY <3>1, <3>2, QuietImports DEF CliCapture
  <2>6. CASE PutTransfer(w)
    <3>1. PICK o : o = op[w]
      OBVIOUS
    <3>2. o = [at |-> "ingest", transfer |-> o.transfer]
      <4>1. Planned(o, Len(revisions), cas, ingested) /\ o.at = "ingest"
        BY <2>6, <3>1 DEF LedgerInv, Plans, PutTransfer
      <4>2. QED BY <4>1 DEF Planned, Idle
    <3>3. Turn(w, [o EXCEPT !.at = "clean"]) /\ [o EXCEPT !.at = "clean"].at # "import"
      BY <2>6, <3>1, <3>2 DEF PutTransfer
    <3>4. QED BY <2>6, <3>3, QuietImports DEF PutTransfer
  <2>7. CASE Clean(w) \/ Stop(w)
    <3>1. Turn(w, Idle) /\ UNCHANGED <<revisions, imported>> /\ Idle.at # "import"
      BY <2>7 DEF Clean, Stop, Idle
    <3>2. QED BY <3>1, QuietImports
  <2>8. CASE Commit(w) \/ CliPut(w)
    BY <2>8, OtherRevisions DEF Commit, InsertCapture, CliPut
  <2>9. CASE CommitImport(w)
    BY <2>9, ImportCommits
  <2>10. QED BY <2>1, <2>2, <2>3, <2>4, <2>5, <2>6, <2>7, <2>8, <2>9
<1>3. QED BY <1>1, <1>2

\* Nothing is imported in an empty ledger.
LEMMA InitialImports == LedgerInit => ImportInv
<1> SUFFICES ASSUME LedgerInit PROVE ImportInv
  OBVIOUS
<1>1. Ids = {} /\ \A n \in 1 .. Remotes : imported[n] = 0
  BY DEF LedgerInit, Ids
<1>2. QED BY <1>1 DEF LedgerInit, ImportInv, ImportsPlanned, ImportedAsAccepted, Idle

\* The invariant of the imports holds.
LEMMA ImportInvHolds == LedgerSpec => []ImportInv
BY InitialImports, ImportsStep, LedgerInvHolds, PTL DEF LedgerSpec

\* A Hub revision is imported once and as the Hub has accepted it, although its state is put
\* together before the transaction and others may import it meanwhile (core.rs:1199-1216).
THEOREM ImportedAsAcceptedHolds == LedgerSpec => []ImportedAsAccepted
<1>1. ImportInv => ImportedAsAccepted
  BY DEF ImportInv
<1>2. QED BY <1>1, ImportInvHolds, PTL

-----------------------------------------------------------------------------
\* What the types add: bytes, files and parents that exist.
Existing ==
    /\ cas \subseteq Contents /\ quarantine \subseteq Transfers
    /\ \A i \in Ids : revisions[i].parent \in 0 .. (i - 1)

\* Every step of every worker adds only bytes, files and parents that exist.
LEMMA ExistingStep ==
  ASSUME LedgerInv, ImportInv, Existing, [LedgerNext]_ledgerVars
  PROVE  Existing'
<1>1. CASE UNCHANGED ledgerVars
  BY <1>1 DEF ledgerVars, transfersVars, Existing, Ids
<1>2. CASE LedgerNext
  <2>1. PICK w \in Workers :
          \/ \E t \in Transfers : Ingest(w, t) \/ (\E c \in Cells : Capture(w, t, c))
          \/ \E n \in 1 .. Remotes : Import(w, n)
          \/ \E c \in Cells, b \in Contents : CliCapture(w, c, b)
          \/ PutTransfer(w) \/ Clean(w) \/ Commit(w) \/ CommitImport(w) \/ CliPut(w)
          \/ Stop(w)
    BY <1>2 DEF LedgerNext
  <2>2. CASE \E t \in Transfers : Ingest(w, t)
    <3>1. \A t \in Transfers : Bytes[t] \in Contents
      BY LedgerAssumption
    <3>2. QED BY <2>2, <3>1 DEF Ingest, transfersVars, Existing, Ids
  <2>3. CASE \E n \in 1 .. Remotes : Import(w, n)
    <3>1. PICK n \in 1 .. Remotes : Import(w, n)
      BY <2>3
    <3>2. PICK fetched \in SUBSET Cells :
            cas' = cas \cup ({RemoteState[n][c] : c \in fetched} \ {Absent})
      BY <3>1 DEF Import
    <3>3. \A c \in Cells : RemoteState[n][c] \in Contents \cup {Absent}
      BY LedgerAssumption DEF States
    <3>4. cas' \subseteq Contents
      BY <3>2, <3>3 DEF Existing
    <3>5. UNCHANGED <<revisions, quarantine>>
      BY <3>1 DEF Import, transfersVars
    <3>6. QED BY <3>4, <3>5 DEF Existing, Ids
  <2>4. CASE \E c \in Cells, b \in Contents : CliCapture(w, c, b)
    BY <2>4 DEF CliCapture, transfersVars, Existing, Ids
  <2>5. CASE \/ \E t \in Transfers : \E c \in Cells : Capture(w, t, c)
             \/ PutTransfer(w) \/ Clean(w) \/ Stop(w)
    <3>1. cas' = cas /\ quarantine' \subseteq quarantine /\ revisions' = revisions
      BY <2>5, Zenon DEF Capture, PutTransfer, Clean, Stop, transfersVars
    <3>2. QED BY <3>1 DEF Existing, Ids
  <2>6. CASE Commit(w) \/ CommitImport(w) \/ CliPut(w)
    <3> DEFINE row == Revision(op[w])
               new == Len(revisions) + 1
    <3>1. /\ op[w].at \in {"capture", "import", "cli"}
          /\ revisions' = Append(revisions, row) /\ cas' = cas /\ quarantine' = quarantine
      BY <2>6 DEF Commit, InsertCapture, CommitImport, CliPut, transfersVars
    <3>2. row \in RevisionRow /\ row.parent \in 0 .. Len(revisions)
      BY <3>1, InsertedRow
    <3> HIDE DEF row
    <3>3. /\ Len(revisions) \in Nat /\ Ids = 1 .. Len(revisions) /\ Ids' = 1 .. new
          /\ \A i \in Ids : revisions'[i] = revisions[i]
          /\ revisions'[new] = row
      BY <3>1, <3>2, Inserted DEF LedgerInv
    <3>4. ASSUME NEW i \in Ids' PROVE revisions'[i].parent \in 0 .. (i - 1)
      <4>1. CASE i = new
        BY <3>2, <3>3, <4>1
      <4>2. CASE i # new
        <5>1. i \in Ids
          BY <3>3, <4>2
        <5>2. QED BY <3>3, <5>1 DEF Existing
      <4>3. QED BY <4>1, <4>2
    <3>5. QED BY <3>1, <3>4 DEF Existing
  <2>7. QED BY <2>1, <2>2, <2>3, <2>4, <2>5, <2>6
<1>3. QED BY <1>1, <1>2

\* The tables of the ledger keep their types: a revision's parent is one before it, the head
\* row names an accepted one, and every receipt an existing one (core.rs:1094, 1227).
THEOREM LedgerTypeCorrect == LedgerSpec => []LedgerTypeOK
<1>1. LedgerInit => Existing
  BY DEF LedgerInit, Existing, Ids
<1>2. LedgerSpec => []Existing
  BY <1>1, ExistingStep, LedgerInvHolds, ImportInvHolds, PTL DEF LedgerSpec
<1>3. LedgerInv /\ ImportInv /\ Existing => LedgerTypeOK
  <2> SUFFICES ASSUME LedgerInv, ImportInv, Existing PROVE LedgerTypeOK
    OBVIOUS
  <2>1. ASSUME NEW i \in Ids PROVE revisions[i].state \in States
    <3>1. revisions \in Seq(RevisionRow) /\ i \in 1 .. Len(revisions)
      BY LenProperties DEF LedgerInv, LedgerTypes, Ids
    <3>2. revisions[i] \in RevisionRow
      BY <3>1, ElementOfSeq
    <3>3. QED BY <3>2 DEF RevisionRow
  <2>2. head \in Accepted \cup {0}
    BY DEF LedgerInv, HeadEnds, Line
  <2>3. captured \in [Transfers -> Ids \cup {0}]
    BY DEF LedgerInv, LedgerTypes, CapturesCounted
  <2>4. imported \in [1 .. Remotes -> Ids \cup {0}]
    BY DEF ImportInv, ImportedAsAccepted, Accepted
  <2>5. QED BY <2>1, <2>2, <2>3, <2>4 DEF LedgerTypeOK, Existing, LedgerInv, LedgerTypes
<1>4. QED BY <1>2, <1>3, LedgerInvHolds, ImportInvHolds, PTL

-----------------------------------------------------------------------------
(***************************************************************************)
(* Releases                                                                *)
(***************************************************************************)

\* What a process may be doing.
IsDoing(d) ==
    \/ d = Free
    \/ \E s \in {"preflight", "publish", "record"}, r \in Releases : d = Step(s, r)
    \/ \E s \in {"read", "write"}, r \in Releases : \E m \in Legal : d = Move(s, r, m[1], m[2])

\* A process records a receipt only after an answer with a version, and turns to "published"
\* only after it has recorded it.
Justified(d, answers, receipts) ==
    /\ IsDoing(d)
    /\ d.at = "record" => d.release \in answers
    /\ d.at \in {"read", "write"} /\ d.to = "published" => receipts[Bundle[d.release]] = d.release

ReceiptsTrue ==
    \A a \in Artifacts : receipt[a] # None => receipt[a] \in answered /\ Bundle[receipt[a]] = a

Tables ==
    /\ status \in [Releases -> ReleaseStatuses \cup {None}]
    /\ receipt \in [Artifacts -> Releases \cup {None}]
    /\ versions \in [Releases -> Nat]
    /\ answered \subseteq {r \in Releases : versions[r] > 0}
    /\ DOMAIN doing = Operators /\ doing = [o \in Operators |-> doing[o]]

Processes == \A o \in Operators : Justified(doing[o], answered, receipt)

Recorded == \A r \in Releases : status[r] = "published" => receipt[Bundle[r]] = r

ReleasesInv == Tables /\ ReceiptsTrue /\ Processes /\ Recorded

-----------------------------------------------------------------------------
\* A process that reads or writes a status is on a legal transition of a release.
LEMMA MoveFields ==
  ASSUME NEW d, IsDoing(d), d.at \in {"read", "write"}
  PROVE  /\ d.release \in Releases /\ <<d.from, d.to>> \in Legal
         /\ d = Move(d.at, d.release, d.from, d.to)
<1>1. PICK s \in {"read", "write"}, r \in Releases : \E m \in Legal : d = Move(s, r, m[1], m[2])
  BY DEF IsDoing, Free, Step
<1>2. PICK m \in Legal : d = Move(s, r, m[1], m[2])
  BY <1>1
<1>3. m = <<m[1], m[2]>>
  BY DEF Legal
<1>4. QED BY <1>2, <1>3 DEF Move

\* A process that checks, publishes or records does so for a release.
LEMMA StepFields ==
  ASSUME NEW d, IsDoing(d), d.at \in {"preflight", "publish", "record"}
  PROVE  d.release \in Releases
BY DEF IsDoing, Free, Step, Move

\* A step that needs an answer is justified by it.
LEMMA Intended ==
  ASSUME NEW s \in {"preflight", "publish", "record"}, NEW r \in Releases,
         NEW answers, NEW receipts, s = "record" => r \in answers
  PROVE  Justified(Step(s, r), answers, receipts)
<1>1. IsDoing(Step(s, r))
  BY DEF IsDoing
<1>2. QED BY <1>1 DEF Justified, Step

\* A transition to published is justified by the receipt.
LEMMA IntendedMove ==
  ASSUME NEW s \in {"read", "write"}, NEW r \in Releases, NEW from, NEW to,
         <<from, to>> \in Legal,
         NEW answers, NEW receipts, to = "published" => receipts[Bundle[r]] = r
  PROVE  Justified(Move(s, r, from, to), answers, receipts)
<1>1. IsDoing(Move(s, r, from, to))
  <2> DEFINE m == <<from, to>>
  <2>1. m \in Legal /\ m[1] = from /\ m[2] = to
    OBVIOUS
  <2> HIDE DEF m
  <2>2. QED BY <2>1 DEF IsDoing
<1>2. QED BY <1>1 DEF Justified, Move

\* A process that does nothing needs no justification.
LEMMA FreeIsJustified ==
  ASSUME NEW answers, NEW receipts
  PROVE  Justified(Free, answers, receipts)
BY DEF Justified, IsDoing, Free

\* Receipts stay and answers grow: what another process intends stays justified.
LEMMA OthersStay ==
  ASSUME Tables, Processes, NEW o \in Operators, NEW next, Continue(o, next),
         Justified(next, answered', receipt'), answered \subseteq answered',
         \A a \in Artifacts : receipt[a] # None => receipt'[a] = receipt[a]
  PROVE  /\ DOMAIN doing' = Operators /\ doing' = [p \in Operators |-> doing'[p]]
         /\ Processes'
<1>1. /\ DOMAIN doing' = Operators /\ doing' = [p \in Operators |-> doing'[p]]
      /\ \A p \in Operators : doing'[p] = IF p = o THEN next ELSE doing[p]
  BY DEF Tables, Continue
<1>2. ASSUME NEW p \in Operators PROVE Justified(doing'[p], answered', receipt')
  <2>1. CASE p = o
    BY <1>1, <2>1
  <2>2. CASE p # o
    <3> DEFINE d == doing[p]
    <3>1. doing'[p] = d /\ Justified(d, answered, receipt)
      BY <1>1, <2>2 DEF Processes
    <3> HIDE DEF d
    <3>2. ASSUME d.at \in {"read", "write"}, d.to = "published"
          PROVE  receipt'[Bundle[d.release]] = d.release
      <4>1. d.release \in Releases /\ receipt[Bundle[d.release]] = d.release
        BY <3>1, <3>2, MoveFields DEF Justified
      <4>2. Bundle[d.release] \in Artifacts /\ d.release # None
        BY <4>1, ReleasesAssumption
      <4>3. QED BY <4>1, <4>2
    <3>3. QED BY <3>1, <3>2 DEF Justified
  <2>3. QED BY <2>1, <2>2
<1>3. QED BY <1>1, <1>2 DEF Processes

\* A ledger without releases satisfies the invariant.
LEMMA InitialReleases == ReleasesInit => ReleasesInv
<1> SUFFICES ASSUME ReleasesInit PROVE ReleasesInv
  OBVIOUS
<1>1. Tables
  BY DEF ReleasesInit, Tables
<1>2. Processes
  BY FreeIsJustified DEF ReleasesInit, Processes
<1>3. ReceiptsTrue /\ Recorded
  BY DEF ReleasesInit, ReceiptsTrue, Recorded, None
<1>4. QED BY <1>1, <1>2, <1>3 DEF ReleasesInv

\* Steps that change nothing but what a process is doing.
LEMMA IntentionStep ==
  ASSUME ReleasesInv, NEW o \in Operators, NEW next, Continue(o, next),
         UNCHANGED <<status, receipt, versions, answered>>,
         Justified(next, answered, receipt)
  PROVE  ReleasesInv'
<1>1. Tables' /\ Processes'
  <2>1. /\ DOMAIN doing' = Operators /\ doing' = [p \in Operators |-> doing'[p]]
        /\ Processes'
    BY OthersStay DEF ReleasesInv
  <2>2. QED BY <2>1 DEF ReleasesInv, Tables
<1>2. ReceiptsTrue' /\ Recorded'
  BY DEF ReleasesInv, ReceiptsTrue, Recorded
<1>3. QED BY <1>1, <1>2 DEF ReleasesInv

\* A new release awaits its approval or has it.
LEMMA CreateStep ==
  ASSUME ReleasesInv, NEW r \in Releases, Create(r)
  PROVE  ReleasesInv'
<1>1. PICK s \in {"awaiting", "approved"} : status' = [status EXCEPT ![r] = s]
  BY DEF Create
<1>2. UNCHANGED <<receipt, versions, answered, doing>>
  BY DEF Create
<1>3. Tables' /\ Recorded'
  BY <1>1, <1>2 DEF ReleasesInv, Tables, Recorded, ReleaseStatuses
<1>4. ReceiptsTrue' /\ Processes'
  BY <1>2 DEF ReleasesInv, ReceiptsTrue, Processes
<1>5. QED BY <1>3, <1>4 DEF ReleasesInv

\* A process begins with what it has to check.
LEMMA StartStep ==
  ASSUME ReleasesInv, NEW o \in Operators, NEW r \in Releases, Start(o, r)
  PROVE  ReleasesInv'
<1>1. UNCHANGED <<status, receipt, versions, answered>>
  BY DEF Start
<1>2. CASE Continue(o, Move("read", r, "approved", "preflighting"))
  <2>1. Justified(Move("read", r, "approved", "preflighting"), answered, receipt)
    BY IntendedMove DEF Legal
  <2>2. QED BY <1>1, <1>2, <2>1, IntentionStep
<1>3. CASE Continue(o, Step("preflight", r))
  <2>1. Justified(Step("preflight", r), answered, receipt)
    BY Intended
  <2>2. QED BY <1>1, <1>3, <2>1, IntentionStep
<1>4. QED BY <1>2, <1>3 DEF Start

\* A transition that was read is legal.
LEMMA ReadStep ==
  ASSUME ReleasesInv, NEW o \in Operators, Read(o)
  PROVE  ReleasesInv'
<1> DEFINE d == doing[o]
<1>1. UNCHANGED <<status, receipt, versions, answered>> /\ d.at = "read"
  BY DEF Read
<1>2. Justified(d, answered, receipt)
  BY DEF ReleasesInv, Processes
<1>3. CASE Continue(o, [d EXCEPT !.at = "write"])
  <2>1. /\ d.release \in Releases /\ <<d.from, d.to>> \in Legal
        /\ d = Move("read", d.release, d.from, d.to)
        /\ d.to = "published" => receipt[Bundle[d.release]] = d.release
    <3> HIDE DEF d
    <3>1. QED BY <1>1, <1>2, MoveFields DEF Justified
  <2>2. [d EXCEPT !.at = "write"] = Move("write", d.release, d.from, d.to)
    <3> HIDE DEF d
    <3>1. QED BY <2>1 DEF Move
  <2>3. Justified(Move("write", d.release, d.from, d.to), answered, receipt)
    <3> HIDE DEF d
    <3>1. QED BY <2>1, IntendedMove
  <2>4. QED BY <1>1, <1>3, <2>2, <2>3, IntentionStep
<1>4. CASE Continue(o, Free)
  BY <1>1, <1>4, FreeIsJustified, IntentionStep
<1>5. QED BY <1>3, <1>4 DEF Read

\* A process that has checked intends to publish.
LEMMA PreflightStep ==
  ASSUME ReleasesInv, NEW o \in Operators, Preflight(o)
  PROVE  ReleasesInv'
<1> DEFINE r == doing[o].release
<1>1. UNCHANGED <<status, receipt, versions, answered>> /\ doing[o].at = "preflight"
  BY DEF Preflight
<1>2. r \in Releases
  BY <1>1, StepFields DEF ReleasesInv, Processes, Justified
<1>3. CASE Continue(o, Move("read", r, "preflighting", "publishing"))
  <2>1. Justified(Move("read", r, "preflighting", "publishing"), answered, receipt)
    BY <1>2, IntendedMove DEF Legal
  <2>2. QED BY <1>1, <1>3, <2>1, IntentionStep
<1>4. CASE Continue(o, Free)
  BY <1>1, <1>4, FreeIsJustified, IntentionStep
<1>5. QED BY <1>3, <1>4 DEF Preflight

\* A transition is written over the status that was read, or lost.
LEMMA WriteStep ==
  ASSUME ReleasesInv, NEW o \in Operators, Write(o)
  PROVE  ReleasesInv'
<1> DEFINE d == doing[o]
           r == d.release
<1>1. /\ d.at = "write" /\ UNCHANGED <<receipt, versions, answered>>
      /\ status' = [status EXCEPT ![r] = IF @ = d.from THEN d.to ELSE @]
      /\ Continue(o, After(d))
  BY DEF Write
<1>2. Justified(d, answered, receipt)
  BY DEF ReleasesInv, Processes
<1> HIDE DEF d
<1>3. /\ r \in Releases /\ <<d.from, d.to>> \in Legal
      /\ d.to = "published" => receipt[Bundle[r]] = r
  BY <1>1, <1>2, MoveFields DEF Justified
<1>4. Justified(After(d), answered', receipt')
  <2>1. CASE d.to = "preflighting"
    BY <1>3, <2>1, Intended DEF After
  <2>2. CASE d.to = "publishing"
    BY <1>3, <2>2, Intended DEF After
  <2>3. CASE d.to # "preflighting" /\ d.to # "publishing"
    BY <2>3, FreeIsJustified DEF After
  <2>4. QED BY <2>1, <2>2, <2>3
<1>5. Tables' /\ Processes'
  <2>1. /\ DOMAIN doing' = Operators /\ doing' = [p \in Operators |-> doing'[p]]
        /\ Processes'
    BY <1>1, <1>4, OthersStay DEF ReleasesInv
  <2>2. status' \in [Releases -> ReleaseStatuses \cup {None}]
    BY <1>1, <1>3 DEF ReleasesInv, Tables, Legal, ReleaseStatuses
  <2>3. QED BY <1>1, <2>1, <2>2 DEF ReleasesInv, Tables
<1>6. Recorded'
  BY <1>1, <1>3 DEF ReleasesInv, Tables, Recorded
<1>7. ReceiptsTrue'
  BY <1>1 DEF ReleasesInv, ReceiptsTrue
<1>8. QED BY <1>5, <1>6, <1>7 DEF ReleasesInv

\* Each answer of the provider justifies what the process does next.
LEMMA PublishStep ==
  ASSUME ReleasesInv, NEW o \in Operators, Publish(o)
  PROVE  ReleasesInv'
<1> DEFINE r == doing[o].release
           Next(answer) == CASE answer = "version" -> Step("record", r)
                             [] answer = "ambiguous" -> Move("read", r, "publishing", "unknown")
                             [] OTHER -> Move("read", r, "publishing", "failed")
<1>1. PICK answer \in Answers, created \in {0, 1} :
        /\ answer \in {"version", "unreadable"} => created = 1
        /\ versions' = [versions EXCEPT ![r] = @ + created]
        /\ answered' = IF answer = "version" THEN answered \cup {r} ELSE answered
        /\ Continue(o, Next(answer))
  BY DEF Publish
<1>2. UNCHANGED <<status, receipt>> /\ doing[o].at = "publish"
  BY DEF Publish
<1>3. r \in Releases
  BY <1>2, StepFields DEF ReleasesInv, Processes, Justified
<1> HIDE DEF r
<1>4. Justified(Next(answer), answered', receipt')
  <2>1. CASE answer = "version"
    BY <1>1, <1>3, <2>1, Intended
  <2>2. CASE answer = "ambiguous"
    BY <1>3, <2>2, IntendedMove DEF Legal
  <2>3. CASE answer # "version" /\ answer # "ambiguous"
    BY <1>3, <2>3, IntendedMove DEF Legal
  <2>4. QED BY <2>1, <2>2, <2>3
<1>5. /\ versions' \in [Releases -> Nat]
      /\ \A x \in Releases : versions[x] > 0 => versions'[x] > 0
      /\ created = 1 => versions'[r] > 0
  BY <1>1, <1>3 DEF ReleasesInv, Tables
<1>6. answered \subseteq answered' /\ answered' \subseteq {x \in Releases : versions'[x] > 0}
  BY <1>1, <1>3, <1>5 DEF ReleasesInv, Tables
<1>7. Tables' /\ Processes'
  <2> HIDE DEF Next
  <2>1. /\ DOMAIN doing' = Operators /\ doing' = [p \in Operators |-> doing'[p]]
        /\ Processes'
    BY <1>1, <1>2, <1>4, <1>6, OthersStay DEF ReleasesInv
  <2>2. QED BY <1>2, <1>5, <1>6, <2>1 DEF ReleasesInv, Tables
<1>8. ReceiptsTrue' /\ Recorded'
  BY <1>2, <1>6 DEF ReleasesInv, ReceiptsTrue, Recorded
<1>9. QED BY <1>7, <1>8 DEF ReleasesInv

\* The receipt is recorded once for its artifact.
LEMMA RecordStep ==
  ASSUME ReleasesInv, NEW o \in Operators, Record(o)
  PROVE  ReleasesInv'
<1> DEFINE r == doing[o].release
<1>1. UNCHANGED <<status, versions, answered>> /\ doing[o].at = "record"
  BY DEF Record
<1>2. r \in Releases /\ r \in answered
  BY <1>1, StepFields DEF ReleasesInv, Processes, Justified
<1>3. CASE /\ receipt[Bundle[r]] = None
           /\ receipt' = [receipt EXCEPT ![Bundle[r]] = r]
           /\ Continue(o, Move("read", r, "publishing", "published"))
  <2> HIDE DEF r
  <2>1. Bundle[r] \in Artifacts
    BY <1>2, ReleasesAssumption
  <2>2. /\ receipt' \in [Artifacts -> Releases \cup {None}]
        /\ receipt'[Bundle[r]] = r
        /\ \A a \in Artifacts : receipt'[a] = receipt[a] \/ (a = Bundle[r] /\ receipt[a] = None)
    BY <1>2, <1>3, <2>1 DEF ReleasesInv, Tables
  <2>3. Justified(Move("read", r, "publishing", "published"), answered', receipt')
    BY <1>2, <2>2, IntendedMove DEF Legal
  <2>4. /\ DOMAIN doing' = Operators /\ doing' = [p \in Operators |-> doing'[p]]
        /\ Processes'
    BY <1>1, <1>3, <2>2, <2>3, OthersStay DEF ReleasesInv
  <2>5. Tables'
    BY <1>1, <2>2, <2>4 DEF ReleasesInv, Tables
  <2>6. ReceiptsTrue'
    BY <1>1, <1>2, <2>2 DEF ReleasesInv, ReceiptsTrue
  <2>7. Recorded'
    <3>1. ASSUME NEW x \in Releases, status[x] = "published" PROVE receipt'[Bundle[x]] = x
      <4>1. receipt[Bundle[x]] = x /\ x # None /\ Bundle[x] \in Artifacts
        BY <3>1, ReleasesAssumption DEF ReleasesInv, Recorded
      <4>2. QED BY <2>2, <4>1
    <3>2. QED BY <1>1, <3>1 DEF Recorded
  <2>8. QED BY <2>4, <2>5, <2>6, <2>7 DEF ReleasesInv
<1>4. CASE Continue(o, Free) /\ receipt' = receipt
  BY <1>1, <1>4, FreeIsJustified, IntentionStep
<1>5. QED BY <1>3, <1>4 DEF Record

\* A process that is killed intends nothing.
LEMMA KillStep ==
  ASSUME ReleasesInv, NEW o \in Operators, Kill(o)
  PROVE  ReleasesInv'
BY FreeIsJustified, IntentionStep DEF Kill

\* Every step of every process keeps the invariant.
LEMMA ReleasesStep == ReleasesInv /\ [ReleasesNext]_releaseVars => ReleasesInv'
<1> SUFFICES ASSUME ReleasesInv, [ReleasesNext]_releaseVars PROVE ReleasesInv'
  OBVIOUS
<1>1. CASE \E r \in Releases : Create(r)
  BY <1>1, CreateStep
<1>2. CASE \E o \in Operators : Work(o)
  BY <1>2, StartStep, ReadStep, WriteStep, PreflightStep, PublishStep, RecordStep DEF Work
<1>3. CASE \E o \in Operators : Kill(o)
  BY <1>3, KillStep
<1>4. CASE UNCHANGED releaseVars
  BY <1>4 DEF releaseVars, ReleasesInv, Tables, ReceiptsTrue, Processes, Recorded
<1>5. QED BY <1>1, <1>2, <1>3, <1>4 DEF ReleasesNext

\* The invariant of the releases holds.
LEMMA ReleasesInvHolds == ReleasesSpec => []ReleasesInv
BY InitialReleases, ReleasesStep, PTL DEF ReleasesSpec

-----------------------------------------------------------------------------
\* Whatever processes race for a release, whichever of their transitions are lost and
\* whichever are killed, a published release has a version and the receipt of its artifact
\* (neuman_cli.rs:896).
THEOREM PublishedHasReceiptHolds == ReleasesSpec => []PublishedHasReceipt
<1>1. ReleasesInv => PublishedHasReceipt
  <2> SUFFICES ASSUME ReleasesInv, NEW r \in Releases, status[r] = "published"
               PROVE  versions[r] > 0 /\ receipt[Bundle[r]] = r
    BY DEF PublishedHasReceipt
  <2>1. receipt[Bundle[r]] = r /\ r # None /\ Bundle[r] \in Artifacts
    BY ReleasesAssumption DEF ReleasesInv, Recorded
  <2>2. r \in answered
    BY <2>1 DEF ReleasesInv, ReceiptsTrue
  <2>3. QED BY <2>1, <2>2 DEF ReleasesInv, Tables
<1>2. QED BY <1>1, ReleasesInvHolds, PTL
-----------------------------------------------------------------------------
\* The tables of the releases keep their types: every receipt is that of an answered release
\* of its artifact, and every process is on a legal transition (core.rs:1392).
THEOREM LocalReleasesTypeCorrect == ReleasesSpec => []ReleasesTypeOK
<1>1. ReleasesInv => ReleasesTypeOK
  <2> SUFFICES ASSUME ReleasesInv PROVE ReleasesTypeOK
    OBVIOUS
  <2>1. \A o \in Operators : doing[o].at \in {"read", "write"} => <<doing[o].from, doing[o].to>> \in Legal
    BY MoveFields DEF ReleasesInv, Processes, Justified
  <2>2. QED BY <2>1 DEF ReleasesInv, Tables, ReceiptsTrue, ReleasesTypeOK
<1>2. QED BY <1>1, ReleasesInvHolds, PTL

\* A lost race never takes a status back: whoever writes, the status takes a legal step or
\* stays, although the UPDATE's row count is ignored (core.rs:1392, 1421).
THEOREM StatusFollowsTransitionsHolds == ReleasesSpec => StatusFollowsTransitions
<1> DEFINE Follows == \A r \in Releases : status[r] # None /\ status'[r] # status[r] =>
                          <<status[r], status'[r]>> \in Legal
<1>1. ASSUME ReleasesInv, [ReleasesNext]_releaseVars PROVE Follows
  <2>1. CASE \E o \in Operators : Write(o)
    <3>1. PICK o \in Operators : Write(o)
      BY <2>1
    <3>2. PICK d : d = doing[o]
      OBVIOUS
    <3>3. /\ d.at = "write"
          /\ status' = [status EXCEPT ![d.release] = IF @ = d.from THEN d.to ELSE @]
      BY <3>1, <3>2 DEF Write
    <3>4. d.release \in Releases /\ <<d.from, d.to>> \in Legal
      <4>1. IsDoing(d)
        BY <1>1, <3>2 DEF ReleasesInv, Processes, Justified
      <4>2. QED BY <3>3, <4>1, MoveFields
    <3>5. status \in [Releases -> ReleaseStatuses \cup {None}]
      BY <1>1 DEF ReleasesInv, Tables
    <3>6. QED BY <3>3, <3>4, <3>5
  <2>2. CASE \E r \in Releases : Create(r)
    <3>1. PICK r \in Releases : Create(r)
      BY <2>2
    <3>2. \A x \in Releases : x # r => status'[x] = status[x]
      BY <1>1, <3>1 DEF Create, ReleasesInv, Tables
    <3>3. QED BY <3>1, <3>2 DEF Create
  <2>3. CASE status' = status
    BY <2>3
  <2>4. (\E o \in Operators : Write(o)) \/ (\E r \in Releases : Create(r)) \/ status' = status
    BY <1>1, Zenon DEF ReleasesNext, Work, Start, Read, Preflight, Publish, Record, Kill, releaseVars
  <2>5. QED BY <2>1, <2>2, <2>3, <2>4
<1>2. QED BY <1>1, ReleasesInvHolds, PTL DEF ReleasesSpec, StatusFollowsTransitions
=============================================================================
