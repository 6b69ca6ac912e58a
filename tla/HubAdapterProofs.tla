-------------------------- MODULE HubAdapterProofs --------------------------
(***************************************************************************)
(* For all projects, objects and quotas, and wherever a process crashes:   *)
(* what a project may read has its bytes, it may read exactly what it has  *)
(* transferred itself, a transfer that is done gave it the object, the     *)
(* adapter's cursor leaves no event behind and its head follows the Hub's, *)
(* a page leaves out no event, and the newest event of a project arrives   *)
(* at its event socket.  The publishers only do to the store, and the      *)
(* adapter and the requests to the outbox, what those allow.               *)
(***************************************************************************)
EXTENDS HubTransfer, HubFeed, HubStream, SequenceTheorems, FiniteSetTheorems,
        WellFoundedInduction, TLAPS

-----------------------------------------------------------------------------
(***************************************************************************)
(* The object store                                                        *)
(***************************************************************************)

\* TypeOK without the grants.
ObjectsType ==
    /\ uploads \in Seq(Upload)
    /\ objects \subseteq Hashes /\ cas \subseteq Hashes
    /\ refs \subseteq Projects \X Hashes
    /\ tmp \subseteq Uploads
    /\ now \in Nat

ObjectsInv ==
    /\ ObjectsType
    /\ AuthorizedBytesExist
    /\ RefIffTransferred

\* What stands between two states in which a project's uploads are the same but for
\* changes of status that complete none.
Kept ==
    /\ uploads' \in Seq(Upload) /\ Uploads \subseteq Uploads'
    /\ \A u \in Uploads :
         /\ uploads'[u].project = uploads[u].project /\ uploads'[u].hash = uploads[u].hash
         /\ uploads'[u].status = "completed" <=> uploads[u].status = "completed"
    /\ \A u \in Uploads' \ Uploads : uploads'[u].status # "completed"

\* References and uploads stay, whatever their status.
Grows ==
    /\ refs \subseteq refs' /\ Uploads \subseteq Uploads'
    /\ \A u \in Uploads : /\ uploads'[u].project = uploads[u].project
                         /\ uploads'[u].hash = uploads[u].hash

\* An empty store.
LEMMA InitialObjects == Init => ObjectsInv
<1> SUFFICES ASSUME Init PROVE ObjectsInv
  OBVIOUS
<1>1. uploads \in Seq(Upload) /\ Uploads = {}
  BY DEF Init, Uploads
<1>2. QED
  BY <1>1 DEF Init, ObjectsInv, ObjectsType, AuthorizedBytesExist, RefIffTransferred

\* A row's status is set, and nothing else of it.
LEMMA SetStatus ==
  ASSUME uploads \in Seq(Upload), NEW u \in Uploads,
         NEW s \in {"negotiated", "received", "completed", "expired"},
         uploads' = [uploads EXCEPT ![u].status = s]
  PROVE  /\ uploads' \in Seq(Upload) /\ Uploads' = Uploads
         /\ \A v \in Uploads : /\ uploads'[v].project = uploads[v].project
                              /\ uploads'[v].hash = uploads[v].hash
                              /\ uploads'[v].status = IF v = u THEN s ELSE uploads[v].status
<1> DEFINE e == [uploads[u] EXCEPT !.status = s]
<1>1. uploads[u] \in Upload
  BY DEF Uploads
<1>2. /\ e \in Upload /\ e.status = s
      /\ e.project = uploads[u].project /\ e.hash = uploads[u].hash
  BY <1>1 DEF Upload
<1>3. uploads' = [uploads EXCEPT ![u] = e]
  OBVIOUS
<1> HIDE DEF e
<1>4. /\ uploads' \in Seq(Upload) /\ Uploads' = Uploads
      /\ \A v \in Uploads : uploads'[v] = IF v = u THEN e ELSE uploads[v]
  BY <1>2, <1>3, ExceptSeq DEF Uploads
<1>5. QED BY <1>2, <1>4

\* Nothing is completed, no bytes are removed.
LEMMA KeptStep ==
  ASSUME ObjectsInv, Kept, UNCHANGED <<objects, refs>>, cas \subseteq cas', cas' \subseteq Hashes,
         tmp' \subseteq Uploads', now' \in Nat
  PROVE  ObjectsInv' /\ Grows
<1>1. ObjectsType' /\ AuthorizedBytesExist'
  BY DEF ObjectsInv, ObjectsType, AuthorizedBytesExist, Kept
<1>2. RefIffTransferred'
  <2>1. SUFFICES ASSUME NEW p \in Projects, NEW h \in Hashes
                 PROVE  <<p, h>> \in refs <=>
                          \E u \in Uploads' : /\ uploads'[u].project = p /\ uploads'[u].hash = h
                                             /\ uploads'[u].status = "completed"
    BY DEF RefIffTransferred
  <2>2. <<p, h>> \in refs <=>
          \E u \in Uploads : /\ uploads[u].project = p /\ uploads[u].hash = h
                            /\ uploads[u].status = "completed"
    BY DEF ObjectsInv, RefIffTransferred
  <2>3. ASSUME NEW u \in Uploads', uploads'[u].status = "completed"
        PROVE  u \in Uploads
    BY <2>3 DEF Kept
  <2>4. QED BY <2>2, <2>3 DEF Kept
<1>3. Grows
  BY DEF Kept, Grows
<1>4. QED BY <1>1, <1>2, <1>3 DEF ObjectsInv

\* The uploads stay as they are.
LEMMA Unchanged ==
  ASSUME ObjectsType, uploads' = uploads
  PROVE  Kept
BY DEF ObjectsType, Kept, Uploads

\* negotiate_upload
LEMMA NegotiateStep ==
  ASSUME ObjectsInv, NEW p \in Projects, NEW h \in Hashes, NegotiateUpload(p, h)
  PROVE  ObjectsInv' /\ Grows
<1> DEFINE e == [project |-> p, hash |-> h, status |-> "negotiated", expires |-> now + TransferTTL]
<1>1. uploads' = Append(uploads, e) /\ UNCHANGED <<objects, refs, tmp, cas, now>>
  BY DEF NegotiateUpload, files
<1>2. e \in Upload /\ e.status = "negotiated"
  BY ObjectsAssumption DEF ObjectsInv, ObjectsType, Upload
<1> HIDE DEF e
<1>3. uploads \in Seq(Upload) /\ now \in Nat
  BY DEF ObjectsInv, ObjectsType
<1>4. /\ uploads' \in Seq(Upload) /\ Uploads \subseteq Uploads'
      /\ \A u \in Uploads : uploads'[u] = uploads[u]
      /\ \A u \in Uploads' \ Uploads : uploads'[u] = e
  BY <1>1, <1>2, <1>3, AppendProperties, LenProperties DEF Uploads
<1>5. Kept
  BY <1>2, <1>4 DEF Kept
<1>6. QED BY <1>1, <1>3, <1>4, <1>5, KeptStep DEF ObjectsInv, ObjectsType

\* receive_upload
LEMMA ReceiveStep ==
  ASSUME ObjectsInv, NEW u \in Uploads, ReceiveUpload(u) \/ ReceiveCrash(u)
  PROVE  ObjectsInv' /\ Grows
<1>1. /\ uploads[u].status = "negotiated" /\ UNCHANGED <<objects, refs, cas, now>>
      /\ tmp' = tmp \cup {u}
      /\ uploads' = uploads \/ uploads' = [uploads EXCEPT ![u].status = "received"]
  BY DEF ReceiveUpload, ReceiveCrash, tables
<1>2. uploads \in Seq(Upload) /\ tmp \subseteq Uploads /\ now \in Nat /\ cas \subseteq Hashes
  BY DEF ObjectsInv, ObjectsType
<1>3. Kept
  <2>1. CASE uploads' = uploads
    BY <2>1, Unchanged DEF ObjectsInv
  <2>2. CASE uploads' = [uploads EXCEPT ![u].status = "received"]
    <3>1. /\ uploads' \in Seq(Upload) /\ Uploads' = Uploads
          /\ \A v \in Uploads :
               /\ uploads'[v].project = uploads[v].project /\ uploads'[v].hash = uploads[v].hash
               /\ uploads'[v].status = IF v = u THEN "received" ELSE uploads[v].status
      BY <1>2, <2>2, SetStatus
    <3>2. QED BY <1>1, <3>1 DEF Kept
  <2>3. QED BY <1>1, <2>1, <2>2
<1>4. tmp' \subseteq Uploads'
  BY <1>1, <1>2, <1>3 DEF Kept
<1>5. QED BY <1>1, <1>2, <1>3, <1>4, KeptStep

\* complete_upload: the bytes, the reference and the row go together.
LEMMA CompleteStep ==
  ASSUME ObjectsInv, NEW u \in Uploads, CompleteUpload(u) \/ CompleteCrash(u)
  PROVE  ObjectsInv' /\ Grows
<1> DEFINE h == uploads[u].hash
           p == uploads[u].project
<1>1. /\ cas' = cas \cup {h} /\ tmp' = tmp \ {u} /\ now' = now
      /\ \/ UNCHANGED <<objects, refs, uploads>>
         \/ /\ objects' = objects \cup {h} /\ refs' = refs \cup {<<p, h>>}
            /\ uploads' = [uploads EXCEPT ![u].status = "completed"]
  BY DEF CompleteUpload, CompleteCrash, Stored, tables
<1>2. /\ uploads \in Seq(Upload) /\ tmp \subseteq Uploads /\ now \in Nat
      /\ objects \subseteq Hashes /\ cas \subseteq Hashes /\ refs \subseteq Projects \X Hashes
  BY DEF ObjectsInv, ObjectsType
<1>3. h \in Hashes /\ p \in Projects
  <2>1. uploads[u] \in Upload
    BY <1>2 DEF Uploads
  <2>2. QED BY <2>1 DEF Upload
<1>4. CASE UNCHANGED <<objects, refs, uploads>>
  <2>1. Kept /\ tmp' \subseteq Uploads'
    BY <1>1, <1>2, <1>4, Unchanged DEF ObjectsInv, Uploads
  <2>2. cas \subseteq cas' /\ cas' \subseteq Hashes
    BY <1>1, <1>2, <1>3
  <2>3. QED BY <1>1, <1>2, <1>4, <2>1, <2>2, KeptStep
<1>5. CASE /\ objects' = objects \cup {h} /\ refs' = refs \cup {<<p, h>>}
           /\ uploads' = [uploads EXCEPT ![u].status = "completed"]
  <2>1. /\ uploads' \in Seq(Upload) /\ Uploads' = Uploads
        /\ \A v \in Uploads :
             /\ uploads'[v].project = uploads[v].project /\ uploads'[v].hash = uploads[v].hash
             /\ uploads'[v].status = IF v = u THEN "completed" ELSE uploads[v].status
    BY <1>2, <1>5, SetStatus
  <2>2. ObjectsType'
    BY <1>1, <1>2, <1>3, <1>5, <2>1 DEF ObjectsType
  <2>3. AuthorizedBytesExist'
    BY <1>1, <1>5 DEF ObjectsInv, AuthorizedBytesExist
  <2>4. RefIffTransferred'
    <3>1. SUFFICES ASSUME NEW q \in Projects, NEW g \in Hashes
                   PROVE  <<q, g>> \in refs' <=>
                            \E v \in Uploads : /\ uploads'[v].project = q
                                              /\ uploads'[v].hash = g
                                              /\ uploads'[v].status = "completed"
      BY <2>1 DEF RefIffTransferred
    <3>2. <<q, g>> \in refs <=>
            \E v \in Uploads : /\ uploads[v].project = q /\ uploads[v].hash = g
                              /\ uploads[v].status = "completed"
      BY DEF ObjectsInv, RefIffTransferred
    <3>3. CASE q = p /\ g = h
      BY <1>5, <2>1, <3>3
    <3>4. CASE ~(q = p /\ g = h)
      <4>1. <<q, g>> \in refs' <=> <<q, g>> \in refs
        BY <1>5, <3>4
      <4>2. QED BY <2>1, <3>2, <3>4, <4>1
    <3>5. QED BY <3>3, <3>4
  <2>5. Grows
    BY <1>5, <2>1 DEF Grows
  <2>6. QED BY <2>2, <2>3, <2>4, <2>5 DEF ObjectsInv
<1>6. QED BY <1>1, <1>4, <1>5

\* A sweep turns only what is pending to "expired".
LEMMA Swept ==
  ASSUME ObjectsInv, SweepTables
  PROVE  /\ Kept /\ Uploads' = Uploads /\ UNCHANGED <<objects, refs>>
<1> DEFINE e(u) == IF u \in Sweepable THEN [uploads[u] EXCEPT !.status = "expired"] ELSE uploads[u]
<1>1. uploads' = [u \in Uploads |-> e(u)] /\ UNCHANGED <<objects, refs>>
  BY DEF SweepTables
<1>2. uploads \in Seq(Upload) /\ Len(uploads) \in Nat /\ Uploads = 1 .. Len(uploads)
  BY LenProperties DEF ObjectsInv, ObjectsType, Uploads
<1>3. ASSUME NEW u \in Uploads
      PROVE  /\ e(u) \in Upload
             /\ e(u).project = uploads[u].project /\ e(u).hash = uploads[u].hash
             /\ e(u).status = "completed" <=> uploads[u].status = "completed"
  <2>1. uploads[u] \in Upload
    BY <1>2
  <2>2. CASE u \in Sweepable
    <3>1. uploads[u].status \in {"negotiated", "received"}
      BY <2>2 DEF Sweepable, Pending
    <3>2. QED BY <2>1, <2>2, <3>1 DEF Upload
  <2>3. CASE u \notin Sweepable
    BY <2>1, <2>3
  <2>4. QED BY <2>2, <2>3
<1> HIDE DEF e
<1>4. /\ uploads' \in Seq(Upload) /\ Uploads' = Uploads
      /\ \A u \in Uploads : uploads'[u] = e(u)
  <2>1. [u \in 1 .. Len(uploads) |-> e(u)] \in Seq(Upload)
    <3>1. \A u \in 1 .. Len(uploads) : e(u) \in Upload
      BY <1>2, <1>3
    <3>2. QED BY <1>2, <3>1, IsASeq
  <2>2. QED BY <1>1, <1>2, <2>1 DEF Uploads
<1>5. QED BY <1>1, <1>3, <1>4 DEF Kept

\* maintenance
LEMMA SweepStep ==
  ASSUME ObjectsInv, Maintain \/ Start \/ MaintainCrash
  PROVE  ObjectsInv' /\ Grows
<1>1. /\ SweepTables /\ tmp' \subseteq tmp /\ UNCHANGED <<cas, now>>
  BY DEF Maintain, Start, MaintainCrash, Sweep, files
<1>2. /\ Kept /\ Uploads' = Uploads /\ UNCHANGED <<objects, refs>>
  BY <1>1, Swept
<1>3. QED BY <1>1, <1>2, KeptStep DEF ObjectsInv, ObjectsType

\* Steps that leave the objects and their uploads alone.
LEMMA OtherStep ==
  ASSUME ObjectsInv, UNCHANGED <<uploads, objects, refs, files>>, now' \in Nat
  PROVE  ObjectsInv' /\ Grows
<1>1. Kept
  BY Unchanged DEF ObjectsInv
<1>2. QED BY <1>1, KeptStep DEF ObjectsInv, ObjectsType, Uploads, files

\* Every step of the Hub.
LEMMA ObjectsStep == ObjectsInv /\ [Next]_vars => ObjectsInv' /\ Grows
<1> SUFFICES ASSUME ObjectsInv, [Next]_vars PROVE ObjectsInv' /\ Grows
  OBVIOUS
<1>1. now \in Nat
  BY DEF ObjectsInv, ObjectsType
<1>2. CASE \E p \in Projects, h \in Hashes : NegotiateUpload(p, h)
  BY <1>2, NegotiateStep
<1>3. CASE \E p \in Projects, h \in Hashes : NegotiateDownload(p, h)
  BY <1>1, <1>3, OtherStep DEF NegotiateDownload
<1>4. CASE \E u \in Uploads : ReceiveUpload(u) \/ ReceiveCrash(u)
  BY <1>4, ReceiveStep
<1>5. CASE \E u \in Uploads : CompleteUpload(u) \/ CompleteCrash(u)
  BY <1>5, CompleteStep
<1>6. CASE Maintain \/ Start \/ MaintainCrash
  BY <1>6, SweepStep
<1>7. CASE IdleCrash
  BY <1>1, <1>7, OtherStep DEF IdleCrash, tables
<1>8. CASE Tick
  <2>1. now' \in Nat
    BY <1>1, <1>8 DEF Tick
  <2>2. QED BY <1>8, <2>1, OtherStep DEF Tick, tables
<1>9. CASE UNCHANGED vars
  BY <1>1, <1>9, OtherStep DEF vars, tables
<1>10. QED BY <1>2, <1>3, <1>4, <1>5, <1>6, <1>7, <1>8, <1>9 DEF Next

\* So the invariant holds.
LEMMA ObjectsInvHolds == Spec => []ObjectsInv
BY InitialObjects, ObjectsStep, PTL DEF Spec

-----------------------------------------------------------------------------
\* Whatever crashes between the rename of a file and the commit of its row, every object
\* and every reference has its bytes in the store (hub.rs:3003-3060).
THEOREM AuthorizedBytesExistHolds == Spec => []AuthorizedBytesExist
<1>1. ObjectsInv => AuthorizedBytesExist
  BY DEF ObjectsInv
<1>2. QED BY <1>1, ObjectsInvHolds, PTL

\* A project may read exactly the objects it has transferred itself, whatever uploads of
\* other projects, expiries and crashes come between (hub.rs:2790).
THEOREM RefIffTransferredHolds == Spec => []RefIffTransferred
<1>1. ObjectsInv => RefIffTransferred
  BY DEF ObjectsInv
<1>2. QED BY <1>1, ObjectsInvHolds, PTL

-----------------------------------------------------------------------------
\* A completion finds no other completed row: it would have had the reference.
LEMMA CompletesAlone ==
  ASSUME ObjectsInv, NEW u \in Uploads, NEW v \in Uploads, SameObject(u, v),
         <<uploads[u].project, uploads[u].hash>> \notin refs
  PROVE  uploads[v].status # "completed"
<1>1. uploads[v] \in Upload
  BY DEF ObjectsInv, ObjectsType, Uploads
<1>2. uploads[v].project \in Projects /\ uploads[v].hash \in Hashes
  BY <1>1 DEF Upload
<1>3. uploads[v].project = uploads[u].project /\ uploads[v].hash = uploads[u].hash
  BY DEF SameObject
<1>4. <<uploads[v].project, uploads[v].hash>> \notin refs
  BY <1>3
<1>5. QED BY <1>2, <1>4 DEF ObjectsInv, RefIffTransferred

\* One row takes a status that no other row of its object has.
LEMMA TakesFreeStatus ==
  ASSUME uploads \in Seq(Upload), RowsUnique, NEW u \in Uploads,
         NEW s \in {"negotiated", "received", "completed", "expired"}, ~Taken(u, s),
         uploads' = [uploads EXCEPT ![u].status = s]
  PROVE  RowsUnique'
<1>1. /\ Uploads' = Uploads
      /\ \A v \in Uploads :
           /\ uploads'[v].project = uploads[v].project /\ uploads'[v].hash = uploads[v].hash
           /\ uploads'[v].status = IF v = u THEN s ELSE uploads[v].status
  BY SetStatus
<1>2. ASSUME NEW v \in Uploads, NEW w \in Uploads, v # w, SameObject(v, w)'
      PROVE  uploads'[v].status # uploads'[w].status
  <2>1. SameObject(v, w) /\ SameObject(w, v)
    BY <1>1, <1>2 DEF SameObject
  <2>2. uploads[v].status # uploads[w].status
    BY <1>2, <2>1 DEF RowsUnique
  <2>3. \A x \in Uploads : x # u /\ SameObject(u, x) => uploads[x].status # s
    BY DEF Taken
  <2>4. QED BY <1>1, <1>2, <2>1, <2>2, <2>3
<1>3. QED BY <1>1, <1>2 DEF RowsUnique

\* A negotiation adds a row only where none is negotiated.
LEMMA NegotiatesAlone ==
  ASSUME ObjectsInv, RowsUnique, NEW p \in Projects, NEW h \in Hashes, NegotiateUpload(p, h)
  PROVE  RowsUnique'
<1> DEFINE e == [project |-> p, hash |-> h, status |-> "negotiated", expires |-> now + TransferTTL]
           new == Len(uploads) + 1
<1>1. /\ uploads' = Append(uploads, e)
      /\ \A u \in Uploads : uploads[u].project = p /\ uploads[u].hash = h
                              => uploads[u].status # "negotiated"
  BY DEF NegotiateUpload
<1>2. e \in Upload /\ e.status = "negotiated" /\ e.project = p /\ e.hash = h
  BY ObjectsAssumption DEF ObjectsInv, ObjectsType, Upload
<1> HIDE DEF e
<1>3. uploads \in Seq(Upload)
  BY DEF ObjectsInv, ObjectsType
<1>4. /\ Uploads = 1 .. Len(uploads) /\ Uploads' = 1 .. new /\ Len(uploads) \in Nat
      /\ \A u \in Uploads : uploads'[u] = uploads[u]
      /\ uploads'[new] = e
  BY <1>1, <1>2, <1>3, AppendProperties, LenProperties DEF Uploads
<1>5. \A u \in Uploads' : u \in Uploads \/ u = new
  BY <1>4
<1> HIDE DEF new
<1>6. ASSUME NEW v \in Uploads', NEW w \in Uploads', v # w, SameObject(v, w)'
      PROVE  uploads'[v].status # uploads'[w].status
  <2>1. CASE v \in Uploads /\ w \in Uploads
    BY <1>4, <1>6, <2>1 DEF RowsUnique, SameObject
  <2>2. CASE v = new /\ w \in Uploads
    BY <1>1, <1>2, <1>4, <1>6, <2>2 DEF SameObject
  <2>3. CASE w = new /\ v \in Uploads
    BY <1>1, <1>2, <1>4, <1>6, <2>3 DEF SameObject
  <2>4. QED BY <1>5, <1>6, <2>1, <2>2, <2>3
<1>7. QED BY <1>6 DEF RowsUnique

\* A sweep that is not poisoned expires one row of an object at most, and none beside an
\* expired one.
LEMMA SweepsApart ==
  ASSUME ObjectsInv, RowsUnique, SweepTables
  PROVE  RowsUnique'
<1> DEFINE e(u) == IF u \in Sweepable THEN [uploads[u] EXCEPT !.status = "expired"] ELSE uploads[u]
<1>1. /\ uploads' = [u \in Uploads |-> e(u)] /\ ~Poisoned
  BY DEF SweepTables
<1>2. /\ Uploads' = Uploads /\ \A u \in Uploads : uploads'[u] = e(u)
  BY <1>1, Swept DEF ObjectsInv
<1>3. ASSUME NEW u \in Uploads
      PROVE  /\ e(u).project = uploads[u].project /\ e(u).hash = uploads[u].hash
             /\ e(u).status = IF u \in Sweepable THEN "expired" ELSE uploads[u].status
  <2>1. uploads[u] \in Upload
    BY DEF ObjectsInv, ObjectsType, Uploads
  <2>2. QED BY <2>1 DEF Upload
<1> HIDE DEF e
<1>4. /\ \A u \in Sweepable : u \in Uploads
      /\ \A u \in Sweepable, v \in Uploads : u # v /\ SameObject(u, v) =>
           uploads[v].status # "expired" /\ v \notin Sweepable
  BY <1>1 DEF Poisoned, Taken, Sweepable
<1>5. ASSUME NEW v \in Uploads, NEW w \in Uploads, v # w, SameObject(v, w)'
      PROVE  uploads'[v].status # uploads'[w].status
  <2>1. SameObject(v, w) /\ SameObject(w, v)
    BY <1>2, <1>3, <1>5 DEF SameObject
  <2>2. uploads[v].status # uploads[w].status
    BY <1>5, <2>1 DEF RowsUnique
  <2>3. QED BY <1>2, <1>3, <1>4, <1>5, <2>1, <2>2
<1>6. QED BY <1>2, <1>5 DEF RowsUnique

\* Every step of the Hub keeps the rows of an object apart.
LEMMA RowsStep ==
  ASSUME ObjectsInv, RowsUnique, [Next]_vars
  PROVE  RowsUnique'
<1>1. uploads \in Seq(Upload)
  BY DEF ObjectsInv, ObjectsType
<1>2. CASE \E p \in Projects, h \in Hashes : NegotiateUpload(p, h)
  BY <1>2, NegotiatesAlone
<1>3. CASE uploads' = uploads
  BY <1>3 DEF RowsUnique, SameObject, Uploads
<1>4. CASE \E u \in Uploads : ReceiveUpload(u)
  <2>1. PICK u \in Uploads : ReceiveUpload(u)
    BY <1>4
  <2>2. CASE Taken(u, "received")
    BY <1>3, <2>1, <2>2 DEF ReceiveUpload
  <2>3. CASE ~Taken(u, "received")
    BY <1>1, <2>1, <2>3, TakesFreeStatus DEF ReceiveUpload
  <2>4. QED BY <2>2, <2>3
<1>5. CASE \E u \in Uploads : CompleteUpload(u)
  <2>1. PICK u \in Uploads : CompleteUpload(u)
    BY <1>5
  <2>2. CASE uploads' = uploads
    BY <1>3, <2>2
  <2>3. CASE uploads' # uploads
    <3>1. /\ <<uploads[u].project, uploads[u].hash>> \notin refs
          /\ uploads' = [uploads EXCEPT ![u].status = "completed"]
      BY <2>1, <2>3 DEF CompleteUpload
    <3>2. ~Taken(u, "completed")
      BY <3>1, CompletesAlone DEF Taken
    <3>3. QED BY <1>1, <3>1, <3>2, TakesFreeStatus
  <2>4. QED BY <2>2, <2>3
<1>6. CASE SweepTables
  BY <1>6, SweepsApart
<1>7. \/ \E p \in Projects, h \in Hashes : NegotiateUpload(p, h)
      \/ \E u \in Uploads : ReceiveUpload(u)
      \/ \E u \in Uploads : CompleteUpload(u)
      \/ SweepTables \/ uploads' = uploads
  BY Zenon DEF Next, NegotiateDownload, ReceiveCrash, CompleteCrash, Maintain, MaintainCrash, Start,
     Sweep, IdleCrash, Tick, vars, tables
<1>8. QED BY <1>2, <1>3, <1>4, <1>5, <1>6, <1>7

\* The rows of an object never share a status, although a completion looks only at the
\* reference: neither its UPDATE nor any other is ever refused unnoticed (hub.rs:3055).
THEOREM RowsUniqueHolds == Spec => []RowsUnique
<1>1. Init => RowsUnique
  BY DEF Init, RowsUnique, Uploads
<1>2. QED BY <1>1, RowsStep, ObjectsInvHolds, PTL DEF Spec

-----------------------------------------------------------------------------
(***************************************************************************)
(* Transfers                                                               *)
(***************************************************************************)

\* An upload of the object and by the project of a job.
UploadOf(j, u) == u \in Uploads /\ uploads[u].project = j[1] /\ uploads[u].hash = j[2]
UploadNext(j, u) == u \in Uploads' /\ uploads'[u].project = j[1] /\ uploads'[u].hash = j[2]

TransferInv ==
    /\ ObjectsInv
    /\ DOMAIN client = Jobs /\ DOMAIN recorded = Jobs
    /\ \A j \in Jobs :
          /\ recorded[j] # 0 => UploadOf(j, recorded[j])
          /\ client[j].at \in {"negotiated", "sent"} => UploadOf(j, client[j].upload)
          /\ client[j].at = "done" => j \in refs

\* A completed upload has given its project the object.
LEMMA CompletedIsReference ==
  ASSUME ObjectsInv, NEW j \in Jobs, NEW u, UploadOf(j, u), uploads[u].status = "completed"
  PROVE  j \in refs
<1>1. PICK p \in Projects, h \in Hashes : j = <<p, h>>
  BY DEF Jobs
<1>2. uploads[u].project = p /\ uploads[u].hash = h
  BY <1>1 DEF UploadOf
<1> QED
  BY <1>1, <1>2 DEF UploadOf, ObjectsInv, RefIffTransferred

\* The job of a client, where it gets to, and what it holds there.
Arrives(j, stage, u) ==
    /\ stage \in {"negotiated", "sent"} => UploadNext(j, u)
    /\ stage = "done" => j \in refs'

\* A client moves, or its answer is lost, while the Hub takes a step.
LEMMA ClientMoves ==
  ASSUME TransferInv, [Next]_vars, NEW j \in Jobs, NEW stage, NEW u,
         Step(j, stage, u) \/ UNCHANGED client, Arrives(j, stage, u),
         DOMAIN recorded' = Jobs,
         \A i \in Jobs : recorded'[i] \in {0, recorded[i]} \/ UploadNext(i, recorded'[i])
  PROVE  TransferInv'
<1>1. ObjectsInv' /\ Grows
  BY ObjectsStep DEF TransferInv
<1>2. \A i \in Jobs : \A v : UploadOf(i, v) => UploadNext(i, v)
  BY <1>1 DEF Grows, UploadOf, UploadNext
<1>3. \A i \in Jobs : recorded'[i] # 0 => UploadNext(i, recorded'[i])
  BY <1>2 DEF TransferInv
<1>4. DOMAIN client' = Jobs /\ \A i \in Jobs \ {j} : client'[i] = client[i]
  BY DEF TransferInv, Step
<1>5. client'[j] = client[j] \/ client'[j] = [at |-> stage, upload |-> u]
  BY DEF TransferInv, Step
<1>6. ASSUME NEW i \in Jobs, client'[i] = client[i]
      PROVE  /\ client'[i].at \in {"negotiated", "sent"} => UploadNext(i, client'[i].upload)
             /\ client'[i].at = "done" => i \in refs'
  BY <1>1, <1>2, <1>6 DEF TransferInv, Grows
<1>7. ASSUME client'[j] = [at |-> stage, upload |-> u]
      PROVE  /\ client'[j].at \in {"negotiated", "sent"} => UploadNext(j, client'[j].upload)
             /\ client'[j].at = "done" => j \in refs'
  BY <1>7 DEF Arrives
<1>8. ASSUME NEW i \in Jobs
      PROVE  /\ client'[i].at \in {"negotiated", "sent"} => UploadNext(i, client'[i].upload)
             /\ client'[i].at = "done" => i \in refs'
  <2>1. CASE i = j
    BY <1>5, <1>6, <1>7, <2>1
  <2>2. CASE i # j
    BY <1>4, <1>6, <2>2
  <2> QED
    BY <2>1, <2>2
<1> QED
  BY <1>1, <1>3, <1>4, <1>8 DEF TransferInv, UploadOf, UploadNext

\* Negotiating: an answer from the record, "present", or a new upload.
LEMMA NegotiateArrives ==
  ASSUME TransferInv, NEW j \in Jobs, NegotiateReplay(j) \/ NegotiatePresent(j) \/ NegotiateNew(j)
  PROVE  TransferInv'
<1>1. CASE NegotiateReplay(j)
  <2>1. /\ Step(j, "negotiated", recorded[j]) /\ UNCHANGED <<vars, recorded>> /\ recorded[j] # 0
    BY <1>1 DEF NegotiateReplay
  <2>2. UNCHANGED uploads
    BY <2>1 DEF vars, tables
  <2>3. Arrives(j, "negotiated", recorded[j])
    BY <2>1, <2>2 DEF TransferInv, Arrives, UploadOf, UploadNext, Uploads
  <2>4. DOMAIN recorded' = Jobs /\ \A i \in Jobs : recorded'[i] = recorded[i]
    BY <2>1 DEF TransferInv
  <2> QED
    BY <2>1, <2>3, <2>4, ClientMoves
<1>2. CASE NegotiatePresent(j)
  <2>1. /\ Step(j, "done", 0) \/ UNCHANGED client
        /\ UNCHANGED <<vars, recorded>> /\ j \in refs
    BY <1>2 DEF NegotiatePresent, Reached
  <2>2. Arrives(j, "done", 0)
    BY <2>1 DEF Arrives, vars, tables
  <2>3. DOMAIN recorded' = Jobs /\ \A i \in Jobs : recorded'[i] = recorded[i]
    BY <2>1 DEF TransferInv
  <2> QED
    BY <2>1, <2>2, <2>3, ClientMoves
<1>3. CASE NegotiateNew(j)
  <2>1. PICK p \in Projects, h \in Hashes : j = <<p, h>>
    BY DEF Jobs
  <2>2. /\ NegotiateUpload(p, h) /\ recorded' = [recorded EXCEPT ![j] = Len(uploads')]
        /\ Step(j, "negotiated", Len(uploads')) \/ UNCHANGED client
    BY <1>3, <2>1 DEF NegotiateNew, Reached
  <2> DEFINE e == [project |-> p, hash |-> h, status |-> "negotiated", expires |-> now + TransferTTL]
  <2>3. uploads' = Append(uploads, e)
    BY <2>2 DEF NegotiateUpload
  <2>4. e \in Upload /\ e.project = j[1] /\ e.hash = j[2]
    BY <2>1, ObjectsAssumption DEF TransferInv, ObjectsInv, ObjectsType, Upload
  <2> HIDE DEF e
  <2>5. uploads \in Seq(Upload)
    BY DEF TransferInv, ObjectsInv, ObjectsType
  <2>6. uploads'[Len(uploads')] = e /\ Len(uploads') \in DOMAIN uploads'
    BY <2>3, <2>4, <2>5, AppendProperties
  <2>7. UploadNext(j, Len(uploads'))
    BY <2>4, <2>6 DEF UploadOf, UploadNext, Uploads
  <2>8. Arrives(j, "negotiated", Len(uploads'))
    BY <2>7 DEF Arrives, UploadOf, UploadNext
  <2>9. DOMAIN recorded' = Jobs /\ \A i \in Jobs : recorded'[i] = recorded[i] \/ UploadNext(i, recorded'[i])
    <3>1. DOMAIN recorded' = Jobs /\ recorded'[j] = Len(uploads')
          /\ \A i \in Jobs \ {j} : recorded'[i] = recorded[i]
      BY <2>2 DEF TransferInv
    <3> QED
      BY <2>7, <3>1 DEF UploadOf, UploadNext
  <2>10. Next
    BY <2>2 DEF Next
  <2> QED
    BY <2>2, <2>8, <2>9, <2>10, ClientMoves
<1> QED
  BY <1>1, <1>2, <1>3

\* Sending the bytes.
LEMMA PutArrives ==
  ASSUME TransferInv, NEW j \in Jobs, Put(j) \/ PutCrash(j) \/ PutRefused(j)
  PROVE  TransferInv'
<1> DEFINE u == client[j].upload
<1>1. client[j].at = "negotiated" /\ UNCHANGED recorded
  BY DEF Put, PutCrash, PutRefused, transferVars
<1>2. UploadOf(j, u)
  BY <1>1 DEF TransferInv
<1>3. [Next]_vars
  <2>1. CASE Put(j) \/ PutCrash(j)
    BY <1>2, <2>1 DEF Put, PutCrash, Next, UploadOf
  <2>2. CASE PutRefused(j)
    BY <2>2 DEF PutRefused
  <2> QED
    BY <2>1, <2>2
<1>4. \E stage \in {"sent", "refused"} : Step(j, stage, u) \/ UNCHANGED client
  BY DEF Put, PutCrash, PutRefused, Reached, transferVars
<1>5. UploadNext(j, u)
  BY <1>2, <1>3, ObjectsStep DEF TransferInv, Grows, UploadOf, UploadNext
<1> HIDE DEF u
<1>6. \A stage \in {"sent", "refused"} : Arrives(j, stage, u)
  BY <1>5 DEF Arrives
<1>7. DOMAIN recorded' = Jobs /\ \A i \in Jobs : recorded'[i] = recorded[i]
  BY <1>1 DEF TransferInv
<1> QED
  BY <1>3, <1>4, <1>6, <1>7, ClientMoves

\* Completing the upload: the answer means that the transaction was committed.
LEMMA CompleteArrives ==
  ASSUME TransferInv, NEW j \in Jobs,
         Complete(j) \/ CompleteCut(j) \/ CompleteReplay(j) \/ CompleteRefused(j)
  PROVE  TransferInv'
<1> DEFINE u == client[j].upload
<1>1. client[j].at = "sent" /\ UNCHANGED recorded
  BY DEF Complete, CompleteCut, CompleteReplay, CompleteRefused, transferVars
<1>2. UploadOf(j, u)
  BY <1>1 DEF TransferInv
<1>3. [Next]_vars
  <2>1. CASE Complete(j) \/ CompleteCut(j)
    BY <1>2, <2>1 DEF Complete, CompleteCut, Next, UploadOf
  <2>2. CASE CompleteReplay(j) \/ CompleteRefused(j)
    BY <2>2 DEF CompleteReplay, CompleteRefused
  <2> QED
    BY <2>1, <2>2
<1>4. ObjectsInv' /\ UploadNext(j, u)
  BY <1>2, <1>3, ObjectsStep DEF TransferInv, Grows, UploadOf, UploadNext
<1>5. \E stage \in {"done", "refused"} :
         /\ Step(j, stage, u) \/ UNCHANGED client
         /\ stage = "done" => uploads'[u].status = "completed"
  BY DEF Complete, CompleteCut, CompleteReplay, CompleteRefused, Reached, transferVars, vars, tables
<1>6. uploads'[u].status = "completed" => j \in refs'
  <2> SUFFICES ASSUME uploads'[u].status = "completed" PROVE j \in refs'
    OBVIOUS
  <2>1. PICK p \in Projects, h \in Hashes : j = <<p, h>>
    BY DEF Jobs
  <2>2. u \in Uploads' /\ uploads'[u].project = p /\ uploads'[u].hash = h
    BY <1>4, <2>1 DEF UploadOf, UploadNext
  <2> QED
    BY <1>4, <2>1, <2>2 DEF ObjectsInv, RefIffTransferred
<1> HIDE DEF u
<1>7. PICK stage \in {"done", "refused"} :
         /\ Step(j, stage, u) \/ UNCHANGED client
         /\ stage = "done" => uploads'[u].status = "completed"
  BY <1>5
<1>8. Arrives(j, stage, u)
  BY <1>6, <1>7 DEF Arrives
<1>9. DOMAIN recorded' = Jobs /\ \A i \in Jobs : recorded'[i] = recorded[i]
  BY <1>1 DEF TransferInv
<1> QED
  BY <1>3, <1>7, <1>8, <1>9, ClientMoves

\* Every step of the Hub and its publishers.
LEMMA TransferStep == TransferInv /\ [TransferNext]_allVars => TransferInv'
<1> SUFFICES ASSUME TransferInv, [TransferNext]_allVars PROVE TransferInv'
  OBVIOUS
<1>1. ASSUME [Next]_vars, UNCHANGED client, DOMAIN recorded' = Jobs,
             \A i \in Jobs : recorded'[i] \in {0, recorded[i]}
      PROVE  TransferInv'
  <2>1. ObjectsInv' /\ Grows
    BY <1>1, ObjectsStep DEF TransferInv
  <2>2. \A i \in Jobs : \A v : UploadOf(i, v) => UploadNext(i, v)
    BY <2>1 DEF Grows, UploadOf, UploadNext
  <2> QED
    BY <1>1, <2>1, <2>2 DEF TransferInv, Grows, UploadOf, UploadNext
<1>2. ASSUME NEW j \in Jobs, PublishAgain(j)
      PROVE  TransferInv'
  <2>1. Step(j, "idle", 0) /\ UNCHANGED vars /\ DOMAIN recorded' = Jobs
        /\ \A i \in Jobs : recorded'[i] = recorded[i]
    BY <1>2 DEF PublishAgain, TransferInv
  <2>2. Arrives(j, "idle", 0)
    BY DEF Arrives
  <2> QED
    BY <2>1, <2>2, ClientMoves
<1>3. CASE MaintainAll
  <2>1. Next /\ UNCHANGED client
    BY <1>3 DEF MaintainAll, Next
  <2>2. DOMAIN recorded' = Jobs /\ \A i \in Jobs : recorded'[i] \in {0, recorded[i]}
    BY <1>3 DEF MaintainAll
  <2> QED
    BY <1>1, <2>1, <2>2
<1>4. CASE Elsewhere /\ UNCHANGED transferVars
  <2>1. Next
    BY <1>4 DEF Elsewhere, Next
  <2>2. UNCHANGED client /\ DOMAIN recorded' = Jobs /\ \A i \in Jobs : recorded'[i] = recorded[i]
    BY <1>4 DEF transferVars, TransferInv
  <2> QED
    BY <1>1, <2>1, <2>2
<1>5. CASE UNCHANGED allVars
  <2>1. UNCHANGED vars /\ UNCHANGED client /\ DOMAIN recorded' = Jobs
        /\ \A i \in Jobs : recorded'[i] = recorded[i]
    BY <1>5 DEF allVars, transferVars, TransferInv
  <2> QED
    BY <1>1, <2>1
<1> QED
  BY <1>2, <1>3, <1>4, <1>5, NegotiateArrives, PutArrives, CompleteArrives DEF TransferNext

\* The inductive invariant holds.
LEMMA TransferInvHolds == TransferSpec => []TransferInv
<1>1. TransferInit => TransferInv
  <2> SUFFICES ASSUME TransferInit PROVE TransferInv
    OBVIOUS
  <2>1. ObjectsInv
    BY InitialObjects DEF TransferInit
  <2>2. \A j \in Jobs : client[j].at = "idle" /\ recorded[j] = 0
    BY DEF TransferInit
  <2> QED
    BY <2>1, <2>2 DEF TransferInit, TransferInv
<1> QED
  BY <1>1, TransferStep, PTL DEF TransferSpec

\* When ensure_object returns, the project may read the object, however many answers were
\* lost and whoever else was uploading the same bytes (hub_desktop.rs:699-765).
THEOREM DoneMeansAuthorizedHolds == TransferSpec => []DoneMeansAuthorized
<1>1. TransferInv => DoneMeansAuthorized
  BY DEF TransferInv, DoneMeansAuthorized
<1> QED
  BY <1>1, TransferInvHolds, PTL

\* The publishers reach the object store only through its handlers, and only with an upload of
\* their own object: every step of theirs is one of the store's or none (ensure_object,
\* hub_desktop.rs:699-765).  So what is proved of the store holds under them.
THEOREM TransferKeepsObjects == TransferSpec => Spec
<1>1. TransferInit => Init
  BY DEF TransferInit
<1>2. TransferInv /\ [TransferNext]_allVars => [Next]_vars
  <2>1. SUFFICES ASSUME TransferInv, [TransferNext]_allVars PROVE [Next]_vars
    OBVIOUS
  <2>2. ASSUME NEW j \in Jobs, NegotiateNew(j) PROVE Next
    <3>1. PICK p \in Projects, h \in Hashes : j = <<p, h>>
      BY DEF Jobs
    <3>2. NegotiateUpload(p, h)
      BY <2>2, <3>1 DEF NegotiateNew
    <3>3. QED BY <3>2 DEF Next
  <2>3. ASSUME NEW j \in Jobs, Put(j) \/ PutCrash(j) \/ Complete(j) \/ CompleteCut(j) PROVE Next
    <3>1. client[j].at \in {"negotiated", "sent"}
      BY <2>3 DEF Put, PutCrash, Complete, CompleteCut
    <3>2. client[j].upload \in Uploads
      BY <2>1, <3>1 DEF TransferInv, UploadOf
    <3>3. QED BY <2>3, <3>2 DEF Put, PutCrash, Complete, CompleteCut, Next
  <2>4. ASSUME NEW j \in Jobs,
               \/ NegotiateReplay(j) \/ NegotiatePresent(j) \/ PutRefused(j)
               \/ CompleteReplay(j) \/ CompleteRefused(j) \/ PublishAgain(j)
        PROVE  UNCHANGED vars
    BY <2>4, Zenon DEF NegotiateReplay, NegotiatePresent, PutRefused, CompleteReplay,
                       CompleteRefused, PublishAgain
  <2>5. CASE MaintainAll \/ (Elsewhere /\ UNCHANGED transferVars)
    BY <2>5 DEF MaintainAll, Elsewhere, Next
  <2>6. CASE UNCHANGED allVars
    BY <2>6 DEF allVars
  <2>7. QED BY <2>1, <2>2, <2>3, <2>4, <2>5, <2>6 DEF TransferNext
<1>3. QED BY <1>1, <1>2, TransferInvHolds, PTL DEF TransferSpec, Spec

-----------------------------------------------------------------------------
(***************************************************************************)
(* The adapter's cursor                                                    *)
(***************************************************************************)

\* A set of numbers has a least one, for any relation that contains the order.
LEMMA LeastInRelation ==
  ASSUME NEW R, IsWellFoundedOn(R, Nat), \A x, y \in Nat : x < y => <<x, y>> \in R,
         NEW T, T \subseteq Nat, T # {}
  PROVE  \E x \in T : \A y \in T : x <= y
<1>1. PICK x \in T : \A y \in T : ~ (<<y, x>> \in R)
  <2>1. IsWellFoundedOn(R, Nat) /\ T \subseteq Nat /\ T # {}
    OBVIOUS
  <2> QED
    BY <2>1, WFMin, ZenonT(60)
<1>2. ASSUME NEW y \in T PROVE x <= y
  <2>1. x \in Nat /\ y \in Nat
    OBVIOUS
  <2>2. ~(y < x)
    BY <1>1, <2>1, Zenon
  <2> QED
    BY <2>1, <2>2
<1> QED
  BY <1>2

\* So Min is what its name says.
LEMMA MinIsLeast ==
  ASSUME NEW T, T \subseteq Nat, T # {}
  PROVE  Min(T) \in T /\ \A y \in T : Min(T) <= y
<1>1. \A x, y \in Nat : x < y => <<x, y>> \in OpToRel(<, Nat)
  BY Zenon DEF OpToRel
<1>2. \E x \in T : \A y \in T : x <= y
  BY <1>1, NatLessThanWellFounded, LeastInRelation, Zenon
<1> QED
  BY <1>2 DEF Min

\* Max of two numbers.
LEMMA MaxOfTwo ==
  ASSUME NEW m \in Nat, NEW n \in Nat
  PROVE  Max({m, n}) \in {m, n} /\ Max({m, n}) >= m /\ Max({m, n}) >= n
<1>1. \E x \in {m, n} : \A y \in {m, n} : x >= y
  OBVIOUS
<1> QED
  BY <1>1 DEF Max

\* The page holds the events that come next, oldest first: what it leaves out is newer.
PageIsNext ==
    \A n \in RetainedOf(Project) \ page : n > cursor => \A m \in page : m < n

FeedInv ==
    /\ log \in Seq(EventProjects) /\ retained \subseteq DOMAIN log
    /\ cursor \in Nat /\ cursor <= Len(log)
    /\ page \subseteq DOMAIN log
    /\ at \in {"poll", "import", "fan_out", "advance"}
    /\ at = "poll" <=> page = {}
    /\ at \in {"fan_out", "advance"} => Current \in imported
    /\ PageIsNext
    /\ NoGap

\* A fresh ledger against a fresh Hub.
LEMMA FeedInitInv == FeedInit => FeedInv
<1> SUFFICES ASSUME FeedInit PROVE FeedInv
  OBVIOUS
<1>1. log = <<>> /\ retained = {} /\ page = {} /\ at = "poll" /\ cursor = 0
  BY DEF FeedInit, OutboxInit
<1>2. log \in Seq(EventProjects)
  BY <1>1
<1> QED
  BY <1>1, <1>2 DEF FeedInv, PageIsNext, NoGap, RetainedOf

\* Events are positions in the log.
LEMMA EventsAreNumbers ==
  ASSUME FeedInv
  PROVE  /\ DOMAIN log \subseteq Nat \ {0}
         /\ RetainedOf(Project) \subseteq Nat /\ IsFiniteSet(RetainedOf(Project))
         /\ page \subseteq Nat
<1>1. DOMAIN log = 1 .. Len(log) /\ Len(log) \in Nat
  BY DEF FeedInv
<1>2. RetainedOf(Project) \subseteq 1 .. Len(log)
  BY <1>1 DEF RetainedOf, EventsOf
<1>3. IsFiniteSet(1 .. Len(log))
  BY <1>1, FS_Interval
<1> QED
  BY <1>1, <1>2, <1>3, FS_Subset DEF FeedInv

\* The outbox grows at its new end and is pruned; a new event comes after all of the page.
LEMMA OutboxKeeps ==
  ASSUME FeedInv, Commit \/ MaintainOutbox
  PROVE  FeedInv'
<1>1. UNCHANGED <<durable, memory>>
  BY DEF Commit, MaintainOutbox
<1>2. UNCHANGED <<cursor, imported, page, at>>
  BY <1>1 DEF durable, memory
<1>3. /\ log' \in Seq(EventProjects) /\ DOMAIN log \subseteq DOMAIN log' /\ Len(log') >= Len(log)
      /\ retained' \subseteq DOMAIN log'
      /\ \A n \in DOMAIN log : log'[n] = log[n]
      /\ \A n \in retained' \ retained : n = Len(log) + 1
  <2>1. ASSUME NEW p \in EventProjects, Append1(p)
        PROVE  /\ log' \in Seq(EventProjects) /\ DOMAIN log \subseteq DOMAIN log' /\ Len(log') >= Len(log)
               /\ retained' \subseteq DOMAIN log'
               /\ \A n \in DOMAIN log : log'[n] = log[n]
               /\ \A n \in retained' \ retained : n = Len(log) + 1
    <3>1. log' = Append(log, p) /\ retained' = retained \cup {Len(log) + 1}
      BY <2>1 DEF Append1
    <3>2. log \in Seq(EventProjects)
      BY DEF FeedInv
    <3>3. /\ log' \in Seq(EventProjects) /\ Len(log) \in Nat
          /\ DOMAIN log = 1 .. Len(log) /\ DOMAIN log' = 1 .. Len(log) + 1 /\ Len(log') = Len(log) + 1
          /\ \A n \in DOMAIN log : log'[n] = log[n]
      BY <3>1, <3>2, AppendProperties
    <3> QED
      BY <3>1, <3>3 DEF FeedInv
  <2>2. CASE Prune
    BY <2>2 DEF Prune, FeedInv
  <2> QED
    BY <2>1, <2>2 DEF Commit, MaintainOutbox
<1>4. DOMAIN log = 1 .. Len(log) /\ Len(log) \in Nat
  BY DEF FeedInv
<1>5. \A n \in RetainedOf(Project)' : n \in RetainedOf(Project) \/ n = Len(log) + 1
  BY <1>3 DEF RetainedOf, EventsOf, FeedInv
<1>6. PageIsNext'
  BY <1>2, <1>4, <1>5 DEF FeedInv, PageIsNext
<1>7. NoGap'
  BY <1>2, <1>4, <1>5 DEF FeedInv, NoGap
<1>8. Len(log') \in Nat /\ cursor' <= Len(log')
  BY <1>2, <1>3, <1>4 DEF FeedInv
<1> QED
  BY <1>2, <1>3, <1>6, <1>7, <1>8 DEF FeedInv, Current

\* A poll takes the oldest events after the cursor; an expired cursor is cleared.
LEMMA PollKeeps ==
  ASSUME FeedInv, PollExpired \/ Poll
  PROVE  FeedInv'
<1>1. UNCHANGED <<outboxVars, imported>> /\ at = "poll" /\ page = {}
  BY DEF PollExpired, Poll, durable, FeedInv
<1>2. UNCHANGED <<log, retained, imported>> /\ RetainedOf(Project)' = RetainedOf(Project)
  BY <1>1 DEF outboxVars, RetainedOf, EventsOf
<1>3. DOMAIN log \subseteq Nat \ {0} /\ RetainedOf(Project) \subseteq Nat /\ IsFiniteSet(RetainedOf(Project))
  BY EventsAreNumbers
<1>4. CASE PollExpired
  <2>1. cursor' = 0 /\ UNCHANGED <<page, at>>
    BY <1>4 DEF PollExpired
  <2>2. \A n \in RetainedOf(Project) : ~(n <= 0)
    BY <1>3 DEF RetainedOf, EventsOf
  <2>3. 0 <= Len(log)
    BY DEF FeedInv
  <2> QED
    BY <1>1, <1>2, <2>1, <2>2, <2>3 DEF FeedInv, PageIsNext, NoGap
<1>5. CASE Poll
  <2> DEFINE F == Following(Project, cursor)
             UpTo(n) == {m \in F : m <= n}
  <2>1. /\ page' = Page(Project, cursor, PageSize)
        /\ at' = IF page' = {} THEN "poll" ELSE "import"
        /\ UNCHANGED cursor
    BY <1>5 DEF Poll, durable
  <2>2. page' = {n \in F : Cardinality(UpTo(n)) <= PageSize}
    BY <2>1 DEF Page
  <2>3. F \subseteq RetainedOf(Project) /\ F \subseteq Nat /\ IsFiniteSet(F)
        /\ F = {n \in RetainedOf(Project) : n > cursor}
    BY <1>3, FS_Subset DEF Following
  <2>4. ASSUME NEW n \in F, NEW m \in page', n \notin page'
        PROVE  m < n
    <3>1. m \in F /\ Cardinality(UpTo(m)) <= PageSize
      BY <2>2
    <3>2. SUFFICES ASSUME n <= m PROVE FALSE
      BY <3>1, <2>3
    <3>3. UpTo(n) \subseteq UpTo(m)
      BY <2>3, <3>1, <3>2
    <3>4. IsFiniteSet(UpTo(m)) /\ UpTo(m) \subseteq F
      BY <2>3, FS_Subset
    <3>5. Cardinality(UpTo(n)) <= Cardinality(UpTo(m))
      BY <3>3, <3>4, FS_Subset
    <3>6. IsFiniteSet(UpTo(n))
      BY <3>3, <3>4, FS_Subset
    <3>7. Cardinality(UpTo(n)) \in Nat /\ Cardinality(UpTo(m)) \in Nat /\ PageSize \in Nat
      BY <3>4, <3>6, FS_CardinalityType, FeedAssumption
    <3> HIDE DEF UpTo
    <3>8. Cardinality(UpTo(n)) <= PageSize
      BY <3>1, <3>5, <3>7
    <3> QED
      BY <3>8, <2>2, <2>4
  <2>5. page' \subseteq DOMAIN log
    BY <2>2, <2>3 DEF RetainedOf, EventsOf
  <2>6. PageIsNext'
    BY <2>1, <2>3, <2>4, <1>2 DEF PageIsNext
  <2>7. at' \in {"poll", "import"} /\ (at' = "poll" <=> page' = {})
    BY <2>1
  <2>8. NoGap'
    <3> HIDE DEF F, UpTo
    <3> SUFFICES ASSUME NEW n \in RetainedOf(Project), n <= cursor' PROVE n \in imported
      BY <1>2 DEF NoGap
    <3> QED
      BY <2>1 DEF FeedInv, NoGap
  <2> QED
    BY <1>2, <2>1, <2>5, <2>6, <2>7, <2>8 DEF FeedInv
<1> QED
  BY <1>4, <1>5

\* The cursor takes the page's oldest event, which is imported.
LEMMA AdvanceKeeps ==
  ASSUME FeedInv, AdvanceCursor
  PROVE  FeedInv'
<1>1. /\ at = "advance" /\ UNCHANGED <<outboxVars, imported>>
      /\ cursor' = Max({cursor, Current}) /\ page' = page \ {Current}
      /\ at' = IF page' = {} THEN "poll" ELSE "import"
  BY DEF AdvanceCursor
<1>2. UNCHANGED <<log, retained, imported>> /\ RetainedOf(Project)' = RetainedOf(Project)
  BY <1>1 DEF outboxVars, RetainedOf, EventsOf
<1>3. RetainedOf(Project) \subseteq Nat /\ page \subseteq Nat /\ page # {} /\ cursor \in Nat
  BY <1>1, EventsAreNumbers DEF FeedInv
<1>4. Current \in page /\ \A m \in page : Current <= m
  BY <1>3, MinIsLeast DEF Current
<1>5. Current \in Nat /\ Current \in imported
  BY <1>1, <1>3, <1>4 DEF FeedInv
<1>6. cursor' \in {cursor, Current} /\ cursor' >= cursor /\ cursor' >= Current
  BY <1>1, <1>3, <1>5, MaxOfTwo
<1> DEFINE c == Current
<1> HIDE DEF c
<1>7. c \in page /\ (\A m \in page : c <= m) /\ c \in Nat /\ c \in imported /\ page' = page \ {c}
      /\ cursor' \in {cursor, c} /\ cursor' >= cursor /\ cursor' >= c
  BY <1>1, <1>4, <1>5, <1>6 DEF c
<1>8. NoGap'
  <2> SUFFICES ASSUME NEW n \in RetainedOf(Project), n <= cursor' PROVE n \in imported
    BY <1>2 DEF NoGap
  <2>1. CASE n <= cursor
    BY <2>1 DEF FeedInv, NoGap
  <2>2. CASE n > cursor
    <3>1. n <= c /\ n \in Nat
      BY <2>2, <1>3, <1>7
    <3>2. CASE n \in page
      <4>1. c <= n
        BY <3>2, <1>7
      <4> QED
        BY <3>1, <4>1, <1>7
    <3>3. CASE n \notin page
      <4>1. c < n
        BY <2>2, <3>3, <1>7 DEF FeedInv, PageIsNext
      <4> QED
        BY <3>1, <4>1, <1>7
    <3> QED
      BY <3>2, <3>3
  <2> QED
    BY <2>1, <2>2, <1>3
<1>9. PageIsNext'
  <2> SUFFICES ASSUME NEW n \in RetainedOf(Project), n \notin page', n > cursor', NEW m \in page'
               PROVE  m < n
    BY <1>2 DEF PageIsNext
  <2>1. n # c /\ n > cursor
    BY <1>3, <1>7
  <2>2. n \notin page /\ m \in page
    BY <2>1, <1>7
  <2> QED
    BY <2>1, <2>2 DEF FeedInv, PageIsNext
<1>10. at' \in {"poll", "import"} /\ (at' = "poll" <=> page' = {})
  BY <1>1
<1>11. page' \subseteq DOMAIN log /\ cursor' \in Nat /\ cursor' <= Len(log)
  BY <1>3, <1>7 DEF FeedInv
<1> QED
  BY <1>2, <1>8, <1>9, <1>10, <1>11 DEF FeedInv

\* The other steps: an import adds to what is imported, a failure drops the page.
LEMMA FeedStep == FeedInv /\ [FeedNext]_feedVars => FeedInv'
<1> SUFFICES ASSUME FeedInv, [FeedNext]_feedVars PROVE FeedInv'
  OBVIOUS
<1>1. ASSUME UNCHANGED <<log, retained, cursor>>, imported \subseteq imported',
             \/ page' = page /\ at' \in {"poll", "import", "fan_out", "advance"} /\ at' # "poll"
                /\ at # "poll" /\ (at' \in {"fan_out", "advance"} => Current \in imported')
             \/ page' = {} /\ at' = "poll"
             \/ page' = page /\ at' = at
      PROVE  FeedInv'
  <2>1. RetainedOf(Project)' = RetainedOf(Project)
    BY <1>1 DEF RetainedOf, EventsOf
  <2>2. NoGap' /\ PageIsNext'
    BY <1>1, <2>1 DEF FeedInv, NoGap, PageIsNext
  <2>3. page' = page => Current' = Current
    BY DEF Current
  <2> QED
    BY <1>1, <2>2, <2>3 DEF FeedInv
<1>2. CASE Import \/ ImportDuplicate \/ FanOut
  BY <1>1, <1>2 DEF Import, ImportDuplicate, FanOut, outboxVars, durable, FeedInv
<1>3. CASE PageFailed \/ Restart
  BY <1>1, <1>3 DEF PageFailed, Restart, outboxVars, durable
<1>4. CASE LocalCapture \/ UNCHANGED feedVars
  BY <1>1, <1>4 DEF LocalCapture, feedVars, outboxVars, durable, memory
<1> QED
  BY <1>2, <1>3, <1>4, OutboxKeeps, PollKeeps, AdvanceKeeps DEF FeedNext, Work

\* The cursor never passes an event that the adapter has not imported while the Hub still has
\* it, whatever fails, is pruned or is restarted (hub_desktop.rs:475-480).
THEOREM NoGapHolds == FeedSpec => []NoGap
<1>1. FeedInv => NoGap
  BY DEF FeedInv
<1> QED
  BY <1>1, FeedInitInv, FeedStep, PTL DEF FeedSpec

-----------------------------------------------------------------------------
(***************************************************************************)
(* The event socket: the newest event of its project has arrived, or it is *)
(* still in the channel, or some request has yet to publish it.            *)
(***************************************************************************)

\* Every non-empty set of naturals has a least element.
LEMMA Least ==
  ASSUME NEW T, T \subseteq Nat, T # {}
  PROVE  \E x \in T : \A y \in T : x <= y
<1>1. \A x, y \in Nat : x < y => <<x, y>> \in OpToRel(<, Nat)
  BY Zenon DEF OpToRel
<1>2. QED BY <1>1, NatLessThanWellFounded, LeastInRelation, Zenon

\* A non-empty set of numbers up to n has a maximum.
LEMMA MaxOfBounded ==
  ASSUME NEW n \in Nat, NEW S, S \subseteq 0 .. n, S # {}
  PROVE  Max(S) \in S /\ \A y \in S : Max(S) >= y
<1> DEFINE Left == {n - x : x \in S}
<1>1. Left \subseteq Nat /\ Left # {}
  <2>1. \A x \in S : x \in Nat /\ x <= n
    OBVIOUS
  <2>2. \A x \in S : n - x \in Nat
    BY <2>1
  <2>3. QED BY <2>2
<1>2. PICK m \in Left : \A y \in Left : m <= y
  <2> HIDE DEF Left
  <2>1. QED BY <1>1, Least
<1>3. PICK x \in S : m = n - x
  OBVIOUS
<1>4. \A y \in S : x >= y
  <2>1. SUFFICES ASSUME NEW y \in S PROVE x >= y
    OBVIOUS
  <2>2. n - y \in Left
    OBVIOUS
  <2>3. n - x <= n - y
    BY <1>2, <1>3, <2>2
  <2>4. QED BY <2>3
<1>5. QED BY <1>4, Zenon DEF Max

\* A member that no other exceeds is the maximum.
LEMMA MaxIs ==
  ASSUME NEW S, S \subseteq Nat, NEW x \in S, \A y \in S : y <= x
  PROVE  Max(S) = x
<1> DEFINE m == Max(S)
<1>1. m \in S /\ \A y \in S : m >= y
  BY Zenon DEF Max
<1> HIDE DEF m
<1>2. m = x
  BY <1>1
<1>3. QED BY <1>2 DEF m

\* What a request that serves may know.
Serving == [at: {"idle", "committed", "read"}, project: EventProjects, event: Nat]

\* The latest event of a project is one of its events, or 0.
LEMMA LatestIs ==
  ASSUME log \in Seq(EventProjects), NEW p
  PROVE  /\ DOMAIN log = 1 .. Len(log) /\ Len(log) \in Nat
         /\ Latest(p) \in 0 .. Len(log)
         /\ Latest(p) # 0 => log[Latest(p)] = p
<1> DEFINE S == {0} \cup EventsOf(p)
<1>1. DOMAIN log = 1 .. Len(log) /\ Len(log) \in Nat
  OBVIOUS
<1>2. S \subseteq 0 .. Len(log)
  BY <1>1 DEF EventsOf
<1>3. Max(S) \in S
  <2>1. S # {}
    OBVIOUS
  <2> HIDE DEF S
  <2> QED
    BY <1>1, <1>2, <2>1, MaxOfBounded
<1>4. Max(S) # 0 => Max(S) \in EventsOf(p)
  BY <1>3
<1>5. Latest(p) = Max(S)
  BY DEF Latest
<1> HIDE DEF S
<1> QED
  BY <1>1, <1>2, <1>3, <1>4, <1>5 DEF EventsOf

\* Some message that the socket has not looked at is the newest event.
InChannel(newest) == \E i \in DOMAIN sent : i > socket.position /\ sent[i] = newest

\* Some request has yet to publish the newest event.
ToPublish(newest) ==
    \E h \in Handlers :
        \/ handler[h].at = "committed" /\ handler[h].project = Subscribed
        \/ handler[h].at = "read" /\ handler[h].event = newest

\* The socket has the newest event, or will come by it.
Comes(newest) ==
    \/ newest <= socket.since
    \/ newest \in got \cup warned
    \/ InChannel(newest)
    \/ ToPublish(newest)

\* The type of what the socket and the requests share.
StreamTypes ==
    /\ log \in Seq(EventProjects) /\ sent \in Seq(Nat)
    /\ handler \in [Handlers -> Serving]
    /\ socket = [at |-> socket.at, replay |-> socket.replay, position |-> socket.position,
                 since |-> socket.since]
    /\ socket.position \in 0 .. Len(sent) /\ socket.since \in Nat

\* The inductive invariant.
StreamInv ==
    /\ StreamTypes
    /\ socket.at = "live" => Comes(Latest(Subscribed))

\* One request goes on.
LEMMA HandlerMoves ==
  ASSUME StreamTypes, NEW h \in Handlers, NEW next \in Serving,
         handler' = [handler EXCEPT ![h] = next]
  PROVE  /\ handler' \in [Handlers -> Serving] /\ handler'[h] = next
         /\ \A g \in Handlers \ {h} : handler'[g] = handler[g]
BY DEF StreamTypes

\* A request appends an event of its project, or none, and is to publish the latest.
LEMMA ServeKeeps ==
  ASSUME StreamInv, NEW h \in Handlers, NEW p \in EventProjects, Serve(h, p)
  PROVE  StreamInv'
<1> DEFINE next == [at |-> "committed", project |-> p, event |-> 0]
<1>1. /\ handler[h].at = "idle" /\ UNCHANGED <<sent, warned, socket, got>>
      /\ handler' = [handler EXCEPT ![h] = next]
      /\ log' = log \/ log' = Append(log, p)
  BY DEF Serve, ProjectRequest, ArtRequest, LeaseRequest, ObjectRequest, BuildRequest,
         ReleaseRequest, Keyed, Executes, Replays, Committed, Append1, outboxVars
<1>2. /\ log' \in Seq(EventProjects) /\ DOMAIN log = 1 .. Len(log) /\ Len(log) \in Nat
  BY <1>1 DEF StreamInv, StreamTypes
<1>3. next \in Serving /\ next.at = "committed" /\ next.project = p
  BY DEF Serving
<1> HIDE DEF next
<1>4. /\ handler' \in [Handlers -> Serving] /\ handler'[h] = next
      /\ \A g \in Handlers \ {h} : handler'[g] = handler[g]
  BY <1>1, <1>3, HandlerMoves DEF StreamInv
<1>5. StreamTypes'
  BY <1>1, <1>2, <1>4 DEF StreamInv, StreamTypes
<1>6. ASSUME socket.at = "live" PROVE Comes(Latest(Subscribed))'
  <2>1. CASE p = Subscribed
    BY <1>3, <1>4, <2>1 DEF Comes, ToPublish
  <2>2. CASE p # Subscribed
    <3>1. EventsOf(Subscribed)' = EventsOf(Subscribed)
      <4>1. CASE log' = Append(log, p)
        <5>1. /\ DOMAIN log' = DOMAIN log \cup {Len(log) + 1} /\ log'[Len(log) + 1] = p
              /\ \A n \in DOMAIN log : log'[n] = log[n]
          BY <1>2, <4>1, AppendProperties DEF StreamInv, StreamTypes
        <5> QED
          BY <2>2, <5>1 DEF EventsOf
      <4> QED
        BY <1>1, <4>1 DEF EventsOf
    <3>2. Latest(Subscribed)' = Latest(Subscribed)
      BY <3>1 DEF Latest
    <3>3. Comes(Latest(Subscribed))
      BY <1>6 DEF StreamInv
    <3>4. ToPublish(Latest(Subscribed)) => ToPublish(Latest(Subscribed))'
      BY <1>1, <1>4, <3>2 DEF ToPublish
    <3> QED
      BY <1>1, <3>2, <3>3, <3>4 DEF Comes, InChannel
  <2> QED
    BY <2>1, <2>2
<1> QED
  BY <1>1, <1>5, <1>6 DEF StreamInv

\* The latest event is read, its publication fails, or it is sent.
LEMMA PublishKeeps ==
  ASSUME StreamInv, NEW h \in Handlers, PublishReads(h) \/ PublishFails(h) \/ PublishSends(h)
  PROVE  StreamInv'
<1> DEFINE newest == Latest(Subscribed)
           latest == Latest(handler[h].project)
<1>1. UNCHANGED <<log, socket, got>> /\ warned \subseteq warned'
  BY DEF PublishReads, PublishFails, PublishSends, outboxVars
<1>2. newest \in Nat /\ latest \in Nat
  BY LatestIs DEF StreamInv, StreamTypes
<1>3. Latest(Subscribed)' = newest
  BY <1>1 DEF Latest, EventsOf
<1>4. handler[h] \in Serving /\ handler[h].event \in Nat
  BY DEF StreamInv, StreamTypes, Serving
<1>5. PICK next \in Serving :
        /\ handler' = [handler EXCEPT ![h] = next]
        /\ \/ /\ handler[h].at = "committed" /\ next.at = "read" /\ next.event = latest
              /\ UNCHANGED <<sent, warned>>
           \/ handler[h].at = "committed" /\ latest \in warned' /\ sent' = sent
           \/ handler[h].at = "read" /\ sent' = Append(sent, handler[h].event)
  <2>1. CASE PublishReads(h)
    <3> DEFINE next == [handler[h] EXCEPT !.at = "read", !.event = latest]
    <3>1. next \in Serving /\ next.at = "read" /\ next.event = latest
      BY <1>2, <1>4 DEF Serving
    <3>2. handler' = [handler EXCEPT ![h] = next] /\ handler[h].at = "committed" /\ UNCHANGED <<sent, warned>>
      BY <2>1 DEF PublishReads
    <3> QED
      BY <3>1, <3>2
  <2>2. CASE PublishFails(h) \/ PublishSends(h)
    <3>1. Idle \in Serving
      BY StreamAssumption DEF Idle, Serving
    <3> QED
      BY <2>2, <3>1 DEF PublishFails, PublishSends
  <2> QED
    BY <2>1, <2>2
<1>6. /\ handler' \in [Handlers -> Serving] /\ handler'[h] = next
      /\ \A g \in Handlers \ {h} : handler'[g] = handler[g]
  BY <1>5, HandlerMoves DEF StreamInv
<1>7. /\ sent' \in Seq(Nat) /\ Len(sent) \in Nat /\ Len(sent') \in Nat
      /\ Len(sent) <= Len(sent')
      /\ DOMAIN sent = 1 .. Len(sent) /\ DOMAIN sent' = 1 .. Len(sent')
      /\ \A i \in DOMAIN sent : sent'[i] = sent[i]
      /\ sent' # sent => Len(sent') = Len(sent) + 1 /\ sent'[Len(sent')] = handler[h].event
  <2>1. sent \in Seq(Nat)
    BY DEF StreamInv, StreamTypes
  <2>2. CASE sent' = Append(sent, handler[h].event)
    BY <1>4, <2>1, <2>2, AppendProperties
  <2>3. CASE sent' = sent
    BY <2>1, <2>3
  <2> QED
    BY <1>5, <2>2, <2>3
<1>8. StreamTypes'
  <2>1. socket.position \in 0 .. Len(sent')
    <3> DEFINE m == Len(sent)
               n == Len(sent')
    <3>1. socket.position \in 0 .. m
      BY DEF StreamInv, StreamTypes
    <3>2. m \in Nat /\ n \in Nat /\ m <= n
      BY <1>7
    <3> HIDE DEF m, n
    <3>3. socket.position \in 0 .. n
      BY <3>1, <3>2
    <3> QED
      BY <3>3 DEF n
  <2>2. log' \in Seq(EventProjects) /\ sent' \in Seq(Nat)
    BY <1>1, <1>7 DEF StreamInv, StreamTypes
  <2> QED
    BY <1>1, <1>6, <2>1, <2>2 DEF StreamInv, StreamTypes
<1>9. ASSUME socket.at = "live" PROVE Comes(newest)'
  <2> HIDE DEF newest, latest
  <2>1. Comes(newest)
    BY <1>9 DEF StreamInv, newest
  <2>2. InChannel(newest) => InChannel(newest)'
    <3>1. SUFFICES ASSUME InChannel(newest) PROVE InChannel(newest)'
      OBVIOUS
    <3>2. PICK i \in DOMAIN sent : i > socket.position /\ sent[i] = newest
      BY <3>1 DEF InChannel
    <3>3. i \in DOMAIN sent' /\ sent'[i] = newest /\ socket' = socket
      <4> DEFINE m == Len(sent)
                 n == Len(sent')
      <4>1. m \in Nat /\ n \in Nat /\ m <= n /\ i \in 1 .. m /\ sent'[i] = sent[i]
        BY <1>7, <3>2
      <4> HIDE DEF m, n
      <4>2. i \in 1 .. n
        BY <4>1
      <4>3. i \in DOMAIN sent'
        BY <1>7, <4>2 DEF n
      <4> QED
        BY <1>1, <3>2, <4>1, <4>3
    <3> QED
      BY <1>3, <3>2, <3>3 DEF InChannel, newest
  <2>3. ASSUME ToPublish(newest), ~ToPublish(newest)' PROVE Comes(newest)'
    <3>1. \/ handler[h].at = "committed" /\ handler[h].project = Subscribed
          \/ handler[h].at = "read" /\ handler[h].event = newest
      BY <1>3, <1>6, <2>3 DEF ToPublish, newest
    <3>2. CASE handler[h].at = "committed" /\ handler[h].project = Subscribed
      BY <1>3, <1>5, <1>6, <2>3, <3>2 DEF ToPublish, Comes, newest, latest
    <3>3. CASE handler[h].at = "read" /\ handler[h].event = newest
      <4>1. sent' = Append(sent, newest)
        BY <1>5, <3>3
      <4>2. sent' # sent
        <5>1. sent \in Seq(Nat) /\ newest \in Nat
          BY <1>2 DEF StreamInv, StreamTypes, newest
        <5>2. Len(sent') = Len(sent) + 1
          BY <4>1, <5>1, AppendProperties
        <5> QED
          BY <1>7, <5>2
      <4>3. socket'.position < Len(sent') /\ sent'[Len(sent')] = newest /\ Len(sent') \in DOMAIN sent'
        BY <1>1, <1>7, <3>3, <4>2 DEF StreamInv, StreamTypes
      <4>4. InChannel(newest)'
        BY <1>3, <4>3 DEF InChannel, newest
      <4> QED
        BY <4>4 DEF Comes
    <3> QED
      BY <3>1, <3>2, <3>3
  <2> QED
    BY <1>1, <1>3, <2>1, <2>2, <2>3 DEF Comes, newest
<1> QED
  BY <1>1, <1>3, <1>8, <1>9 DEF StreamInv

\* What the socket receives stays received; its subscription and its lags begin anew at the
\* events committed by then.
LEMMA SocketKeeps ==
  ASSUME StreamInv,
         Connect \/ Expired \/ Subscribe \/ SendReplay \/ Forward \/ Lagged \/ Disconnect
  PROVE  StreamInv'
<1> DEFINE newest == Latest(Subscribed)
<1>1. UNCHANGED <<log, handler, sent, warned>>
  BY DEF Connect, Expired, Subscribe, SendReplay, Forward, Lagged, Disconnect, outboxVars
<1>2. newest \in 0 .. Len(log) /\ Len(log) \in Nat /\ (newest # 0 => log[newest] = Subscribed)
  BY LatestIs DEF StreamInv, StreamTypes
<1>3. Latest(Subscribed)' = newest
  BY <1>1 DEF Latest, EventsOf
<1>4. Len(sent) \in Nat /\ DOMAIN sent = 1 .. Len(sent) /\ ChannelSize \in Nat
  BY StreamAssumption DEF StreamInv, StreamTypes
<1> HIDE DEF newest
<1>5. ASSUME Connect \/ Disconnect PROVE StreamInv'
  <2>1. \/ socket' = Closed
        \/ \E replay : socket' = [at |-> "opening", replay |-> replay, position |-> 0, since |-> 0]
    <3>1. CASE Connect
      <4>1. PICK replay : socket' = [Closed EXCEPT !.at = "opening", !.replay = replay]
        BY <3>1 DEF Connect
      <4>2. socket' = [at |-> "opening", replay |-> replay, position |-> 0, since |-> 0]
        BY <4>1 DEF Closed
      <4> QED
        BY <4>2
    <3>2. CASE Disconnect
      BY <3>2 DEF Disconnect
    <3> QED
      BY <1>5, <3>1, <3>2
  <2> QED
    BY <1>1, <1>4, <2>1 DEF StreamInv, StreamTypes, Closed
<1>6. ASSUME Expired PROVE StreamInv'
  BY <1>1, <1>6 DEF StreamInv, StreamTypes, Expired
<1>7. ASSUME Subscribe \/ Lagged PROVE StreamInv'
  <2>1. /\ socket'.since = Len(log) /\ socket'.position \in 0 .. Len(sent)
        /\ socket' = [at |-> socket'.at, replay |-> socket'.replay, position |-> socket'.position,
                      since |-> socket'.since]
    <3>1. socket = [at |-> socket.at, replay |-> socket.replay, position |-> socket.position,
                    since |-> socket.since] /\ socket.position \in 0 .. Len(sent)
      BY DEF StreamInv, StreamTypes
    <3>2. CASE Subscribe
      <4>1. socket' = [socket EXCEPT !.at = "live", !.position = Len(sent), !.since = Len(log)]
        BY <3>2 DEF Subscribe
      <4>2. socket' = [at |-> "live", replay |-> socket.replay, position |-> Len(sent),
                       since |-> Len(log)]
        BY <3>1, <4>1
      <4> QED
        BY <1>4, <4>2
    <3>3. CASE Lagged
      <4>1. /\ socket' = [socket EXCEPT !.position = Len(sent) - ChannelSize, !.since = Len(log)]
            /\ Len(sent) - socket.position > ChannelSize
        BY <3>3 DEF Lagged, Behind
      <4>2. socket' = [at |-> socket.at, replay |-> socket.replay,
                       position |-> Len(sent) - ChannelSize, since |-> Len(log)]
        BY <3>1, <4>1
      <4>3. Len(sent) - ChannelSize \in 0 .. Len(sent)
        <5> DEFINE n == Len(sent)
                   p == socket.position
        <5>1. n \in Nat /\ p \in 0 .. n /\ n - p > ChannelSize /\ ChannelSize \in Nat
          BY <1>4, <3>1, <4>1
        <5> HIDE DEF n, p
        <5>2. n - ChannelSize \in 0 .. n
          BY <5>1
        <5> QED
          BY <5>2 DEF n
      <4> QED
        BY <4>2, <4>3
    <3>4. Subscribe \/ Lagged
      BY <1>7
    <3> QED
      BY <3>2, <3>3, <3>4
  <2> QED
    BY <1>1, <1>2, <1>3, <2>1 DEF StreamInv, StreamTypes, Comes
<1>8. ASSUME SendReplay PROVE StreamInv'
  <2>1. /\ socket' = [at |-> socket'.at, replay |-> socket'.replay, position |-> socket'.position,
                      since |-> socket'.since]
        /\ socket.at = "live" /\ got \subseteq got'
        /\ socket'.position = socket.position /\ socket'.since = socket.since
    BY <1>8 DEF SendReplay, StreamInv, StreamTypes
  <2>2. Comes(newest)
    BY <2>1 DEF StreamInv, newest
  <2>3. Comes(newest)'
    BY <1>1, <1>3, <2>1, <2>2 DEF Comes, InChannel, ToPublish, newest
  <2> QED
    BY <1>1, <1>3, <2>1, <2>3 DEF StreamInv, StreamTypes, newest
<1>9. ASSUME Forward PROVE StreamInv'
  <2>1. /\ socket' = [at |-> socket'.at, replay |-> socket'.replay, position |-> socket'.position,
                      since |-> socket'.since]
        /\ socket.at = "live" /\ socket'.at = "live" /\ got \subseteq got'
        /\ socket'.position = socket.position + 1 /\ socket'.since = socket.since
        /\ Len(sent) - socket.position >= 1
        /\ log[sent[socket.position + 1]] = Subscribed => sent[socket.position + 1] \in got'
    BY <1>9 DEF Forward, Behind, StreamInv, StreamTypes
  <2>2. socket.position \in Nat /\ socket'.position \in 0 .. Len(sent) /\ socket.since \in Nat
    BY <1>4, <2>1 DEF StreamInv, StreamTypes
  <2>3. Comes(newest)
    BY <2>1 DEF StreamInv, newest
  <2>4. ASSUME InChannel(newest) PROVE Comes(newest)'
    <3>1. PICK i \in DOMAIN sent : i > socket.position /\ sent[i] = newest
      BY <2>4 DEF InChannel
    <3>2. CASE i > socket.position + 1
      BY <1>1, <1>3, <2>1, <3>1, <3>2 DEF Comes, InChannel, newest
    <3>3. CASE i = socket.position + 1
      <4>1. newest = 0 \/ newest \in got'
        BY <1>2, <2>1, <3>1, <3>3
      <4> QED
        BY <1>3, <2>1, <2>2, <4>1 DEF Comes, newest
    <3> QED
      BY <1>4, <2>2, <3>1, <3>2, <3>3
  <2>5. Comes(newest)'
    BY <1>1, <1>3, <2>1, <2>3, <2>4 DEF Comes, ToPublish, newest
  <2> QED
    BY <1>1, <1>3, <2>1, <2>2, <2>5 DEF StreamInv, StreamTypes, newest
<1> QED
  BY <1>5, <1>6, <1>7, <1>8, <1>9

\* Every step of requests, maintenance and the socket keeps the invariant.
LEMMA StreamStep == StreamInv /\ [StreamNext]_streamVars => StreamInv'
<1> SUFFICES ASSUME StreamInv, [StreamNext]_streamVars PROVE StreamInv'
  OBVIOUS
<1>1. ASSUME UNCHANGED <<log, handler, sent, warned, socket, got>> PROVE StreamInv'
  BY <1>1 DEF StreamInv, StreamTypes, Comes, InChannel, ToPublish, Latest, EventsOf
<1>2. ASSUME Prune /\ UNCHANGED <<handler, sent, warned, socket, got, connects>> PROVE StreamInv'
  BY <1>1, <1>2 DEF Prune
<1>3. ASSUME UNCHANGED streamVars PROVE StreamInv'
  BY <1>1, <1>3 DEF streamVars, outboxVars
<1> QED
  BY <1>2, <1>3, ServeKeeps, PublishKeeps, SocketKeeps DEF StreamNext

\* A settled socket has delivered the newest event of its project, whatever requests overlap,
\* publish each other's events and fall behind the channel (hub.rs:5178, 5293).
THEOREM NewestArrivesHolds == StreamSpec => []NewestArrives
<1>1. StreamInit => StreamInv
  <2> SUFFICES ASSUME StreamInit PROVE StreamInv
    OBVIOUS
  <2>1. Idle \in Serving
    BY StreamAssumption DEF Idle, Serving
  <2> QED
    BY <2>1 DEF StreamInit, OutboxInit, StreamInv, StreamTypes, Closed
<1>2. StreamInv => NewestArrives
  <2> SUFFICES ASSUME StreamInv, Settled, Latest(Subscribed) > socket.since
               PROVE  Latest(Subscribed) \in got \cup warned
    BY DEF NewestArrives
  <2>1. Latest(Subscribed) \in Nat /\ socket.since \in Nat
    BY LatestIs DEF StreamInv, StreamTypes
  <2>2. ~InChannel(Latest(Subscribed))
    BY DEF Settled, Behind, InChannel, StreamInv, StreamTypes
  <2>3. ~ToPublish(Latest(Subscribed))
    BY DEF Settled, ToPublish
  <2> QED
    BY <2>1, <2>2, <2>3 DEF Settled, StreamInv, Comes
<1> QED
  BY <1>1, <1>2, StreamStep, PTL DEF StreamSpec

-----------------------------------------------------------------------------
(***************************************************************************)
(* The outbox's pages, for every reader                                    *)
(***************************************************************************)

\* Maintenance deletes from the old end: what it keeps of a project is its newest events, and
\* something of it, the newest one at least.
KeepsNewest ==
    \A p \in EventProjects :
        /\ \A n \in RetainedOf(p), k \in EventsOf(p) : n <= k => k \in retained
        /\ EventsOf(p) # {} => RetainedOf(p) # {}

OutboxInv ==
    /\ log \in Seq(EventProjects) /\ retained \subseteq DOMAIN log
    /\ KeepsNewest

\* Events are positions in the log, and so are the retained ones.
LEMMA OutboxNumbers ==
  ASSUME OutboxInv, NEW p
  PROVE  /\ DOMAIN log = 1 .. Len(log) /\ Len(log) \in Nat
         /\ EventsOf(p) \subseteq 1 .. Len(log) /\ RetainedOf(p) \subseteq 1 .. Len(log)
         /\ RetainedOf(p) \subseteq Nat
         /\ IsFiniteSet(RetainedOf(p))
<1>1. DOMAIN log = 1 .. Len(log) /\ Len(log) \in Nat
  BY DEF OutboxInv
<1>2. EventsOf(p) \subseteq 1 .. Len(log) /\ RetainedOf(p) \subseteq 1 .. Len(log)
  BY <1>1 DEF EventsOf, RetainedOf
<1>3. RetainedOf(p) \subseteq Nat
  BY <1>1, <1>2
<1>4. IsFiniteSet(RetainedOf(p))
  <2>1. IsFiniteSet(1 .. Len(log))
    BY <1>1, FS_Interval
  <2>2. QED BY <1>2, <2>1, FS_Subset
<1>5. QED BY <1>1, <1>2, <1>3, <1>4

\* A new event is the newest one of its project, and it is retained.
LEMMA AppendedKeepsNewest ==
  ASSUME OutboxInv, NEW q \in EventProjects, Append1(q)
  PROVE  OutboxInv'
<1>1. log' = Append(log, q) /\ retained' = retained \cup {Len(log) + 1}
  BY DEF Append1
<1>2. log \in Seq(EventProjects) /\ Len(log) \in Nat /\ DOMAIN log = 1 .. Len(log)
      /\ retained \subseteq DOMAIN log
  BY DEF OutboxInv
<1>3. /\ log' \in Seq(EventProjects) /\ DOMAIN log' = 1 .. Len(log) + 1
      /\ \A n \in DOMAIN log : log'[n] = log[n]
      /\ log'[Len(log) + 1] = q
  BY <1>1, <1>2, AppendProperties
<1>4. PICK e : e = Len(log) + 1
  OBVIOUS
<1>5. /\ e \in Nat /\ e \in retained' /\ e \in DOMAIN log' /\ e \notin DOMAIN log
      /\ retained' = retained \cup {e} /\ DOMAIN log' = DOMAIN log \cup {e}
      /\ \A n \in DOMAIN log : n \in Nat /\ n < e
  BY <1>1, <1>2, <1>3, <1>4
<1>6. \A p : /\ EventsOf(p)' = EventsOf(p) \cup (IF p = q THEN {e} ELSE {})
             /\ RetainedOf(p)' = RetainedOf(p) \cup (IF p = q THEN {e} ELSE {})
  <2>1. SUFFICES ASSUME NEW p
                 PROVE  /\ EventsOf(p)' = EventsOf(p) \cup (IF p = q THEN {e} ELSE {})
                        /\ RetainedOf(p)' = RetainedOf(p) \cup (IF p = q THEN {e} ELSE {})
    OBVIOUS
  <2>2. EventsOf(p)' = EventsOf(p) \cup (IF p = q THEN {e} ELSE {})
    BY <1>3, <1>4, <1>5 DEF EventsOf
  <2>3. \A n \in EventsOf(p) : n # e
    BY <1>5 DEF EventsOf
  <2>4. QED BY <2>2, <2>3, <1>5 DEF RetainedOf
<1>7. KeepsNewest'
  <2>1. SUFFICES ASSUME NEW p \in EventProjects
                 PROVE  /\ \A n \in RetainedOf(p)', k \in EventsOf(p)' : n <= k => k \in retained'
                        /\ EventsOf(p)' # {} => RetainedOf(p)' # {}
    BY DEF KeepsNewest
  <2>2. /\ \A n \in RetainedOf(p), k \in EventsOf(p) : n <= k => k \in retained
        /\ EventsOf(p) # {} => RetainedOf(p) # {}
    BY DEF OutboxInv, KeepsNewest
  <2>3. \A n \in RetainedOf(p)', k \in EventsOf(p)' : n <= k => k \in retained'
    <3>1. SUFFICES ASSUME NEW n \in RetainedOf(p)', NEW k \in EventsOf(p)', n <= k, k # e
                   PROVE  k \in retained'
      BY <1>5
    <3>2. k \in EventsOf(p) /\ k \in DOMAIN log
      BY <1>6, <3>1 DEF EventsOf
    <3>3. n # e
      BY <1>5, <3>1, <3>2
    <3>4. n \in RetainedOf(p)
      BY <1>6, <3>3
    <3>5. QED BY <2>2, <3>1, <3>2, <3>4, <1>5
  <2>4. EventsOf(p)' # {} => RetainedOf(p)' # {}
    BY <1>6, <2>2
  <2>5. QED BY <2>3, <2>4
<1>8. QED BY <1>3, <1>5, <1>7, <1>2 DEF OutboxInv

\* What is newer than a retained event has a smaller rank, and the newest has rank 1.
LEMMA PrunedKeepsNewest ==
  ASSUME OutboxInv, Prune
  PROVE  OutboxInv'
<1>1. log' = log /\ retained' = {n \in retained : RankOf(n) <= Retention}
  BY DEF Prune
<1>2. \A p : EventsOf(p)' = EventsOf(p) /\ RetainedOf(p)' = RetainedOf(p) \cap retained'
  BY <1>1 DEF EventsOf, RetainedOf
<1>3. ASSUME NEW p \in EventProjects
      PROVE  /\ \A n \in RetainedOf(p)', k \in EventsOf(p)' : n <= k => k \in retained'
             /\ EventsOf(p)' # {} => RetainedOf(p)' # {}
  <2> DEFINE R == RetainedOf(p)
             From(n) == {m \in R : m >= n}
  <2>1. R \subseteq 1 .. Len(log) /\ R \subseteq Nat /\ IsFiniteSet(R) /\ Len(log) \in Nat
        /\ EventsOf(p) \subseteq 1 .. Len(log)
    BY OutboxNumbers
  <2>2. \A n \in R : n \in retained /\ log[n] = p
    BY DEF RetainedOf, EventsOf
  <2>3. \A n \in R : RankOf(n) = Cardinality(From(n))
    BY <2>2 DEF RankOf
  <2>4. /\ \A n \in R, k \in EventsOf(p) : n <= k => k \in R
        /\ EventsOf(p) # {} => R # {}
    BY DEF OutboxInv, KeepsNewest, RetainedOf
  <2>5. Retention \in Nat /\ Retention >= 1
    BY OutboxAssumption
  <2> HIDE DEF R
  <2>6. \A n \in R : IsFiniteSet(From(n)) /\ Cardinality(From(n)) \in Nat
    BY <2>1, FS_Subset, FS_CardinalityType
  <2>7. \A n \in R' : n \in R /\ Cardinality(From(n)) <= Retention
    <3>1. R' = R \cap retained'
      BY <1>2 DEF R
    <3>2. QED BY <1>1, <3>1, <2>2, <2>3
  <2>8. \A k \in R : Cardinality(From(k)) <= Retention => k \in retained'
    BY <1>1, <2>2, <2>3
  <2>9. ASSUME NEW n \in R', NEW k \in EventsOf(p), n <= k
        PROVE  k \in retained'
    <3>1. n \in R /\ k \in R /\ n \in Nat /\ k \in Nat
      BY <2>1, <2>4, <2>7, <2>9
    <3>2. From(k) \subseteq From(n)
      <4>1. \A m \in R : m \in Nat
        BY <2>1
      <4>2. n <= k /\ n \in Nat /\ k \in Nat
        BY <2>9, <3>1
      <4>3. ASSUME NEW m \in R, m >= k PROVE m >= n
        BY <4>1, <4>2, <4>3
      <4>4. QED BY <4>3
    <3>3. Cardinality(From(k)) <= Cardinality(From(n))
      BY <2>6, <3>1, <3>2, FS_Subset
    <3>4. Cardinality(From(k)) <= Retention
      <4> HIDE DEF From
      <4>1. Cardinality(From(n)) <= Retention /\ Cardinality(From(n)) \in Nat /\ Cardinality(From(k)) \in Nat
        BY <2>6, <2>7, <3>1
      <4>2. QED BY <4>1, <3>3, <2>5
    <3>5. QED BY <2>8, <3>1, <3>4
  <2>10. ASSUME R # {}
         PROVE  R' # {}
    <3>1. PICK m \in R : \A k \in R : k <= m
      <4>1. PICK S : S = {Len(log) - x : x \in R}
        OBVIOUS
      <4>2. \A x \in R : Len(log) - x \in Nat
        BY <2>1
      <4>3. S \subseteq Nat /\ S # {}
        BY <4>1, <4>2, <2>10
      <4>4. PICK y \in S : \A z \in S : y <= z
        BY <4>3, Least
      <4>5. PICK x \in R : y = Len(log) - x
        BY <4>1
      <4>6. ASSUME NEW k \in R PROVE k <= x
        <5>1. y <= Len(log) - k
          BY <4>1, <4>4
        <5>2. QED BY <5>1, <4>5, <2>1
      <4>7. QED BY <4>6
    <3>2. From(m) = {m}
      <4>1. \A k \in R : k \in Nat /\ k <= m
        BY <2>1, <3>1
      <4>2. QED BY <4>1
    <3>3. Cardinality(From(m)) = 1
      BY <3>2, FS_Singleton
    <3>4. m \in retained'
      BY <2>8, <3>3, <2>5
    <3>5. QED BY <1>2, <3>4 DEF R
  <2>11. \A n \in RetainedOf(p)' : n \in R'
    BY DEF R
  <2>12. R' # {} => RetainedOf(p)' # {}
    BY DEF R
  <2>13. QED BY <1>2, <2>4, <2>9, <2>10, <2>11, <2>12
<1>4. KeepsNewest'
  BY <1>3 DEF KeepsNewest
<1>5. QED BY <1>1, <1>4 DEF OutboxInv

\* What the pages of an outbox that keeps the newest events leave out.
LEMMA CompletePages ==
  ASSUME OutboxInv
  PROVE  PagesAreComplete
<1>1. SUFFICES ASSUME NEW p \in EventProjects, NEW after \in 1 .. Len(log), NEW limit \in 1 .. Len(log),
                      ~CursorExpired(p, after)
               PROVE  LET shown == Page(p, after, limit)
                      IN  /\ \A n \in EventsOf(p), m \in shown : after < n /\ n <= m => n \in shown
                          /\ shown = {} => \A n \in EventsOf(p) : n <= after
  BY Zenon DEF PagesAreComplete
<1> DEFINE F == Following(p, after)
           UpTo(n) == {m \in F : m <= n}
           pg == {n \in F : Cardinality(UpTo(n)) <= limit}
<1>2. Page(p, after, limit) = pg
  BY DEF Page
<1>3. /\ EventsOf(p) \subseteq 1 .. Len(log) /\ RetainedOf(p) \subseteq Nat /\ Len(log) \in Nat
      /\ IsFiniteSet(RetainedOf(p))
  BY OutboxNumbers
<1>4. after \in Nat /\ after > 0 /\ limit \in Nat /\ limit >= 1
  BY <1>3
<1>5. \A n \in EventsOf(p) : after < n => n \in F
  <2>1. SUFFICES ASSUME NEW n \in EventsOf(p), after < n PROVE n \in RetainedOf(p)
    BY DEF Following
  <2>2. RetainedOf(p) # {}
    BY DEF OutboxInv, KeepsNewest
  <2>3. Min(RetainedOf(p)) \in RetainedOf(p)
    BY <1>3, <2>2, MinIsLeast
  <2>4. ~(after < Min(RetainedOf(p)) - 1)
    BY <1>1, <1>4, <2>2 DEF CursorExpired
  <2>5. PICK least \in RetainedOf(p) : least = Min(RetainedOf(p))
    BY <2>3
  <2>6. least <= n
    BY <1>3, <1>4, <2>1, <2>4, <2>5
  <2>7. n \in retained
    BY <2>5, <2>6 DEF OutboxInv, KeepsNewest
  <2>8. QED BY <2>7 DEF RetainedOf
<1>6. F \subseteq RetainedOf(p) /\ F \subseteq Nat /\ IsFiniteSet(F)
  BY <1>3, FS_Subset DEF Following
<1> HIDE DEF F
<1>7. \A n \in F : IsFiniteSet(UpTo(n)) /\ Cardinality(UpTo(n)) \in Nat
  BY <1>6, FS_Subset, FS_CardinalityType
<1>8. ASSUME NEW n \in EventsOf(p), NEW m \in pg, after < n, n <= m
      PROVE  n \in pg
  <2>1. n \in F /\ m \in F /\ Cardinality(UpTo(m)) <= limit
    BY <1>5, <1>8
  <2>2. UpTo(n) \subseteq UpTo(m)
    <3>1. \A k \in F : k \in Nat
      BY <1>6
    <3>2. QED BY <3>1, <1>8, <2>1
  <2>3. Cardinality(UpTo(n)) <= Cardinality(UpTo(m))
    BY <1>7, <2>1, <2>2, FS_Subset
  <2>4. Cardinality(UpTo(n)) <= limit
    <3> HIDE DEF UpTo
    <3>1. Cardinality(UpTo(n)) \in Nat /\ Cardinality(UpTo(m)) \in Nat
      BY <1>7, <2>1
    <3>2. QED BY <3>1, <2>1, <2>3, <1>4
  <2>5. QED BY <2>1, <2>4
<1>9. ASSUME F # {} PROVE pg # {}
  <2>1. PICK x \in F : \A y \in F : x <= y
    BY <1>6, <1>9, Least
  <2>2. UpTo(x) = {x}
    <3>1. \A y \in F : y \in Nat /\ x <= y
      BY <1>6, <2>1
    <3>2. QED BY <3>1
  <2>3. Cardinality(UpTo(x)) = 1
    BY <2>2, FS_Singleton
  <2>4. QED BY <2>1, <2>3, <1>4
<1>10. ASSUME pg = {}, NEW n \in EventsOf(p) PROVE n <= after
  <2>1. n \in Nat
    BY <1>3
  <2>2. n \notin F
    BY <1>9, <1>10
  <2>3. QED BY <1>4, <1>5, <2>1, <2>2
<1> HIDE DEF pg
<1>11. QED BY <1>2, <1>8, <1>10

\* The invariant of the outbox holds.
LEMMA OutboxInvHolds == OutboxSpec => []OutboxInv
<1>1. OutboxInit => OutboxInv
  <2>1. SUFFICES ASSUME OutboxInit PROVE OutboxInv
    OBVIOUS
  <2>2. log = <<>> /\ retained = {}
    BY <2>1 DEF OutboxInit
  <2>3. log \in Seq(EventProjects) /\ DOMAIN log = {}
    BY <2>2
  <2>4. QED BY <2>2, <2>3 DEF OutboxInv, KeepsNewest, EventsOf, RetainedOf
<1>2. OutboxInv /\ [OutboxNext]_outboxVars => OutboxInv'
  <2>1. SUFFICES ASSUME OutboxInv, [OutboxNext]_outboxVars PROVE OutboxInv'
    OBVIOUS
  <2>2. CASE \E q \in EventProjects : Append1(q)
    BY <2>1, <2>2, AppendedKeepsNewest
  <2>3. CASE Prune
    BY <2>1, <2>3, PrunedKeepsNewest
  <2>4. CASE UNCHANGED outboxVars
    BY <2>1, <2>4 DEF outboxVars, OutboxInv, KeepsNewest, EventsOf, RetainedOf
  <2>5. QED BY <2>1, <2>2, <2>3, <2>4 DEF OutboxNext
<1>3. QED BY <1>1, <1>2, PTL DEF OutboxSpec

\* A client that goes on from a cursor the Hub does not refuse misses nothing, whatever else is
\* committed or deleted in between, for every retention and every page size (events_page,
\* hub.rs:3965; maintenance, hub.rs:4139).
THEOREM PagesAreCompleteHolds == OutboxSpec => []PagesAreComplete
BY CompletePages, OutboxInvHolds, PTL

-----------------------------------------------------------------------------
(***************************************************************************)
(* The readers leave the outbox alone                                      *)
(***************************************************************************)

\* Whatever the adapter does, the Hub's outbox only grows and is pruned: so what is proved of
\* the outbox holds while the adapter polls it (hub_desktop.rs only sends GET requests for it).
THEOREM FeedKeepsOutbox == FeedSpec => OutboxSpec
<1>1. FeedInit => OutboxInit
  BY DEF FeedInit
<1>2. [FeedNext]_feedVars => [OutboxNext]_outboxVars
  <2>1. SUFFICES ASSUME [FeedNext]_feedVars PROVE [OutboxNext]_outboxVars
    OBVIOUS
  <2>2. CASE Commit
    BY <2>2 DEF Commit, OutboxNext
  <2>3. CASE MaintainOutbox
    BY <2>3 DEF MaintainOutbox, OutboxNext
  <2>4. CASE Work
    BY <2>4, Zenon DEF Work, PollExpired, Poll, Import, ImportDuplicate, FanOut, AdvanceCursor
  <2>5. CASE PageFailed \/ LocalCapture \/ Restart
    BY <2>5, Zenon DEF PageFailed, LocalCapture, Restart
  <2>6. CASE UNCHANGED feedVars
    BY <2>6, Zenon DEF feedVars
  <2>7. QED BY <2>1, <2>2, <2>3, <2>4, <2>5, <2>6 DEF FeedNext
<1>3. QED BY <1>1, <1>2, PTL DEF FeedSpec, OutboxSpec

\* The requests that are served at the same time append one event each or none, and the sockets
\* append none (hub.rs:5178, 5293).
THEOREM StreamKeepsOutbox == StreamSpec => OutboxSpec
<1>1. StreamInit => OutboxInit
  BY DEF StreamInit
<1>2. [StreamNext]_streamVars => [OutboxNext]_outboxVars
  <2>1. SUFFICES ASSUME [StreamNext]_streamVars PROVE [OutboxNext]_outboxVars
    OBVIOUS
  <2>2. ASSUME NEW h \in Handlers, NEW p \in EventProjects, Serve(h, p)
        PROVE  Append1(p) \/ UNCHANGED outboxVars
    BY <2>2, Zenon DEF Serve, ProjectRequest, ArtRequest, LeaseRequest, ObjectRequest, BuildRequest,
                ReleaseRequest, Keyed, Executes, Replays
  <2>3. ASSUME NEW h \in Handlers, PublishReads(h) \/ PublishFails(h) \/ PublishSends(h)
        PROVE  UNCHANGED outboxVars
    BY <2>3, Zenon DEF PublishReads, PublishFails, PublishSends
  <2>4. CASE Connect \/ Expired \/ Subscribe \/ SendReplay \/ Forward \/ Lagged \/ Disconnect
    BY <2>4, Zenon DEF Connect, Expired, Subscribe, SendReplay, Forward, Lagged, Disconnect
  <2>5. CASE UNCHANGED streamVars
    BY <2>5, Zenon DEF streamVars
  <2>6. QED
    BY <2>1, <2>2, <2>3, <2>4, <2>5 DEF StreamNext, OutboxNext
<1>3. QED BY <1>1, <1>2, PTL DEF StreamSpec, OutboxSpec
-----------------------------------------------------------------------------
(***************************************************************************)
(* The adapter's head                                                      *)
(***************************************************************************)

\* The invariant of the cursor holds.
LEMMA FeedInvHolds == FeedSpec => []FeedInv
BY FeedInitInv, FeedStep, PTL DEF FeedSpec

\* The adapter handles events of its own project only.
OwnEvents ==
    /\ imported \subseteq EventsOf(Project) /\ page \subseteq EventsOf(Project)
    /\ fannedOut \subseteq imported
    /\ recovery \in BOOLEAN

\* What may still be imported is newer than the head.
NewerComes ==
    /\ localHead \in imported \cup {0} /\ \A n \in imported : n <= localHead
    /\ \A n \in (RetainedOf(Project) \cup page) \ imported : n > localHead

HeadInv == OwnEvents /\ NewerComes

\* The numbers the invariants speak of.
LEMMA FeedNumbers ==
  ASSUME FeedInv, OwnEvents, localHead \in imported \cup {0}
  PROVE  /\ EventsOf(Project) \subseteq 1 .. Len(log) /\ EventsOf(Project) \subseteq Nat /\ Len(log) \in Nat
         /\ imported \subseteq Nat /\ page \subseteq Nat /\ RetainedOf(Project) \subseteq Nat
         /\ localHead \in Nat /\ localHead <= Len(log)
<1>1. DOMAIN log = 1 .. Len(log) /\ Len(log) \in Nat
  BY DEF FeedInv
<1>2. EventsOf(Project) \subseteq 1 .. Len(log) /\ RetainedOf(Project) \subseteq EventsOf(Project)
  BY <1>1 DEF EventsOf, RetainedOf
<1>3. \A n \in EventsOf(Project) : n \in Nat /\ n <= Len(log)
  BY <1>1, <1>2
<1>4. QED BY <1>1, <1>2, <1>3 DEF OwnEvents

\* A new event is newer than the head, and maintenance only deletes.
LEMMA OutboxKeepsHead ==
  ASSUME FeedInv, HeadInv, Commit \/ MaintainOutbox
  PROVE  HeadInv'
<1>1. UNCHANGED <<imported, localHead, page, fannedOut, recovery>>
  BY DEF Commit, MaintainOutbox, durable, memory
<1>2. /\ EventsOf(Project) \subseteq EventsOf(Project)'
      /\ \A n \in RetainedOf(Project)' : n \in RetainedOf(Project) \/ n = Len(log) + 1
  <2>1. log \in Seq(EventProjects) /\ DOMAIN log = 1 .. Len(log) /\ Len(log) \in Nat
    BY DEF FeedInv
  <2>2. CASE MaintainOutbox
    BY <2>2 DEF MaintainOutbox, Prune, EventsOf, RetainedOf
  <2>3. ASSUME NEW p \in EventProjects, Append1(p)
        PROVE  /\ EventsOf(Project) \subseteq EventsOf(Project)'
               /\ \A n \in RetainedOf(Project)' : n \in RetainedOf(Project) \/ n = Len(log) + 1
    <3>1. log' = Append(log, p) /\ retained' = retained \cup {Len(log) + 1}
      BY <2>3 DEF Append1
    <3>2. /\ DOMAIN log' = 1 .. Len(log) + 1
          /\ \A n \in DOMAIN log : log'[n] = log[n]
      BY <2>1, <3>1, AppendProperties
    <3>3. QED BY <2>1, <3>1, <3>2 DEF EventsOf, RetainedOf
  <2>4. QED BY <2>2, <2>3 DEF Commit
<1>3. localHead \in Nat /\ localHead <= Len(log) /\ Len(log) \in Nat
  BY FeedNumbers DEF HeadInv, NewerComes
<1>4. QED BY <1>1, <1>2, <1>3 DEF HeadInv, OwnEvents, NewerComes

\* An import takes the oldest event of the page, and what it leaves out is newer or imported.
LEMMA ImportMovesHead ==
  ASSUME FeedInv, HeadInv, Import
  PROVE  HeadInv'
<1>1. /\ at = "import" /\ Current \notin imported
      /\ imported' = imported \cup {Current} /\ localHead' = Current
      /\ UNCHANGED <<log, retained, cursor, page, recovery, fannedOut>>
  BY DEF Import, outboxVars
<1>2. /\ EventsOf(Project) \subseteq Nat /\ imported \subseteq Nat /\ page \subseteq Nat
      /\ RetainedOf(Project) \subseteq Nat /\ localHead \in Nat /\ cursor \in Nat
  BY FeedNumbers DEF HeadInv, NewerComes, FeedInv
<1>3. PICK c : c = Current
  OBVIOUS
<1>4. c \in page /\ c \in Nat /\ \A m \in page : c <= m
  BY <1>1, <1>2, <1>3, MinIsLeast DEF Current, FeedInv
<1>5. c > localHead
  BY <1>1, <1>3, <1>4 DEF HeadInv, NewerComes
<1>6. EventsOf(Project)' = EventsOf(Project) /\ RetainedOf(Project)' = RetainedOf(Project)
  BY <1>1 DEF EventsOf, RetainedOf
<1>7. OwnEvents'
  BY <1>1, <1>3, <1>4, <1>6 DEF HeadInv, OwnEvents
<1>8. \A n \in imported' : n <= c
  BY <1>1, <1>2, <1>3, <1>4, <1>5 DEF HeadInv, NewerComes
<1>9. ASSUME NEW n \in RetainedOf(Project) \cup page, n \notin imported, n # c
      PROVE  n > c
  <2>1. n \in Nat
    BY <1>2
  <2>2. CASE n \in page
    BY <1>4, <1>9, <2>1, <2>2
  <2>3. CASE n \notin page
    <3>1. n \in RetainedOf(Project) /\ ~(n <= cursor)
      BY <1>9, <2>3 DEF FeedInv, NoGap
    <3>2. n > cursor
      BY <1>2, <2>1, <3>1
    <3>3. c < n
      BY <1>4, <2>3, <3>1, <3>2 DEF FeedInv, PageIsNext
    <3>4. QED BY <3>3, <2>1, <1>4
  <2>4. QED BY <2>2, <2>3
<1>10. NewerComes'
  BY <1>1, <1>3, <1>6, <1>8, <1>9 DEF NewerComes
<1>11. QED BY <1>7, <1>10 DEF HeadInv

\* The other steps of the adapter import nothing.
LEMMA OthersKeepHead ==
  ASSUME HeadInv, UNCHANGED <<log, retained, imported, localHead>>,
         page' \subseteq page \cup RetainedOf(Project),
         fannedOut' \subseteq imported, recovery' \in BOOLEAN
  PROVE  HeadInv'
<1>1. EventsOf(Project)' = EventsOf(Project) /\ RetainedOf(Project)' = RetainedOf(Project)
  BY DEF EventsOf, RetainedOf
<1>2. RetainedOf(Project) \subseteq EventsOf(Project)
  BY DEF RetainedOf
<1>3. OwnEvents'
  BY <1>1, <1>2 DEF HeadInv, OwnEvents
<1>4. NewerComes'
  BY <1>1 DEF HeadInv, NewerComes
<1>5. QED BY <1>3, <1>4 DEF HeadInv

\* Every step of the Hub and of the adapter keeps what comes newer than the head.
LEMMA HeadStep == FeedInv /\ HeadInv /\ [FeedNext]_feedVars => HeadInv'
<1> SUFFICES ASSUME FeedInv, HeadInv, [FeedNext]_feedVars PROVE HeadInv'
  OBVIOUS
<1>1. fannedOut \subseteq imported /\ recovery \in BOOLEAN
  BY DEF HeadInv, OwnEvents
<1>2. CASE Poll
  <2>1. /\ UNCHANGED <<log, retained, imported, localHead, fannedOut>>
        /\ page' = Page(Project, cursor, PageSize) /\ recovery' \in BOOLEAN
    BY <1>1, <1>2 DEF Poll, outboxVars, durable
  <2>2. page' \subseteq RetainedOf(Project)
    BY <2>1 DEF Page, Following
  <2>3. QED BY <1>1, <2>1, <2>2, OthersKeepHead
<1>3. CASE PollExpired \/ ImportDuplicate
  <2>1. UNCHANGED <<log, retained, imported, localHead, page, fannedOut>> /\ recovery' \in BOOLEAN
    BY <1>1, <1>3 DEF PollExpired, ImportDuplicate, outboxVars, durable
  <2>2. QED BY <1>1, <2>1, OthersKeepHead
<1>4. CASE FanOut
  <2>1. /\ UNCHANGED <<log, retained, imported, localHead, page, recovery>>
        /\ fannedOut' = fannedOut \cup {Current}
    BY <1>4 DEF FanOut, outboxVars, durable
  <2>2. Current \in imported
    BY <1>4 DEF FanOut, FeedInv
  <2>3. QED BY <1>1, <2>1, <2>2, OthersKeepHead
<1>5. CASE AdvanceCursor
  <2>1. /\ UNCHANGED <<log, retained, imported, localHead, fannedOut>>
        /\ page' = page \ {Current} /\ recovery' \in BOOLEAN
    BY <1>1, <1>5 DEF AdvanceCursor, outboxVars
  <2>2. QED BY <1>1, <2>1, OthersKeepHead
<1>6. CASE PageFailed \/ Restart
  <2>1. /\ UNCHANGED <<log, retained, imported, localHead, fannedOut>>
        /\ page' = {} /\ recovery' \in BOOLEAN
    BY <1>1, <1>6 DEF PageFailed, Restart, outboxVars, durable
  <2>2. QED BY <1>1, <2>1, OthersKeepHead
<1>7. CASE LocalCapture \/ UNCHANGED feedVars
  <2>1. UNCHANGED <<log, retained, imported, localHead, page, fannedOut, recovery>>
    BY <1>7 DEF LocalCapture, feedVars, outboxVars, durable, memory
  <2>2. QED BY <1>1, <2>1, OthersKeepHead
<1>8. QED
  BY <1>2, <1>3, <1>4, <1>5, <1>6, <1>7, OutboxKeepsHead, ImportMovesHead DEF FeedNext, Work

\* The invariant of the head holds.
LEMMA HeadInvHolds == FeedSpec => []HeadInv
<1>1. FeedInit => HeadInv
  <2>1. SUFFICES ASSUME FeedInit PROVE HeadInv
    OBVIOUS
  <2>2. RetainedOf(Project) = {}
    BY <2>1 DEF FeedInit, OutboxInit, RetainedOf
  <2>3. QED BY <2>1, <2>2 DEF FeedInit, HeadInv, OwnEvents, NewerComes
<1>2. QED BY <1>1, HeadStep, FeedInvHolds, PTL DEF FeedSpec

\* The adapter works on retained events of its project, and what it has fanned out it has
\* imported, through every expiry, failure and restart (hub_desktop.rs:475-480).
THEOREM FeedTypeCorrect == FeedSpec => []FeedTypeOK
<1>1. FeedInv /\ HeadInv => FeedTypeOK
  BY DEF FeedInv, HeadInv, OwnEvents, FeedTypeOK
<1>2. QED BY <1>1, FeedInvHolds, HeadInvHolds, PTL

\* No replay sets the local head back, and an adapter whose cursor is at the Hub's latest event
\* has that event's revision at its head, for every retention and page size and whatever is
\* pruned, fails or is restarted (hub_desktop.rs:475-480, 647).
THEOREM HeadFollowsHubHolds == FeedSpec => []HeadFollowsHub
<1>1. FeedInv /\ HeadInv /\ OutboxInv => HeadFollowsHub
  <2>1. SUFFICES ASSUME FeedInv, HeadInv, OutboxInv PROVE HeadFollowsHub
    OBVIOUS
  <2>2. /\ EventsOf(Project) \subseteq 1 .. Len(log) /\ EventsOf(Project) \subseteq Nat /\ Len(log) \in Nat
        /\ imported \subseteq Nat /\ localHead \in Nat
    BY <2>1, FeedNumbers DEF HeadInv, NewerComes
  <2>3. /\ imported \subseteq EventsOf(Project)
        /\ localHead \in imported \cup {0} /\ \A n \in imported : n <= localHead
    BY <2>1 DEF HeadInv, OwnEvents, NewerComes
  <2>4. localHead = Max({0} \cup imported)
    <3> DEFINE S == {0} \cup imported
    <3>1. S \subseteq Nat /\ localHead \in S /\ \A n \in S : n <= localHead
      BY <2>2, <2>3
    <3> HIDE DEF S
    <3>2. localHead = Max(S)
      BY <3>1, MaxIs
    <3>3. QED BY <3>2 DEF S
  <2>5. ASSUME cursor = Latest(Project) PROVE localHead = Latest(Project)
    <3> DEFINE S == {0} \cup EventsOf(Project)
    <3>1. PICK latest : latest = Latest(Project)
      OBVIOUS
    <3>2. latest \in S /\ \A n \in S : n <= latest
      <4>1. S \subseteq 0 .. Len(log) /\ S # {}
        BY <2>2
      <4>2. latest = Max(S)
        BY <3>1 DEF Latest
      <4> HIDE DEF S
      <4>3. Max(S) \in S /\ \A n \in S : Max(S) >= n
        BY <2>2, <4>1, MaxOfBounded
      <4>4. S \subseteq Nat
        BY <2>2, <4>1
      <4>5. QED BY <4>2, <4>3, <4>4
    <3>3. localHead <= latest
      BY <2>3, <3>2
    <3>4. latest <= localHead
      <4>1. CASE latest = 0
        BY <2>2, <4>1
      <4>2. CASE latest # 0
        <5>1. latest \in EventsOf(Project)
          BY <3>2, <4>2
        <5>2. PICK n \in RetainedOf(Project) : TRUE
          BY <2>1, <5>1, FeedAssumption DEF OutboxInv, KeepsNewest
        <5>3. n <= latest
          BY <3>2 DEF RetainedOf
        <5>4. latest \in RetainedOf(Project)
          BY <2>1, <5>1, <5>2, <5>3, FeedAssumption DEF OutboxInv, KeepsNewest, RetainedOf
        <5>5. latest \in imported
          BY <2>1, <2>2, <2>5, <3>1, <5>1, <5>4 DEF FeedInv, NoGap
        <5>6. QED BY <2>3, <5>5
      <4>3. QED BY <4>1, <4>2
    <3>5. latest \in Nat
      BY <2>2, <3>2
    <3>6. QED BY <2>2, <3>1, <3>3, <3>4, <3>5
  <2>6. QED BY <2>4, <2>5 DEF HeadFollowsHub
<1>2. QED BY <1>1, FeedInvHolds, HeadInvHolds, FeedKeepsOutbox, OutboxInvHolds, PTL
=============================================================================
