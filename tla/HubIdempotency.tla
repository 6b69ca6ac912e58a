--------------------------- MODULE HubIdempotency ---------------------------
(***************************************************************************)
(* The idempotency records every mutation of the Hub goes through.  A      *)
(* mutation looks its key up and, when it is new, executes and stores its  *)
(* answer in the same transaction; a refused mutation stores nothing and   *)
(* is not modelled.  Clients may deliver a request again at any time: the  *)
(* first answer was lost, a retry loop is running, a program repeats it.   *)
(***************************************************************************)
EXTENDS Integers, Sequences

CONSTANTS Callers,
          Routes,     \* names of the mutations ("leases.acquire", ...)
          Targets,    \* the aggregate named in the path of a request
          Bodies,     \* canonical hashes of request bodies
          Keys,       \* Idempotency-Key headers
          RecordTTL,  \* IDEMPOTENCY_TTL_MS
          MaxTime, MaxEffects  \* bounds on the clock and on the executions

ASSUME IdempotencyAssumption == {RecordTTL, MaxTime, MaxEffects} \subseteq Nat

VARIABLES records,   \* idempotency_records table; its response_json names an effect
          effects,   \* the mutations executed, in order
          answers,   \* the answers given: which effect answered which request
          now

vars == <<records, effects, answers, now>>

Request == [by: Callers, route: Routes, target: Targets, body: Bodies, key: Keys]
Effect == [request: Request, at: Nat]
Record == [by: Callers, route: Routes, key: Keys, body: Bodies, effect: Nat, expires: Nat]
Answer == [request: Request, effect: Nat]

-----------------------------------------------------------------------------
\* Mutant: the principal is not part of the key.
AnyonesRecords(q) == {r \in records : r.route = q.route /\ r.key = q.key}

\* check_idempotency: by principal, project, route and key, expired or not.
Found(q) == {r \in records : r.by = q.by /\ r.route = q.route /\ r.key = q.key}

Answered(q, e) == answers' = answers \cup {[request |-> q, effect |-> e]}

\* A key seen before with the same body: the stored answer.  (Another body is refused.)
Replay(q) ==
    \E r \in Found(q) :
        /\ r.body = q.body
        /\ Answered(q, r.effect)
        /\ UNCHANGED <<records, effects, now>>

\* A new key: the mutation and its record, in one transaction.
Execute(q) ==
    /\ Found(q) = {}
    /\ Len(effects) < MaxEffects
    /\ effects' = Append(effects, [request |-> q, at |-> now])
    /\ records' = records \cup {[by |-> q.by, route |-> q.route, key |-> q.key, body |-> q.body,
                                 effect |-> Len(effects'), expires |-> now + RecordTTL]}
    /\ Answered(q, Len(effects'))
    /\ UNCHANGED now

\* Mutant: records go while they are still valid.
MaintainEagerly ==
    /\ records' = {}
    /\ UNCHANGED <<effects, answers, now>>

\* maintenance deletes what has expired; it runs every minute, not on expiry.
Maintain ==
    /\ records' = {r \in records : r.expires > now}
    /\ UNCHANGED <<effects, answers, now>>

Tick == now < MaxTime /\ now' = now + 1 /\ UNCHANGED <<records, effects, answers>>

-----------------------------------------------------------------------------
Init == records = {} /\ effects = <<>> /\ answers = {} /\ now = 0

Next ==
    \/ \E q \in Request : Replay(q) \/ Execute(q)
    \/ Maintain
    \/ Tick

Spec == Init /\ [][Next]_vars

-----------------------------------------------------------------------------
\* Records and answers speak of mutations that have happened.
TypeOK ==
    /\ effects \in Seq(Effect)
    /\ records \subseteq Record
    /\ answers \subseteq Answer
    /\ \A x \in records \cup answers : x.effect \in DOMAIN effects
    /\ now \in Nat

Same(q, r) == q.by = r.by /\ q.route = r.route /\ q.key = r.key

\* However often it is delivered, a keyed mutation of a principal executes at most once in
\* the lifetime of its record (hub.rs:694-750; docs/guides/HUB_README.md:41-44).
AtMostOnce ==
    \A i, j \in DOMAIN effects :
        i < j /\ Same(effects[i].request, effects[j].request)
            => effects[j].at >= effects[i].at + RecordTTL

\* An answer, replayed or not, is of a mutation the same principal asked of the same route
\* with the same body: a key is never answered with somebody else's result.
AnswersAgree ==
    \A a \in answers :
        LET q == effects[a.effect].request
        IN  Same(q, a.request) /\ q.body = a.request.body
=============================================================================
