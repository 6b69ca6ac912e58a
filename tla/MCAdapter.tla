----------------------------- MODULE MCAdapter -----------------------------
(***************************************************************************)
(* The desktop's Hub adapter in one run: what it publishes (HubTransfer)   *)
(* and what it follows (HubFeed).  The two share nothing but the Hub; part *)
(* tells which of them a behaviour is about.                               *)
(***************************************************************************)
EXTENDS HubTransfer, HubFeed

VARIABLE part

adapterVars == <<allVars, feedVars, part>>
UnitSize == [h \in Hashes |-> 1]

Publishes(A) == part = "publish" /\ A /\ UNCHANGED <<feedVars, part>>
Follows(A) == part = "follow" /\ A /\ UNCHANGED <<allVars, part>>

MCInit == TransferInit /\ FeedInit /\ part \in {"publish", "follow"}
MCNext == Publishes(TransferNext) \/ Follows(FeedNext)

\* The fairness of TransferFairSpec and of FairFeedSpec.
MCSpec ==
    /\ MCInit /\ [][MCNext]_adapterVars
    /\ WF_adapterVars(Publishes(MaintainAll /\ running')) /\ WF_adapterVars(Follows(Work))

\* The Hub's uploads come to an end, unless its one-statement sweep is poisoned (hub.rs:4131).
UploadsExpire == part = "publish" => TransfersExpireUnlessPoisoned

\* When the Hub falls silent, the adapter ends up with its latest accepted revision, also
\* when its cursor expires on the way or it is restarted (hub_desktop.rs:438).
AdapterCatchesUp == part = "follow" => CatchesUp
=============================================================================
