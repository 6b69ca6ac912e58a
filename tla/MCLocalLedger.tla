--------------------------- MODULE MCLocalLedger ---------------------------
(***************************************************************************)
(* LocalLedger for TLC: two cells, two contents, one transfer and two Hub *)
(* revisions, the second of which changes one of the two cells.            *)
(***************************************************************************)
EXTENDS LocalLedger, TLC

CONSTANTS x, y, b1, b2, t1

TwoRemotes == << (x :> b1) @@ (y :> b1), (x :> b2) @@ (y :> b1) >>
OneTransfer == t1 :> b1
SymmetricWorkers == Permutations(Workers)
=============================================================================
