------------------------------ MODULE MCBridge ------------------------------
(***************************************************************************)
(* The Studio bridge in one run: the offers, captures and fan-outs of two  *)
(* sessions against a binding that changes, who gets a session at all, and *)
(* what one session sends.  part tells which of the three a behaviour is   *)
(* about; the others stand still.                                          *)
(***************************************************************************)
EXTENDS StudioBridge, BridgeAccess, BridgeWire, TLC

CONSTANTS x, first, c1

VARIABLE part

\* Two checkouts of one project.
OneProject == [w \in Workspaces |-> x]

MCInit == Init /\ AccessInit /\ WireInit /\ part \in {"orchestration", "access", "wire"}
\* The first workspace selected and the first code shown, up to renaming.
Renamed ==
    /\ workspace = None => workspace' \in {None, first}
    /\ challenges = <<>> /\ challenges' # <<>> => challenges'[1].code = c1

MCNext ==
    \/ part = "orchestration" /\ Next /\ UNCHANGED <<accessVars, wireVars, part>> /\ Renamed
    \/ part = "access" /\ AccessNext /\ UNCHANGED <<vars, wireVars, part>> /\ Renamed
    \/ part = "wire" /\ WireNext /\ UNCHANGED <<vars, accessVars, part>>
MCSpec == MCInit /\ [][MCNext]_<<vars, accessVars, wireVars, part>>

\* Sessions and installations are only compared.
Symmetry == Permutations(Sessions) \cup Permutations(Plugins)
=============================================================================
