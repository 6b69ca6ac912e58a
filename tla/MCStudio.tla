------------------------------ MODULE MCStudio ------------------------------
(***************************************************************************)
(* The two ways content reaches an open place, in one run: the servers and *)
(* the ownership check of Rojo, and the Studio plugin.  They share nothing *)
(* here; part tells which of them a behaviour is about.                    *)
(***************************************************************************)
EXTENDS RojoSessions, StudioPlugin, MCOwnership

VARIABLE part

studioVars == <<vars, pluginVars, ownershipVars, part>>

MCInit ==
    /\ part \in {"rojo", "plugin", "ownership"}
    \* what the other parts start from does not matter, and neither do the names of projects
    /\ project = CHOOSE p \in Projects : TRUE
    /\ part # "rojo" => foreign = {}
    /\ part # "ownership" => /\ ownership = CHOOSE m \in Manifests : Valid(m)
                             /\ tree = CHOOSE t \in Trees : TRUE
    /\ Init /\ PluginInit /\ OwnershipInit

\* In the plugin, a behaviour has two of these: reloads, other contexts, checkpoints, applies
\* started since the last reload, and second edits of a root, which happen when something may
\* have been added to it unseen; and a second command follows an apply.
InPlugin(A) ==
    /\ part = "plugin" /\ A /\ UNCHANGED <<vars, ownershipVars, part>>
    /\ reloads' + (version' - 1) + checkpoints' + Cardinality(applies')
         + Cardinality({i \in DOMAIN roots' : roots'[i].edits > 1}) <= 2
    /\ commands' <= Cardinality(applies') + 1
    /\ \A i \in DOMAIN roots' : roots'[i].edits > 1 => roots'[i].blind

MCNext ==
    \/ /\ part = "rojo" /\ Next /\ UNCHANGED <<pluginVars, ownershipVars, part>>
       \* nor do the names of the first child's place and port
       /\ process = <<>> /\ process' # <<>> =>
            /\ process'[1].place = CHOOSE p \in Places : TRUE
            /\ process'[1].port = CHOOSE p \in Ports : TRUE
       \* other programs take ports only while the project file is as it was
       /\ foreign' # {} => project' = CHOOSE p \in Projects : TRUE
    \/ InPlugin(PluginNext)
    \/ /\ part = "ownership" /\ OwnershipNext
       /\ UNCHANGED <<vars, pluginVars, part>>
       /\ slots' # slots => verdict = "accepted" /\ slots = {}

\* The fairness of StudioPlugin; none of the others'.
MCSpec ==
    /\ MCInit /\ [][MCNext]_studioVars
    /\ WF_studioVars(InPlugin(Serialized)) /\ WF_studioVars(InPlugin(SerializeAgain))
    /\ WF_studioVars(InPlugin(RequestFails))

\* A checkpoint under way ends and clears captureBusy, as long as the plugin stays connected
\* (studio_plugin.luau:690).
CheckpointEnds == part = "plugin" => CaptureEnds
=============================================================================
