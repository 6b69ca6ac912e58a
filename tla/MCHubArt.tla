------------------------------ MODULE MCHubArt ------------------------------
(***************************************************************************)
(* HubArt for TLC.  focus keeps the instance small: a behaviour renews and *)
(* releases leases while the clock runs for longer, or proposes, reviews   *)
(* and accepts under leases that only expire.                              *)
(***************************************************************************)
EXTENDS HubArtProps, TLC

VARIABLE focus

Focused ==
    /\ focus = "leases" => proposals' = <<>>
    /\ focus = "proposals" =>
         releasing' = {} /\ now' <= 1 /\ \A l \in DOMAIN lease' : lease'[l].counter = 0

MCInit == Init /\ focus \in {"leases", "proposals"}
MCNext == Next /\ Focused /\ UNCHANGED focus
MCSpec == MCInit /\ [][MCNext]_<<vars, focus>>

Symmetric == Permutations(LeaseIds) \cup Permutations(Principals) \cup Permutations(Cells)
=============================================================================
