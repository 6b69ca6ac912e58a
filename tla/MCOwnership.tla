---------------------------- MODULE MCOwnership ----------------------------
(***************************************************************************)
(* Ownership for TLC: one service W with locations m and k below each      *)
(* other, a directory with a nested project, a package with a default      *)
(* project and a binary model, and all small root projects over them.      *)
(***************************************************************************)
EXTENDS Ownership, TLC

W == <<"W">>
M == <<"W", "m">>
K == <<"W", "m", "k">>
OneService == {W}
FourLocations == {<<>>, W, M, K}

code == <<"code">>
pkg == <<"pkg">>
root == <<"default">>
nested == <<"code", "lib", "k">>
default == <<"pkg", "default">>
Workspace ==
    [file \in {root, code, <<"code", "lib">>, nested, pkg, default, <<"pkg", "x">>} |->
       CASE file \in {root, nested, default} -> "project"
         [] file = <<"pkg", "x">> -> "model"
         [] OTHER -> "directory"]

GitRoots ==
    {r \in [path: {W, M, K}, owner: {"git-code"}, delegates: BOOLEAN, captures: {FALSE},
            folder: {code, pkg}, models: BOOLEAN] : r.models <=> r.folder = pkg}
ArtRoots ==
    [path: {W, M, K}, owner: {"studio-art"}, delegates: BOOLEAN, captures: BOOLEAN,
     folder: {NoFile}, models: {FALSE}]
Pairs == {{r, s} : r, s \in GitRoots \cup ArtRoots}

Nodes(ignores, properties, sources) ==
    [ignore: ignores, properties: properties, named: {TRUE}, source: sources]

RootTrees ==
    {(<<>> :> top) @@ (W :> service) @@ lower :
        top \in Nodes({"unset", "false"}, {FALSE}, {NoFile}),
        service \in Nodes({"unset", "false"}, BOOLEAN, {NoFile, code, pkg}),
        lower \in {<<>>} \cup {M :> node : node \in Nodes({"unset", "false"}, {FALSE}, {NoFile, code, pkg, root})}}
NestedTrees ==
    {(<<>> :> top) @@ (<<"k">> :> below) :
        top \in Nodes({"unset", "false"}, {FALSE}, {NoFile}),
        below \in Nodes({"false"}, {TRUE}, {NoFile})}
PackageTrees ==
    {(<<>> :> top) @@ lower :
        top \in Nodes({"false"}, {FALSE}, {NoFile, <<"pkg", "x">>}),
        lower \in {<<>>} \cup {<<"k">> :> node : node \in Nodes({"unset"}, {FALSE}, {NoFile})}}
SmallTrees ==
    {(root :> r) @@ (nested :> n) @@ (default :> d) :
        r \in RootTrees, n \in NestedTrees, d \in PackageTrees}
=============================================================================
