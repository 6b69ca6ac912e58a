----------------------------- MODULE Ownership -----------------------------
(***************************************************************************)
(* Who may change which part of a place.  The manifest declares ownership  *)
(* roots in the data model; before Rojo is started, every claim of its     *)
(* project and of the projects that one includes is reconciled to the      *)
(* git-code roots (rojo_desktop_config.rs), and a capture of Studio must   *)
(* lie under a studio-art root (core.rs).                                  *)
(*                                                                         *)
(* A path, in the data model or in the workspace, is a sequence of names.  *)
(* Malformed, oversized and missing files, symlinks, unsupported fields    *)
(* and the limits on counts only reject, as Reject may at any time.        *)
(***************************************************************************)
EXTENDS Naturals, FiniteSets, SequencesExt

CONSTANTS Locations,  \* paths in the data model, <<>> the place itself
          Services,   \* is_known_service, as paths
          Files,      \* what a workspace path is: "directory", "project", "script" or "model"
          DefaultProject, \* the name default.project.json
          RootProject, \* repository.projectFile
          Manifests,  \* the ownership tables considered
          Trees,      \* the contents of all the project files considered
          NoFile

Path == Seq(STRING)
ProjectFiles == {file \in DOMAIN Files : Files[file] = "project"}

ASSUME OwnershipAssumption ==
    /\ <<>> \in Locations /\ Locations \subseteq Path
    /\ DOMAIN Files \subseteq Path /\ NoFile \notin DOMAIN Files
    /\ RootProject \in ProjectFiles /\ DefaultProject \in STRING

VARIABLES ownership,  \* places.*.ownership: a set of roots
          tree,       \* of a project file: its nodes, by their path below the project's tree
          todo,       \* project visits still to make: the file, its destination, active_projects
          mappings,   \* the claims recorded in the report
          controls,   \* what Rojo would control, serving what has been visited
          verdict,    \* "none", "accepted" or "rejected"
          slots       \* the slots accepted from Studio

ownershipVars == <<ownership, tree, todo, mappings, controls, verdict, slots>>

Owners == {"git-code", "studio-art", "other"}  \* a studio-art root of another channel is "other"
OwnershipConfig == [path: Locations, owner: Owners,
         delegates: BOOLEAN,                   \* allow_owned_descendants
         captures: BOOLEAN,                    \* unknown_instances is "capture"
         folder: DOMAIN Files \cup {NoFile},   \* projectPath
         models: BOOLEAN]                      \* allowRojoBinaryModels
Node == [ignore: {"unset", "true", "false"},   \* $ignoreUnknownInstances
         properties: BOOLEAN,                  \* $properties or $attributes
         named: BOOLEAN,                       \* no $className, or its own name
         source: DOMAIN Files \cup {NoFile}]   \* $path

ASSUME ManifestsAssumption == \A roots \in Manifests : roots \subseteq OwnershipConfig
ASSUME TreesAssumption ==
    \A content \in Trees :
        /\ DOMAIN content = ProjectFiles
        /\ \A file \in ProjectFiles : content[file] \in [DOMAIN content[file] -> Node]
                                 /\ DOMAIN content[file] \subseteq Path

-----------------------------------------------------------------------------
\* ProjectManifest::validate: of two roots, one above the other, the upper one delegates.
Valid(roots) ==
    \A upper, lower \in roots :
        upper # lower /\ IsPrefix(upper.path, lower.path) =>
            upper.path # lower.path /\ upper.delegates /\ ~upper.captures

Containing(at) == {root \in ownership : IsPrefix(root.path, at)}
\* The deepest root that contains a location.
OwnerOf(at) == CHOOSE root \in Containing(at) :
                   \A other \in Containing(at) : Len(other.path) <= Len(root.path)

\* Mutant: the roots below a subtree are not looked at.
OwnedAtTop(at, deep) == Containing(at) # {} /\ OwnerOf(at).owner = "git-code"

\* owner_for: git-code owns the location and, of a subtree, no other root lies in it.
OwnedByGit(at, deep) ==
    /\ Containing(at) # {}
    /\ OwnerOf(at).owner = "git-code"
    /\ deep => \A root \in ownership : IsPrefix(at, root.path) => root = OwnerOf(at)

-----------------------------------------------------------------------------
Below(folder) == {file \in DOMAIN Files : IsStrictPrefix(folder, file)}
Default(folder) == Append(folder, DefaultProject)
HasDefault(folder) == Default(folder) \in ProjectFiles

\* The project files that $path brings in: itself, the default one of a directory, or all
\* that are found in a directory without one.
Includes(source) ==
    IF source = NoFile THEN {}
    ELSE IF Files[source] = "project" THEN {source}
    ELSE IF HasDefault(source) THEN {Default(source)}
    ELSE Below(source) \cap ProjectFiles

\* scan_source_tree, is_binary_model
HasModel(source) == \E file \in Below(source) \cup {source} : Files[file] = "model"

\* A $path that is no project, nor a directory that stands for its default one.
Maps(node) ==
    node.source # NoFile /\ Files[node.source] # "project" /\ ~HasDefault(node.source)

\* record_mapping: a claim with a source has it under projectPath, and binary models allowed.
Permitted(claim) ==
    /\ OwnedByGit(claim.at, claim.deep)
    /\ claim.source # NoFile =>
         LET root == OwnerOf(claim.at)
         IN  /\ root.folder # NoFile /\ IsPrefix(root.folder, claim.source)
             /\ HasModel(claim.source) => root.models

PassThrough(node, at) ==
    node.ignore = "false" /\ ~node.properties /\ node.named /\ at \in Services

\* $ignoreUnknownInstances, taken to be true of a node without $path that leaves it out.
Ignores(node) == node.ignore = "true" \/ (node.ignore = "unset" /\ node.source = NoFile)

\* visit_node: what a node claims, at its destination.
Claims(node, at) ==
    LET claim(deep, source) == {[at |-> at, deep |-> deep, source |-> source]}
    IN  (IF Ignores(node) THEN claim(TRUE, NoFile) ELSE {})
        \cup (IF node.properties THEN claim(FALSE, NoFile) ELSE {})
        \cup (IF at # <<>> /\ node.source = NoFile /\ ~PassThrough(node, at)
                THEN claim(FALSE, NoFile) ELSE {})
        \cup (IF Maps(node) THEN claim(TRUE, node.source) ELSE {})

\* Where Rojo puts an included project: in place of what was included, or below it, by
\* its path there.
Seat(source, file) ==
    LET path == SubSeq(file, Len(source) + 1, Len(file))
    IN  IF path # <<>> /\ Last(path) = DefaultProject THEN Front(path) ELSE path

-----------------------------------------------------------------------------
\* visit_project and its nodes.  A project that is being visited is included again, or a
\* claim is not permitted: the preflight fails.
VisitProject(visit) ==
    LET nodes == tree[visit.file]
        claimed == UNION {Claims(nodes[n], visit.at \o n) : n \in DOMAIN nodes}
        within == visit.active \cup {visit.file}
    IN  /\ verdict = "none"
        /\ visit \in todo
        /\ IF visit.file \in visit.active \/ \E claim \in claimed : ~Permitted(claim)
             THEN verdict' = "rejected" /\ UNCHANGED <<todo, mappings, controls>>
             ELSE /\ todo' = (todo \ {visit}) \cup
                       UNION {{[file |-> file, at |-> visit.at \o n, active |-> within,
                                seat |-> visit.seat \o n \o Seat(nodes[n].source, file)]
                                  : file \in Includes(nodes[n].source)} : n \in DOMAIN nodes}
                  /\ mappings' = mappings \cup claimed
                  /\ controls' = controls \cup
                       UNION {Claims(nodes[n], visit.seat \o n) : n \in DOMAIN nodes}
                  /\ UNCHANGED verdict
        /\ UNCHANGED <<ownership, tree, slots>>

\* preflight_rojo_ownership ends: a project without a claim is refused.
Finish ==
    /\ verdict = "none" /\ todo = {}
    /\ verdict' = IF mappings = {} THEN "rejected" ELSE "accepted"
    /\ UNCHANGED <<ownership, tree, todo, mappings, controls, slots>>

\* Anything else that the preflight or the rest of resolve does not accept.
Reject ==
    /\ verdict = "none"
    /\ verdict' = "rejected"
    /\ UNCHANGED <<ownership, tree, todo, mappings, controls, slots>>

\* validate_studio_slot: a capture whose slot lies under a studio-art root is accepted.
ValidateStudioSlot(slot) ==
    /\ \E root \in ownership : root.owner = "studio-art" /\ IsPrefix(root.path, slot)
    /\ slots' = slots \cup {slot}
    /\ UNCHANGED <<ownership, tree, todo, mappings, controls, verdict>>

-----------------------------------------------------------------------------
OwnershipInit ==
    /\ ownership \in {roots \in Manifests : Valid(roots)}
    /\ tree \in Trees
    /\ todo = {[file |-> RootProject, at |-> <<>>, seat |-> <<>>, active |-> {}]}
    /\ mappings = {} /\ controls = {} /\ verdict = "none" /\ slots = {}

OwnershipNext ==
    \/ \E visit \in todo : VisitProject(visit)
    \/ Finish \/ Reject
    \/ \E slot \in Locations \ {<<>>} : ValidateStudioSlot(slot)

OwnershipSpec == OwnershipInit /\ [][OwnershipNext]_ownershipVars

-----------------------------------------------------------------------------
OwnershipTypeOK ==
    /\ ownership \subseteq OwnershipConfig
    /\ \A file \in DOMAIN tree, n \in UNION {DOMAIN tree[f] : f \in DOMAIN tree} :
         n \in DOMAIN tree[file] => tree[file][n] \in Node
    /\ verdict = "accepted" => todo = {} /\ mappings # {}

\* What a claim is about, what may be added below it later included.
Covered(claim) == {claim.at} \cup {at \in Locations : claim.deep /\ IsPrefix(claim.at, at)}

\* Served after the preflight has accepted it, a Rojo project controls only what git-code
\* owns, wherever the projects it includes are found and put (rojo_desktop_config.rs:738);
\* a node under a mapped directory is looked at as if it were at its top
\* (rojo_desktop_config.rs:647).
ControlsAreGits ==
    verdict = "accepted" =>
        \A claim \in controls : \A at \in Covered(claim) :
            Containing(at) # {} /\ OwnerOf(at).owner = "git-code"

\* "Every managed DataModel path MUST have exactly one declared owner at a given revision."
\* (docs/specs/SPEC_01_PRODUCT_BOUNDARIES_AND_INVARIANTS.md:117): what Rojo controls is not
\* captured from Studio.  The code does not do that: a slot is accepted under any studio-art
\* root, also in a part that the root has delegated to git-code (core.rs:2125).
OneAuthority ==
    verdict = "accepted" => \A claim \in controls : slots \cap Covered(claim) = {}
=============================================================================
