----------------------------- MODULE SceneEditor -----------------------------
(***************************************************************************)
(* The scene a user edits: the registry of the runtime's active scene,     *)
(* filled by EntityFactory, edited through EditorPanels::draw_right() and  *)
(* drawn by Renderer::new_render(), which follows the handles in mesh and  *)
(* material components into the stores of Assets.                          *)
(*                                                                         *)
(* A frame draws the viewport (systems, then renderer) and then the right  *)
(* panel, where the user may do one thing.  Entities are named by where    *)
(* they come from: prim 0 of a path is a node of a model, prim i its i-th  *)
(* mesh; load 0 holds the camera and the entities the user created.        *)
(***************************************************************************)
EXTENDS Assets

CONSTANTS
  Imported,      \* what models/sink/scene.gltf may hold when it is loaded
  MaxLoads,      \* bound: models loaded, the cube included
  MaxCreated,    \* bound: entities created with the panel's button
  MaxEdits       \* bound: other edits through the panel

ASSUME EditorAssumption ==
  /\ Imported \subseteq Documents
  /\ MaxLoads \in Nat \ {0}
  /\ MaxCreated \in Nat
  /\ MaxEdits \in Nat

VARIABLES
  registry,          \* Runtime::active_scene: entity -> its components
  selected_entity,   \* AppContext::selected_entity, or NullEntity
  phase,             \* which panel the frame draws next
  edits              \* bound: edits so far

vars == <<assetVars, registry, selected_entity, phase, edits>>

Placed == {"position", "rotation", "scale", "transform"}
Component == Placed \cup {"hierarchy", "mesh", "material", "camera"}

NullEntity == [load |-> 0, path |-> <<>>, prim |-> MaxCreated + 1]  \* entt::null
Camera == [load |-> 0, path |-> <<>>, prim |-> 0]
Created(n) == [load |-> 0, path |-> <<>>, prim |-> n]
ModelRoot(n) == [load |-> n, path |-> <<>>, prim |-> 0]

\* transform stands for the product of the local transforms of these nodes.
Bare ==
  [has |-> {}, mesh |-> NullGuid, material |-> NullGuid, parent |-> NullEntity,
   children |-> {}, transform |-> <<>>]

-----------------------------------------------------------------------------
(* EntityFactory::create_entity_tree() on the tree load_model() returns: a *)
(* nameless root over the scene's roots.                                   *)

NodeEntities(doc, n) ==
  {ModelRoot(n)} \cup {[load |-> n, path |-> p, prim |-> 0] : p \in Visited(doc)}

MeshEntities(doc, n) == Submeshes(doc, n)

\* attach_child() is called with the entity of the node above, for a node, and
\* with the entity of its own node, for a mesh.
ParentOf(e) ==
  IF e.prim # 0 THEN [e EXCEPT !.prim = 0]
  ELSE IF e.path = <<>> THEN NullEntity
  ELSE [e EXCEPT !.path = Front(e.path)]

\* Fault: attach_child() enters the child in no list.
AttachWithoutList(doc, n, e) == {}

AttachedTo(doc, n, e) ==
  {c \in NodeEntities(doc, n) \cup MeshEntities(doc, n) : ParentOf(c) = e}

\* Fault: mesh entities are spawned without a scale.
MeshPartsNoScale ==
  {"position", "rotation", "transform", "hierarchy", "mesh", "material"}

MeshParts == Placed \cup {"hierarchy", "mesh", "material"}

Spawned(doc, n) ==
  LET material_of == Loaded(doc, n, Default).material_of
  IN Merged(
       [e \in NodeEntities(doc, n) |->
          [has |-> Placed \cup {"hierarchy"},
           mesh |-> NullGuid,
           material |-> NullGuid,
           parent |-> ParentOf(e),
           children |-> AttachedTo(doc, n, e),
           transform |-> IF e.path = <<>> THEN <<>> ELSE <<Last(e.path)>>]],
       [e \in MeshEntities(doc, n) |->
          [has |-> MeshParts,
           mesh |-> e,
           material |-> material_of[e],
           parent |-> ParentOf(e),
           children |-> {},
           transform |-> <<>>]])

-----------------------------------------------------------------------------
(* The viewport.                                                           *)

\* systems::Transform() on one entity.  No edit changes position, rotation or
\* scale from the values they are created with.
Transformed(c) ==
  IF Placed \subseteq c.has THEN [c EXCEPT !.transform = <<>>] ELSE c

Drawn(reg) ==
  {e \in DOMAIN reg : {"mesh", "material", "transform"} \subseteq reg[e].has}

\* Renderer::draw_mesh() finds everything it looks up with .at() and .value().
Drawable(c) == MeshResolves(c.mesh) /\ MaterialResolves(c.material)

\* draw_viewport(): Runtime::update(), then new_render().
DrawViewport ==
  /\ phase = "viewport"
  /\ phase' = "panel"
  /\ registry' = [e \in DOMAIN registry |-> Transformed(registry[e])]
  /\ IF TextureResolves(Cubemap)
        /\ \A e \in Drawn(registry') : Drawable(registry'[e])
       THEN UNCHANGED assetVars
       ELSE Terminate
  /\ UNCHANGED <<selected_entity, edits>>

-----------------------------------------------------------------------------
(* The right panel.                                                        *)

InPanel == phase = "panel" /\ phase' = "viewport"

Edit == InPanel /\ edits < MaxEdits /\ edits' = edits + 1

NoClick ==
  /\ InPanel
  /\ UNCHANGED <<assetVars, registry, selected_entity, edits>>

CreateEntity ==
  /\ InPanel
  /\ \E n \in 1 .. MaxCreated :
       /\ Created(n) \notin DOMAIN registry
       /\ n > 1 => Created(n - 1) \in DOMAIN registry
       /\ registry' = Merged(registry, [e \in {Created(n)} |-> Bare])
  /\ UNCHANGED <<assetVars, selected_entity, edits>>

LoadModelRuntime(doc) ==
  /\ InPanel
  /\ loads < MaxLoads
  /\ LoadModel(doc)
  /\ IF Loads(doc)
       THEN registry' = Merged(registry, Spawned(doc, loads + 1))
       ELSE UNCHANGED registry
  /\ UNCHANGED <<selected_entity, edits>>

SelectEntity(e) ==
  /\ Edit
  /\ selected_entity' = e
  /\ UNCHANGED <<assetVars, registry>>

\* "Add Component": emplace_or_replace.
AddTransform(e) ==
  /\ Edit
  /\ selected_entity' = e
  /\ registry' = [registry EXCEPT ![e].has = @ \cup Placed,
                                  ![e].transform = <<>>]
  /\ UNCHANGED assetVars

AddMesh(e) ==
  /\ Edit
  /\ selected_entity' = e
  /\ registry' = [registry EXCEPT ![e].has = @ \cup {"mesh"},
                                  ![e].mesh = NullGuid]
  /\ UNCHANGED assetVars

\* "Delete Entity" destroys the identifier in the client's registry, which
\* nothing shows; where it is not valid there, the effect is undefined.
DeleteEntity(e) ==
  /\ Edit
  /\ selected_entity' = NullEntity
  /\ UNCHANGED registry
  /\ UNCHANGED assetVars \/ Terminate

\* The mesh combo of an open entity offers every handle in the store.
SelectMesh(e, h) ==
  /\ Edit
  /\ "mesh" \in registry[e].has
  /\ registry' = [registry EXCEPT ![e].mesh = h]
  /\ UNCHANGED <<assetVars, selected_entity>>

\* The material combo: the entity's own program is looked up among the
\* programs, and the index, changed or not, is used to write it back.
SelectProgram(e, p) ==
  LET h == registry[e].material IN
  /\ Edit
  /\ "material" \in registry[e].has
  /\ IF h \in DOMAIN material_assets /\ material_assets[h].program \in Programs
       THEN SetProgram(h, p)
       ELSE Terminate
  /\ UNCHANGED <<registry, selected_entity>>

Panel ==
  \/ NoClick
  \/ CreateEntity
  \/ \E doc \in Imported : LoadModelRuntime(doc)
  \/ \E e \in DOMAIN registry :
       \/ SelectEntity(e)
       \/ AddTransform(e)
       \/ AddMesh(e)
       \/ DeleteEntity(e)
       \/ \E h \in DOMAIN mesh_assets : SelectMesh(e, h)
       \/ \E p \in Programs : SelectProgram(e, p)

Init ==
  /\ AssetInit
  /\ registry = [e \in {Camera} |-> [Bare EXCEPT !.has = Placed \cup {"camera"}]]
  /\ selected_entity = NullEntity
  /\ phase = "viewport"
  /\ edits = 0

Next == status = "running" /\ (DrawViewport \/ Panel)

Spec == Init /\ [][Next]_vars

-----------------------------------------------------------------------------
(* Properties.                                                             *)

Guid == [load : 0 .. MaxLoads, path : SeqOf(Nodes, Cardinality(Nodes)),
         prim : Nat]

Components ==
  [has : SUBSET Component, mesh : Guid, material : Guid, parent : Guid,
   children : SUBSET Guid, transform : Seq(Nodes)]

TypeOK ==
  /\ mesh_assets \in [DOMAIN mesh_assets -> BOOLEAN]
  /\ material_assets \in [DOMAIN material_assets ->
                            [texture : Guid, program : Programs \cup {""}]]
  /\ texture_assets \in [DOMAIN texture_assets -> BOOLEAN]
  /\ registry \in [DOMAIN registry -> Components]
  /\ DOMAIN mesh_assets \cup DOMAIN material_assets \cup DOMAIN texture_assets
       \cup DOMAIN registry \subseteq Guid
  /\ loads \in 1 .. MaxLoads
  /\ status \in {"running", "terminated"}
  /\ selected_entity \in Guid
  /\ phase \in {"viewport", "panel"}
  /\ edits \in 0 .. MaxEdits

\* Whatever the renderer will look up for an entity is there and on the GPU,
\* except the handle a freshly added mesh component has not been given yet:
\* loader, uploader, factory and combos never leave a dangling handle.
DrawnResolves ==
  \A e \in Drawn(registry) :
    /\ MaterialResolves(registry[e].material)
    /\ registry[e].mesh # NullGuid => MeshResolves(registry[e].mesh)

\* Parent links and child lists describe the same forest, entities of loaded
\* models only, and every entity of a model hangs below the model's root.
HierarchyIsForest ==
  \A e \in DOMAIN registry :
    /\ \A c \in registry[e].children :
         c \in DOMAIN registry /\ registry[c].parent = e
    /\ registry[e].parent # NullEntity =>
         /\ registry[e].parent \in DOMAIN registry
         /\ e \in registry[registry[e].parent].children
    /\ e.load # 0 /\ e # ModelRoot(e.load) => registry[e].parent # NullEntity

\* The panel reads position, rotation and scale of whatever has a transform.
TransformComplete ==
  \A e \in DOMAIN registry :
    "transform" \in registry[e].has => Placed \subseteq registry[e].has

\* Choosing a shader program for one entity never changes what another one is
\* drawn with.
EditIsLocal ==
  [][\A e \in DOMAIN registry, p \in Programs :
       SelectProgram(e, p) =>
         \A f \in Drawn(registry) \ {e} :
           material_assets'[registry[f].material]
             = material_assets[registry[f].material]]_vars
=============================================================================
