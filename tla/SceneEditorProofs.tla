--------------------------- MODULE SceneEditorProofs ---------------------------
(***************************************************************************)
(* SceneEditor for any documents, programs and numbers of loads, entities  *)
(* and edits: types, that the entities form a forest, that what the        *)
(* renderer looks up is there, and that editing one entity's material      *)
(* leaves the others' alone.                                               *)
(***************************************************************************)
EXTENDS SceneEditor, FiniteSetTheorems, SequenceTheorems, TLAPS

\* The stores hold nothing half-loaded.  The materials of the cube, which is
\* loaded before there is a default program, are drawn by no entity.
StoreInv ==
  /\ \A h \in DOMAIN mesh_assets : mesh_assets[h]
  /\ \A h \in DOMAIN texture_assets : texture_assets[h]
  /\ \A h \in DOMAIN material_assets : h.load > 1 => MaterialResolves(h)

\* Entities come from loads that have been made, each mesh of a model with a
\* material of its own.
RegistryInv ==
  \A e \in DOMAIN registry :
    /\ e.load <= loads
    /\ "material" \in registry[e].has =>
         /\ registry[e].material = e
         /\ e \in DOMAIN material_assets
         /\ e.load > 1
    /\ "mesh" \in registry[e].has =>
         registry[e].mesh \in DOMAIN mesh_assets \cup {NullGuid}

SceneInv ==
  /\ TypeOK
  /\ StoreInv
  /\ RegistryInv
  /\ HierarchyIsForest
  /\ TransformComplete

-----------------------------------------------------------------------------
(* Paths, handles and entities of a document.                              *)

\* There are finitely many nodes.
LEMMA NodeCount == Cardinality(Nodes) \in Nat
BY AssetAssumption, FS_CardinalityType

\* A path without its last step.
LEMMA Shorter ==
  ASSUME NEW S, NEW p \in Seq(S), p # <<>>
  PROVE  /\ Len(p) \in Nat \ {0}
         /\ Last(p) \in S
         /\ Len(Front(p)) = Len(p) - 1
         /\ \A i \in 1 .. Len(p) - 1 : Front(p)[i] = p[i]
         /\ Front(p) \in Seq(S)
<1>1. Len(p) \in Nat \ {0} /\ Last(p) \in S
  BY DEF Last
<1>2. PICK n \in Nat : n = Len(p) - 1
  BY <1>1
<1>3. Front(p) = SubSeq(p, 1, n)
  BY <1>2 DEF Front
<1>4. Len(SubSeq(p, 1, n)) = IF 1 <= n THEN n - 1 + 1 ELSE 0
  BY <1>1, <1>2, SubSeqProperties
<1>5. Front(p) \in Seq(S) /\ \A i \in 1 .. Len(p) - 1 : Front(p)[i] = p[i]
  BY <1>1, SubSeqProperties DEF Front
<1> QED
  BY <1>1, <1>2, <1>3, <1>4, <1>5

\* Paths no longer than the number of nodes.
LEMMA ShortPath ==
  \A p : p \in SeqOf(Nodes, Cardinality(Nodes)) <=>
           p \in Seq(Nodes) /\ Len(p) <= Cardinality(Nodes)
BY NodeCount DEF SeqOf

\* load_node() comes to a node by way of the node above it.
LEMMA PathFacts ==
  ASSUME NEW doc \in Documents, NEW p \in Visited(doc)
  PROVE  /\ p \in SeqOf(Nodes, Cardinality(Nodes))
         /\ p \in Seq(Nodes) /\ p # <<>>
         /\ Last(p) \in Nodes
         /\ Front(p) = <<>> \/ Front(p) \in Visited(doc)
<1>1. /\ p \in SeqOf(Nodes, Cardinality(Nodes))
      /\ p \in Seq(Nodes) /\ p # <<>> /\ Len(p) <= Cardinality(Nodes)
      /\ p[1] \in doc.roots
      /\ \A i \in 2 .. Len(p) : p[i] \in doc.children[p[i - 1]]
  BY ShortPath DEF Visited
<1>2. /\ Len(p) \in Nat \ {0}
      /\ Last(p) \in Nodes
      /\ Len(Front(p)) = Len(p) - 1
      /\ \A i \in 1 .. Len(p) - 1 : Front(p)[i] = p[i]
      /\ Front(p) \in Seq(Nodes)
  BY <1>1, Shorter
<1>3. CASE Front(p) # <<>>
  <2>1. Len(Front(p)) <= Cardinality(Nodes)
    BY <1>1, <1>2, NodeCount
  <2>2. Len(Front(p)) # 0
    BY <1>2, <1>3, EmptySeq
  <2>3. Front(p)[1] \in doc.roots
    BY <1>1, <1>2, <2>2
  <2>4. \A i \in 2 .. Len(Front(p)) : Front(p)[i] \in doc.children[Front(p)[i - 1]]
    BY <1>1, <1>2
  <2> QED
    BY <1>1, <1>2, <1>3, <2>1, <2>3, <2>4, ShortPath DEF Visited
<1> QED
  BY <1>1, <1>2, <1>3

\* The paths and ids of what is not in a model.
LEMMA OwnIds ==
  /\ <<>> \in SeqOf(Nodes, Cardinality(Nodes))
  /\ NullGuid \in Guid /\ Cubemap \in Guid /\ NullEntity \in Guid /\ Camera \in Guid
  /\ \A n \in 1 .. MaxCreated : Created(n) \in Guid
<1>1. <<>> \in SeqOf(Nodes, Cardinality(Nodes))
  <2>1. <<>> \in Seq(Nodes) /\ Len(<<>>) = 0
    BY EmptySeq
  <2>2. 0 <= Cardinality(Nodes)
    BY NodeCount
  <2> QED
    BY <2>1, <2>2, ShortPath
<1>2. ASSUME NEW k \in Nat
      PROVE  [load |-> 0, path |-> <<>>, prim |-> k] \in Guid
  BY <1>1, EditorAssumption DEF Guid
<1>3. NullGuid \in Guid /\ Cubemap \in Guid /\ NullEntity \in Guid /\ Camera \in Guid
  BY <1>2, EditorAssumption DEF NullGuid, Cubemap, NullEntity, Camera
<1>4. ASSUME NEW n \in 1 .. MaxCreated
      PROVE  Created(n) \in Guid
  <2>1. n \in Nat
    BY EditorAssumption
  <2> QED
    BY <1>2, <2>1 DEF Created
<1> QED
  BY <1>1, <1>3, <1>4

\* load_submesh() draws its handles at a place of its load.
LEMMA HandleFacts ==
  ASSUME NEW doc \in Documents, NEW n \in 1 .. MaxLoads, NEW h \in Submeshes(doc, n)
  PROVE  /\ h \in Guid
         /\ h.load = n /\ h.path \in Visited(doc) /\ h.prim # 0
<1>0. PICK p \in Visited(doc) :
        h \in {[load |-> n, path |-> p, prim |-> i] :
                 i \in DOMAIN doc.primitives[Last(p)]}
  BY DEF Submeshes
<1>1. PICK i \in DOMAIN doc.primitives[Last(p)] :
        h = [load |-> n, path |-> p, prim |-> i]
  BY <1>0
<1>2. doc \in Document
  BY AssetAssumption
<1>3. doc.primitives[Last(p)] \in Seq(Primitive)
  BY <1>2, PathFacts DEF Document
<1>4. i \in Nat /\ i # 0
  BY <1>3
<1>5. p \in SeqOf(Nodes, Cardinality(Nodes))
  BY PathFacts
<1> QED
  BY <1>1, <1>4, <1>5, EditorAssumption DEF Guid

\* The entity of a node has the path of the node, the root's is empty.
LEMMA NodeFacts ==
  ASSUME NEW doc \in Documents, NEW n \in 1 .. MaxLoads, NEW e \in NodeEntities(doc, n)
  PROVE  /\ e \in Guid
         /\ e.load = n /\ e.prim = 0
         /\ e.path # <<>> => e.path \in Visited(doc)
<1>1. CASE e = ModelRoot(n)
  BY <1>1, OwnIds, EditorAssumption DEF ModelRoot, Guid
<1>2. ASSUME NEW p \in Visited(doc), e = [load |-> n, path |-> p, prim |-> 0]
      PROVE  e \in Guid /\ e.load = n /\ e.prim = 0 /\ e.path \in Visited(doc)
  <2>1. p \in SeqOf(Nodes, Cardinality(Nodes))
    BY PathFacts
  <2> QED
    BY <1>2, <2>1, EditorAssumption DEF Guid
<1> QED
  BY <1>1, <1>2 DEF NodeEntities

\* attach_child() is given the entity of a node of the same model.
LEMMA ParentFacts ==
  ASSUME NEW doc \in Documents, NEW n \in 1 .. MaxLoads,
         NEW e \in NodeEntities(doc, n) \cup MeshEntities(doc, n)
  PROVE  /\ ParentOf(e) \in NodeEntities(doc, n) \cup {NullEntity}
         /\ e # ModelRoot(n) => ParentOf(e) \in NodeEntities(doc, n)
         /\ ParentOf(e) \in Guid
<1>1. CASE e \in MeshEntities(doc, n)
  <2>1. e \in Guid /\ e.load = n /\ e.path \in Visited(doc) /\ e.prim # 0
    BY <1>1, HandleFacts DEF MeshEntities
  <2>2. ParentOf(e) = [load |-> n, path |-> e.path, prim |-> 0]
    BY <2>1 DEF ParentOf, Guid
  <2>3. ParentOf(e) \in NodeEntities(doc, n)
    BY <2>1, <2>2 DEF NodeEntities
  <2> QED
    BY <2>3, NodeFacts
<1>2. CASE e \in NodeEntities(doc, n) /\ e.path = <<>>
  <2>1. e \in Guid /\ e.load = n /\ e.prim = 0
    BY <1>2, NodeFacts
  <2>2. e = ModelRoot(n)
    BY <1>2, <2>1 DEF Guid, ModelRoot
  <2>3. ParentOf(e) = NullEntity
    BY <1>2, <2>1 DEF ParentOf
  <2> QED
    BY <2>2, <2>3, OwnIds
<1>3. CASE e \in NodeEntities(doc, n) /\ e.path # <<>>
  <2>1. e \in Guid /\ e.load = n /\ e.prim = 0 /\ e.path \in Visited(doc)
    BY <1>3, NodeFacts
  <2>2. ParentOf(e) = [load |-> n, path |-> Front(e.path), prim |-> 0]
    BY <1>3, <2>1 DEF ParentOf, Guid
  <2>3. Front(e.path) = <<>> \/ Front(e.path) \in Visited(doc)
    BY <2>1, PathFacts
  <2>4. ParentOf(e) \in NodeEntities(doc, n)
    BY <2>2, <2>3 DEF NodeEntities, ModelRoot
  <2> QED
    BY <2>4, NodeFacts
<1> QED
  BY <1>1, <1>2, <1>3

-----------------------------------------------------------------------------
(* What a load spawns.                                                     *)

NodeParts(doc, n, e) ==
  [has |-> Placed \cup {"hierarchy"}, mesh |-> NullGuid, material |-> NullGuid,
   parent |-> ParentOf(e), children |-> AttachedTo(doc, n, e),
   transform |-> IF e.path = <<>> THEN <<>> ELSE <<Last(e.path)>>]

MeshPart(e) ==
  [has |-> MeshParts, mesh |-> e, material |-> e, parent |-> ParentOf(e),
   children |-> {}, transform |-> <<>>]

\* from_model_tree() gives nodes and meshes the components they are read with.
LEMMA SpawnFacts ==
  ASSUME NEW doc \in Documents, NEW n \in 1 .. MaxLoads
  PROVE  /\ DOMAIN Spawned(doc, n) = NodeEntities(doc, n) \cup MeshEntities(doc, n)
         /\ \A e \in NodeEntities(doc, n) : Spawned(doc, n)[e] = NodeParts(doc, n, e)
         /\ \A e \in MeshEntities(doc, n) : Spawned(doc, n)[e] = MeshPart(e)
<1>1. \A e \in MeshEntities(doc, n) : e \notin NodeEntities(doc, n)
  BY NodeFacts, HandleFacts DEF MeshEntities
<1>2. \A e \in MeshEntities(doc, n) : Loaded(doc, n, Default).material_of[e] = e
  BY DEF Loaded, MeshEntities
<1>3. DOMAIN Spawned(doc, n) = NodeEntities(doc, n) \cup MeshEntities(doc, n)
  BY DEF Spawned, Merged
<1>4. ASSUME NEW e \in NodeEntities(doc, n)
      PROVE  Spawned(doc, n)[e] = NodeParts(doc, n, e)
  BY DEF Spawned, Merged, NodeParts
<1>5. ASSUME NEW e \in MeshEntities(doc, n)
      PROVE  Spawned(doc, n)[e] = MeshPart(e)
  BY <1>1, <1>2 DEF Spawned, Merged, MeshPart
<1> QED
  BY <1>3, <1>4, <1>5

\* The components of a new entity, field by field.
LEMMA SpawnedParts ==
  ASSUME NEW doc \in Documents, NEW n \in 1 .. MaxLoads,
         NEW e \in NodeEntities(doc, n) \cup MeshEntities(doc, n)
  PROVE  LET c == Spawned(doc, n)[e] IN
         /\ e \in Guid /\ e.load = n
         /\ c \in Components
         /\ Placed \subseteq c.has
         /\ c.parent = ParentOf(e)
         /\ c.children =
              IF e \in NodeEntities(doc, n) THEN AttachedTo(doc, n, e) ELSE {}
         /\ "material" \in c.has => c.material = e /\ e \in Submeshes(doc, n)
         /\ "mesh" \in c.has => c.mesh = e /\ e \in Submeshes(doc, n)
<1>1. e \in Guid /\ e.load = n
  BY NodeFacts, HandleFacts DEF MeshEntities
<1>2. ParentOf(e) \in Guid
  BY ParentFacts
<1>3. CASE e \in NodeEntities(doc, n)
  <2>1. Spawned(doc, n)[e] = NodeParts(doc, n, e)
    BY <1>3, SpawnFacts
  <2>3. AttachedTo(doc, n, e) \subseteq Guid
    BY NodeFacts, HandleFacts DEF AttachedTo, MeshEntities
  <2>4. (IF e.path = <<>> THEN <<>> ELSE <<Last(e.path)>>) \in Seq(Nodes)
    <3>1. CASE e.path = <<>>
      BY <3>1
    <3>2. CASE e.path # <<>>
      <4>1. Last(e.path) \in Nodes
        BY <1>3, <3>2, NodeFacts, PathFacts
      <4> QED
        BY <3>2, <4>1
    <3> QED
      BY <3>1, <3>2
  <2>5. Placed \cup {"hierarchy"} \subseteq Component
        /\ "material" \notin Placed \cup {"hierarchy"}
        /\ "mesh" \notin Placed \cup {"hierarchy"}
    BY DEF Placed, Component
  <2>6. NodeParts(doc, n, e) \in Components
    BY <1>2, <2>3, <2>4, <2>5, OwnIds DEF Components, NodeParts
  <2> QED
    BY <1>1, <1>3, <2>1, <2>5, <2>6 DEF NodeParts
<1>4. CASE e \in MeshEntities(doc, n)
  <2>0. e \in Submeshes(doc, n) /\ e.prim # 0
    BY <1>4, HandleFacts DEF MeshEntities
  <2>1. Spawned(doc, n)[e] = MeshPart(e)
    BY <1>4, SpawnFacts
  <2>5. e \notin NodeEntities(doc, n)
    BY <2>0, NodeFacts
  <2>3. MeshParts \subseteq Component /\ Placed \subseteq MeshParts
    BY DEF MeshParts, Placed, Component
  <2>4. MeshPart(e) \in Components
    BY <1>1, <1>2, <2>3 DEF Components, MeshPart
  <2> QED
    BY <1>1, <2>0, <2>1, <2>3, <2>4, <2>5 DEF MeshPart
<1> QED
  BY <1>3, <1>4

-----------------------------------------------------------------------------
(* SceneInv holds at the start and after every step.                       *)

\* The cube is loaded, and the scene holds the camera.
LEMMA Initial == Init => SceneInv
<1> SUFFICES ASSUME Init PROVE SceneInv
  OBVIOUS
<1>0. 1 \in 1 .. MaxLoads
  BY EditorAssumption
<1>1. Cube \in Documents
  BY AssetAssumption
<1>2. /\ mesh_assets = [h \in Submeshes(Cube, 1) |-> TRUE]
      /\ material_assets =
           [h \in Submeshes(Cube, 1) |-> [texture |-> h, program |-> ""]]
      /\ texture_assets =
           Merged([h \in {Cubemap} |-> TRUE], [h \in Submeshes(Cube, 1) |-> TRUE])
      /\ loads = 1
      /\ status \in {"running", "terminated"}
  BY DEF Init, AssetInit, Loaded
<1>3. \A h \in Submeshes(Cube, 1) : h \in Guid /\ h.load = 1
  BY <1>0, <1>1, HandleFacts
<1>4. /\ DOMAIN registry = {Camera}
      /\ registry[Camera] = [Bare EXCEPT !.has = Placed \cup {"camera"}]
  BY DEF Init
<1>5. /\ registry[Camera].has = Placed \cup {"camera"}
      /\ registry[Camera].parent = NullEntity
      /\ registry[Camera].children = {}
      /\ registry[Camera] \in Components
  <2>1. Bare \in Components /\ Bare.parent = NullEntity /\ Bare.children = {}
    BY OwnIds DEF Components, Bare
  <2>2. Placed \cup {"camera"} \in SUBSET Component
    BY DEF Placed, Component
  <2> QED
    BY <1>4, <2>1, <2>2 DEF Components
<1>6. Camera.load = 0
  BY DEF Camera
<1>7. "material" \notin Placed \cup {"camera"} /\ "mesh" \notin Placed \cup {"camera"}
  BY DEF Placed
<1>8. TypeOK
  <2>1. mesh_assets \in [DOMAIN mesh_assets -> BOOLEAN]
    BY <1>2
  <2>2. material_assets \in [DOMAIN material_assets ->
                                [texture : Guid, program : Programs \cup {""}]]
    BY <1>2, <1>3
  <2>3. /\ texture_assets \in [DOMAIN texture_assets -> BOOLEAN]
        /\ DOMAIN texture_assets = {Cubemap} \cup Submeshes(Cube, 1)
    BY <1>2 DEF Merged
  <2>4. registry \in [DOMAIN registry -> Components]
    BY <1>4, <1>5 DEF Init
  <2>5. DOMAIN mesh_assets \cup DOMAIN material_assets \cup DOMAIN texture_assets
          \cup DOMAIN registry \subseteq Guid
    BY <1>2, <1>3, <1>4, <2>3, OwnIds
  <2>6. selected_entity \in Guid
    BY OwnIds DEF Init
  <2>7. phase \in {"viewport", "panel"} /\ edits \in 0 .. MaxEdits
    BY EditorAssumption DEF Init
  <2> QED
    BY <1>0, <1>2, <2>1, <2>2, <2>3, <2>4, <2>5, <2>6, <2>7 DEF TypeOK
<1>9. StoreInv
  <2>1. \A h \in DOMAIN mesh_assets : mesh_assets[h]
    BY <1>2
  <2>2. \A h \in DOMAIN texture_assets : texture_assets[h]
    BY <1>2 DEF Merged
  <2>3. \A h \in DOMAIN material_assets : h.load = 1
    BY <1>2, <1>3
  <2>4. \A h \in DOMAIN material_assets : ~(h.load > 1)
    BY <2>3
  <2> QED
    BY <2>1, <2>2, <2>4 DEF StoreInv
<1>10. RegistryInv
  <2>0. loads = 1
    BY <1>2
  <2>1. Camera.load <= loads
    BY <1>6, <2>0
  <2>2. "material" \notin registry[Camera].has /\ "mesh" \notin registry[Camera].has
    BY <1>5, <1>7
  <2>3. ASSUME NEW e \in DOMAIN registry
        PROVE  e = Camera
    BY <1>4
  <2> QED
    BY <2>1, <2>2, <2>3, Zenon DEF RegistryInv
<1>11. HierarchyIsForest
  BY <1>4, <1>5, <1>6 DEF HierarchyIsForest
<1>12. TransformComplete
  BY <1>4, <1>5 DEF TransformComplete
<1> QED
  BY <1>8, <1>9, <1>10, <1>11, <1>12 DEF SceneInv

\* Models are numbered from the cube's 1 on.
LEMMA Numbers ==
  ASSUME SceneInv
  PROVE  /\ loads \in Nat \ {0}
         /\ loads < MaxLoads => loads + 1 \in 1 .. MaxLoads
         /\ \A e \in DOMAIN registry : e.load \in Nat /\ e.load <= loads
<1>1. MaxLoads \in Nat
  BY EditorAssumption
<1>2. loads \in 1 .. MaxLoads
  BY DEF SceneInv, TypeOK
<1>3. \A e \in Guid : e.load \in 0 .. MaxLoads
  BY DEF Guid
<1>4. \A e \in DOMAIN registry : e \in Guid
  BY DEF SceneInv, TypeOK
<1>5. \A e \in DOMAIN registry : e.load <= loads
  BY DEF SceneInv, RegistryInv
<1>6. \A e \in DOMAIN registry : e.load \in Nat
  BY <1>1, <1>3, <1>4
<1>7. loads \in Nat \ {0} /\ (loads < MaxLoads => loads + 1 \in 1 .. MaxLoads)
  BY <1>1, <1>2
<1> QED
  BY <1>5, <1>6, <1>7

\* What is left alone by a step that adds no entity and loads no model.
Same ==
  /\ UNCHANGED <<mesh_assets, texture_assets, loads>>
  /\ status' \in {"running", "terminated"}
  /\ selected_entity' \in Guid
  /\ phase' \in {"viewport", "panel"}
  /\ edits' \in 0 .. MaxEdits

\* An edit is counted, and the panel is left.
LEMMA EditStays ==
  ASSUME SceneInv, Edit
  PROVE  phase' \in {"viewport", "panel"} /\ edits' \in 0 .. MaxEdits
<1>1. edits \in 0 .. MaxEdits
  BY DEF SceneInv, TypeOK
<1> QED
  BY <1>1, EditorAssumption DEF Edit, InPanel

\* Adding components, moving and choosing meshes keep the invariant.
LEMMA Kept ==
  ASSUME SceneInv, Same, UNCHANGED material_assets,
         registry' \in [DOMAIN registry -> Components],
         \A e \in DOMAIN registry :
           /\ registry'[e].parent = registry[e].parent
           /\ registry'[e].children = registry[e].children
           /\ "material" \in registry'[e].has =>
                /\ "material" \in registry[e].has
                /\ registry'[e].material = registry[e].material
           /\ "mesh" \in registry'[e].has =>
                registry'[e].mesh \in DOMAIN mesh_assets \cup {NullGuid}
           /\ "transform" \in registry'[e].has => Placed \subseteq registry'[e].has
  PROVE  SceneInv'
<1>1. DOMAIN registry' = DOMAIN registry
  OBVIOUS
<1>2. TypeOK'
  BY <1>1 DEF SceneInv, TypeOK, Same
<1>3. StoreInv'
  BY DEF SceneInv, StoreInv, MaterialResolves, TextureResolves, Same
<1>4. RegistryInv'
  BY <1>1 DEF SceneInv, RegistryInv, Same
<1>5. HierarchyIsForest'
  BY <1>1 DEF SceneInv, HierarchyIsForest
<1>6. TransformComplete'
  BY <1>1 DEF TransformComplete
<1> QED
  BY <1>2, <1>3, <1>4, <1>5, <1>6 DEF SceneInv

\* A frame's viewport moves what has a transform.
LEMMA DrawStep == SceneInv /\ DrawViewport => SceneInv'
<1> SUFFICES ASSUME SceneInv, DrawViewport PROVE SceneInv'
  OBVIOUS
<1>1. Same /\ UNCHANGED material_assets
  BY DEF DrawViewport, Terminate, assetVars, Same, SceneInv, TypeOK
<1>2. ASSUME NEW e \in DOMAIN registry
      PROVE  /\ Transformed(registry[e]) \in Components
             /\ Transformed(registry[e]).has = registry[e].has
             /\ Transformed(registry[e]).mesh = registry[e].mesh
             /\ Transformed(registry[e]).material = registry[e].material
             /\ Transformed(registry[e]).parent = registry[e].parent
             /\ Transformed(registry[e]).children = registry[e].children
  <2>1. registry[e] \in Components
    BY DEF SceneInv, TypeOK
  <2>2. <<>> \in Seq(Nodes)
    BY EmptySeq
  <2> QED
    BY <2>1, <2>2 DEF Transformed, Components
<1>3. registry' = [e \in DOMAIN registry |-> Transformed(registry[e])]
  BY DEF DrawViewport
<1>4. registry' \in [DOMAIN registry -> Components]
  BY <1>2, <1>3
<1>5. ASSUME NEW e \in DOMAIN registry
      PROVE  /\ registry'[e].parent = registry[e].parent
             /\ registry'[e].children = registry[e].children
             /\ "material" \in registry'[e].has =>
                  /\ "material" \in registry[e].has
                  /\ registry'[e].material = registry[e].material
             /\ "mesh" \in registry'[e].has =>
                  registry'[e].mesh \in DOMAIN mesh_assets \cup {NullGuid}
             /\ "transform" \in registry'[e].has => Placed \subseteq registry'[e].has
  BY <1>2, <1>3 DEF SceneInv, RegistryInv, TransformComplete
<1> QED
  BY <1>1, <1>4, <1>5, Kept

\* Steps of the panel that leave the entities alone.
LEMMA IdleStep ==
  ASSUME SceneInv, Same, UNCHANGED <<material_assets, registry>>
  PROVE  SceneInv'
<1>1. registry \in [DOMAIN registry -> Components]
  BY DEF SceneInv, TypeOK
<1> QED
  BY <1>1, Kept DEF SceneInv, RegistryInv, TransformComplete

\* "Add Component" on one entity.
LEMMA AddStep ==
  ASSUME SceneInv, NEW e \in DOMAIN registry, AddTransform(e) \/ AddMesh(e)
  PROVE  SceneInv'
<1>0. e \in Guid /\ registry[e] \in Components
  BY DEF SceneInv, TypeOK
<1>1. Same /\ UNCHANGED material_assets
  <2>1. Edit /\ selected_entity' = e /\ UNCHANGED assetVars
    BY DEF AddTransform, AddMesh
  <2>2. status \in {"running", "terminated"}
    BY DEF SceneInv, TypeOK
  <2> QED
    BY <1>0, <2>1, <2>2, EditStays DEF Same, assetVars
<1>2. /\ registry' \in [DOMAIN registry -> Components]
      /\ registry'[e].parent = registry[e].parent
      /\ registry'[e].children = registry[e].children
      /\ registry'[e].material = registry[e].material
      /\ \/ registry'[e].has = registry[e].has \cup Placed
            /\ registry'[e].mesh = registry[e].mesh
         \/ registry'[e].has = registry[e].has \cup {"mesh"}
            /\ registry'[e].mesh = NullGuid
  <2>1. <<>> \in Seq(Nodes) /\ NullGuid \in Guid
    BY EmptySeq, OwnIds
  <2>2. Placed \subseteq Component /\ {"mesh"} \subseteq Component
    BY DEF Component
  <2>3. CASE AddTransform(e)
    <3>1. registry' = [registry EXCEPT ![e] =
             [[registry[e] EXCEPT !.has = @ \cup Placed] EXCEPT !.transform = <<>>]]
      BY <1>0, <2>3 DEF AddTransform
    <3> QED
      BY <1>0, <2>1, <2>2, <3>1 DEF Components, SceneInv, TypeOK
  <2>4. CASE AddMesh(e)
    <3>1. registry' = [registry EXCEPT ![e] =
             [[registry[e] EXCEPT !.has = @ \cup {"mesh"}] EXCEPT !.mesh = NullGuid]]
      BY <1>0, <2>4 DEF AddMesh
    <3> QED
      BY <1>0, <2>1, <2>2, <3>1 DEF Components, SceneInv, TypeOK
  <2> QED
    BY <2>3, <2>4
<1>3. ASSUME NEW f \in DOMAIN registry, f # e
      PROVE  registry'[f] = registry[f]
  BY <1>3 DEF AddTransform, AddMesh, SceneInv, TypeOK
<1>5. "material" \notin Placed /\ "mesh" \notin Placed /\ "transform" \in Placed
  BY DEF Placed
<1>6. ASSUME NEW f \in DOMAIN registry
      PROVE  /\ registry'[f].parent = registry[f].parent
             /\ registry'[f].children = registry[f].children
             /\ "material" \in registry'[f].has =>
                  /\ "material" \in registry[f].has
                  /\ registry'[f].material = registry[f].material
             /\ "mesh" \in registry'[f].has =>
                  registry'[f].mesh \in DOMAIN mesh_assets \cup {NullGuid}
             /\ "transform" \in registry'[f].has => Placed \subseteq registry'[f].has
  BY <1>2, <1>3, <1>5 DEF SceneInv, RegistryInv, TransformComplete
<1> QED
  BY <1>1, <1>2, <1>6, Kept

\* The mesh combo on one entity.
LEMMA MeshStep ==
  ASSUME SceneInv, NEW e \in DOMAIN registry, NEW h \in DOMAIN mesh_assets,
         SelectMesh(e, h)
  PROVE  SceneInv'
<1>0. e \in Guid /\ h \in Guid /\ registry[e] \in Components
  BY DEF SceneInv, TypeOK
<1>1. Same /\ UNCHANGED material_assets
  <2>1. Edit /\ UNCHANGED <<assetVars, selected_entity>>
    BY DEF SelectMesh
  <2>2. status \in {"running", "terminated"} /\ selected_entity \in Guid
    BY DEF SceneInv, TypeOK
  <2> QED
    BY <2>1, <2>2, EditStays DEF Same, assetVars
<1>2. registry' \in [DOMAIN registry -> Components]
  BY <1>0 DEF SelectMesh, Components, SceneInv, TypeOK
<1>3. ASSUME NEW f \in DOMAIN registry
      PROVE  /\ registry'[f].parent = registry[f].parent
             /\ registry'[f].children = registry[f].children
             /\ registry'[f].has = registry[f].has
             /\ registry'[f].material = registry[f].material
             /\ registry'[f].mesh \in {registry[f].mesh, h}
  BY <1>0 DEF SelectMesh, SceneInv, TypeOK, Components
<1> QED
  BY <1>1, <1>2, <1>3, Kept DEF SceneInv, RegistryInv, TransformComplete

\* The material combo on one entity: only the program in its own material
\* changes, to one that is there.
LEMMA ProgramStep ==
  ASSUME SceneInv, NEW e \in DOMAIN registry, NEW p \in Programs,
         SelectProgram(e, p)
  PROVE  SceneInv'
<1>0. /\ "material" \in registry[e].has
      /\ registry[e].material = e /\ e \in DOMAIN material_assets
  BY DEF SelectProgram, SceneInv, RegistryInv
<1>1. Same /\ UNCHANGED registry
  <2>1. Edit /\ UNCHANGED <<registry, selected_entity>>
    BY DEF SelectProgram
  <2>2. /\ UNCHANGED <<mesh_assets, texture_assets, loads>>
        /\ status' \in {status, "terminated"}
    BY DEF SelectProgram, SetProgram, Terminate
  <2>3. status \in {"running", "terminated"} /\ selected_entity \in Guid
    BY DEF SceneInv, TypeOK
  <2> QED
    BY <2>1, <2>2, <2>3, EditStays DEF Same
<1>2. CASE UNCHANGED material_assets
  BY <1>1, <1>2, IdleStep
<1>3. CASE SetProgram(e, p)
  <2>1. material_assets' = [material_assets EXCEPT ![e].program = p]
    BY <1>3 DEF SetProgram
  <2>2. /\ material_assets' \in [DOMAIN material_assets ->
                                    [texture : Guid, program : Programs \cup {""}]]
        /\ DOMAIN material_assets' = DOMAIN material_assets
    BY <1>0, <2>1 DEF SceneInv, TypeOK
  <2>3. ASSUME NEW h \in DOMAIN material_assets
        PROVE  /\ material_assets'[h].texture = material_assets[h].texture
               /\ material_assets'[h].program \in {material_assets[h].program, p}
    BY <1>0, <2>1 DEF SceneInv, TypeOK
  <2>4. TypeOK'
    BY <1>1, <2>2 DEF SceneInv, TypeOK, Same
  <2>5. StoreInv'
    BY <1>1, <2>2, <2>3 DEF SceneInv, StoreInv, MaterialResolves, TextureResolves, Same
  <2>6. RegistryInv'
    BY <1>1, <2>2 DEF SceneInv, RegistryInv, Same
  <2>7. HierarchyIsForest' /\ TransformComplete'
    BY <1>1 DEF SceneInv, HierarchyIsForest, TransformComplete
  <2> QED
    BY <2>4, <2>5, <2>6, <2>7 DEF SceneInv
<1> QED
  BY <1>0, <1>2, <1>3 DEF SelectProgram, Terminate

\* "Create Entity" adds one without components.
LEMMA CreateStep == SceneInv /\ CreateEntity => SceneInv'
<1> SUFFICES ASSUME SceneInv, CreateEntity PROVE SceneInv'
  OBVIOUS
<1>1. PICK n \in 1 .. MaxCreated :
        /\ Created(n) \notin DOMAIN registry
        /\ registry' = Merged(registry, [e \in {Created(n)} |-> Bare])
  BY DEF CreateEntity
<1>2. /\ UNCHANGED <<assetVars, selected_entity, edits>>
      /\ UNCHANGED <<mesh_assets, material_assets, texture_assets, loads, status>>
      /\ phase' \in {"viewport", "panel"}
  BY DEF CreateEntity, InPanel, assetVars
<1>3. /\ DOMAIN registry' = DOMAIN registry \cup {Created(n)}
      /\ registry'[Created(n)] = Bare
      /\ \A e \in DOMAIN registry : registry'[e] = registry[e]
      /\ registry' \in [DOMAIN registry' -> {registry'[e] : e \in DOMAIN registry'}]
  BY <1>1 DEF Merged
<1>4. /\ Bare \in Components /\ Bare.has = {}
      /\ Bare.parent = NullEntity /\ Bare.children = {}
  BY OwnIds DEF Bare, Components
<1>5. Created(n) \in Guid /\ Created(n).load = 0
  BY OwnIds DEF Created
<1>6. TypeOK'
  <2>1. \A e \in DOMAIN registry : registry[e] \in Components
    BY DEF SceneInv, TypeOK
  <2>2. \A e \in DOMAIN registry' : registry'[e] \in Components
    BY <1>3, <1>4, <2>1
  <2>3. registry' \in [DOMAIN registry' -> Components]
    BY <1>3, <2>2
  <2>4. DOMAIN registry' \subseteq Guid
    BY <1>3, <1>5 DEF SceneInv, TypeOK
  <2> QED
    BY <1>2, <2>3, <2>4 DEF SceneInv, TypeOK
<1>7. StoreInv'
  BY <1>2 DEF SceneInv, StoreInv, MaterialResolves, TextureResolves
<1>8. RegistryInv'
  <2>1. loads \in Nat /\ 0 <= loads
    BY Numbers
  <2>2. "material" \notin {} /\ "mesh" \notin {}
    OBVIOUS
  <2> QED
    BY <1>2, <1>3, <1>4, <1>5, <2>1, <2>2 DEF SceneInv, RegistryInv
<1>9. HierarchyIsForest'
  <2>1. ASSUME NEW e \in DOMAIN registry
        PROVE  /\ \A c \in registry'[e].children :
                    c \in DOMAIN registry' /\ registry'[c].parent = e
               /\ registry'[e].parent # NullEntity =>
                    /\ registry'[e].parent \in DOMAIN registry'
                    /\ e \in registry'[registry'[e].parent].children
               /\ e.load # 0 /\ e # ModelRoot(e.load) =>
                    registry'[e].parent # NullEntity
    BY <1>3, <2>1 DEF SceneInv, HierarchyIsForest
  <2> QED
    BY <1>3, <1>4, <1>5, <2>1 DEF HierarchyIsForest
<1>10. TransformComplete'
  BY <1>3, <1>4 DEF SceneInv, TransformComplete
<1> QED
  BY <1>6, <1>7, <1>8, <1>9, <1>10 DEF SceneInv

\* load_model() adds only complete meshes, materials and textures.
LEMMA StoresGrow ==
  ASSUME SceneInv, NEW doc \in Documents, loads < MaxLoads,
         LoadModel(doc), Loads(doc)
  PROVE  /\ loads' = loads + 1 /\ loads + 1 \in 1 .. MaxLoads /\ loads \in Nat \ {0}
         /\ status' = status
         /\ DOMAIN mesh_assets' = DOMAIN mesh_assets \cup Submeshes(doc, loads + 1)
         /\ DOMAIN material_assets' =
              DOMAIN material_assets \cup Submeshes(doc, loads + 1)
         /\ DOMAIN texture_assets' =
              DOMAIN texture_assets \cup Submeshes(doc, loads + 1)
         /\ mesh_assets' \in [DOMAIN mesh_assets' -> BOOLEAN]
         /\ texture_assets' \in [DOMAIN texture_assets' -> BOOLEAN]
         /\ material_assets' \in [DOMAIN material_assets' ->
                                     [texture : Guid, program : Programs \cup {""}]]
         /\ StoreInv'
<1> DEFINE new == Submeshes(doc, loads + 1)
<1>1. loads + 1 \in 1 .. MaxLoads /\ loads \in Nat \ {0}
  BY Numbers
<1>2. /\ mesh_assets' = Merged(mesh_assets, [h \in new |-> TRUE])
      /\ material_assets' =
           Merged(material_assets, [h \in new |-> [texture |-> h, program |-> Default]])
      /\ texture_assets' = Merged(texture_assets, [h \in new |-> TRUE])
      /\ loads' = loads + 1
      /\ status' = status
  BY DEF LoadModel, Loaded
<1>3. \A h \in new : h \in Guid
  BY <1>1, HandleFacts
<1> HIDE DEF new
<1>4. /\ DOMAIN mesh_assets' = DOMAIN mesh_assets \cup new
      /\ \A h \in DOMAIN mesh_assets' : mesh_assets'[h] = TRUE
  <2>1. \A h \in DOMAIN mesh_assets : mesh_assets[h] = TRUE
    BY DEF SceneInv, StoreInv, TypeOK
  <2> QED
    BY <1>2, <2>1 DEF Merged
<1>5. /\ DOMAIN texture_assets' = DOMAIN texture_assets \cup new
      /\ \A h \in DOMAIN texture_assets' : texture_assets'[h] = TRUE
  <2>1. \A h \in DOMAIN texture_assets : texture_assets[h] = TRUE
    BY DEF SceneInv, StoreInv, TypeOK
  <2> QED
    BY <1>2, <2>1 DEF Merged
<1>6. /\ DOMAIN material_assets' = DOMAIN material_assets \cup new
      /\ \A h \in DOMAIN material_assets : material_assets'[h] = material_assets[h]
      /\ \A h \in new \ DOMAIN material_assets :
           material_assets'[h] = [texture |-> h, program |-> Default]
  BY <1>2 DEF Merged
<1>7. mesh_assets' \in [DOMAIN mesh_assets' -> BOOLEAN]
  BY <1>2, <1>4 DEF Merged
<1>8. texture_assets' \in [DOMAIN texture_assets' -> BOOLEAN]
  BY <1>2, <1>5 DEF Merged
<1>9. ASSUME NEW h \in DOMAIN material_assets'
      PROVE  material_assets'[h] \in [texture : Guid, program : Programs \cup {""}]
  <2>1. CASE h \in DOMAIN material_assets
    BY <1>6, <2>1 DEF SceneInv, TypeOK
  <2>2. CASE h \in new \ DOMAIN material_assets
    <3>1. Default \in Programs
      BY AssetAssumption
    <3>2. material_assets'[h] = [texture |-> h, program |-> Default]
      BY <1>6, <2>2
    <3>3. h \in Guid
      BY <1>3, <2>2
    <3>4. [texture |-> h, program |-> Default]
             \in [texture : Guid, program : Programs \cup {""}]
      BY <3>1, <3>3
    <3> QED
      BY <3>2, <3>4, Zenon
  <2> QED
    BY <1>6, <2>1, <2>2
<1>10. material_assets' \in [DOMAIN material_assets' ->
                               [texture : Guid, program : Programs \cup {""}]]
  BY <1>2, <1>9 DEF Merged
<1>11. ASSUME NEW h \in DOMAIN material_assets', h.load > 1
       PROVE  MaterialResolves(h)'
  <2>1. CASE h \in DOMAIN material_assets
    <3>1. MaterialResolves(h)
      BY <1>11, <2>1 DEF SceneInv, StoreInv
    <3> QED
      BY <1>5, <1>6, <2>1, <3>1 DEF MaterialResolves, TextureResolves
  <2>2. CASE h \in new \ DOMAIN material_assets
    <3>1. Default \in Programs
      BY AssetAssumption
    <3> QED
      BY <1>5, <1>6, <2>2, <3>1 DEF MaterialResolves, TextureResolves
  <2> QED
    BY <1>6, <2>1, <2>2
<1>12. StoreInv'
  BY <1>4, <1>5, <1>11 DEF StoreInv
<1> QED
  BY <1>1, <1>2, <1>4, <1>5, <1>6, <1>7, <1>8, <1>10, <1>12 DEF new

\* create_entity_tree() adds the entities of the model, none of which was there.
LEMMA LoadStep ==
  ASSUME SceneInv, NEW doc \in Documents, LoadModelRuntime(doc), Loads(doc)
  PROVE  SceneInv'
<1> DEFINE new == NodeEntities(doc, loads + 1) \cup MeshEntities(doc, loads + 1)
           spawned == Spawned(doc, loads + 1)
<1>1. /\ loads < MaxLoads /\ LoadModel(doc)
      /\ registry' = Merged(registry, spawned)
      /\ UNCHANGED <<selected_entity, edits>>
      /\ phase' \in {"viewport", "panel"}
  BY DEF LoadModelRuntime, InPanel
<1>2. /\ loads' = loads + 1 /\ loads + 1 \in 1 .. MaxLoads /\ loads \in Nat \ {0}
      /\ status' = status
      /\ DOMAIN mesh_assets' = DOMAIN mesh_assets \cup Submeshes(doc, loads + 1)
      /\ DOMAIN material_assets' = DOMAIN material_assets \cup Submeshes(doc, loads + 1)
      /\ DOMAIN texture_assets' = DOMAIN texture_assets \cup Submeshes(doc, loads + 1)
      /\ mesh_assets' \in [DOMAIN mesh_assets' -> BOOLEAN]
      /\ texture_assets' \in [DOMAIN texture_assets' -> BOOLEAN]
      /\ material_assets' \in [DOMAIN material_assets' ->
                                  [texture : Guid, program : Programs \cup {""}]]
      /\ StoreInv'
  BY <1>1, StoresGrow
<1>3. \A e \in new :
        /\ e \in Guid /\ e.load = loads + 1
        /\ spawned[e] \in Components
        /\ Placed \subseteq spawned[e].has
        /\ spawned[e].parent = ParentOf(e)
        /\ spawned[e].children =
             IF e \in NodeEntities(doc, loads + 1)
               THEN AttachedTo(doc, loads + 1, e) ELSE {}
        /\ "material" \in spawned[e].has =>
             spawned[e].material = e /\ e \in Submeshes(doc, loads + 1)
        /\ "mesh" \in spawned[e].has =>
             spawned[e].mesh = e /\ e \in Submeshes(doc, loads + 1)
  BY <1>2, SpawnedParts
<1>4. DOMAIN spawned = new
  BY <1>2, SpawnFacts
<1>5. ASSUME NEW e \in DOMAIN registry
      PROVE  e \notin new
  <2>1. e.load \in Nat /\ e.load <= loads /\ loads \in Nat
    BY Numbers
  <2>2. e.load # loads + 1
    BY <2>1
  <2>3. \A f \in new : f.load = loads + 1
    BY <1>3
  <2> QED
    BY <2>2, <2>3
<1> HIDE DEF new, spawned
<1>6. /\ DOMAIN registry' = DOMAIN registry \cup new
      /\ \A e \in DOMAIN registry : registry'[e] = registry[e]
      /\ \A e \in new : registry'[e] = spawned[e]
  BY <1>1, <1>4, <1>5 DEF Merged
<1>7. TypeOK'
  <2>1. \A e \in DOMAIN registry' : registry'[e] \in Components
    BY <1>3, <1>6 DEF SceneInv, TypeOK
  <2>2. registry' \in [DOMAIN registry' -> Components]
    BY <1>1, <2>1 DEF Merged
  <2>3. \A h \in Submeshes(doc, loads + 1) : h \in Guid
    BY <1>2, HandleFacts
  <2>4. (DOMAIN mesh_assets \cup DOMAIN material_assets \cup DOMAIN texture_assets
          \cup DOMAIN registry)' \subseteq Guid
    BY <1>2, <1>3, <1>6, <2>3 DEF SceneInv, TypeOK
  <2> QED
    BY <1>1, <1>2, <2>2, <2>4 DEF SceneInv, TypeOK
<1>8. RegistryInv'
  <2>1. ASSUME NEW e \in DOMAIN registry
        PROVE  e.load <= loads'
    <3>1. e.load <= loads /\ e.load \in Nat /\ loads \in Nat
      BY Numbers
    <3>2. loads' = loads + 1
      BY <1>2
    <3> QED
      BY <3>1, <3>2
  <2>2. ASSUME NEW e \in DOMAIN registry
        PROVE  /\ "material" \in registry'[e].has =>
                    /\ registry'[e].material = e
                    /\ e \in DOMAIN material_assets'
                    /\ e.load > 1
               /\ "mesh" \in registry'[e].has =>
                    registry'[e].mesh \in DOMAIN mesh_assets' \cup {NullGuid}
    BY <1>2, <1>6 DEF SceneInv, RegistryInv
  <2>3. ASSUME NEW e \in new
        PROVE  e.load <= loads' /\ e.load > 1
    <3>1. loads \in Nat \ {0} /\ loads' = loads + 1
      BY <1>2
    <3>2. e.load = loads + 1
      BY <1>3
    <3> QED
      BY <3>1, <3>2
  <2>4. ASSUME NEW e \in new
        PROVE  /\ "material" \in registry'[e].has =>
                    /\ registry'[e].material = e
                    /\ e \in DOMAIN material_assets'
               /\ "mesh" \in registry'[e].has =>
                    registry'[e].mesh \in DOMAIN mesh_assets' \cup {NullGuid}
    <3>1. registry'[e] = spawned[e]
      BY <1>6
    <3>2. /\ "material" \in spawned[e].has =>
               spawned[e].material = e /\ e \in Submeshes(doc, loads + 1)
          /\ "mesh" \in spawned[e].has =>
               spawned[e].mesh = e /\ e \in Submeshes(doc, loads + 1)
      BY <1>3
    <3>3. /\ Submeshes(doc, loads + 1) \subseteq DOMAIN material_assets'
          /\ Submeshes(doc, loads + 1) \subseteq DOMAIN mesh_assets'
      BY <1>2
    <3> QED
      BY <3>1, <3>2, <3>3
  <2> QED
    BY <1>6, <2>1, <2>2, <2>3, <2>4 DEF RegistryInv
<1>9. HierarchyIsForest'
  <2>1. ASSUME NEW e \in DOMAIN registry
        PROVE  /\ \A c \in registry'[e].children :
                    c \in DOMAIN registry' /\ registry'[c].parent = e
               /\ registry'[e].parent # NullEntity =>
                    /\ registry'[e].parent \in DOMAIN registry'
                    /\ e \in registry'[registry'[e].parent].children
               /\ e.load # 0 /\ e # ModelRoot(e.load) =>
                    registry'[e].parent # NullEntity
    BY <1>6, <2>1 DEF SceneInv, HierarchyIsForest
  <2>2. ASSUME NEW e \in new, NEW c \in registry'[e].children
        PROVE  c \in DOMAIN registry' /\ registry'[c].parent = e
    <3>1. c \in AttachedTo(doc, loads + 1, e)
      BY <1>3, <1>6, <2>2
    <3>2. c \in new /\ ParentOf(c) = e
      BY <3>1 DEF AttachedTo, new
    <3> QED
      BY <1>3, <1>6, <3>2
  <2>3. ASSUME NEW e \in new
        PROVE  /\ registry'[e].parent # NullEntity =>
                    /\ registry'[e].parent \in DOMAIN registry'
                    /\ e \in registry'[registry'[e].parent].children
               /\ e # ModelRoot(e.load) => registry'[e].parent # NullEntity
    <3>1. registry'[e].parent = ParentOf(e)
      BY <1>3, <1>6
    <3>2. /\ ParentOf(e) \in NodeEntities(doc, loads + 1) \cup {NullEntity}
          /\ e # ModelRoot(loads + 1) => ParentOf(e) \in NodeEntities(doc, loads + 1)
      BY <1>2, ParentFacts DEF new
    <3>3. ASSUME ParentOf(e) \in NodeEntities(doc, loads + 1)
          PROVE  /\ ParentOf(e) # NullEntity
                 /\ ParentOf(e) \in new
                 /\ e \in registry'[ParentOf(e)].children
      <4>1. ParentOf(e) \in new
        BY <3>3 DEF new
      <4>2. ParentOf(e).load # 0
        <5>1. loads \in Nat \ {0}
          BY <1>2
        <5>2. ParentOf(e).load = loads + 1
          BY <1>3, <4>1
        <5> QED
          BY <5>1, <5>2
      <4>3. NullEntity.load = 0
        BY DEF NullEntity
      <4>4. e \in AttachedTo(doc, loads + 1, ParentOf(e))
        BY DEF AttachedTo, new
      <4>5. registry'[ParentOf(e)].children = AttachedTo(doc, loads + 1, ParentOf(e))
        BY <1>3, <1>6, <3>3, <4>1
      <4> QED
        BY <4>1, <4>2, <4>3, <4>4, <4>5
    <3>4. e.load = loads + 1
      BY <1>3
    <3> QED
      BY <1>6, <3>1, <3>2, <3>3, <3>4
  <2> QED
    BY <1>6, <2>1, <2>2, <2>3 DEF HierarchyIsForest
<1>10. TransformComplete'
  <2>1. \A e \in DOMAIN registry :
          "transform" \in registry[e].has => Placed \subseteq registry[e].has
    BY DEF SceneInv, TransformComplete
  <2> QED
    BY <1>3, <1>6, <2>1 DEF TransformComplete
<1> QED
  BY <1>2, <1>7, <1>8, <1>9, <1>10 DEF SceneInv

\* SceneInv is inductive.
LEMMA Inductive == SceneInv /\ [Next]_vars => SceneInv'
<1> SUFFICES ASSUME SceneInv, [Next]_vars PROVE SceneInv'
  OBVIOUS
<1>1. CASE DrawViewport
  BY <1>1, DrawStep
<1>2. CASE NoClick
  <2>1. Same /\ UNCHANGED <<material_assets, registry>>
    BY <1>2 DEF NoClick, InPanel, assetVars, Same, SceneInv, TypeOK
  <2> QED
    BY <2>1, IdleStep
<1>3. CASE CreateEntity
  BY <1>3, CreateStep
<1>4. ASSUME NEW doc \in Imported, LoadModelRuntime(doc)
      PROVE  SceneInv'
  <2>1. doc \in Documents
    BY EditorAssumption
  <2>2. CASE Loads(doc)
    BY <1>4, <2>1, <2>2, LoadStep
  <2>3. CASE ~Loads(doc)
    <3>1. Same /\ UNCHANGED <<material_assets, registry>>
      BY <1>4, <2>3
      DEF LoadModelRuntime, LoadModel, InPanel, Same, SceneInv, TypeOK
    <3> QED
      BY <3>1, IdleStep
  <2> QED
    BY <2>2, <2>3
<1>5. ASSUME NEW e \in DOMAIN registry,
             SelectEntity(e) \/ DeleteEntity(e)
      PROVE  SceneInv'
  <2>1. /\ Edit /\ selected_entity' \in {e, NullEntity}
        /\ UNCHANGED <<mesh_assets, material_assets, texture_assets, loads, registry>>
        /\ status' \in {status, "terminated"}
    BY <1>5 DEF SelectEntity, DeleteEntity, Terminate, assetVars
  <2>2. status \in {"running", "terminated"} /\ {e, NullEntity} \subseteq Guid
    BY OwnIds DEF SceneInv, TypeOK
  <2>3. Same
    BY <2>1, <2>2, EditStays DEF Same
  <2> QED
    BY <2>1, <2>3, IdleStep
<1>6. ASSUME NEW e \in DOMAIN registry, AddTransform(e) \/ AddMesh(e)
      PROVE  SceneInv'
  BY <1>6, AddStep
<1>7. ASSUME NEW e \in DOMAIN registry, NEW h \in DOMAIN mesh_assets, SelectMesh(e, h)
      PROVE  SceneInv'
  BY <1>7, MeshStep
<1>8. ASSUME NEW e \in DOMAIN registry, NEW p \in Programs, SelectProgram(e, p)
      PROVE  SceneInv'
  BY <1>8, ProgramStep
<1>9. CASE UNCHANGED vars
  BY <1>9 DEF vars, assetVars, SceneInv, TypeOK, StoreInv, RegistryInv,
    HierarchyIsForest, TransformComplete, MaterialResolves, TextureResolves
<1> QED
  BY <1>1, <1>2, <1>3, <1>4, <1>5, <1>6, <1>7, <1>8, <1>9 DEF Next, Panel

\* SceneInv holds in every behaviour.
THEOREM SceneInvariant == Spec => []SceneInv
<1>1. Init => SceneInv
  BY Initial
<1>2. SceneInv /\ [Next]_vars => SceneInv'
  BY Inductive
<1> QED
  BY <1>1, <1>2, PTL DEF Spec

\* The stores, the scene and the selection keep their types, whatever is loaded,
\* created and edited.
THEOREM SceneTypeCorrect == Spec => []TypeOK
<1>1. SceneInv => TypeOK
  BY DEF SceneInv
<1> QED
  BY <1>1, SceneInvariant, PTL

\* Renderer::draw_mesh() finds the mesh, the material, its program and its texture
\* of whatever it draws; only a mesh component nobody gave a mesh names none.
THEOREM DrawnIsThere == Spec => []DrawnResolves
<1>1. SceneInv => DrawnResolves
  BY DEF SceneInv, StoreInv, RegistryInv, DrawnResolves, Drawn, MeshResolves
<1> QED
  BY <1>1, SceneInvariant, PTL

\* attach_child() makes parents and child lists agree, for every document.
THEOREM EntitiesFormForest == Spec => []HierarchyIsForest
<1>1. SceneInv => HierarchyIsForest
  BY DEF SceneInv
<1> QED
  BY <1>1, SceneInvariant, PTL

\* Whoever spawns or adds a transform gives what the panel reads with it.
THEOREM TransformsComplete == Spec => []TransformComplete
<1>1. SceneInv => TransformComplete
  BY DEF SceneInv
<1> QED
  BY <1>1, SceneInvariant, PTL

\* The material combo writes the material of the selected entity, which no
\* other entity draws with.
THEOREM MaterialEditsLocal == Spec => EditIsLocal
<1> DEFINE Local ==
      \A e \in DOMAIN registry, p \in Programs :
        SelectProgram(e, p) =>
          \A f \in Drawn(registry) \ {e} :
            material_assets'[registry[f].material]
              = material_assets[registry[f].material]
<1>1. SceneInv => Local
  <2> SUFFICES ASSUME SceneInv, NEW e \in DOMAIN registry, NEW p \in Programs,
                      SelectProgram(e, p), NEW f \in Drawn(registry) \ {e}
               PROVE  material_assets'[registry[f].material]
                        = material_assets[registry[f].material]
    OBVIOUS
  <2>1. registry[f].material = f /\ f \in DOMAIN material_assets /\ f # e
    BY DEF SceneInv, RegistryInv, Drawn
  <2>2. registry[e].material = e
    BY DEF SceneInv, RegistryInv, SelectProgram
  <2>3. SetProgram(e, p) \/ Terminate
    BY <2>2 DEF SelectProgram
  <2> QED
    BY <2>1, <2>3 DEF SetProgram, Terminate
<1>2. SceneInv => [Local]_vars
  BY <1>1
<1> QED
  BY <1>2, SceneInvariant, PTL DEF EditIsLocal
=============================================================================
