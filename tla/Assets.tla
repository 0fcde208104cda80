-------------------------------- MODULE Assets --------------------------------
(***************************************************************************)
(* The asset stores of ResourceManager: meshes, materials and textures by  *)
(* handle, as GLTFModelLoader fills them from a glTF document and          *)
(* upload_node_to_gpu() moves them to the GPU.                             *)
(*                                                                         *)
(* A document is a record: its scene's root nodes, the children of each    *)
(* node and the primitives of each node's mesh.  A primitive is [textured, *)
(* attributes]: whether its material names a base color image, and the     *)
(* vertex attributes it has.  Handles are fresh GUIDs; as every primitive  *)
(* met on the way down draws its own, a handle is the place it was drawn   *)
(* at: [load, path, prim].                                                 *)
(***************************************************************************)
EXTENDS Naturals, Sequences, SequencesExt, FiniteSets, Functions

CONSTANTS
  Nodes,        \* glTF node indices
  Documents,    \* the glTF documents on disk
  Cube,         \* the document init() loads
  Programs,     \* access names in ShaderManager::shader_program_assets
  Default       \* "Default Program"

AllAttributes == {"POSITION", "NORMAL", "TEXCOORD_0"}

Primitive == [textured : BOOLEAN, attributes : SUBSET AllAttributes]

Document ==
  [roots : SUBSET Nodes,
   children : [Nodes -> SUBSET Nodes],
   primitives : [Nodes -> Seq(Primitive)]]

ASSUME AssetAssumption ==
  /\ IsFiniteSet(Nodes)
  /\ Documents \subseteq Document
  /\ Cube \in Documents
  /\ Default \in Programs
  /\ "" \notin Programs

VARIABLES
  mesh_assets,      \* handle -> whether gpu_mesh has a value
  material_assets,  \* handle -> [texture, program]
  texture_assets,   \* handle -> whether gpu_texture has a value
  loads,            \* models loaded so far
  status            \* running, or terminated by an exception nobody catches

assetVars == <<mesh_assets, material_assets, texture_assets, loads, status>>

NullGuid == [load |-> 0, path |-> <<>>, prim |-> 0]
Cubemap == [load |-> 0, path |-> <<>>, prim |-> 1]  \* default_cubemap_texture_asset

\* emplace() of what g holds: what f holds stays.
Merged(f, g) ==
  [x \in DOMAIN f \cup DOMAIN g |-> IF x \in DOMAIN f THEN f[x] ELSE g[x]]

\* The nodes load_node() visits, each by its path from a root.  A node under
\* two parents is visited, and loaded, twice.
Visited(doc) ==
  {p \in SeqOf(Nodes, Cardinality(Nodes)) :
     /\ p # <<>>
     /\ p[1] \in doc.roots
     /\ \A i \in 2 .. Len(p) : p[i] \in doc.children[p[i - 1]]}

\* What load_submesh() is called for.
Submeshes(doc, n) ==
  UNION {{[load |-> n, path |-> p, prim |-> i] :
            i \in DOMAIN doc.primitives[Last(p)]} : p \in Visited(doc)}

PrimitiveOf(doc, h) == doc.primitives[Last(h.path)][h.prim]

\* upload_node_to_gpu() takes the texture's .value() and the three attributes
\* with .at(): without one of them it throws.
Uploadable(prim) == prim.textured /\ prim.attributes = AllAttributes

\* Fault: one material for all primitives of a node.
LoadOneMaterial(doc, n, program) ==
  LET new == Submeshes(doc, n)
      one(h) == [h EXCEPT !.prim = 1]
  IN [meshes |-> [h \in new |-> TRUE],
      materials |-> [h \in {one(g) : g \in new} |->
                       [texture |-> h, program |-> program]],
      textures |-> [h \in {one(g) : g \in new} |-> TRUE],
      material_of |-> [h \in new |-> one(h)]]

\* Fault: textures stay on the CPU.
LoadWithoutTextures(doc, n, program) ==
  LET new == Submeshes(doc, n)
  IN [meshes |-> [h \in new |-> TRUE],
      materials |-> [h \in new |-> [texture |-> h, program |-> program]],
      textures |-> [h \in new |-> FALSE],
      material_of |-> [h \in new |-> h]]

\* What a load that gets through adds: for every primitive a mesh, a material
\* with the default program of the moment and a texture, all uploaded, and
\* the node's mesh_material_map.
Loaded(doc, n, program) ==
  LET new == Submeshes(doc, n)
  IN [meshes |-> [h \in new |-> TRUE],
      materials |-> [h \in new |-> [texture |-> h, program |-> program]],
      textures |-> [h \in new |-> TRUE],
      material_of |-> [h \in new |-> h]]

Loads(doc) == \A h \in Submeshes(doc, 0) : Uploadable(PrimitiveOf(doc, h))

\* ResourceManager::init(): the cube is loaded before
\* default_shader_program_handle is set.
AssetInit ==
  LET cube == Loaded(Cube, 1, "") IN
  /\ mesh_assets = cube.meshes
  /\ material_assets = cube.materials
  /\ texture_assets = Merged([h \in {Cubemap} |-> TRUE], cube.textures)
  /\ loads = 1
  /\ status = IF Loads(Cube) THEN "running" ELSE "terminated"

\* ResourceManager::load_model().
LoadModel(doc) ==
  LET added == Loaded(doc, loads + 1, Default) IN
  IF Loads(doc)
    THEN /\ mesh_assets' = Merged(mesh_assets, added.meshes)
         /\ material_assets' = Merged(material_assets, added.materials)
         /\ texture_assets' = Merged(texture_assets, added.textures)
         /\ loads' = loads + 1
         /\ UNCHANGED status
    ELSE /\ status' = "terminated"
         /\ UNCHANGED <<mesh_assets, material_assets, texture_assets, loads>>

SetProgram(h, p) ==
  /\ material_assets' = [material_assets EXCEPT ![h].program = p]
  /\ UNCHANGED <<mesh_assets, texture_assets, loads, status>>

Terminate ==
  /\ status' = "terminated"
  /\ UNCHANGED <<mesh_assets, material_assets, texture_assets, loads>>

-----------------------------------------------------------------------------

MeshResolves(h) == h \in DOMAIN mesh_assets /\ mesh_assets[h]

TextureResolves(h) == h \in DOMAIN texture_assets /\ texture_assets[h]

MaterialResolves(h) ==
  /\ h \in DOMAIN material_assets
  /\ material_assets[h].program \in Programs
  /\ TextureResolves(material_assets[h].texture)
=============================================================================
