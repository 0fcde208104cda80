------------------------------- MODULE MCPakFile -------------------------------
(***************************************************************************)
(* Instances of PakFile: a table of three entries and inputs of up to four *)
(* assets, one of each type and two meshes, in any order.                  *)
(***************************************************************************)
EXTENDS PakFile

mesh == [type |-> "Mesh", indices |-> 1, vbos |-> <<1, 2>>]
bare == [type |-> "Mesh", indices |-> 0, vbos |-> <<>>]
material == [type |-> "Material"]
texture == [type |-> "Texture", width |-> 2, height |-> 1, channels |-> 1]
program == [type |-> "ShaderProgram", vsrc |-> 1, fsrc |-> 2]

mcInputs ==
  UNION {[1 .. n -> {mesh, bare, material, texture, program}] : n \in 0 .. 2}
    \cup {<<mesh, texture, material, program>>, <<bare, mesh, material>>}
=============================================================================
