---------------------------- MODULE MCSceneEditor ----------------------------
(***************************************************************************)
(* Instances of SceneEditor: a cube with one primitive, and three contents *)
(* of the imported document: a bare root over a node with two primitives,  *)
(* a node that is a root and a child as well, a primitive without texture. *)
(***************************************************************************)
EXTENDS SceneEditor

full == [textured |-> TRUE, attributes |-> AllAttributes]
bare == [textured |-> FALSE, attributes |-> AllAttributes]

mcCube ==
  [roots |-> {1}, children |-> [n \in {1, 2} |-> {}],
   primitives |-> (1 :> <<full>>) @@ (2 :> <<>>)]

mcSink ==
  [roots |-> {1}, children |-> (1 :> {2}) @@ (2 :> {}),
   primitives |-> (1 :> <<>>) @@ (2 :> <<full, full>>)]

mcShared == [mcSink EXCEPT !.roots = {1, 2}, !.primitives[2] = <<full>>]

mcPlain == [mcSink EXCEPT !.primitives[2] = <<full, bare>>]

mcNodes == {1, 2}
mcImported == {mcSink, mcShared, mcPlain}
mcDocuments == mcImported \cup {mcCube}
mcPrograms == {"Default Program", "White Program"}
=============================================================================
