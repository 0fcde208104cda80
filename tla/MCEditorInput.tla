---------------------------- MODULE MCEditorInput ----------------------------
(***************************************************************************)
(* Instances of EditorInput: escape and one key that moves the camera, a   *)
(* mouse with two or three positions and a few events in flight.           *)
(***************************************************************************)
EXTENDS EditorInput

CONSTANTS escape, w

mcKeys == {escape, w}
mcMoveKeys == {w}
=============================================================================
