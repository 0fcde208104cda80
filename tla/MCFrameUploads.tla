----------------------------- MODULE MCFrameUploads -----------------------------
(***************************************************************************)
(* Room for two lights and three shapes, and scenes with one more of each. *)
(***************************************************************************)
EXTENDS FrameUploads

CONSTANTS p1, p2

mcPlaces == {p1, p2}
=============================================================================
