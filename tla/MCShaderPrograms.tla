---------------------------- MODULE MCShaderPrograms ----------------------------
(***************************************************************************)
(* Two programs that share a vertex shader, each file in two versions, and *)
(* a recompilation.                                                        *)
(***************************************************************************)
EXTENDS ShaderPrograms

CONSTANTS t1, t2

mcTexts == {t1, t2}
mcSources == <<"v3D", "fBasicLighting", "fWhite">>
mcPrograms == <<"Default Program", "White Program">>
mcStages ==
  [n \in ToSet(mcPrograms) |->
     {"v3D", IF n = "Default Program" THEN "fBasicLighting" ELSE "fWhite"}]
=============================================================================
