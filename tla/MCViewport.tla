------------------------------- MODULE MCViewport -------------------------------
(***************************************************************************)
(* Two panel sizes besides that of the screenshot, three names.            *)
(***************************************************************************)
EXTENDS Viewport

CONSTANTS small, large, hd, hidden

mcNames == 1 .. 3
mcSizes == {small, large, hd}
=============================================================================
