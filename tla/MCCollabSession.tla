--------------------------- MODULE MCCollabSession ---------------------------
(* Small instances of CollabSession for TLC.                               *)
EXTENDS CollabSession

CONSTANTS h1, h2, g1, g2, o1, v1

OneHost == {h1}
TwoHosts == {h1, h2}
HostTwoGuests == {h1, g1, g2}
TwoHostsTwoGuests == {h1, h2, g1, g2}
OneObject == {o1}
OneValue == {v1}
======================================================================
