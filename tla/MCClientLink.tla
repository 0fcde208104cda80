---------------------------- MODULE MCClientLink ----------------------------
(* A small instance of ClientLink for TLC.                                 *)
EXTENDS ClientLink

\* Two rounds: one that opens a link and one that finds it opening or gone.
TwoRounds == 2

\* Links for two calls of connect_client().
LinksOfTwoCalls == 2 * TwoRounds
=============================================================================
