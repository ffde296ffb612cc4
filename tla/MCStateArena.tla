---------------------------- MODULE MCStateArena ----------------------------
(***************************************************************************)
(* StateArena with one unit more than the budget leaves room for.          *)
(***************************************************************************)
EXTENDS StateArena, TLC

CONSTANTS u1, u2, u3

ThreeUnits == {u1, u2, u3}
OneUnit    == {u1}
===========================================================================
