--------------------------- MODULE MCCapsuleHosts ---------------------------
(***************************************************************************)
(* CapsuleHosts with every host, a core of one page and another page.       *)
(***************************************************************************)
EXTENDS CapsuleHosts

MCPages == {"core", "rest"}
MCCore  == {"core"}
All     == DOMAIN Host
=============================================================================
