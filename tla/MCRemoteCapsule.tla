-------------------------- MODULE MCRemoteCapsule --------------------------
(***************************************************************************)
(* RemoteCapsule with a core of one page and two pages beyond it.          *)
(***************************************************************************)
EXTENDS RemoteCapsule

MCPages == {"core", "rest1", "rest2"}
MCCore  == {"core"}
=============================================================================
