---------------------------- MODULE MCLauncher ----------------------------
(***************************************************************************)
(* Launcher on a small clock.  Phases 10 to 12 limit like phase 13, poll    *)
(* like phase 14 and check like the evaluator, but for the CPU.            *)
(***************************************************************************)
EXTENDS Launcher

MostPrograms == {"phase13", "phase14", "evaluator", "workbench"}
===========================================================================
