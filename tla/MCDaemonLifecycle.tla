-------------------------- MODULE MCDaemonLifecycle --------------------------
(***************************************************************************)
(* DaemonLifecycle on CLI processes of which only those in MayCrash can be *)
(* told apart.                                                             *)
(***************************************************************************)
EXTENDS DaemonLifecycle, TLC

ProcSymmetry == Permutations(Procs \ MayCrash) \cup Permutations(MayCrash)

=============================================================================
