---------------------------- MODULE MCHostEngine ----------------------------
(* Instance of HostEngine for TLC. No symmetry: ThreadsReturn is temporal. *)
EXTENDS HostEngine, TLC

=============================================================================
