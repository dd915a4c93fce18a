--------------------------- MODULE MCIncidentLog ---------------------------
(* Instance of IncidentLog for TLC. *)
EXTENDS IncidentLog, TLC

TokenSymmetry == Permutations(Token)

=============================================================================
