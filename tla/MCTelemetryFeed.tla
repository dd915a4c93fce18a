--------------------------- MODULE MCTelemetryFeed ---------------------------
(* Instance of TelemetryFeed for TLC. *)
EXTENDS TelemetryFeed
=============================================================================
