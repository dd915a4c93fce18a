---------------------------- MODULE GateContract ----------------------------
(***************************************************************************)
(* What the voice side (VoiceDialog) and the confirmation side              *)
(* (ConfirmEndpoint) agree on: the commands a token may stand for.          *)
(***************************************************************************)
CONSTANTS Pod, None

(* A rollback that names nothing reverses the newest mitigation. *)
Bare(command) == command.intent = "ROLLBACK" /\ command.name = None

(* The commands that pass _gate_mutation: a bare rollback while there is    *)
(* something to undo, whatever the mode; any mutation of an existing pod; a *)
(* kill or an isolation of a PID that passed its preview.                   *)
Offerable(command, mode, undoable) ==
    \/ Bare(command) /\ undoable
    \/ mode = "K8S_CLUSTER" /\ command.name \in Pod
    \/ mode = "HOST_LOCAL" /\ command.intent # "ROLLBACK" /\ command.pid # None

=============================================================================
