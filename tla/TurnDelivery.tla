----------------------------- MODULE TurnDelivery -----------------------------
(***************************************************************************)
(* What a voice socket promises about the transcripts it hands on, whatever *)
(* the provider sends: once a turn was handed on as final, nothing of it or *)
(* of an earlier turn follows, so that a command is acted on at most once;  *)
(* and nothing at all is handed on after the socket has begun to shut down. *)
(***************************************************************************)
EXTENDS Naturals, Sequences

CONSTANT Order

VARIABLES shown,     \* the transcripts handed on, in order
          accepting  \* may there be more?

Transcript == [order : Order, final : BOOLEAN]

Finished(o) == \E i \in DOMAIN shown : shown[i].final /\ shown[i].order >= o

Show(t) ==
    /\ accepting /\ ~Finished(t.order)
    /\ shown' = Append(shown, t)
    /\ UNCHANGED accepting

ShutDown ==
    /\ accepting
    /\ accepting' = FALSE
    /\ UNCHANGED shown

Spec ==
    /\ shown = <<>> /\ accepting = TRUE
    /\ [][(\E t \in Transcript : Show(t)) \/ ShutDown]_<<shown, accepting>>
=============================================================================
