---------------------------- MODULE MCVoiceDialog ----------------------------
(***************************************************************************)
(* Instance of VoiceDialog for TLC: one utterance per way a transcript can  *)
(* relate to the window, the subject and the pods.                          *)
(***************************************************************************)
EXTENDS VoiceDialog, TLC

CONSTANTS p1, p2

Says(intent, name, pid, pronoun, scores) ==
    [intent |-> intent, name |-> name, pid |-> pid, ip |-> FALSE,
     pronoun |-> pronoun, scores |-> scores]

Neither == [p \in Pod |-> 0]
Both    == [p \in Pod |-> IF p \in {p1, p2} THEN 1 ELSE 0]
First   == [p \in Pod |-> IF p = p1 THEN 2 ELSE IF p = p2 THEN 1 ELSE 0]
Second  == [p \in Pod |-> IF p = p2 THEN 1 ELSE 0]

SpokenCommands ==
    {Says("INSPECT", None, None, FALSE, Neither),                 \* "show top memory"
     Says("PROCESS_KILL", None, None, FALSE, Neither),            \* "kill the failing pod"
     Says("PROCESS_KILL", None, None, TRUE, Neither),             \* "kill it"
     Says("NETWORK_ISOLATE", None, None, FALSE, Second),          \* "isolate payment"
     Says("NETWORK_ISOLATE", p1, None, FALSE, First),             \* "isolate process <pod>"
     Says("ROLLBACK", None, None, FALSE, Neither),                \* "rollback"
     Says("ROLLBACK", None, None, TRUE, Neither),                 \* "undo it"
     Says("UNKNOWN", None, None, FALSE, Neither),                 \* "hmm ok"
     Says("UNKNOWN", None, None, FALSE, Both),                    \* "the cache one"
     Says("UNKNOWN", None, None, FALSE, First),
     [Says("NETWORK_ISOLATE", None, None, TRUE, Neither) EXCEPT !.ip = TRUE]}

=============================================================================
