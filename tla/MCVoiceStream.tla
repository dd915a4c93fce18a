---------------------------- MODULE MCVoiceStream ----------------------------
(* One voice socket whose provider may send partial and final transcripts   *)
(* of two turns, and a final one without text.                              *)
EXTENDS VoiceStream

MCTurn ==
    [kind : {"Turn"}, order : {0, 1}, final : BOOLEAN, text : {TRUE}]
        \cup [kind : {"Turn"}, order : {1}, final : {TRUE}, text : {FALSE}]
=============================================================================
