----------------------------- MODULE VoiceStream -----------------------------
(***************************************************************************)
(* voice_stream of app/api/v1/websockets.py: one voice socket from accept   *)
(* to close. Four tasks share the event loop with those of the provider's   *)
(* session (ProviderSession): the handler itself ("main"), receive_audio,   *)
(* connect_task and stream_task; a bounded queue takes the audio from the   *)
(* receiver to the upload, and the session's reader calls on_turn.          *)
(*                                                                          *)
(* What a command does (VoiceDialog) is one await here, and the time stamps *)
(* of the latency waterfall (IncidentLog) are left out. CLEANUP_TIMEOUT for *)
(* the gathered tasks cannot expire: the clean-up of a cancelled stream     *)
(* task has timeouts of its own that add up to less.                        *)
(***************************************************************************)
EXTENDS ProviderSession

CONSTANTS AUDIO_QUEUE_MAXSIZE,
          MaxFrames   \* bound on the audio frames the client sends

VARIABLES main,       \* where the handler is
          receive,    \* receive_task: where it is, or how it ended
          held,       \* what the receiver is putting into the full queue
          audio,      \* audio_queue; Stop is its None
          ready,      \* ready_sent
          accepting,  \* accepting_turns
          code,       \* close_code; an error is reported iff it is not 1000
          client,     \* is the client's end of the socket still there?
          frames,     \* audio frames received from the client
          shown,      \* history: transcripts on_turn has sent to the client
          commanded   \* history: final turns whose command was carried through

socketVars == <<main, receive, held, audio, ready, accepting, code, client, frames, shown, commanded>>
vars == <<sessionVars, socketVars>>

Stop == 0
ReceiveEnded == {"stopped", "left", "bad", "slow", "cancelled"}
StreamEnded == {"none", "done", "ended"}
CloseCode == {1000, 1008, 1011, 1013}

ASSUME StreamAssumption == AUDIO_QUEUE_MAXSIZE \in Nat \ {0} /\ MaxFrames \in Nat

StreamTypeOK ==
    /\ SessionTypeOK
    /\ main \in {"connecting", "readying", "streaming", "draining", "expired", "gathering",
                 "reporting", "closing", "close expired", "done"}
    /\ receive \in {"receiving", "blocked"} \cup ReceiveEnded
    /\ held \in 0..MaxFrames
    /\ audio \in Seq(0..MaxFrames) /\ Len(audio) <= AUDIO_QUEUE_MAXSIZE
    /\ {ready, accepting, client} \subseteq BOOLEAN
    /\ code \in CloseCode
    /\ frames \in 0..MaxFrames
    /\ shown \in Seq([order : Order, final : BOOLEAN]) /\ commanded \in Seq(Order)

Init ==
    /\ SessionInit
    /\ main = "connecting" /\ receive = "receiving" /\ held = Stop /\ audio = <<>>
    /\ ready = FALSE /\ accepting = TRUE /\ code = 1000
    /\ client = TRUE /\ frames = 0
    /\ shown = <<>> /\ commanded = <<>>

-----------------------------------------------------------------------------
(* receive_audio: frames and "stop" go through enqueue. A text that decodes *)
(* as an audio marker changes nothing modelled here.                        *)

(* Mutation: audio_queue has no maxsize. *)
EnqueueUnbounded(item, next) ==
    /\ audio' = Append(audio, item)
    /\ receive' = next
    /\ held' = Stop

(* audio_queue.put: at once if there is room, else the receiver waits. *)
Enqueue(item, next) ==
    IF Len(audio) < AUDIO_QUEUE_MAXSIZE
    THEN /\ audio' = Append(audio, item)
         /\ receive' = next
         /\ held' = Stop
    ELSE /\ receive' = "blocked"
         /\ held' = item
         /\ UNCHANGED audio

ReceiveFrame ==
    /\ receive = "receiving" /\ client /\ frames < MaxFrames
    /\ frames' = frames + 1
    /\ Enqueue(frames', "receiving")
    /\ UNCHANGED <<sessionVars, main, ready, accepting, code, client, shown, commanded>>

ReceiveStop ==
    /\ receive = "receiving" /\ client
    /\ Enqueue(Stop, "stopped")
    /\ UNCHANGED <<sessionVars, main, ready, accepting, code, client, frames, shown, commanded>>

Unblock ==
    /\ receive = "blocked" /\ Len(audio) < AUDIO_QUEUE_MAXSIZE
    /\ Enqueue(held, IF held = Stop THEN "stopped" ELSE "receiving")
    /\ UNCHANGED <<sessionVars, main, ready, accepting, code, client, frames, shown, commanded>>

Receives(outcome) ==
    /\ receive' = outcome
    /\ UNCHANGED <<sessionVars, main, held, audio, ready, accepting, code, client, frames, shown, commanded>>

ReceiveBad == receive = "receiving" /\ client /\ Receives("bad")
ReceiveDisconnect == receive = "receiving" /\ ~client /\ Receives("left")
Backpressure == receive = "blocked" /\ Receives("slow")  \* AUDIO_BACKPRESSURE_TIMEOUT

ClientLeaves ==
    /\ client /\ main # "done"
    /\ client' = FALSE
    /\ UNCHANGED <<sessionVars, main, receive, held, audio, ready, accepting, code, frames, shown, commanded>>

-----------------------------------------------------------------------------
(* The session's tasks, where they meet the socket. *)

UploadNext ==
    /\ audio # <<>>
    /\ IF Head(audio) = Stop THEN UploadEnds ELSE UploadTakes(Head(audio))
    /\ audio' = Tail(audio)
    /\ UNCHANGED <<main, receive, held, ready, accepting, code, client, frames, shown, commanded>>

(* on_turn once ready_sent is set. Without the wait (a turn that comes when *)
(* ready_sent is set already) it is entered and answered in one go; the     *)
(* socket's shutdown in between is then the same as one before the turn.    *)
ShowTurn ==
    /\ task.reader = "waiting" /\ ready
    /\ IF accepting
       THEN /\ task' = [task EXCEPT !.reader = "showing"]
            /\ shown' = Append(shown, [order |-> turn.order, final |-> turn.final])
            /\ UNCHANGED <<session, cancel, turn, inbox, provider, posted, chunk, sent>>
       ELSE TurnReturns /\ UNCHANGED shown
    /\ UNCHANGED <<main, receive, held, audio, ready, accepting, code, client, frames, commanded>>

(* The transcript is sent; a final one goes to _handle_command. *)
TurnShown ==
    /\ task.reader = "showing"
    /\ IF turn.final
       THEN /\ task' = [task EXCEPT !.reader = "command"]
            /\ UNCHANGED <<session, cancel, turn, inbox, provider, posted, chunk, sent>>
       ELSE TurnReturns
    /\ UNCHANGED socketVars

CommandHandled ==
    /\ task.reader = "command"
    /\ TurnReturns
    /\ commanded' = Append(commanded, turn.order)
    /\ UNCHANGED <<main, receive, held, audio, ready, accepting, code, client, frames, shown>>

(* The client is gone or too slow (SOCKET_SEND_TIMEOUT), or a handler       *)
(* raises.                                                                  *)
TurnFails ==
    /\ task.reader \in {"showing", "command"}
    /\ TurnRaises
    /\ UNCHANGED socketVars

ReaderStep == (ReadTurn \/ ReadEnd \/ ReadClosed) /\ UNCHANGED socketVars
ConnectStep == (Connects \/ ConnectFails) /\ UNCHANGED socketVars
UploadStep == (UploadSends \/ UploadFails) /\ UNCHANGED socketVars
StreamStep ==
    /\ StreamWakes \/ TerminateSent \/ ReaderAwaited \/ CloseFails \/ CloseEnds \/ StreamCancelled
    /\ UNCHANGED socketVars
ProviderStep == (ProviderSays \/ ConnectionLost) /\ UNCHANGED socketVars

-----------------------------------------------------------------------------
(* The handler. *)

Goto(next) ==
    /\ main' = next
    /\ UNCHANGED <<sessionVars, receive, held, audio, ready, accepting, code, client, frames, shown, commanded>>

(* task.cancel() on every task of the socket that is not done. *)
CancelTasks ==
    /\ receive' = IF receive \in ReceiveEnded THEN receive ELSE "cancelled"
    /\ task' = [task EXCEPT !.connect = Cancelled(@)]
    /\ cancel' = (task.stream \notin StreamEnded)

(* The outcome of the try, and the finally up to the gather. *)
ShutDown(closeCode) ==
    /\ main' = "gathering"
    /\ code' = closeCode
    /\ accepting' = FALSE /\ ready' = TRUE
    /\ CancelTasks
    /\ UNCHANGED <<session, turn, inbox, provider, posted, chunk, sent>>
    /\ UNCHANGED <<held, audio, client, frames, shown, commanded>>

(* receive_task.result(): the close code it stands for. *)
ReceiveCode ==
    CASE receive = "bad" -> 1008
      [] receive = "slow" -> 1013
      [] OTHER -> 1000

(* The first wait: connect, receive or failure, or none of them within      *)
(* PROVIDER_CONNECT_TIMEOUT. A "stop" before the connection stands ends the *)
(* socket without an error.                                                 *)
Connected ==
    /\ main = "connecting"
    /\ ~session.failed
    /\ task.connect = "done"
    /\ receive \in {"receiving", "blocked", "stopped"}
    /\ Goto("readying")

NotConnected ==
    /\ main = "connecting"
    /\ \/ session.failed /\ ShutDown(1011)
       \/ /\ ~session.failed /\ receive \in ReceiveEnded
          /\ receive # "stopped" \/ task.connect # "done"
          /\ ShutDown(ReceiveCode)
       \/ /\ ~session.failed /\ receive \notin ReceiveEnded /\ task.connect # "done"
          /\ ShutDown(1011)

(* The ready message is sent; stream_task starts before the handler waits   *)
(* again.                                                                   *)
ReadySent ==
    /\ main = "readying"
    /\ main' = "streaming" /\ ready' = TRUE
    /\ StreamStarts
    /\ UNCHANGED <<receive, held, audio, accepting, code, client, frames, shown, commanded>>

(* The client is gone (WebSocketDisconnect), or the message cannot be sent. *)
ReadyFails ==
    /\ main = "readying"
    /\ \/ ~client /\ ShutDown(1000)
       \/ ShutDown(1011)

(* Mutation: an error is not looked for before the result of the receiver,  *)
(* and a client that has stopped is not made to wait for the drain.         *)
StreamingEndsEarly ==
    \/ session.failed /\ receive \notin ReceiveEnded /\ ShutDown(1011)
    \/ receive \in ReceiveEnded /\ ShutDown(ReceiveCode)

(* The second wait: the stream, the receiver or a failure. *)
StreamingEnds ==
    \/ session.failed /\ ShutDown(1011)
    \/ ~session.failed /\ receive = "stopped" /\ Goto("draining")
    \/ ~session.failed /\ receive \in ReceiveEnded \ {"stopped"} /\ ShutDown(ReceiveCode)
    \/ ~session.failed /\ receive \notin ReceiveEnded /\ task.stream \in StreamEnded /\ ShutDown(1011)

Streamed == main = "streaming" /\ StreamingEnds

(* wait_for(stream_task, STREAM_DRAIN_TIMEOUT): its result or error, or     *)
(* its cancellation, which is awaited before TimeoutError is raised.        *)
Drained ==
    /\ main = "draining" /\ task.stream \in StreamEnded
    /\ ShutDown(IF session.failed THEN 1011 ELSE 1000)

DrainTimeout ==
    /\ main = "draining" /\ task.stream \notin StreamEnded
    /\ main' = "expired" /\ cancel' = TRUE
    /\ UNCHANGED <<session, task, turn, inbox, provider, posted, chunk, sent>>
    /\ UNCHANGED <<receive, held, audio, ready, accepting, code, client, frames, shown, commanded>>

DrainExpired ==
    /\ main = "expired" /\ task.stream \in StreamEnded
    /\ ShutDown(1011)

(* The error is sent, or not, if the client has not been seen to leave. *)
Gathered ==
    /\ main = "gathering" /\ task.stream \in StreamEnded
    /\ Goto(IF code # 1000 /\ receive # "left" THEN "reporting" ELSE "closing")

(* Mutation: sending the error waits for a client that is gone. *)
ReportedPatiently == main = "reporting" /\ client /\ Goto("closing")

Reported == main = "reporting" /\ Goto("closing")

(* session.close() from the handler: nothing if the stream task ran it. *)
SessionCloses ==
    /\ main = "closing" /\ task.close = "no"
    /\ CloseBegins(task, task.stream)
    /\ UNCHANGED <<cancel, turn, inbox, provider, posted, chunk, sent>>
    /\ UNCHANGED socketVars

CloseTimeout ==
    /\ main = "closing" /\ task.close \notin {"no", "closed"}
    /\ main' = "close expired"
    /\ task' = Interrupted(task)
    /\ UNCHANGED <<session, cancel, turn, inbox, provider, posted, chunk, sent>>
    /\ UNCHANGED <<receive, held, audio, ready, accepting, code, client, frames, shown, commanded>>

(* sender.close, whatever becomes of it. *)
Closes == main \in {"closing", "close expired"} /\ task.close = "closed" /\ Goto("done")

MainStep ==
    \/ Connected \/ NotConnected \/ ReadySent \/ ReadyFails \/ Streamed
    \/ Drained \/ DrainTimeout \/ DrainExpired \/ Gathered \/ Reported
    \/ SessionCloses \/ CloseTimeout \/ Closes

-----------------------------------------------------------------------------
ReceiveEnds == Unblock \/ ReceiveDisconnect \/ Backpressure
TurnStep == ShowTurn \/ TurnShown \/ CommandHandled \/ TurnFails

Next ==
    \/ ReceiveFrame \/ ReceiveStop \/ ReceiveBad \/ ReceiveEnds \/ ClientLeaves
    \/ ProviderStep
    \/ ConnectStep \/ ReaderStep \/ TurnStep \/ UploadNext \/ UploadStep \/ StreamStep
    \/ MainStep

(* Every await of the program that waits for the provider, the queue or a   *)
(* send has a timeout, and handlers end; the client and the provider        *)
(* promise nothing.                                                         *)
Fairness ==
    /\ WF_vars(ReceiveEnds)
    /\ WF_vars(ConnectStep)
    /\ WF_vars(TurnStep)
    /\ WF_vars(UploadNext)
    /\ WF_vars(UploadStep)
    /\ WF_vars(StreamStep)
    /\ WF_vars(MainStep)

Spec == Init /\ [][Next]_vars /\ Fairness

-----------------------------------------------------------------------------
(* Whatever the provider sends, in whatever order and how often, the socket *)
(* keeps the promise of TurnDelivery (_last_finalized_turn, ready_sent and  *)
(* accepting_turns together).                                               *)
Delivery == INSTANCE TurnDelivery
TurnsDelivered == Delivery!Spec

(* The final ones among the first n transcripts shown were carried out, one *)
(* command each and in the order they were shown in.                        *)
CarriedOut(n) ==
    \E at \in [DOMAIN commanded -> 1..n] :
        /\ \A i, j \in DOMAIN commanded : i < j => at[i] < at[j]
        /\ \A i \in DOMAIN commanded : shown[at[i]] = [order |-> commanded[i], final |-> TRUE]
        /\ \A k \in 1..n : shown[k].final => \E i \in DOMAIN commanded : at[i] = k

(* A socket that is closed as 1000 after "stop", the stream having started, *)
(* has lost nothing: the provider got every frame the client sent, in       *)
(* order, and has confirmed the end; every turn that it finalized before,   *)
(* the last one included, was shown; and every final transcript shown was   *)
(* also carried out.                                                        *)
CleanDrain ==
    main = "done" /\ code = 1000 /\ receive = "stopped" /\ task.stream # "none" =>
        /\ sent = [i \in 1..frames |-> i]
        /\ session.terminated
        /\ \A order \in posted.finals :
              \E i \in DOMAIN shown : shown[i] = [order |-> order, final |-> TRUE]
        /\ CarriedOut(Len(shown))

(* When the handler returns, no task of the socket or of its session is     *)
(* left running, and the session is closed: nothing handles a turn or       *)
(* uploads audio for a socket that is gone.                                 *)
NothingOutlives ==
    main = "done" =>
        /\ task.close = "closed"
        /\ {task.connect, task.reader, task.upload, task.stream} \cap Live = {}
        /\ receive \in ReceiveEnded

(* The socket never begins to shut down as if nothing had happened while    *)
(* the session has failed, unless the client is gone.                       *)
FailureReported ==
    [][accepting /\ ~accepting' /\ session.failed /\ client => code' # 1000]_vars

(* Every socket whose client stops or leaves, or whose provider fails, is   *)
(* closed in the end, however slow the provider, the client and the queue.  *)
SocketEnds ==
    (receive \in ReceiveEnded \/ session.failed \/ ~client) ~> main = "done"
=============================================================================
