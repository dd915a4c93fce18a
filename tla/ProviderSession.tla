--------------------------- MODULE ProviderSession ---------------------------
(***************************************************************************)
(* AssemblyAIStreamingSession of app/services/assemblyai_client.py: the     *)
(* connection to the speech provider behind one voice socket, with the      *)
(* asyncio tasks that work on it: connect(), the reader (_read_events), the *)
(* upload (_send_audio), and stream() followed by close().                  *)
(*                                                                          *)
(* Tasks run on one event loop: a step goes from one await to the next. The *)
(* reader and the upload have nothing to clean up, so cancelling one ends   *)
(* it; the gathers that collect them are therefore not steps of their own.  *)
(* A timeout may expire whenever its await is pending: time is not          *)
(* modelled. The callback on_turn belongs to the voice socket; here the     *)
(* reader only enters it ("waiting") and comes back from it.                *)
(***************************************************************************)
EXTENDS Integers, Sequences

CONSTANTS Turn,         \* the transcripts the provider may send
          MaxMessages   \* bound on the messages the provider sends

VARIABLES session,   \* the flags of the session object
          task,      \* where each of its tasks is
          cancel,    \* has the stream task a cancellation to handle?
          turn,      \* the transcript in the reader's hands
          inbox,     \* messages received and not read yet
          provider,  \* the other end of the connection
          posted,    \* how many messages the provider has sent, and which turns
                     \* it has finalized (those later than all it had before)
          chunk,     \* the audio frame in the upload's hands
          sent       \* history: audio frames the provider has received

sessionVars == <<session, task, cancel, turn, inbox, provider, posted, chunk, sent>>

Order == {t.order : t \in Turn}

NoTurn == [kind |-> "Turn", order |-> -1, final |-> FALSE, text |-> FALSE]

(* "Error" is every message that makes the reader raise: an error event, a  *)
(* second Begin, a malformed message or transcript.                         *)
Message == Turn \cup [kind : {"Error", "Termination"}]

Callback == {"waiting", "showing", "command"}
Live ==  \* the places where a task waits for something
    {"connecting", "reading", "pulling", "sending", "streaming", "closing"} \cup Callback

Tasks ==
    [connect : {"connecting", "done", "failed", "cancelled"},
     reader : {"none", "reading", "done", "cancelled"} \cup Callback,
     upload : {"none", "pulling", "sending", "done", "failed", "cancelled"},
     stream : {"none", "streaming", "closing", "done", "ended"},
     close : {"no", "terminating", "awaiting", "disconnecting", "closed"}]

ASSUME ProviderAssumption ==
    /\ Turn \subseteq [kind : {"Turn"}, order : Nat, final : BOOLEAN, text : BOOLEAN]
    /\ MaxMessages \in Nat

SessionTypeOK ==
    /\ session \in [begun : BOOLEAN, closing : BOOLEAN, terminated : BOOLEAN, failed : BOOLEAN,
                    last : Order \cup {-1}]
    /\ task \in Tasks
    /\ cancel \in BOOLEAN
    /\ turn \in Turn \cup {NoTurn} /\ inbox \in Seq(Message)
    /\ provider \in {"up", "over", "lost"} /\ posted \in [messages : 0..MaxMessages, finals : SUBSET Order]
    /\ chunk \in Nat /\ sent \in Seq(Nat)

SessionInit ==
    /\ session = [begun |-> FALSE, closing |-> FALSE, terminated |-> FALSE, failed |-> FALSE, last |-> -1]
    /\ task = [connect |-> "connecting", reader |-> "none", upload |-> "none",
               stream |-> "none", close |-> "no"]
    /\ cancel = FALSE
    /\ turn = NoTurn /\ inbox = <<>>
    /\ provider = "up" /\ posted = [messages |-> 0, finals |-> {}]
    /\ chunk = 0 /\ sent = <<>>

(* task.cancel() on a task without clean-up. *)
Cancelled(pc) == IF pc \in Live THEN "cancelled" ELSE pc

(* Mutation: the upload is forgotten when the session is torn down. *)
CancelReader(t) == [t EXCEPT !.reader = Cancelled(@)]

(* The reader and the upload are torn down. *)
CancelIO(t) == [t EXCEPT !.reader = Cancelled(@), !.upload = Cancelled(@)]

(* _fail: only the first error is kept and reported. on_error makes it the  *)
(* socket's provider_error and sets failure_event, so both are this flag.   *)
Failed(s) == [s EXCEPT !.failed = TRUE]

-----------------------------------------------------------------------------
(* The provider and the network. What happens to a connection that no task  *)
(* uses any more is left out.                                               *)

(* A final transcript of a turn later than every turn finalized before.     *)
Finalizes(m) ==
    /\ m.kind = "Turn" /\ m.final /\ m.text
    /\ \A order \in posted.finals : order < m.order

ProviderSays ==
    /\ provider = "up" /\ task.reader \in Live /\ posted.messages < MaxMessages
    /\ \E m \in Message :
        /\ inbox' = Append(inbox, m)
        /\ provider' = IF m.kind = "Turn" THEN "up" ELSE "over"
        /\ posted' = [messages |-> posted.messages + 1,
                      finals |-> IF Finalizes(m) THEN posted.finals \cup {m.order} ELSE posted.finals]
    /\ UNCHANGED <<session, task, cancel, turn, chunk, sent>>

ConnectionLost ==
    /\ provider # "lost" /\ {task.connect, task.reader, task.upload} \cap Live # {}
    /\ provider' = "lost"
    /\ UNCHANGED <<session, task, cancel, turn, inbox, posted, chunk, sent>>

-----------------------------------------------------------------------------
(* connect() and the reader. *)

Connects ==
    /\ task.connect = "connecting" /\ provider = "up"
    /\ session' = [session EXCEPT !.begun = TRUE]
    /\ task' = [task EXCEPT !.connect = "done", !.reader = "reading"]
    /\ UNCHANGED <<cancel, turn, inbox, provider, posted, chunk, sent>>

(* Refused, a first message other than Begin, or PROVIDER_BEGIN_TIMEOUT. *)
ConnectFails ==
    /\ task.connect = "connecting"
    /\ session' = Failed(session)
    /\ task' = [task EXCEPT !.connect = "failed"]
    /\ UNCHANGED <<cancel, turn, inbox, provider, posted, chunk, sent>>

(* Mutation: the turn that has just been finalized counts as open. *)
NewsRepeated(s, m) == ~s.failed /\ m.order >= s.last /\ m.text

(* _handle_turn passes a transcript on unless the turn is already final. *)
News(s, m) == ~s.failed /\ m.order > s.last /\ m.text

(* A final turn is recorded before the callback runs. *)
ReadTurn ==
    /\ task.reader = "reading" /\ inbox # <<>> /\ Head(inbox).kind = "Turn"
    /\ inbox' = Tail(inbox)
    /\ LET m == Head(inbox) IN
        IF News(session, m)
        THEN /\ session' = IF m.final THEN [session EXCEPT !.last = m.order] ELSE session
             /\ task' = [task EXCEPT !.reader = "waiting"]
             /\ turn' = m
        ELSE /\ task' = [task EXCEPT !.reader = IF session.failed THEN "done" ELSE @]
             /\ UNCHANGED <<session, turn>>
    /\ UNCHANGED <<cancel, provider, posted, chunk, sent>>

(* on_turn has returned, or has raised. *)
TurnReturns ==
    /\ task' = [task EXCEPT !.reader = IF session.failed THEN "done" ELSE "reading"]
    /\ turn' = NoTurn
    /\ UNCHANGED <<session, cancel, inbox, provider, posted, chunk, sent>>

TurnRaises ==
    /\ session' = Failed(session)
    /\ task' = [task EXCEPT !.reader = "done"]
    /\ turn' = NoTurn
    /\ UNCHANGED <<cancel, inbox, provider, posted, chunk, sent>>

(* A Termination is an error unless close() has asked for it. *)
Termination(s) == [s EXCEPT !.terminated = TRUE, !.failed = @ \/ ~s.closing]

ReadEnd ==
    /\ task.reader = "reading" /\ inbox # <<>> /\ Head(inbox).kind # "Turn"
    /\ inbox' = Tail(inbox)
    /\ session' = IF Head(inbox).kind = "Termination" THEN Termination(session) ELSE Failed(session)
    /\ task' = [task EXCEPT !.reader = "done"]
    /\ UNCHANGED <<cancel, turn, provider, posted, chunk, sent>>

(* recv() raises ConnectionClosed once everything received has been read. *)
ReadClosed ==
    /\ task.reader = "reading" /\ inbox = <<>> /\ provider = "lost"
    /\ session' = Failed(session)
    /\ task' = [task EXCEPT !.reader = "done"]
    /\ UNCHANGED <<cancel, turn, inbox, provider, posted, chunk, sent>>

-----------------------------------------------------------------------------
(* The upload: it takes frames from the socket's queue and sends them. *)

UploadTakes(frame) ==
    /\ task.upload = "pulling"
    /\ task' = [task EXCEPT !.upload = "sending"]
    /\ chunk' = frame
    /\ UNCHANGED <<session, cancel, turn, inbox, provider, posted, sent>>

UploadEnds ==
    /\ task.upload = "pulling"
    /\ task' = [task EXCEPT !.upload = "done"]
    /\ UNCHANGED <<session, cancel, turn, inbox, provider, posted, chunk, sent>>

UploadSends ==
    /\ task.upload = "sending" /\ provider # "lost"
    /\ task' = [task EXCEPT !.upload = "pulling"]
    /\ sent' = Append(sent, chunk)
    /\ chunk' = 0
    /\ UNCHANGED <<session, cancel, turn, inbox, provider, posted>>

(* The connection is closed, or PROVIDER_SEND_TIMEOUT. *)
UploadFails ==
    /\ task.upload = "sending"
    /\ task' = [task EXCEPT !.upload = "failed"]
    /\ UNCHANGED <<session, cancel, turn, inbox, provider, posted, chunk, sent>>

-----------------------------------------------------------------------------
(* stream() and close(). *)

(* stream() creates the upload; its guard holds for a fresh session. *)
StreamStarts ==
    /\ session.begun /\ ~session.closing
    /\ task' = [task EXCEPT !.stream = "streaming", !.upload = "pulling"]
    /\ UNCHANGED <<session, cancel, turn, inbox, provider, posted, chunk, sent>>

(* close() from its first line: a graceful end if the reader still runs. *)
CloseBegins(t, stream) ==
    /\ session' = [session EXCEPT !.closing = TRUE]
    /\ task' = IF session.begun /\ ~session.failed /\ t.reader \in Live
               THEN [t EXCEPT !.stream = stream, !.close = "terminating"]
               ELSE [CancelIO(t) EXCEPT !.stream = stream, !.close = "disconnecting"]

(* Mutation: any end of the upload counts as the end of the audio. *)
StreamCompleteAny == task.upload \notin Live

(* The whole audio was uploaded and the provider is still there. *)
StreamComplete == task.upload = "done" /\ task.reader \in Live /\ ~session.failed

(* stream() wakes up when the upload or the reader ends: stream_and_close   *)
(* goes on to close(), or stream() records the error, cancels both tasks    *)
(* and raises.                                                              *)
StreamWakes ==
    /\ task.stream = "streaming" /\ ~cancel
    /\ task.upload \notin Live \/ task.reader \notin Live
    /\ IF StreamComplete
       THEN CloseBegins(task, "closing")
       ELSE /\ session' = Failed(session)
            /\ task' = [CancelIO(task) EXCEPT !.stream = "ended"]
    /\ UNCHANGED <<cancel, turn, inbox, provider, posted, chunk, sent>>

(* The rest of close() after the graceful part: the reader and the upload   *)
(* are cancelled and collected, then the connection is closed.              *)
Disconnecting(t) == [CancelIO(t) EXCEPT !.close = "disconnecting"]

TerminateSent ==
    /\ task.close = "terminating" /\ ~cancel
    /\ task.upload \notin Live /\ provider # "lost"
    /\ task' = [task EXCEPT !.close = "awaiting"]
    /\ UNCHANGED <<session, cancel, turn, inbox, provider, posted, chunk, sent>>

(* The reader is done: without a Termination the session has failed. *)
Awaited(s) == IF s.terminated THEN s ELSE Failed(s)

ReaderAwaited ==
    /\ task.close = "awaiting" /\ task.reader \notin Live /\ ~cancel
    /\ session' = Awaited(session)
    /\ task' = Disconnecting(task)
    /\ UNCHANGED <<cancel, turn, inbox, provider, posted, chunk, sent>>

(* PROVIDER_CLOSE_TIMEOUT, or Terminate could not be sent. *)
CloseFails ==
    /\ task.close \in {"terminating", "awaiting"} /\ ~cancel
    /\ session' = Failed(session)
    /\ task' = Disconnecting(task)
    /\ UNCHANGED <<cancel, turn, inbox, provider, posted, chunk, sent>>

(* The connection is closed, or closing it fails or times out. *)
CloseEnds ==
    /\ task.close = "disconnecting" /\ ~cancel
    /\ session' \in {session, Failed(session)}
    /\ task' = [task EXCEPT !.close = "closed",
                            !.stream = IF @ # "closing" THEN @
                                       ELSE IF session'.failed THEN "ended" ELSE "done"]
    /\ UNCHANGED <<cancel, turn, inbox, provider, posted, chunk, sent>>

(* A cancellation reaches close() at the await it is suspended in. *)
Interrupted(t) ==
    IF t.close = "disconnecting"
    THEN [t EXCEPT !.close = "closed", !.stream = IF @ = "closing" THEN "ended" ELSE @]
    ELSE Disconnecting(t)

(* A cancellation reaches the stream task, in stream() or in close(). *)
StreamCancelled ==
    /\ cancel
    /\ cancel' = FALSE
    /\ task' = CASE task.stream = "streaming" -> [CancelIO(task) EXCEPT !.stream = "ended"]
                 [] task.stream = "closing" -> Interrupted(task)
    /\ UNCHANGED <<session, turn, inbox, provider, posted, chunk, sent>>
=============================================================================
